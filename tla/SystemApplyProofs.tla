-------------------------- MODULE SystemApplyProofs --------------------------
(***************************************************************************)
(* Proofs about LocalApply and SystemApply, for any number of inbounds,    *)
(* users, nodes and calls of apply.  The local steps of a SystemApply are  *)
(* those of LocalApply, whose lemmas, in the first part, it uses.          *)
(***************************************************************************)
EXTENDS SystemApply, TLAPS

USE DEF Engines

-----------------------------------------------------------------------------
(***************************************************************************)
(* The operators.                                                          *)
(***************************************************************************)

LEMMA NoStateType == NoState \in States
  BY DEF NoState, States

\* What is loaded is a state.
LEMMA DesiredType ==
  ASSUME inbRev \in [Inbounds -> Nat], userRev \in [Users -> Nat],
         NEW e \in Engines, NEW p \in Proxies
  PROVE  Desired(e, p) \in States
  BY DEF Desired, States

LEMMA AggregateType ==
  ASSUME NEW r \in [Engines -> Results]
  PROVE  Aggregate(r) \in Outcomes
  BY DEF Aggregate, Outcomes, Results

\* Only when every engine has succeeded is the aggregate a success.
LEMMA AggregateSucceeds ==
  ASSUME NEW r, Aggregate(r) = "SUCCEEDED", NEW e \in Engines
  PROVE  r[e] = "SUCCEEDED"
  BY DEF Aggregate

\* Return and Forget keep the types.
LEMMA ForgetType ==
  ASSUME TypeOK, NEW a \in Applies, Forget(a)
  PROVE  /\ eng' \in [Applies -> Engines]
         /\ loaded' \in [Applies -> [Engines -> States]]
         /\ result' \in [Applies -> [Engines -> Results]]
  BY NoStateType, LocalApplyAssumption DEF Forget, TypeOK, Results

LEMMA ReturnType ==
  ASSUME TypeOK, NEW a \in Applies, NEW status \in Outcomes, Return(a, status)
  PROVE  /\ eng' \in [Applies -> Engines]
         /\ loaded' \in [Applies -> [Engines -> States]]
         /\ result' \in [Applies -> [Engines -> Results]]
         /\ outcome' \in [Applies -> Outcomes]
         /\ pc' = [pc EXCEPT ![a] = "done"]
         /\ pc' \in [Applies -> Labels]
  BY ForgetType DEF Return, Goto, TypeOK, Labels, Over

\* The three ways a transaction's call ends.
LEMMA CommitReturns ==
  ASSUME TypeOK, NEW a \in Applies, Commit(a)
  PROVE  \E status \in Outcomes: Return(a, status)
  <1>1. Aggregate(result[a]) \in Outcomes
    BY AggregateType DEF TypeOK
  <1>2. "FAILED" \in Outcomes
    BY DEF Outcomes, Results
  <1> QED
    BY <1>1, <1>2 DEF Commit, Recorded

LEMMA NextEngineType ==
  ASSUME TypeOK, NEW a \in Applies, NextEngine(a)
  PROVE  /\ eng' \in [Applies -> Engines]
         /\ \/ pc' = [pc EXCEPT ![a] = "load"]
            \/ pc' = [pc EXCEPT ![a] = "commit"]
         /\ pc' \in [Applies -> Labels]
         /\ pc'[a] \in Working
         /\ \A b \in Applies \ {a}: pc'[b] = pc[b]
  <1> USE LocalApplyAssumption
  <1>1. eng[a] \in Nat /\ pc \in [Applies -> Labels] /\ eng \in [Applies -> Engines]
    BY DEF TypeOK
  <1>2. {"load", "commit"} \subseteq Labels /\ {"load", "commit"} \subseteq Working
    BY DEF Labels, Over, Working
  <1>3. CASE eng[a] < N
    <2>1. eng' = [eng EXCEPT ![a] = @ + 1] /\ pc' = [pc EXCEPT ![a] = "load"]
      BY <1>3 DEF NextEngine, Goto
    <2>2. eng[a] + 1 \in Engines
      BY <1>1, <1>3
    <2> QED
      BY <1>1, <1>2, <2>1, <2>2
  <1>4. CASE ~(eng[a] < N)
    BY <1>1, <1>2, <1>4 DEF NextEngine, Goto
  <1> QED
    BY <1>3, <1>4

-----------------------------------------------------------------------------
\* A call past Lock and not yet past Commit holds the lock.
Locked == \A a \in Applies: pc[a] \in Working => lock = a

\* A mutation touches neither the cores nor the calls.
LEMMA MutateType ==
  ASSUME TypeOK, Mutate
  PROVE  TypeOK' /\ UNCHANGED <<deployed, lock, callVars, reconciled>>
  <1> USE DEF TypeOK
  <1>1. ASSUME NEW i \in Inbounds, CreateInbound(i) \/ ChangeInbound(i) \/ RemoveInbound(i)
        PROVE  TypeOK' /\ UNCHANGED <<deployed, lock, callVars, reconciled>>
    <2>1. CASE CreateInbound(i)
      BY <2>1 DEF CreateInbound, callVars
    <2>2. CASE ChangeInbound(i)
      BY <2>2 DEF ChangeInbound, callVars
    <2>3. CASE RemoveInbound(i)
      BY <2>3 DEF RemoveInbound, callVars
    <2> QED
      BY <1>1, <2>1, <2>2, <2>3
  <1>2. ASSUME NEW i \in Inbounds, NEW u \in Users, ChangeAssignment(i, u)
        PROVE  TypeOK' /\ UNCHANGED <<deployed, lock, callVars, reconciled>>
    BY <1>2 DEF ChangeAssignment, callVars
  <1>3. ASSUME NEW u \in Users, ChangeUser(u)
        PROVE  TypeOK' /\ UNCHANGED <<deployed, lock, callVars, reconciled>>
    <2>1. ASSUME NEW m \in SUBSET Underway
          PROVE  [user |-> u, rev |-> userRev[u] + 1, missed |-> m, early |-> Underway \ m]
                   \in Changes
      BY DEF Underway, Changes
    <2>2. pending' \in SUBSET Changes
      <3>1. CASE UNCHANGED pending
        BY <3>1
      <3>2. CASE \E m \in SUBSET Underway:
                   pending' = pending \cup {[user |-> u, rev |-> userRev[u] + 1,
                                            missed |-> m, early |-> Underway \ m]}
        <4>1. PICK m \in SUBSET Underway:
                pending' = pending \cup {[user |-> u, rev |-> userRev[u] + 1,
                                         missed |-> m, early |-> Underway \ m]}
          BY <3>2
        <4>2. PICK c \in Changes: pending' = pending \cup {c}
          BY <2>1, <4>1
        <4> QED
          BY <4>2
      <3> QED
        BY <1>3, <3>1, <3>2 DEF ChangeUser
    <2> QED
      BY <1>3, <2>2 DEF ChangeUser, callVars
  <1> QED
    BY <1>1, <1>2, <1>3 DEF Mutate

LEMMA InitType == Init => TypeOK /\ Locked
  <1> SUFFICES ASSUME Init PROVE TypeOK /\ Locked
    OBVIOUS
  <1> USE LocalApplyAssumption
  <1>1. PICK p \in Proxies: deployed = [e \in Engines |-> Desired(e, p)]
                             /\ rows \in SUBSET Inbounds
                             /\ target = [a \in Applies |-> p]
    BY DEF Init
  <1>2. inbRev \in [Inbounds -> Nat] /\ userRev \in [Users -> Nat]
    BY DEF Init
  <1>3. deployed \in [Engines -> States]
    BY <1>1, <1>2, DesiredType
  <1> QED
    BY <1>1, <1>2, <1>3, NoStateType
       DEF Init, TypeOK, Locked, Labels, Over, Working, Results, Outcomes

LEMMA NextType ==
  ASSUME TypeOK, Locked, [Next]_vars
  PROVE  TypeOK' /\ Locked'
  <1> USE LocalApplyAssumption
  <1>1. CASE Mutate
    BY <1>1, MutateType DEF Locked, callVars
  <1>2. ASSUME NEW a \in Applies, NEW p \in Proxies, Start(a, p)
        PROVE  TypeOK' /\ Locked'
    BY <1>2 DEF Start, TypeOK, Locked, Goto, dbVars, Labels, Over, Working
  <1>3. ASSUME NEW a \in Applies, Lock(a)
        PROVE  TypeOK' /\ Locked'
    <2>1. CASE lock = Free /\ lock' = a /\ Goto(a, "load")
               /\ UNCHANGED <<eng, loaded, result, outcome>>
      BY <1>3, <2>1 DEF Lock, TypeOK, Locked, Goto, dbVars, Labels, Over, Working
    <2>2. CASE lock # Free /\ Return(a, "FAILED") /\ UNCHANGED lock
      <3>1. "FAILED" \in Outcomes
        BY DEF Outcomes, Results
      <3>2. UNCHANGED <<dbVars, deployed, target, lock>> /\ pc[a] = "lock"
        BY <1>3, <2>2 DEF Lock
      <3> QED
        BY <3>1, <3>2, <2>2, ReturnType DEF TypeOK, Locked, dbVars, Labels, Over, Working
    <2> QED
      BY <1>3, <2>1, <2>2 DEF Lock
  <1>4. ASSUME NEW a \in Applies, Load(a)
        PROVE  TypeOK' /\ Locked'
    <2>1. CASE /\ loaded' = [loaded EXCEPT ![a][eng[a]] = Desired(eng[a], target[a])]
               /\ Goto(a, "deploy") /\ UNCHANGED <<eng, result>>
      <3>1. Desired(eng[a], target[a]) \in States
        BY DesiredType DEF TypeOK
      <3> QED
        BY <1>4, <2>1, <3>1 DEF Load, TypeOK, Locked, Goto, dbVars, Labels, Over, Working
    <2>2. CASE /\ result' = [result EXCEPT ![a][eng[a]] = "FAILED"]
               /\ NextEngine(a) /\ UNCHANGED loaded
      <3>1. UNCHANGED <<dbVars, deployed, lock, target, outcome>> /\ pc[a] \in Working
        BY <1>4 DEF Load, Working
      <3>2. result' \in [Applies -> [Engines -> Results]]
        <4>1. eng[a] \in Engines /\ "FAILED" \in Results
          BY DEF TypeOK, Results
        <4> QED
          BY <2>2, <4>1 DEF TypeOK
      <3>3. /\ eng' \in [Applies -> Engines]
            /\ pc' \in [Applies -> Labels]
            /\ pc'[a] \in Working
            /\ \A b \in Applies \ {a}: pc'[b] = pc[b]
        BY <2>2, NextEngineType
      <3>4. TypeOK'
        BY <2>2, <3>1, <3>2, <3>3 DEF TypeOK, dbVars
      <3>5. Locked'
        BY <3>1, <3>3 DEF Locked
      <3> QED
        BY <3>4, <3>5
    <2> QED
      BY <1>4, <2>1, <2>2 DEF Load
  <1>5. ASSUME NEW a \in Applies, Deploy(a)
        PROVE  TypeOK' /\ Locked'
    <2>1. eng[a] \in Engines /\ loaded[a][eng[a]] \in States
      BY DEF TypeOK
    <2>2. deployed' \in [Engines -> States]
      BY <1>5, <2>1 DEF Deploy, TypeOK
    <2>3. PICK r \in Results: result' = [result EXCEPT ![a][eng[a]] = r]
      BY <1>5 DEF Deploy, Results
    <2>4. result' \in [Applies -> [Engines -> Results]]
      BY <2>1, <2>3 DEF TypeOK
    <2>5. UNCHANGED <<dbVars, lock, target, loaded, outcome>> /\ pc[a] \in Working
      BY <1>5 DEF Deploy, Working
    <2>6. /\ eng' \in [Applies -> Engines]
          /\ pc' \in [Applies -> Labels]
          /\ pc'[a] \in Working
          /\ \A b \in Applies \ {a}: pc'[b] = pc[b]
      BY <1>5, NextEngineType DEF Deploy
    <2>7. TypeOK'
      BY <2>2, <2>4, <2>5, <2>6 DEF TypeOK, dbVars
    <2>8. Locked'
      BY <2>5, <2>6 DEF Locked
    <2> QED
      BY <2>7, <2>8
  <1>6. ASSUME NEW a \in Applies, Commit(a)
        PROVE  TypeOK' /\ Locked'
    <2>1. PICK status \in Outcomes: Return(a, status)
      BY <1>6, CommitReturns
    <2>2. /\ pc[a] = "commit" /\ lock' = Free
          /\ UNCHANGED <<rows, inbRev, userRev, deployed, target>>
      BY <1>6 DEF Commit
    <2>3. /\ inbDirty' \in [Inbounds -> BOOLEAN]
          /\ userDirty' \in [Users -> BOOLEAN]
      BY <1>6 DEF Commit, MarkInbounds, MarkUsers, TypeOK
    <2>4. /\ pending' \in SUBSET Changes
          /\ reconciled' \in SUBSET Closed
      <3>1. Covered(a) \subseteq pending
        BY DEF Covered
      <3>2. Closing(a) \in SUBSET Closed
        <4> SUFFICES ASSUME NEW d \in Closing(a) PROVE d \in Closed
          OBVIOUS
        <4>1. PICK c \in Covered(a): d = [user |-> c.user, rev |-> c.rev, early |-> a \in c.early]
          BY DEF Closing
        <4>2. c.user \in Users /\ c.rev \in Nat
          BY <3>1 DEF Changes, TypeOK
        <4>3. (a \in c.early) \in BOOLEAN
          OBVIOUS
        <4> QED
          BY <4>1, <4>2, <4>3 DEF Closed
      <3> QED
        BY <1>6, <3>1, <3>2 DEF Commit, TypeOK
    <2>5. \A b \in Applies \ {a}: pc[b] \notin Working
      BY <2>2 DEF Locked, Working
    <2>6. TypeOK'
      BY <2>1, <2>2, <2>3, <2>4, ReturnType DEF TypeOK
    <2>7. Locked'
      BY <2>1, <2>5, ReturnType DEF Locked, Working, TypeOK
    <2> QED
      BY <2>6, <2>7
  <1>7. ASSUME NEW a \in Applies, Crash(a)
        PROVE  TypeOK' /\ Locked'
    <2>1. /\ eng' \in [Applies -> Engines]
          /\ loaded' \in [Applies -> [Engines -> States]]
          /\ result' \in [Applies -> [Engines -> Results]]
      BY <1>7, ForgetType DEF Crash
    <2> QED
      BY <1>7, <2>1 DEF Crash, Goto, TypeOK, Locked, dbVars, Labels, Over, Working
  <1>8. CASE Expire
    BY <1>8 DEF Expire, TypeOK, Locked, dbVars, callVars, Labels, Over, Working
  <1>9. CASE UNCHANGED vars
    BY <1>9 DEF TypeOK, Locked, vars, dbVars, callVars
  <1> QED
    BY <1>1, <1>2, <1>3, <1>4, <1>5, <1>6, <1>7, <1>8, <1>9 DEF Next, Step

(***************************************************************************)
(* The variables stay in their types, and the lock is free or belongs to a *)
(* call that is at work or has died.                                       *)
(***************************************************************************)
THEOREM TypeCorrect == Spec => []TypeOK
  <1>1. Spec => [](TypeOK /\ Locked)
    BY InitType, NextType, PTL DEF Spec
  <1> QED
    BY <1>1, PTL

-----------------------------------------------------------------------------
(***************************************************************************)
(* What the steps of a call do, variable by variable.                      *)
(***************************************************************************)
\* Nothing that belongs to another call changes.
OnlyCall(a) ==
  \A b \in Applies \ {a}:
    /\ pc'[b] = pc[b] /\ target'[b] = target[b] /\ eng'[b] = eng[b]
    /\ loaded'[b] = loaded[b] /\ result'[b] = result[b]

\* What the call a knew is gone.
Cleared(a) ==
  /\ pc'[a] \notin Working
  /\ \A e \in Engines: result'[a][e] = "none"

\* The call goes on to the next engine, or to its transaction.
Advanced(a) ==
  \/ pc'[a] = "load" /\ eng'[a] = eng[a] + 1
  \/ pc'[a] = "commit"

LEMMA ForgetEffect ==
  ASSUME TypeOK, NEW a \in Applies, NEW s \in Labels \ Working, Goto(a, s), Forget(a),
         UNCHANGED target
  PROVE  OnlyCall(a) /\ Cleared(a)
  BY DEF TypeOK, Goto, Forget, OnlyCall, Cleared

LEMMA AdvanceEffect ==
  ASSUME TypeOK, NEW a \in Applies, NextEngine(a)
  PROVE  /\ Advanced(a)
         /\ \A b \in Applies \ {a}: pc'[b] = pc[b] /\ eng'[b] = eng[b]
  <1>1. eng \in [Applies -> Engines] /\ pc \in [Applies -> Labels]
    BY DEF TypeOK
  <1>2. CASE eng[a] < N
    BY <1>1, <1>2 DEF NextEngine, Goto, Advanced
  <1>3. CASE ~(eng[a] < N)
    BY <1>1, <1>3 DEF NextEngine, Goto, Advanced
  <1> QED
    BY <1>2, <1>3

LEMMA LockEffect ==
  ASSUME TypeOK, NEW a \in Applies, Lock(a)
  PROVE  /\ OnlyCall(a)
         /\ pc[a] = "lock"
         /\ UNCHANGED <<dbVars, deployed>>
         /\ \/ pc'[a] = "load" /\ eng'[a] = eng[a] /\ result'[a] = result[a]
                               /\ loaded'[a] = loaded[a]
            \/ Cleared(a)
  <1>1. pc[a] = "lock" /\ UNCHANGED <<dbVars, deployed, target>>
    BY DEF Lock
  <1>2. CASE Goto(a, "load") /\ UNCHANGED <<eng, loaded, result, outcome>>
    BY <1>1, <1>2 DEF Goto, OnlyCall, TypeOK
  <1>3. CASE Return(a, "FAILED")
    <2>1. "done" \in Labels \ Working
      BY DEF Labels, Over, Working
    <2> QED
      BY <1>1, <1>3, <2>1, ForgetEffect DEF Return
  <1> QED
    BY <1>2, <1>3 DEF Lock

LEMMA LoadEffect ==
  ASSUME TypeOK, NEW a \in Applies, Load(a)
  PROVE  /\ OnlyCall(a)
         /\ pc[a] = "load"
         /\ UNCHANGED <<dbVars, deployed>>
         /\ \A e \in Engines \ {eng[a]}: loaded'[a][e] = loaded[a][e] /\ result'[a][e] = result[a][e]
         /\ \/ /\ pc'[a] = "deploy" /\ eng'[a] = eng[a] /\ result'[a] = result[a]
               /\ loaded'[a][eng[a]] = Desired(eng[a], target[a])
            \/ /\ Advanced(a) /\ loaded'[a] = loaded[a]
               /\ result'[a][eng[a]] = "FAILED"
  <1>1. pc[a] = "load" /\ UNCHANGED <<dbVars, deployed, target>>
    BY DEF Load
  <1>2. /\ eng[a] \in Engines /\ eng \in [Applies -> Engines] /\ pc \in [Applies -> Labels]
        /\ loaded \in [Applies -> [Engines -> States]]
        /\ result \in [Applies -> [Engines -> Results]]
    BY DEF TypeOK
  <1>3. CASE /\ loaded' = [loaded EXCEPT ![a][eng[a]] = Desired(eng[a], target[a])]
             /\ Goto(a, "deploy") /\ UNCHANGED <<eng, result>>
    <2>1. /\ \A b \in Applies \ {a}: loaded'[b] = loaded[b]
          /\ loaded'[a][eng[a]] = Desired(eng[a], target[a])
          /\ \A e \in Engines \ {eng[a]}: loaded'[a][e] = loaded[a][e]
      BY <1>2, <1>3
    <2>2. pc'[a] = "deploy" /\ \A b \in Applies \ {a}: pc'[b] = pc[b]
      BY <1>2, <1>3 DEF Goto
    <2> QED
      BY <1>1, <1>3, <2>1, <2>2 DEF OnlyCall
  <1>4. CASE /\ result' = [result EXCEPT ![a][eng[a]] = "FAILED"]
             /\ NextEngine(a) /\ UNCHANGED loaded
    <2>1. /\ \A b \in Applies \ {a}: result'[b] = result[b]
          /\ result'[a][eng[a]] = "FAILED"
          /\ \A e \in Engines \ {eng[a]}: result'[a][e] = result[a][e]
      BY <1>2, <1>4
    <2>2. Advanced(a) /\ \A b \in Applies \ {a}: pc'[b] = pc[b] /\ eng'[b] = eng[b]
      BY <1>4, AdvanceEffect
    <2> QED
      BY <1>1, <1>4, <2>1, <2>2 DEF OnlyCall
  <1> QED
    BY <1>3, <1>4 DEF Load

LEMMA DeployEffect ==
  ASSUME TypeOK, NEW a \in Applies, Deploy(a)
  PROVE  /\ OnlyCall(a)
         /\ pc[a] = "deploy"
         /\ Advanced(a)
         /\ UNCHANGED <<dbVars, loaded>>
         /\ \A e \in Engines \ {eng[a]}: result'[a][e] = result[a][e] /\ deployed'[e] = deployed[e]
         /\ deployed'[eng[a]] = deployed[eng[a]] \/ deployed'[eng[a]] = loaded[a][eng[a]]
         /\ result'[a][eng[a]] = "SUCCEEDED" => deployed'[eng[a]] = loaded[a][eng[a]]
  <1>1. pc[a] = "deploy" /\ NextEngine(a) /\ UNCHANGED <<dbVars, loaded, target>>
    BY DEF Deploy
  <1>2. /\ eng[a] \in Engines /\ result \in [Applies -> [Engines -> Results]]
        /\ deployed \in [Engines -> States]
    BY DEF TypeOK
  <1>3. Advanced(a) /\ \A b \in Applies \ {a}: pc'[b] = pc[b] /\ eng'[b] = eng[b]
    BY <1>1, AdvanceEffect
  <1>4. PICK r \in Results: /\ result' = [result EXCEPT ![a][eng[a]] = r]
                            /\ \/ deployed' = [deployed EXCEPT ![eng[a]] = loaded[a][eng[a]]]
                               \/ r # "SUCCEEDED" /\ UNCHANGED deployed
    BY DEF Deploy, Results
  <1>5. /\ \A b \in Applies \ {a}: result'[b] = result[b]
        /\ result'[a][eng[a]] = r
        /\ \A e \in Engines \ {eng[a]}: result'[a][e] = result[a][e]
    BY <1>2, <1>4
  <1>6. /\ deployed'[eng[a]] = deployed[eng[a]] \/ deployed'[eng[a]] = loaded[a][eng[a]]
        /\ r = "SUCCEEDED" => deployed'[eng[a]] = loaded[a][eng[a]]
        /\ \A e \in Engines \ {eng[a]}: deployed'[e] = deployed[e]
    BY <1>2, <1>4
  <1> QED
    BY <1>1, <1>3, <1>5, <1>6 DEF OnlyCall

LEMMA CommitEffect ==
  ASSUME TypeOK, NEW a \in Applies, Commit(a)
  PROVE  /\ OnlyCall(a) /\ Cleared(a)
         /\ pc[a] = "commit"
         /\ UNCHANGED <<rows, inbRev, userRev, deployed>>
         /\ MarkInbounds(a) \/ UNCHANGED inbDirty
         /\ \/ /\ \A e \in Engines: result[a][e] = "SUCCEEDED"
               /\ MarkUsers(a)
               /\ pending' = pending \ Covered(a) /\ reconciled' = reconciled \cup Closing(a)
            \/ UNCHANGED <<userDirty, pending, reconciled>>
  <1>1. PICK status \in Outcomes: Return(a, status)
    BY CommitReturns
  <1>2. "done" \in Labels \ Working
    BY DEF Labels, Over, Working
  <1>3. OnlyCall(a) /\ Cleared(a)
    BY <1>1, <1>2, ForgetEffect DEF Return, Commit
  <1>4. Aggregate(result[a]) = "SUCCEEDED" => \A e \in Engines: result[a][e] = "SUCCEEDED"
    BY AggregateSucceeds
  <1> QED
    BY <1>3, <1>4 DEF Commit

LEMMA CrashEffect ==
  ASSUME TypeOK, NEW a \in Applies, Crash(a)
  PROVE  OnlyCall(a) /\ Cleared(a) /\ UNCHANGED <<dbVars, deployed>>
  <1>1. "crashed" \in Labels \ Working
    BY DEF Labels, Over, Working
  <1> QED
    BY <1>1, ForgetEffect DEF Crash

-----------------------------------------------------------------------------
(***************************************************************************)
(* The invariant all others rest on.                                       *)
(***************************************************************************)
\* A call that is not at work knows nothing.
Blank ==
  \A a \in Applies: pc[a] \notin Working => \A e \in Engines: result[a][e] = "none"

\* Before the transaction, the engine at hand and those after it have no result.
Ahead ==
  \A a \in Applies: pc[a] # "commit" =>
    \A e \in Engines: e >= eng[a] => result[a][e] = "none"

\* An engine that has succeeded still runs what the call loaded for it.
Placed ==
  \A a \in Applies, e \in Engines:
    result[a][e] = "SUCCEEDED" => deployed[e] = loaded[a][e]

Base == TypeOK /\ Locked /\ Blank /\ Ahead /\ Placed

LEMMA InitBase == Init => Base
  <1> SUFFICES ASSUME Init PROVE Base
    OBVIOUS
  <1>1. TypeOK /\ Locked
    BY InitType
  <1>2. \A a \in Applies: eng[a] = 1 /\ \A e \in Engines: result[a][e] = "none"
    BY LocalApplyAssumption DEF Init
  <1> QED
    BY <1>1, <1>2 DEF Base, Blank, Ahead, Placed

\* The call a is the only one that could be at work.
LEMMA Alone ==
  ASSUME Base, NEW a \in Applies, pc[a] \in Working
  PROVE  \A b \in Applies \ {a}: pc[b] \notin Working /\ \A e \in Engines: result[b][e] = "none"
  BY DEF Base, Locked, Blank

\* A call that is cleared satisfies the invariant.
LEMMA ClearedBase ==
  ASSUME Base, TypeOK', NEW a \in Applies, OnlyCall(a), Cleared(a), UNCHANGED deployed
  PROVE  Blank' /\ Ahead' /\ Placed'
  <1> USE DEF Base, OnlyCall, Cleared
  <1>1. Blank'
    BY DEF Blank
  <1>2. Ahead'
    BY DEF Ahead
  <1>3. Placed'
    BY DEF Placed
  <1> QED
    BY <1>1, <1>2, <1>3

LEMMA NextBase ==
  ASSUME Base, [Next]_vars
  PROVE  Base'
  <1>1. TypeOK' /\ Locked'
    BY NextType DEF Base
  <1>2. TypeOK
    BY DEF Base
  <1> SUFFICES Blank' /\ Ahead' /\ Placed'
    BY <1>1 DEF Base
  <1>3. CASE UNCHANGED <<deployed, lock, callVars>>
    BY <1>3 DEF Base, Blank, Ahead, Placed, callVars
  <1>4. ASSUME NEW a \in Applies, NEW p \in Proxies, Start(a, p)
        PROVE  Blank' /\ Ahead' /\ Placed'
    <2>1. /\ pc[a] \notin Working /\ UNCHANGED <<deployed, eng, loaded, result>>
          /\ pc' = [pc EXCEPT ![a] = "lock"] /\ pc[a] # "commit"
      BY <1>4 DEF Start, Goto, Working
    <2>2. \A b \in Applies: (pc'[b] \notin Working => pc[b] \notin Working)
                            /\ (pc'[b] # "commit" => pc[b] # "commit")
      BY <2>1, <1>2 DEF TypeOK, Working
    <2> QED
      BY <2>1, <2>2 DEF Base, Blank, Ahead, Placed
  <1>5. ASSUME NEW a \in Applies, Lock(a)
        PROVE  Blank' /\ Ahead' /\ Placed'
    <2>1. /\ OnlyCall(a) /\ pc[a] = "lock" /\ UNCHANGED <<dbVars, deployed>>
          /\ \/ pc'[a] = "load" /\ eng'[a] = eng[a] /\ result'[a] = result[a]
                                /\ loaded'[a] = loaded[a]
             \/ Cleared(a)
      BY <1>2, <1>5, LockEffect
    <2>2. CASE Cleared(a)
      BY <2>1, <2>2, <1>1, ClearedBase
    <2>3. CASE pc'[a] = "load" /\ eng'[a] = eng[a] /\ result'[a] = result[a]
                               /\ loaded'[a] = loaded[a]
      <3> USE <2>1, <2>3 DEF OnlyCall, Base, Working
      <3>1. Blank'
        BY DEF Blank
      <3>2. Ahead'
        BY DEF Ahead
      <3>3. Placed'
        BY DEF Placed
      <3> QED
        BY <3>1, <3>2, <3>3
    <2> QED
      BY <2>1, <2>2, <2>3
  <1>6. ASSUME NEW a \in Applies, Load(a)
        PROVE  Blank' /\ Ahead' /\ Placed'
    <2> DEFINE e == eng[a]
    <2>1. /\ OnlyCall(a) /\ pc[a] = "load" /\ UNCHANGED <<dbVars, deployed>>
          /\ \A d \in Engines \ {e}: loaded'[a][d] = loaded[a][d] /\ result'[a][d] = result[a][d]
          /\ \/ pc'[a] = "deploy" /\ eng'[a] = e /\ result'[a] = result[a]
             \/ Advanced(a) /\ loaded'[a] = loaded[a] /\ result'[a][e] = "FAILED"
      BY <1>2, <1>6, LoadEffect
    <2>2. e \in Engines /\ e >= eng[a]
      BY <1>2, LocalApplyAssumption DEF TypeOK
    <2>3. result[a][e] = "none"
      BY <2>1, <2>2 DEF Base, Ahead
    <2>4. Blank'
      BY <2>1 DEF Base, Blank, OnlyCall, Advanced, Working
    <2>5. Ahead'
      BY <2>1, <2>2, <2>3, LocalApplyAssumption DEF Base, Ahead, OnlyCall, Advanced
    <2>6. Placed'
      BY <2>1, <2>2, <2>3 DEF Base, Placed, OnlyCall
    <2> QED
      BY <2>4, <2>5, <2>6
  <1>7. ASSUME NEW a \in Applies, Deploy(a)
        PROVE  Blank' /\ Ahead' /\ Placed'
    <2> DEFINE e == eng[a]
    <2>1. /\ OnlyCall(a) /\ pc[a] = "deploy" /\ Advanced(a) /\ UNCHANGED loaded
          /\ \A d \in Engines \ {e}: result'[a][d] = result[a][d] /\ deployed'[d] = deployed[d]
          /\ result'[a][e] = "SUCCEEDED" => deployed'[e] = loaded[a][e]
      BY <1>2, <1>7, DeployEffect
    <2>2. e \in Engines /\ pc[a] \in Working
      BY <1>2, <2>1 DEF TypeOK, Working
    <2>3. Blank'
      BY <2>1 DEF Base, Blank, OnlyCall, Advanced, Working
    <2>4. Ahead'
      BY <2>1, <2>2, LocalApplyAssumption DEF Base, Ahead, OnlyCall, Advanced
    <2>5. \A b \in Applies \ {a}, d \in Engines: result'[b][d] = "none"
      BY <2>1, <2>2, Alone DEF OnlyCall
    <2>6. \A d \in Engines: result'[a][d] = "SUCCEEDED" => deployed'[d] = loaded'[a][d]
      BY <2>1 DEF Base, Placed
    <2>7. Placed'
      BY <2>5, <2>6 DEF Placed
    <2> QED
      BY <2>3, <2>4, <2>7
  <1>8. ASSUME NEW a \in Applies, Commit(a)
        PROVE  Blank' /\ Ahead' /\ Placed'
    BY <1>1, <1>2, <1>8, CommitEffect, ClearedBase
  <1>9. ASSUME NEW a \in Applies, Crash(a)
        PROVE  Blank' /\ Ahead' /\ Placed'
    BY <1>1, <1>2, <1>9, CrashEffect, ClearedBase
  <1>10. CASE Mutate
    BY <1>2, <1>3, <1>10, MutateType
  <1>11. CASE Expire
    BY <1>11 DEF Expire, Base, Blank, Ahead, Placed, callVars
  <1>12. CASE UNCHANGED vars
    BY <1>3, <1>12 DEF vars
  <1> QED
    BY <1>4, <1>5, <1>6, <1>7, <1>8, <1>9, <1>10, <1>11, <1>12 DEF Next, Step

THEOREM BaseHolds == Spec => []Base
  BY InitBase, NextBase, PTL DEF Spec

-----------------------------------------------------------------------------
(***************************************************************************)
(* Users.  What an apply has loaded while it holds the lock is not behind  *)
(* what the engine runs, and it is up to date for a user that is not       *)
(* dirty, because whatever changes a user marks it dirty.                  *)
(***************************************************************************)
\* No core is ahead of the database.
Bounded == \A e \in Engines, u \in Users: deployed[e].user[u] <= userRev[u]

\* What is about to be deployed is between what runs and the database.
Forward ==
  \A a \in Applies: pc[a] = "deploy" =>
    \A u \in Users: /\ loaded[a][eng[a]].user[u] >= deployed[eng[a]].user[u]
                    /\ loaded[a][eng[a]].user[u] <= userRev[u]

\* A user that is not dirty has been loaded as it is.
UserLoaded ==
  \A a \in Applies: pc[a] = "deploy" =>
    \A u \in Users: ~userDirty[u] => loaded[a][eng[a]].user[u] = userRev[u]

Monotone == Bounded /\ Forward
UserInv == Monotone /\ UserLoaded /\ UserHonestLast

\* A core never goes back.
NoneBack == \A e \in Engines, u \in Users: deployed'[e].user[u] >= deployed[e].user[u]

LEMMA Revisions ==
  ASSUME TypeOK
  PROVE  /\ \A u \in Users: userRev[u] \in Nat
         /\ \A i \in Inbounds: inbRev[i] \in Nat
         /\ \A e \in Engines, u \in Users: deployed[e].user[u] \in Nat
         /\ \A a \in Applies, e \in Engines, u \in Users: loaded[a][e].user[u] \in Nat
         /\ \A a \in Applies: eng[a] \in Engines
         /\ N \in Engines
  BY LocalApplyAssumption DEF TypeOK, States

\* What a mutation does to the row x, seen from any row.
LEMMA Bump ==
  ASSUME NEW S, NEW x \in S, NEW rev \in [S -> Nat], NEW dirty \in [S -> BOOLEAN],
         NEW y \in S
  PROVE  \/ [rev EXCEPT ![x] = @ + 1][y] = rev[y] /\ [dirty EXCEPT ![x] = TRUE][y] = dirty[y]
         \/ [rev EXCEPT ![x] = @ + 1][y] > rev[y] /\ [dirty EXCEPT ![x] = TRUE][y]
  <1>1. CASE x = y
    <2>1. [rev EXCEPT ![x] = @ + 1][y] > rev[y]
      BY <1>1
    <2>2. [dirty EXCEPT ![x] = TRUE][y]
      BY <1>1
    <2> QED
      BY <2>1, <2>2, Zenon
  <1>2. CASE x # y
    BY <1>2
  <1> QED
    BY <1>1, <1>2

\* A mutation makes no revision smaller, and makes dirty what it changes.
LEMMA MutateEffect ==
  ASSUME TypeOK, Mutate
  PROVE  /\ UNCHANGED <<deployed, lock, callVars, reconciled>>
         /\ \A u \in Users: \/ userRev'[u] = userRev[u] /\ userDirty'[u] = userDirty[u]
                            \/ userRev'[u] > userRev[u] /\ userDirty'[u]
         /\ \A i \in rows': \/ i \in rows /\ inbRev'[i] = inbRev[i] /\ inbDirty'[i] = inbDirty[i]
                            \/ inbDirty'[i]
  <1> USE DEF TypeOK
  <1>1. UNCHANGED <<deployed, lock, callVars, reconciled>>
    BY MutateType
  <1>2. ASSUME NEW i \in Inbounds, CreateInbound(i) \/ ChangeInbound(i) \/ RemoveInbound(i)
        PROVE  /\ UNCHANGED <<userRev, userDirty>>
               /\ \A j \in rows': \/ j \in rows /\ inbRev'[j] = inbRev[j] /\ inbDirty'[j] = inbDirty[j]
                                  \/ inbDirty'[j]
    <2>1. CASE CreateInbound(i)
      BY <2>1 DEF CreateInbound
    <2>2. CASE ChangeInbound(i)
      BY <2>2 DEF ChangeInbound
    <2>3. CASE RemoveInbound(i)
      BY <2>3 DEF RemoveInbound
    <2> QED
      BY <1>2, <2>1, <2>2, <2>3
  <1>3. ASSUME NEW i \in Inbounds, NEW u \in Users, ChangeAssignment(i, u)
        PROVE  /\ \A v \in Users: \/ userRev'[v] = userRev[v] /\ userDirty'[v] = userDirty[v]
                                  \/ userRev'[v] > userRev[v] /\ userDirty'[v]
               /\ \A j \in rows': \/ j \in rows /\ inbRev'[j] = inbRev[j] /\ inbDirty'[j] = inbDirty[j]
                                  \/ inbDirty'[j]
    <2>1. \A v \in Users: \/ userRev'[v] = userRev[v] /\ userDirty'[v] = userDirty[v]
                          \/ userRev'[v] > userRev[v] /\ userDirty'[v]
      <3>1. /\ userRev' = [userRev EXCEPT ![u] = @ + 1]
            /\ userDirty' = [userDirty EXCEPT ![u] = TRUE]
            /\ userRev \in [Users -> Nat] /\ userDirty \in [Users -> BOOLEAN]
        BY <1>3 DEF ChangeAssignment
      <3> HIDE DEF TypeOK
      <3> QED
        BY <3>1, Bump
    <2>2. /\ rows' = rows
          /\ \A j \in Inbounds: \/ inbRev'[j] = inbRev[j] /\ inbDirty'[j] = inbDirty[j]
                                \/ inbDirty'[j]
      BY <1>3 DEF ChangeAssignment
    <2> QED
      BY <2>1, <2>2
  <1>4. ASSUME NEW u \in Users, ChangeUser(u)
        PROVE  /\ \A v \in Users: \/ userRev'[v] = userRev[v] /\ userDirty'[v] = userDirty[v]
                                  \/ userRev'[v] > userRev[v] /\ userDirty'[v]
               /\ UNCHANGED <<rows, inbRev, inbDirty>>
    <2>1. /\ userRev' = [userRev EXCEPT ![u] = @ + 1]
          /\ userDirty' = [userDirty EXCEPT ![u] = TRUE]
          /\ userRev \in [Users -> Nat] /\ userDirty \in [Users -> BOOLEAN]
          /\ UNCHANGED <<rows, inbRev, inbDirty>>
      BY <1>4 DEF ChangeUser
    <2> HIDE DEF TypeOK
    <2> QED
      BY <2>1, Bump
  <1> QED
    BY <1>1, <1>2, <1>3, <1>4 DEF Mutate

LEMMA InitUser == Init => UserInv
  <1> SUFFICES ASSUME Init PROVE UserInv
    OBVIOUS
  <1>1. \A e \in Engines: deployed[e].user = userRev
    BY DEF Init, Desired
  <1>2. \A u \in Users: userRev[u] = 1
    BY DEF Init
  <1>3. \A a \in Applies: pc[a] = "idle"
    BY DEF Init
  <1> QED
    BY <1>1, <1>2, <1>3, LocalApplyAssumption
       DEF UserInv, Monotone, Bounded, Forward, UserLoaded, UserHonestLast

\* A step that leaves the users and the cores, and puts no call at "deploy".
LEMMA MonotoneKept ==
  ASSUME Base, Monotone, NEW a \in Applies, OnlyCall(a), pc'[a] # "deploy",
         UNCHANGED <<userRev, deployed>>
  PROVE  Monotone' /\ NoneBack
  <1> USE DEF Monotone
  <1>1. Bounded'
    BY DEF Bounded
  <1>2. \A b \in Applies: pc'[b] = "deploy" =>
          pc[b] = "deploy" /\ eng'[b] = eng[b] /\ loaded'[b] = loaded[b]
    BY DEF OnlyCall
  <1>3. Forward'
    BY <1>2 DEF Forward
  <1>4. NoneBack
    BY Revisions DEF NoneBack, Base
  <1> QED
    BY <1>1, <1>3, <1>4

(***************************************************************************)
(* The cores go forward whatever becomes of the users' flags.              *)
(***************************************************************************)
LEMMA NextMonotone ==
  ASSUME Base, TypeOK', Monotone, [Next]_vars
  PROVE  Monotone' /\ NoneBack
  <1> USE DEF Monotone
  <1>1. TypeOK /\ Locked
    BY DEF Base
  <1>2. CASE UNCHANGED <<userRev, deployed, callVars>>
    <2>1. NoneBack
      BY <1>1, <1>2, Revisions DEF NoneBack
    <2> QED
      BY <1>2, <2>1 DEF Bounded, Forward, callVars
  <1>3. CASE Mutate
    <2>1. /\ UNCHANGED <<deployed, pc, eng, loaded>>
          /\ \A u \in Users: userRev'[u] = userRev[u] \/ userRev'[u] > userRev[u]
      BY <1>1, <1>3, MutateEffect DEF callVars
    <2>2. \A u \in Users: userRev[u] \in Nat /\ userRev'[u] \in Nat
      BY <1>1 DEF TypeOK
    <2>3. \A u \in Users: userRev'[u] >= userRev[u]
      BY <2>1, <2>2
    <2>4. Bounded'
      BY <1>1, <2>1, <2>2, <2>3, Revisions DEF Bounded
    <2>5. Forward'
      BY <1>1, <2>1, <2>2, <2>3, Revisions DEF Forward
    <2>6. NoneBack
      BY <1>1, <2>1, Revisions DEF NoneBack
    <2> QED
      BY <2>4, <2>5, <2>6
  <1>4. ASSUME NEW a \in Applies, NEW p \in Proxies, Start(a, p)
        PROVE  Monotone' /\ NoneBack
    <2>1. OnlyCall(a) /\ pc'[a] # "deploy" /\ UNCHANGED <<userRev, deployed>>
      BY <1>1, <1>4 DEF Start, Goto, OnlyCall, TypeOK, dbVars
    <2> QED
      BY <2>1, MonotoneKept
  <1>5. ASSUME NEW a \in Applies, Lock(a)
        PROVE  Monotone' /\ NoneBack
    <2>1. OnlyCall(a) /\ pc'[a] # "deploy" /\ UNCHANGED <<userRev, deployed>>
      BY <1>1, <1>5, LockEffect DEF dbVars, Cleared, Working
    <2> QED
      BY <2>1, MonotoneKept
  <1>6. ASSUME NEW a \in Applies, Load(a)
        PROVE  Monotone' /\ NoneBack
    <2> DEFINE e == eng[a]
    <2>1. /\ OnlyCall(a) /\ UNCHANGED <<userRev, deployed>>
          /\ \/ pc'[a] = "deploy" /\ eng'[a] = e /\ loaded'[a][e] = Desired(e, target[a])
             \/ Advanced(a)
      BY <1>1, <1>6, LoadEffect DEF dbVars
    <2>2. CASE Advanced(a)
      BY <2>1, <2>2, MonotoneKept DEF Advanced
    <2>3. CASE pc'[a] = "deploy" /\ eng'[a] = e /\ loaded'[a][e] = Desired(e, target[a])
      <3>1. loaded'[a][eng'[a]].user = userRev
        BY <2>3 DEF Desired
      <3>2. \A b \in Applies \ {a}: pc'[b] = pc[b] /\ eng'[b] = eng[b] /\ loaded'[b] = loaded[b]
        BY <2>1 DEF OnlyCall
      <3>3. e \in Engines
        BY <1>1, Revisions
      <3>4. \A u \in Users: userRev[u] \in Nat /\ userRev[u] >= deployed[e].user[u]
        BY <1>1, <3>3, Revisions DEF Bounded
      <3>5. Forward'
        BY <2>1, <2>3, <3>1, <3>2, <3>4 DEF Forward
      <3>6. Bounded'
        BY <2>1 DEF Bounded
      <3>7. NoneBack
        BY <1>1, <2>1, Revisions DEF NoneBack
      <3> QED
        BY <3>5, <3>6, <3>7
    <2> QED
      BY <2>1, <2>2, <2>3
  <1>7. ASSUME NEW a \in Applies, Deploy(a)
        PROVE  Monotone' /\ NoneBack
    <2> DEFINE e == eng[a]
    <2>1. /\ OnlyCall(a) /\ pc[a] = "deploy" /\ Advanced(a) /\ UNCHANGED userRev
          /\ \A d \in Engines \ {e}: deployed'[d] = deployed[d]
          /\ deployed'[e] = deployed[e] \/ deployed'[e] = loaded[a][e]
      BY <1>1, <1>7, DeployEffect DEF dbVars
    <2>2. e \in Engines /\ pc[a] \in Working
      BY <1>1, <2>1, Revisions DEF Working
    <2>3. \A b \in Applies: pc'[b] # "deploy"
      BY <2>1, <2>2, Alone DEF OnlyCall, Advanced, Working
    <2>4. \A u \in Users: deployed'[e].user[u] >= deployed[e].user[u]
                          /\ deployed'[e].user[u] <= userRev[u]
      BY <1>1, <2>1, <2>2, Revisions DEF Forward, Bounded
    <2>5. NoneBack /\ Bounded'
      BY <1>1, <2>1, <2>4, Revisions DEF NoneBack, Bounded
    <2> QED
      BY <2>3, <2>5 DEF Forward
  <1>8. ASSUME NEW a \in Applies, Commit(a)
        PROVE  Monotone' /\ NoneBack
    BY <1>1, <1>8, CommitEffect, MonotoneKept DEF Cleared, Working
  <1>9. ASSUME NEW a \in Applies, Crash(a)
        PROVE  Monotone' /\ NoneBack
    BY <1>1, <1>9, CrashEffect, MonotoneKept DEF Cleared, Working, dbVars
  <1>10. CASE Expire
    BY <1>2, <1>10 DEF Expire, dbVars
  <1>11. CASE UNCHANGED vars
    BY <1>2, <1>11 DEF vars, dbVars
  <1> QED
    BY <1>3, <1>4, <1>5, <1>6, <1>7, <1>8, <1>9, <1>10, <1>11 DEF Next, Step

\* A step that leaves the database and the cores, and puts no call at "deploy".
LEMMA UserKept ==
  ASSUME UserLoaded, UserHonestLast, NEW a \in Applies, OnlyCall(a), pc'[a] # "deploy",
         UNCHANGED <<userRev, userDirty, deployed>>
  PROVE  UserLoaded' /\ UserHonestLast'
  <1>1. \A b \in Applies: pc'[b] = "deploy" =>
          pc[b] = "deploy" /\ eng'[b] = eng[b] /\ loaded'[b] = loaded[b]
    BY DEF OnlyCall
  <1> QED
    BY <1>1 DEF UserLoaded, UserHonestLast

LEMMA NextUser ==
  ASSUME Base, Base', UserInv, [Next]_vars
  PROVE  UserInv' /\ NoneBack
  <1> USE DEF UserInv
  <1>1. TypeOK /\ TypeOK'
    BY DEF Base
  <1>2. Monotone' /\ NoneBack
    BY <1>1, NextMonotone
  <1> SUFFICES UserLoaded' /\ UserHonestLast'
    BY <1>2
  <1>3. CASE UNCHANGED <<userRev, userDirty, deployed, callVars>>
    BY <1>3 DEF UserLoaded, UserHonestLast, callVars
  <1>4. CASE Mutate
    <2>1. /\ UNCHANGED <<deployed, pc, eng, loaded>>
          /\ \A u \in Users: \/ userRev'[u] = userRev[u] /\ userDirty'[u] = userDirty[u]
                             \/ userDirty'[u]
      BY <1>1, <1>4, MutateEffect DEF callVars
    <2> QED
      BY <2>1 DEF UserLoaded, UserHonestLast
  <1>5. ASSUME NEW a \in Applies, NEW p \in Proxies, Start(a, p)
        PROVE  UserLoaded' /\ UserHonestLast'
    <2>1. OnlyCall(a) /\ pc'[a] # "deploy" /\ UNCHANGED <<userRev, userDirty, deployed>>
      BY <1>1, <1>5 DEF Start, Goto, OnlyCall, TypeOK, dbVars
    <2> QED
      BY <2>1, UserKept
  <1>6. ASSUME NEW a \in Applies, Lock(a)
        PROVE  UserLoaded' /\ UserHonestLast'
    <2>1. OnlyCall(a) /\ pc'[a] # "deploy" /\ UNCHANGED <<userRev, userDirty, deployed>>
      BY <1>1, <1>6, LockEffect DEF dbVars, Cleared, Working
    <2> QED
      BY <2>1, UserKept
  <1>7. ASSUME NEW a \in Applies, Load(a)
        PROVE  UserLoaded' /\ UserHonestLast'
    <2> DEFINE e == eng[a]
    <2>1. /\ OnlyCall(a) /\ UNCHANGED <<userRev, userDirty, deployed>>
          /\ \/ pc'[a] = "deploy" /\ eng'[a] = e /\ loaded'[a][e] = Desired(e, target[a])
             \/ Advanced(a)
      BY <1>1, <1>7, LoadEffect DEF dbVars
    <2>2. CASE Advanced(a)
      BY <2>1, <2>2, UserKept DEF Advanced
    <2>3. CASE pc'[a] = "deploy" /\ eng'[a] = e /\ loaded'[a][e] = Desired(e, target[a])
      <3>1. loaded'[a][eng'[a]].user = userRev
        BY <2>3 DEF Desired
      <3>2. \A b \in Applies \ {a}: pc'[b] = pc[b] /\ eng'[b] = eng[b] /\ loaded'[b] = loaded[b]
        BY <2>1 DEF OnlyCall
      <3> QED
        BY <2>1, <2>3, <3>1, <3>2 DEF UserLoaded, UserHonestLast
    <2> QED
      BY <2>1, <2>2, <2>3
  <1>8. ASSUME NEW a \in Applies, Deploy(a)
        PROVE  UserLoaded' /\ UserHonestLast'
    <2> DEFINE e == eng[a]
    <2>1. /\ OnlyCall(a) /\ pc[a] = "deploy" /\ Advanced(a) /\ UNCHANGED <<userRev, userDirty>>
          /\ \A d \in Engines \ {e}: deployed'[d] = deployed[d]
          /\ deployed'[e] = deployed[e] \/ deployed'[e] = loaded[a][e]
      BY <1>1, <1>8, DeployEffect DEF dbVars
    <2>2. e \in Engines /\ pc[a] \in Working
      BY <1>1, <2>1, Revisions DEF Working
    <2>3. \A b \in Applies: pc'[b] # "deploy"
      BY <2>1, <2>2, Alone DEF OnlyCall, Advanced, Working
    <2>4. UserHonestLast'
      BY <2>1, <2>2, Revisions, <1>1 DEF UserLoaded, UserHonestLast
    <2> QED
      BY <2>3, <2>4 DEF UserLoaded
  <1>9. ASSUME NEW a \in Applies, Commit(a)
        PROVE  UserLoaded' /\ UserHonestLast'
    <2>1. /\ OnlyCall(a) /\ Cleared(a) /\ pc[a] = "commit" /\ UNCHANGED <<userRev, deployed>>
          /\ \/ (\A e \in Engines: result[a][e] = "SUCCEEDED") /\ MarkUsers(a)
             \/ UNCHANGED userDirty
      BY <1>1, <1>9, CommitEffect
    <2>2. CASE UNCHANGED userDirty
      BY <2>1, <2>2, UserKept DEF Cleared, Working
    <2>3. CASE (\A e \in Engines: result[a][e] = "SUCCEEDED") /\ MarkUsers(a)
      <3>1. deployed[N] = loaded[a][N]
        BY <1>1, <2>3, Revisions DEF Base, Placed
      <3>2. UserHonestLast'
        BY <2>1, <2>3, <3>1 DEF UserHonestLast, MarkUsers
      <3>3. \A b \in Applies: pc'[b] # "deploy"
        BY <2>1, Alone DEF OnlyCall, Cleared, Working
      <3> QED
        BY <3>2, <3>3 DEF UserLoaded
    <2> QED
      BY <2>1, <2>2, <2>3
  <1>10. ASSUME NEW a \in Applies, Crash(a)
        PROVE  UserLoaded' /\ UserHonestLast'
    BY <1>1, <1>10, CrashEffect, UserKept DEF Cleared, Working, dbVars
  <1>11. CASE Expire
    BY <1>3, <1>11 DEF Expire, dbVars
  <1>12. CASE UNCHANGED vars
    BY <1>3, <1>12 DEF vars, dbVars
  <1> QED
    BY <1>4, <1>5, <1>6, <1>7, <1>8, <1>9, <1>10, <1>11, <1>12 DEF Next, Step

(***************************************************************************)
(* A user that no longer needs an apply has its current revision in the    *)
(* last engine's core: markUserRevisionsApplied compares the revisions,    *)
(* and the lock keeps what was deployed in place until then.               *)
(***************************************************************************)
THEOREM UsersHonest == Spec => []UserHonestLast
  <1>1. Spec => []UserInv
    BY BaseHolds, InitUser, NextUser, PTL DEF Spec
  <1> QED
    BY <1>1, PTL DEF UserInv

(***************************************************************************)
(* No apply puts a core back to an older state of a user, whatever the     *)
(* other calls, the mutations and the crashes do meanwhile.                *)
(***************************************************************************)
THEOREM NeverBack == Spec => NoStaleDeploy
  <1>1. ASSUME Base, Base', UserInv, [Next]_vars
        PROVE  [NoneBack]_vars
    BY <1>1, NextUser
  <1> QED
    BY <1>1, BaseHolds, InitUser, NextUser, PTL DEF Spec, NoStaleDeploy, NoneBack

-----------------------------------------------------------------------------
(***************************************************************************)
(* The inbounds of proxy p.  What is loaded for an engine and for p has    *)
(* all of them; what another proxy shares the panel's volumes with has     *)
(* not.                                                                    *)
(***************************************************************************)
\* An inbound that is not dirty has been loaded as it is, and is in its core.
InboundLoaded(p) ==
  \A a \in Applies: pc[a] = "deploy" /\ loaded[a][eng[a]].of = {p} =>
    \A i \in rows: InbProxy[i] = p /\ InbEngine[i] = eng[a] /\ ~inbDirty[i] =>
      loaded[a][eng[a]].inb[i] = inbRev[i]

InboundPlaced(p) ==
  \A i \in rows: InbProxy[i] = p /\ ~inbDirty[i] /\ deployed[InbEngine[i]].of = {p}
                   => deployed[InbEngine[i]].inb[i] = inbRev[i]

InboundInv(p) == InboundLoaded(p) /\ InboundPlaced(p)

LEMMA InitInbound == ASSUME NEW q PROVE Init => InboundInv(q)
  <1> SUFFICES ASSUME Init PROVE InboundInv(q)
    OBVIOUS
  <1>1. PICK p \in Proxies: /\ deployed = [e \in Engines |-> Desired(e, p)]
                            /\ rows \in SUBSET {i \in Inbounds: InbProxy[i] = p}
    BY DEF Init
  <1>2. \A i \in rows: InbEngine[i] \in Engines /\ i \in Inbounds /\ InbProxy[i] = p
    BY <1>1, LocalApplyAssumption
  <1>3. \A i \in rows: deployed[InbEngine[i]].inb[i] = inbRev[i]
    BY <1>1, <1>2 DEF Desired
  <1>4. \A a \in Applies: pc[a] = "idle"
    BY DEF Init
  <1> QED
    BY <1>3, <1>4 DEF InboundInv, InboundLoaded, InboundPlaced

\* A step that leaves the database and the cores, and puts no call at "deploy".
LEMMA InboundKept ==
  ASSUME NEW p, InboundInv(p), NEW a \in Applies, OnlyCall(a), pc'[a] # "deploy",
         UNCHANGED <<rows, inbRev, inbDirty, deployed>>
  PROVE  InboundInv(p)'
  <1>1. \A b \in Applies: pc'[b] = "deploy" =>
          pc[b] = "deploy" /\ eng'[b] = eng[b] /\ loaded'[b] = loaded[b]
    BY DEF OnlyCall
  <1> QED
    BY <1>1 DEF InboundInv, InboundLoaded, InboundPlaced

LEMMA NextInbound ==
  ASSUME NEW p, Base, Base', InboundInv(p), [Next]_vars
  PROVE  InboundInv(p)'
  <1> USE DEF InboundInv
  <1>1. TypeOK /\ TypeOK'
    BY DEF Base
  <1>2. CASE UNCHANGED <<rows, inbRev, inbDirty, deployed, callVars>>
    BY <1>2 DEF InboundLoaded, InboundPlaced, callVars
  <1>3. CASE Mutate
    <2>1. /\ UNCHANGED <<deployed, pc, eng, loaded>>
          /\ \A i \in rows': \/ i \in rows /\ inbRev'[i] = inbRev[i] /\ inbDirty'[i] = inbDirty[i]
                             \/ inbDirty'[i]
      BY <1>1, <1>3, MutateEffect DEF callVars
    <2> QED
      BY <2>1 DEF InboundLoaded, InboundPlaced
  <1>4. ASSUME NEW a \in Applies, NEW q \in Proxies, Start(a, q)
        PROVE  InboundInv(p)'
    <2>1. OnlyCall(a) /\ pc'[a] # "deploy" /\ UNCHANGED <<rows, inbRev, inbDirty, deployed>>
      BY <1>1, <1>4 DEF Start, Goto, OnlyCall, TypeOK, dbVars
    <2> QED
      BY <2>1, InboundKept
  <1>5. ASSUME NEW a \in Applies, Lock(a)
        PROVE  InboundInv(p)'
    <2>1. OnlyCall(a) /\ pc'[a] # "deploy" /\ UNCHANGED <<rows, inbRev, inbDirty, deployed>>
      BY <1>1, <1>5, LockEffect DEF dbVars, Cleared, Working
    <2> QED
      BY <2>1, InboundKept
  <1>6. ASSUME NEW a \in Applies, Load(a)
        PROVE  InboundInv(p)'
    <2> DEFINE e == eng[a]
    <2>1. /\ OnlyCall(a) /\ UNCHANGED <<rows, inbRev, inbDirty, deployed>>
          /\ \/ pc'[a] = "deploy" /\ eng'[a] = e /\ loaded'[a][e] = Desired(e, target[a])
             \/ Advanced(a)
      BY <1>1, <1>6, LoadEffect DEF dbVars
    <2>2. CASE Advanced(a)
      BY <2>1, <2>2, InboundKept DEF Advanced
    <2>3. CASE pc'[a] = "deploy" /\ eng'[a] = e /\ loaded'[a][e] = Desired(e, target[a])
      <3>1. rows \subseteq Inbounds /\ (loaded'[a][e].of = {p} => target[a] = p)
        <4>1. rows \subseteq Inbounds
          BY <1>1 DEF TypeOK
        <4>2. loaded'[a][e].of = {target[a]}
          BY <2>3 DEF Desired
        <4> QED
          BY <4>1, <4>2
      <3>2. loaded'[a][e].of = {p} =>
              \A i \in rows: InbProxy[i] = p /\ InbEngine[i] = e => loaded'[a][e].inb[i] = inbRev[i]
        BY <2>3, <3>1 DEF Desired
      <3>3. \A b \in Applies \ {a}: pc'[b] = pc[b] /\ eng'[b] = eng[b] /\ loaded'[b] = loaded[b]
        BY <2>1 DEF OnlyCall
      <3>4. InboundLoaded(p)'
        BY <2>1, <2>3, <3>2, <3>3 DEF InboundLoaded
      <3> QED
        BY <2>1, <3>4 DEF InboundPlaced
    <2> QED
      BY <2>1, <2>2, <2>3
  <1>7. ASSUME NEW a \in Applies, Deploy(a)
        PROVE  InboundInv(p)'
    <2> DEFINE e == eng[a]
    <2>1. /\ OnlyCall(a) /\ pc[a] = "deploy" /\ Advanced(a)
          /\ UNCHANGED <<rows, inbRev, inbDirty>>
          /\ \A d \in Engines \ {e}: deployed'[d] = deployed[d]
          /\ deployed'[e] = deployed[e] \/ deployed'[e] = loaded[a][e]
      BY <1>1, <1>7, DeployEffect DEF dbVars
    <2>2. \A b \in Applies: pc'[b] # "deploy"
      BY <2>1, Alone DEF OnlyCall, Advanced, Working
    <2>3. \A i \in rows: InbEngine[i] \in Engines
      BY <1>1, LocalApplyAssumption DEF TypeOK
    <2>4. InboundPlaced(p)'
      BY <2>1, <2>3 DEF InboundLoaded, InboundPlaced
    <2> QED
      BY <2>2, <2>4 DEF InboundLoaded
  <1>8. ASSUME NEW a \in Applies, Commit(a)
        PROVE  InboundInv(p)'
    <2>1. /\ OnlyCall(a) /\ Cleared(a) /\ pc[a] = "commit"
          /\ UNCHANGED <<rows, inbRev, deployed>>
          /\ MarkInbounds(a) \/ UNCHANGED inbDirty
      BY <1>1, <1>8, CommitEffect
    <2>2. CASE UNCHANGED inbDirty
      BY <2>1, <2>2, InboundKept DEF Cleared, Working
    <2>3. CASE MarkInbounds(a)
      <3>1. \A i \in rows: InbEngine[i] \in Engines /\ i \in Inbounds
        BY <1>1, LocalApplyAssumption DEF TypeOK
      <3>2. InboundPlaced(p)'
        BY <2>1, <2>3, <3>1 DEF InboundPlaced, MarkInbounds, Base, Placed
      <3>3. \A b \in Applies: pc'[b] # "deploy"
        BY <2>1, Alone DEF OnlyCall, Cleared, Working
      <3> QED
        BY <3>2, <3>3 DEF InboundLoaded
    <2> QED
      BY <2>1, <2>2, <2>3
  <1>9. ASSUME NEW a \in Applies, Crash(a)
        PROVE  InboundInv(p)'
    BY <1>1, <1>9, CrashEffect, InboundKept DEF Cleared, Working, dbVars
  <1>10. CASE Expire
    BY <1>2, <1>10 DEF Expire, dbVars
  <1>11. CASE UNCHANGED vars
    BY <1>2, <1>11 DEF vars, dbVars
  <1> QED
    BY <1>3, <1>4, <1>5, <1>6, <1>7, <1>8, <1>9, <1>10, <1>11 DEF Next, Step

(***************************************************************************)
(* With one proxy server, an inbound that no longer needs an apply is in   *)
(* its core at its current revision (markInboundRevisionsApplied).         *)
(***************************************************************************)
OneNode == \A p, q \in Proxies: p = q

\* What is loaded and deployed is of a proxy.
Rendered ==
  /\ \A e \in Engines: \E q \in Proxies: deployed[e].of = {q}
  /\ \A a \in Applies: pc[a] = "deploy" => \E q \in Proxies: loaded[a][eng[a]].of = {q}

LEMMA NextRendered ==
  ASSUME Base, Rendered, [Next]_vars
  PROVE  Rendered'
  <1>1. TypeOK
    BY DEF Base
  <1>2. CASE UNCHANGED <<deployed, pc, eng, loaded>>
    BY <1>2 DEF Rendered
  <1>3. CASE Mutate
    BY <1>1, <1>2, <1>3, MutateEffect DEF callVars
  <1>4. ASSUME NEW a \in Applies, OnlyCall(a), pc'[a] # "deploy",
               UNCHANGED deployed \/ (pc[a] = "deploy" /\ (\A d \in Engines \ {eng[a]}:
                 deployed'[d] = deployed[d]) /\ deployed'[eng[a]] \in {deployed[eng[a]], loaded[a][eng[a]]})
        PROVE  Rendered'
    <2>1. \A b \in Applies: pc'[b] = "deploy" =>
            pc[b] = "deploy" /\ eng'[b] = eng[b] /\ loaded'[b] = loaded[b]
      BY <1>4 DEF OnlyCall
    <2>2. eng[a] \in Engines
      BY <1>1 DEF TypeOK
    <2> QED
      BY <1>4, <2>1, <2>2 DEF Rendered
  <1>5. ASSUME NEW a \in Applies, NEW q \in Proxies, Start(a, q)
        PROVE  Rendered'
    <2>1. OnlyCall(a) /\ pc'[a] # "deploy" /\ UNCHANGED deployed
      BY <1>1, <1>5 DEF Start, Goto, OnlyCall, TypeOK
    <2> QED
      BY <1>4, <2>1
  <1>6. ASSUME NEW a \in Applies, Lock(a) \/ Commit(a) \/ Crash(a)
        PROVE  Rendered'
    <2>1. OnlyCall(a) /\ pc'[a] # "deploy" /\ UNCHANGED deployed
      BY <1>1, <1>6, LockEffect, CommitEffect, CrashEffect DEF Cleared, Working
    <2> QED
      BY <1>4, <2>1
  <1>7. ASSUME NEW a \in Applies, Load(a)
        PROVE  Rendered'
    <2> DEFINE e == eng[a]
    <2>1. /\ OnlyCall(a) /\ UNCHANGED deployed
          /\ \/ pc'[a] = "deploy" /\ eng'[a] = e /\ loaded'[a][e] = Desired(e, target[a])
             \/ Advanced(a)
      BY <1>1, <1>7, LoadEffect
    <2>2. CASE Advanced(a)
      BY <1>4, <2>1, <2>2 DEF Advanced
    <2>3. CASE pc'[a] = "deploy" /\ eng'[a] = e /\ loaded'[a][e] = Desired(e, target[a])
      <3>1. target[a] \in Proxies /\ Desired(e, target[a]).of = {target[a]}
        BY <1>1 DEF TypeOK, Desired
      <3> QED
        BY <2>1, <2>3, <3>1 DEF Rendered, OnlyCall
    <2> QED
      BY <2>1, <2>2, <2>3
  <1>8. ASSUME NEW a \in Applies, Deploy(a)
        PROVE  Rendered'
    <2>1. /\ OnlyCall(a) /\ pc[a] = "deploy" /\ pc'[a] # "deploy"
          /\ \A d \in Engines \ {eng[a]}: deployed'[d] = deployed[d]
          /\ deployed'[eng[a]] \in {deployed[eng[a]], loaded[a][eng[a]]}
      BY <1>1, <1>8, DeployEffect DEF Advanced
    <2> QED
      BY <1>4, <2>1
  <1>9. CASE Expire \/ UNCHANGED vars
    BY <1>2, <1>9 DEF Expire, vars, callVars
  <1> QED
    BY <1>3, <1>5, <1>6, <1>7, <1>8, <1>9 DEF Next, Step

THEOREM InboundsHonest == ASSUME OneNode PROVE Spec => []InboundHonest
  <1> DEFINE Inv == Rendered /\ \A p \in Proxies: InboundInv(p)
  <1>1. Init => Inv
    <2>1. Init => \A a \in Applies: pc[a] = "idle"
      BY DEF Init
    <2>2. Init => \A e \in Engines: \E q \in Proxies: deployed[e].of = {q}
      <3> SUFFICES ASSUME Init, NEW e \in Engines PROVE \E q \in Proxies: deployed[e].of = {q}
        OBVIOUS
      <3>1. PICK q \in Proxies: deployed = [d \in Engines |-> Desired(d, q)]
        BY DEF Init
      <3> QED
        BY <3>1 DEF Desired
    <2> QED
      BY <2>1, <2>2, InitInbound DEF Rendered
  <1>2. ASSUME Base, Base', Inv, [Next]_vars PROVE Inv'
    BY <1>2, NextRendered, NextInbound
  <1>3. Base /\ Inv => InboundHonest
    <2> SUFFICES ASSUME Base, Inv, NEW i \in rows, ~inbDirty[i]
                 PROVE  deployed[InbEngine[i]].inb[i] = inbRev[i]
      BY DEF InboundHonest
    <2>1. InbEngine[i] \in Engines /\ InbProxy[i] \in Proxies
      BY LocalApplyAssumption DEF Base, TypeOK
    <2>2. deployed[InbEngine[i]].of = {InbProxy[i]}
      BY <2>1, OneNode DEF OneNode, Rendered
    <2> QED
      BY <2>1, <2>2 DEF InboundInv, InboundPlaced
  <1> HIDE DEF Inv
  <1>4. Spec => []Inv
    BY <1>1, <1>2, BaseHolds, PTL DEF Spec
  <1> QED
    BY <1>3, <1>4, BaseHolds, PTL

-----------------------------------------------------------------------------
(***************************************************************************)
(* Changes.  A call that starts after a change's commit loads it; one that *)
(* was under way may close it without, and then the user's flag stays.     *)
(***************************************************************************)
\* A change that is recorded is in the database.
InDatabase ==
  /\ \A c \in pending: c.rev <= userRev[c.user]
  /\ \A c \in reconciled: c.rev <= userRev[c.user]

\* A call that was not under way at a change's commit has it in all that it has loaded.
Seen ==
  \A a \in Applies, c \in pending, e \in Engines:
    /\ a \notin c.missed \cup c.early
    /\ result[a][e] = "SUCCEEDED" \/ (pc[a] = "deploy" /\ e = eng[a])
    => loaded[a][e].user[c.user] >= c.rev

\* What such a call has closed is in every core.
Arrived ==
  \A c \in reconciled: ~c.early => \A e \in Engines: deployed[e].user[c.user] >= c.rev

ChangeInv == InDatabase /\ Seen /\ Arrived

LEMMA InitChange == Init => ChangeInv
  BY DEF Init, ChangeInv, InDatabase, Seen, Arrived

\* A change has a user and a number.
LEMMA ChangeType ==
  ASSUME TypeOK
  PROVE  /\ \A c \in pending: c.user \in Users /\ c.rev \in Nat
         /\ \A c \in reconciled: c.user \in Users /\ c.rev \in Nat
  BY DEF TypeOK, Changes, Closed

\* A step that leaves the users and the cores, and neither loads nor deploys.
LEMMA ChangeKept ==
  ASSUME Base, ChangeInv, NEW a \in Applies, OnlyCall(a), pc'[a] # "deploy",
         \A e \in Engines: result'[a][e] = "SUCCEEDED" =>
           result[a][e] = "SUCCEEDED" /\ loaded'[a][e] = loaded[a][e],
         UNCHANGED <<userRev, pending, reconciled, deployed>>
  PROVE  ChangeInv'
  <1>1. InDatabase' /\ Arrived'
    BY DEF ChangeInv, InDatabase, Arrived
  <1>2. Seen'
    BY DEF ChangeInv, Seen, OnlyCall
  <1> QED
    BY <1>1, <1>2 DEF ChangeInv

LEMMA NextChange ==
  ASSUME Base, Base', UserInv, ChangeInv, [Next]_vars
  PROVE  ChangeInv'
  <1>1. TypeOK /\ TypeOK'
    BY DEF Base
  <1>2. NoneBack
    BY NextUser
  <1>3. \A c \in reconciled, e \in Engines:
          ~c.early => deployed'[e].user[c.user] >= c.rev
    <2> SUFFICES ASSUME NEW c \in reconciled, ~c.early, NEW e \in Engines
                 PROVE  deployed'[e].user[c.user] >= c.rev
      OBVIOUS
    <2>1. c.user \in Users /\ c.rev \in Nat
      BY <1>1, ChangeType
    <2>2. deployed[e].user[c.user] \in Nat /\ deployed'[e].user[c.user] \in Nat
      <3>1. deployed[e] \in States /\ deployed'[e] \in States
        BY <1>1 DEF TypeOK
      <3> QED
        BY <2>1, <3>1 DEF States
    <2>3. deployed'[e].user[c.user] >= deployed[e].user[c.user]
      BY <1>2, <2>1 DEF NoneBack
    <2>4. deployed[e].user[c.user] >= c.rev
      BY DEF ChangeInv, Arrived
    <2> QED
      BY <2>1, <2>2, <2>3, <2>4
  <1>4. CASE UNCHANGED <<userRev, pending, reconciled, deployed, callVars>>
    BY <1>4 DEF ChangeInv, InDatabase, Seen, Arrived, callVars
  <1>5. CASE Mutate
    <2>1. UNCHANGED <<deployed, pc, eng, loaded, result, reconciled>>
      BY <1>1, <1>5, MutateEffect DEF callVars
    <2>2. \A u \in Users: userRev'[u] >= userRev[u] /\ userRev[u] \in Nat /\ userRev'[u] \in Nat
      <3>1. \A u \in Users: userRev[u] \in Nat /\ userRev'[u] \in Nat
        BY <1>1 DEF TypeOK
      <3>2. \A u \in Users: userRev'[u] = userRev[u] \/ userRev'[u] > userRev[u]
        BY <1>1, <1>5, MutateEffect
      <3> QED
        BY <3>1, <3>2
    <2>3. \A c \in pending' \ pending: /\ c.user \in Users /\ c.rev = userRev'[c.user]
                                       /\ c.missed \cup c.early = Underway
      <3>1. pending' # pending => \E u \in Users: ChangeUser(u)
        BY <1>5 DEF Mutate, CreateInbound, ChangeInbound, RemoveInbound, ChangeAssignment
      <3>2. ASSUME NEW u \in Users, ChangeUser(u)
            PROVE  \A c \in pending' \ pending: /\ c.user = u /\ c.rev = userRev[u] + 1
                                                /\ c.missed \cup c.early = Underway
        BY <3>2 DEF ChangeUser
      <3>3. ASSUME NEW u \in Users, ChangeUser(u)
            PROVE  userRev'[u] = userRev[u] + 1
        BY <1>1, <3>3 DEF ChangeUser, TypeOK
      <3> QED
        BY <3>1, <3>2, <3>3
    <2>4. InDatabase'
      <3>1. ASSUME NEW c \in pending, c \in pending'
            PROVE  c.rev <= userRev'[c.user]
        BY <1>1, <2>2, ChangeType DEF ChangeInv, InDatabase
      <3>2. ASSUME NEW c \in pending' \ pending
            PROVE  c.rev <= userRev'[c.user]
        BY <2>2, <2>3
      <3>3. ASSUME NEW c \in reconciled
            PROVE  c.rev <= userRev'[c.user]
        BY <1>1, <2>2, ChangeType DEF ChangeInv, InDatabase
      <3> QED
        BY <2>1, <3>1, <3>2, <3>3 DEF InDatabase
    <2>5. Seen'
      <3> SUFFICES ASSUME NEW a \in Applies, NEW c \in pending', NEW e \in Engines,
                          a \notin c.missed \cup c.early,
                          result[a][e] = "SUCCEEDED" \/ (pc[a] = "deploy" /\ e = eng[a])
                   PROVE  loaded[a][e].user[c.user] >= c.rev
        BY <2>1 DEF Seen
      <3>1. a \in Underway
        BY DEF Base, Blank, Working, Underway, Over
      <3>2. c \in pending
        BY <2>3, <3>1
      <3> QED
        BY <3>2 DEF ChangeInv, Seen
    <2>6. Arrived'
      BY <1>3, <2>1 DEF Arrived
    <2> QED
      BY <2>4, <2>5, <2>6 DEF ChangeInv
  <1>6. ASSUME NEW a \in Applies, NEW p \in Proxies, Start(a, p)
        PROVE  ChangeInv'
    <2>1. /\ OnlyCall(a) /\ pc'[a] # "deploy" /\ UNCHANGED <<loaded, result>>
          /\ UNCHANGED <<userRev, pending, reconciled, deployed>>
      BY <1>1, <1>6 DEF Start, Goto, OnlyCall, TypeOK, dbVars
    <2> QED
      BY <2>1, ChangeKept
  <1>7. ASSUME NEW a \in Applies, Lock(a)
        PROVE  ChangeInv'
    <2>1. /\ OnlyCall(a) /\ pc'[a] # "deploy"
          /\ UNCHANGED <<userRev, pending, reconciled, deployed>>
          /\ (result'[a] = result[a] /\ loaded'[a] = loaded[a]) \/ Cleared(a)
      BY <1>1, <1>7, LockEffect DEF dbVars, Cleared, Working
    <2> QED
      BY <2>1, ChangeKept DEF Cleared
  <1>8. ASSUME NEW a \in Applies, Load(a)
        PROVE  ChangeInv'
    <2> DEFINE f == eng[a]
    <2>1. /\ OnlyCall(a) /\ pc[a] = "load"
          /\ UNCHANGED <<userRev, pending, reconciled, deployed>>
          /\ \A e \in Engines \ {f}: loaded'[a][e] = loaded[a][e] /\ result'[a][e] = result[a][e]
          /\ \/ /\ pc'[a] = "deploy" /\ eng'[a] = f /\ result'[a] = result[a]
                /\ loaded'[a][f] = Desired(f, target[a])
             \/ /\ Advanced(a) /\ loaded'[a] = loaded[a]
                /\ result'[a][f] = "FAILED"
      BY <1>1, <1>8, LoadEffect DEF dbVars
    <2>2. CASE Advanced(a) /\ loaded'[a] = loaded[a] /\ result'[a][f] = "FAILED"
      <3>1. \A e \in Engines: result'[a][e] = "SUCCEEDED" =>
              result[a][e] = "SUCCEEDED" /\ loaded'[a][e] = loaded[a][e]
        BY <2>1, <2>2
      <3> QED
        BY <2>1, <2>2, <3>1, ChangeKept DEF Advanced
    <2>3. CASE /\ pc'[a] = "deploy" /\ eng'[a] = f /\ result'[a] = result[a]
               /\ loaded'[a][f] = Desired(f, target[a])
      <3>1. \A c \in pending: loaded'[a][f].user[c.user] >= c.rev
        <4>1. \A c \in pending: loaded'[a][f].user[c.user] = userRev[c.user]
          BY <2>3 DEF Desired
        <4>2. \A c \in pending: userRev[c.user] \in Nat /\ c.rev \in Nat
          BY <1>1, ChangeType, Revisions
        <4> QED
          BY <4>1, <4>2 DEF ChangeInv, InDatabase
      <3>2. Seen'
        BY <2>1, <2>3, <3>1 DEF ChangeInv, Seen, OnlyCall
      <3>3. InDatabase' /\ Arrived'
        BY <2>1 DEF ChangeInv, InDatabase, Arrived
      <3> QED
        BY <3>2, <3>3 DEF ChangeInv
    <2> QED
      BY <2>1, <2>2, <2>3
  <1>9. ASSUME NEW a \in Applies, Deploy(a)
        PROVE  ChangeInv'
    <2> DEFINE f == eng[a]
    <2>1. /\ OnlyCall(a) /\ pc[a] = "deploy" /\ Advanced(a)
          /\ UNCHANGED <<userRev, pending, reconciled, loaded>>
          /\ \A e \in Engines \ {f}: result'[a][e] = result[a][e]
      BY <1>1, <1>9, DeployEffect DEF dbVars
    <2>2. InDatabase' /\ Arrived'
      BY <1>3, <2>1 DEF ChangeInv, InDatabase, Arrived
    <2>3. \A b \in Applies: pc'[b] # "deploy"
      BY <2>1, Alone DEF OnlyCall, Advanced, Working
    <2>4. \A b \in Applies, e \in Engines: result'[b][e] = "SUCCEEDED" =>
            result[b][e] = "SUCCEEDED" \/ (pc[b] = "deploy" /\ e = eng[b])
      BY <2>1 DEF OnlyCall
    <2>5. Seen'
      BY <2>1, <2>3, <2>4 DEF ChangeInv, Seen
    <2> QED
      BY <2>2, <2>5 DEF ChangeInv
  <1>10. ASSUME NEW a \in Applies, Commit(a)
         PROVE  ChangeInv'
    <2>1. /\ OnlyCall(a) /\ Cleared(a) /\ UNCHANGED <<userRev, deployed>>
          /\ \/ /\ \A e \in Engines: result[a][e] = "SUCCEEDED"
                /\ pending' = pending \ Covered(a) /\ reconciled' = reconciled \cup Closing(a)
             \/ UNCHANGED <<pending, reconciled>>
      BY <1>1, <1>10, CommitEffect
    <2>2. CASE UNCHANGED <<pending, reconciled>>
      BY <2>1, <2>2, ChangeKept DEF Cleared, Working
    <2>3. CASE /\ \A e \in Engines: result[a][e] = "SUCCEEDED"
               /\ pending' = pending \ Covered(a) /\ reconciled' = reconciled \cup Closing(a)
      <3>1. \A c \in Covered(a), e \in Engines:
              a \notin c.early => deployed[e].user[c.user] >= c.rev
        BY <2>3 DEF Covered, ChangeInv, Seen, Base, Placed
      <3>2. ASSUME NEW d \in Closing(a)
            PROVE  \E c \in pending: /\ d.user = c.user /\ d.rev = c.rev
                                     /\ ~d.early => c \in Covered(a) /\ a \notin c.early
        <4>1. PICK c \in Covered(a): d = [user |-> c.user, rev |-> c.rev, early |-> a \in c.early]
          BY DEF Closing
        <4>2. d.user = c.user /\ d.rev = c.rev
          BY <4>1
        <4>3. ~d.early => a \notin c.early
          BY <4>1, Zenon
        <4> QED
          BY <4>2, <4>3 DEF Covered
      <3>3. Arrived'
        BY <2>1, <2>3, <3>1, <3>2 DEF ChangeInv, Arrived
      <3>4. InDatabase'
        BY <2>1, <2>3, <3>2 DEF ChangeInv, InDatabase
      <3>5. Seen'
        BY <2>1, <2>3 DEF ChangeInv, Seen, OnlyCall, Cleared, Working
      <3> QED
        BY <3>3, <3>4, <3>5 DEF ChangeInv
    <2> QED
      BY <2>1, <2>2, <2>3
  <1>11. ASSUME NEW a \in Applies, Crash(a)
         PROVE  ChangeInv'
    BY <1>1, <1>11, CrashEffect, ChangeKept DEF Cleared, Working, dbVars
  <1>12. CASE Expire
    BY <1>4, <1>12 DEF Expire, dbVars
  <1>13. CASE UNCHANGED vars
    BY <1>4, <1>13 DEF vars, dbVars
  <1> QED
    BY <1>5, <1>6, <1>7, <1>8, <1>9, <1>10, <1>11, <1>12, <1>13 DEF Next, Step

LEMMA ChangesClosed ==
  ASSUME Base, UserInv, ChangeInv
  PROVE  ReconciledIsDeployed
  <1> SUFFICES ASSUME NEW c \in reconciled, c.early, ~userDirty[c.user]
               PROVE  deployed[N].user[c.user] >= c.rev
    BY DEF ReconciledIsDeployed, ChangeInv, Arrived
  <1>1. c.user \in Users /\ c.rev \in Nat
    BY ChangeType DEF Base
  <1>2. deployed[N].user[c.user] = userRev[c.user]
    BY <1>1 DEF UserInv, UserHonestLast
  <1>3. userRev[c.user] \in Nat
    BY <1>1 DEF Base, TypeOK
  <1> QED
    BY <1>1, <1>2, <1>3 DEF ChangeInv, InDatabase

(***************************************************************************)
(* A change recorded as SUCCEEDED by an apply that reconciles it           *)
(* (reconciledByApplyRecordId) is in every core, unless that apply began   *)
(* while the change's transaction was open; then the user goes on asking   *)
(* for an apply until the last engine's core has it.                       *)
(***************************************************************************)
THEOREM ChangesDeployed == Spec => []ReconciledIsDeployed
  <1>1. ASSUME Base, Base', UserInv, ChangeInv, [Next]_vars PROVE ChangeInv'
    BY <1>1, NextChange
  <1>2. Spec => []UserInv
    BY BaseHolds, InitUser, NextUser, PTL DEF Spec
  <1>3. Spec => []ChangeInv
    BY <1>1, <1>2, BaseHolds, InitChange, PTL DEF Spec
  <1> QED
    BY <1>2, <1>3, BaseHolds, ChangesClosed, PTL

-----------------------------------------------------------------------------
(***************************************************************************)
(* SystemApply.                                                            *)
(***************************************************************************)

Posts == [state: {"none", "handled", "answered"}, body: [Engines -> States], at: Engines,
          ok: BOOLEAN]

NodeTypeOK ==
  /\ known \subseteq Proxies /\ agents \subseteq known \ {Local}
  /\ node \in [Proxies -> [Engines -> States]]
  /\ post \in [Applies -> Posts]
  /\ sys \in [Systems -> {"idle", "run", "done"}]
  /\ todo \in [Systems -> SUBSET known]
  /\ userRev0 \in [Systems -> [Users -> Nat]]

\* Only a proxy with an agent is pushed to.
Directed ==
  /\ \A a \in Applies: pc[a] \in Pushing => target[a] \in agents
  /\ \A a \in Applies: post[a].state # "none" => target[a] \in agents /\ pc[a] \in {"wait", "done"}

SystemBase == Base /\ NodeTypeOK /\ Directed

-----------------------------------------------------------------------------
\* What the steps of a push do to the variables of LocalApply.
Pushed(a) ==
  /\ OnlyCall(a) /\ Cleared(a) /\ pc'[a] \in Pushing \cup {"done"}
  /\ UNCHANGED <<rows, inbRev, userRev, userDirty, pending, reconciled, deployed, lock>>
  /\ UNCHANGED inbDirty \/ MarkPushed(target[a])

\* A call that does not have the lock moves without it.
LEMMA LockElsewhere ==
  ASSUME TypeOK, NEW a \in Applies, pc[a] \notin Working \cup {"crashed"}, UNCHANGED lock,
         \A b \in Applies \ {a}: pc'[b] = pc[b]
  PROVE  lock' # Free => pc'[lock'] \in Working \cup {"crashed"}
  BY DEF TypeOK

\* A call that is not at work has no results, and leaves those of the others.
LEMMA PushedBase ==
  ASSUME Base, TypeOK', NEW a \in Applies, pc[a] \notin Working, Pushed(a)
  PROVE  Base'
<1>1. Blank' /\ Ahead' /\ Placed'
  BY ClearedBase DEF Pushed
<1>2. Locked'
  BY DEF Base, Locked, Pushed, OnlyCall, Cleared
<1> QED
  BY <1>1, <1>2 DEF Base

\* apply for a proxy with an agent.
LEMMA DispatchEffect ==
  ASSUME Base, NEW a \in Applies, NEW p \in agents, agents \subseteq Proxies, Dispatch(a, p)
  PROVE  /\ TypeOK' /\ Pushed(a) /\ pc[a] = "idle" /\ pc'[a] = "build" /\ target'[a] = p
         /\ UNCHANGED <<eng, loaded, result, outcome, inbDirty>>
<1>1. /\ pc[a] = "idle" /\ target' = [target EXCEPT ![a] = p] /\ pc' = [pc EXCEPT ![a] = "build"]
      /\ UNCHANGED <<dbVars, deployed, lock, eng, loaded, result, outcome>>
  BY DEF Dispatch, Goto
<1>2. TypeOK'
  <2>1. "build" \in Labels /\ "idle" \notin Working \cup {"crashed"}
    BY DEF Labels, Over, Working, Pushing
  <2>2. lock' # Free => pc'[lock'] \in Working \cup {"crashed"}
    BY <1>1, <2>1, LockElsewhere DEF Base, TypeOK
  <2> QED
    BY <1>1, <2>1, <2>2 DEF Base, TypeOK, dbVars
<1>3. \A e \in Engines: result[a][e] = "none"
  BY <1>1 DEF Base, Blank, Working
<1>4. OnlyCall(a) /\ Cleared(a) /\ pc'[a] = "build" /\ target'[a] = p
  BY <1>1, <1>3 DEF Base, TypeOK, OnlyCall, Cleared, Working
<1> QED
  BY <1>1, <1>2, <1>4 DEF Pushed, dbVars, Pushing

LEMMA BuildEffect ==
  ASSUME Base, NEW a \in Applies, Build(a)
  PROVE  /\ TypeOK' /\ Pushed(a) /\ pc[a] = "build" /\ UNCHANGED <<inbDirty, nodeVars, sysVars, target>>
         /\ \/ /\ \A e \in Engines \ {eng[a]}: loaded'[a][e] = loaded[a][e]
               /\ loaded'[a][eng[a]] = Desired(eng[a], target[a])
               /\ \/ pc'[a] = "build" /\ eng'[a] = eng[a] + 1
                  \/ pc'[a] = "push" /\ eng'[a] = eng[a] /\ eng[a] = N
               /\ UNCHANGED outcome
            \/ pc'[a] = "done" /\ outcome'[a] = "FAILED"
<1>1. TypeOK /\ pc[a] = "build"
      /\ UNCHANGED <<dbVars, deployed, lock, target, nodeVars, sysVars>>
  BY DEF Build, Base
<1>2. \A e \in Engines: result[a][e] = "none"
  BY <1>1 DEF Base, Blank, Working
<1>3. /\ eng[a] \in Engines /\ eng \in [Applies -> Engines] /\ pc \in [Applies -> Labels]
      /\ loaded \in [Applies -> [Engines -> States]]
  BY <1>1 DEF TypeOK
<1>4. CASE /\ loaded' = [loaded EXCEPT ![a][eng[a]] = Desired(eng[a], target[a])]
           /\ IF eng[a] < N THEN eng' = [eng EXCEPT ![a] = @ + 1] /\ UNCHANGED pc
                            ELSE Goto(a, "push") /\ UNCHANGED eng
           /\ UNCHANGED <<result, outcome>>
  <2>1. Desired(eng[a], target[a]) \in States
    BY <1>1, DesiredType DEF TypeOK
  <2>2. loaded' \in [Applies -> [Engines -> States]]
    BY <1>3, <1>4, <2>1
  <2>3. /\ \A b \in Applies \ {a}: loaded'[b] = loaded[b]
        /\ \A e \in Engines \ {eng[a]}: loaded'[a][e] = loaded[a][e]
        /\ loaded'[a][eng[a]] = Desired(eng[a], target[a])
    BY <1>3, <1>4
  <2>4. /\ eng' \in [Applies -> Engines] /\ pc' \in [Applies -> Labels]
        /\ \A b \in Applies \ {a}: pc'[b] = pc[b] /\ eng'[b] = eng[b]
        /\ \/ pc'[a] = "build" /\ eng'[a] = eng[a] + 1
           \/ pc'[a] = "push" /\ eng'[a] = eng[a] /\ eng[a] = N
    <3>1. CASE eng[a] < N
      <4>1. eng[a] + 1 \in Engines
        BY <1>3, <3>1, LocalApplyAssumption
      <4> QED
        BY <1>1, <1>3, <1>4, <3>1, <4>1
    <3>2. CASE ~(eng[a] < N)
      <4>1. eng[a] = N /\ "push" \in Labels
        BY <1>3, <3>2, LocalApplyAssumption DEF Labels, Over, Pushing
      <4> QED
        BY <1>3, <1>4, <3>2, <4>1 DEF Goto
    <3> QED
      BY <3>1, <3>2
  <2>5. TypeOK'
    <3>1. lock' # Free => pc'[lock'] \in Working \cup {"crashed"}
      BY <1>1, <2>4, LockElsewhere DEF Working
    <3> QED
      BY <1>1, <1>4, <2>2, <2>4, <3>1 DEF TypeOK, dbVars
  <2>6. OnlyCall(a) /\ Cleared(a) /\ pc'[a] \in Pushing
    BY <1>1, <1>2, <1>4, <2>3, <2>4 DEF OnlyCall, Cleared, Working, Pushing
  <2> QED
    BY <1>1, <1>4, <2>3, <2>4, <2>5, <2>6 DEF Pushed, dbVars
<1>5. CASE Return(a, "FAILED")
  <2>1. "FAILED" \in Outcomes /\ "done" \in Labels \ Working
    BY DEF Outcomes, Results, Labels, Over, Working
  <2>2. TypeOK'
    <3>1. /\ eng' \in [Applies -> Engines] /\ loaded' \in [Applies -> [Engines -> States]]
          /\ result' \in [Applies -> [Engines -> Results]] /\ outcome' \in [Applies -> Outcomes]
          /\ pc' = [pc EXCEPT ![a] = "done"] /\ pc' \in [Applies -> Labels]
      BY <1>1, <1>5, <2>1, ReturnType
    <3>2. lock' # Free => pc'[lock'] \in Working \cup {"crashed"}
      BY <1>1, <1>3, <3>1, LockElsewhere DEF Working
    <3> QED
      BY <1>1, <3>1, <3>2 DEF TypeOK, dbVars
  <2>3. OnlyCall(a) /\ Cleared(a)
    BY <1>1, <1>5, <2>1, ForgetEffect DEF Return
  <2>4. pc'[a] = "done" /\ outcome'[a] = "FAILED"
    BY <1>1, <1>5 DEF Return, Goto, TypeOK
  <2> QED
    BY <1>1, <2>2, <2>3, <2>4 DEF Pushed, dbVars
<1> QED
  BY <1>4, <1>5 DEF Build

LEMMA PushEffect ==
  ASSUME Base, NodeTypeOK, NEW a \in Applies, Push(a)
  PROVE  /\ TypeOK' /\ Pushed(a) /\ pc[a] = "push" /\ pc'[a] = "wait"
         /\ UNCHANGED <<inbDirty, outcome, target, known, agents, node, sysVars>>
         /\ post' = [post EXCEPT ![a] = [state |-> "handled", body |-> loaded[a], at |-> 1, ok |-> TRUE]]
<1>1. /\ TypeOK /\ pc[a] = "push" /\ pc' = [pc EXCEPT ![a] = "wait"]
      /\ UNCHANGED <<dbVars, deployed, lock, target, eng, loaded, result, outcome>>
      /\ UNCHANGED <<known, agents, node, sysVars>>
  BY DEF Push, Goto, Base
<1>2. TypeOK'
  <2>1. "wait" \in Labels /\ "push" \notin Working \cup {"crashed"}
    BY DEF Labels, Over, Working, Pushing
  <2>2. lock' # Free => pc'[lock'] \in Working \cup {"crashed"}
    BY <1>1, <2>1, LockElsewhere DEF TypeOK
  <2> QED
    BY <1>1, <2>1, <2>2 DEF TypeOK, dbVars
<1>3. \A e \in Engines: result[a][e] = "none"
  BY <1>1 DEF Base, Blank, Working
<1>4. OnlyCall(a) /\ Cleared(a) /\ pc'[a] = "wait"
  BY <1>1, <1>3 DEF TypeOK, OnlyCall, Cleared, Working
<1> QED
  BY <1>1, <1>2, <1>4 DEF Push, Pushed, Pushing, dbVars

LEMMA AnswerEffect ==
  ASSUME Base, NEW a \in Applies, Answer(a)
  PROVE  /\ TypeOK' /\ Pushed(a) /\ pc[a] = "wait" /\ pc'[a] = "done"
         /\ UNCHANGED <<target, nodeVars, sysVars>>
         /\ \/ outcome'[a] = "FAILED"
            \/ outcome'[a] = "SUCCEEDED" /\ post[a].state = "answered" /\ post[a].ok
<1>1. /\ TypeOK /\ pc[a] = "wait"
      /\ UNCHANGED <<rows, inbRev, userRev, userDirty, pending, reconciled>>
      /\ UNCHANGED <<deployed, lock, target, nodeVars, sysVars>>
  BY DEF Answer, Base
<1>2. PICK status \in {"SUCCEEDED", "FAILED"} :
        /\ Return(a, status)
        /\ status = "SUCCEEDED" => post[a].state = "answered" /\ post[a].ok
  BY DEF Answer, Recorded
<1>3. status \in Outcomes /\ "done" \in Labels \ Working
  BY DEF Outcomes, Results, Labels, Over, Working
<1>4. inbDirty' \in [Inbounds -> BOOLEAN] /\ (UNCHANGED inbDirty \/ MarkPushed(target[a]))
  BY <1>1 DEF Answer, MarkPushed, TypeOK
<1>5. TypeOK'
  <2>1. /\ eng' \in [Applies -> Engines] /\ loaded' \in [Applies -> [Engines -> States]]
        /\ result' \in [Applies -> [Engines -> Results]] /\ outcome' \in [Applies -> Outcomes]
        /\ pc' = [pc EXCEPT ![a] = "done"] /\ pc' \in [Applies -> Labels]
    BY <1>1, <1>2, <1>3, ReturnType
  <2>2. lock' # Free => pc'[lock'] \in Working \cup {"crashed"}
    BY <1>1, <2>1, LockElsewhere DEF TypeOK, Working
  <2> QED
    BY <1>1, <1>4, <2>1, <2>2 DEF TypeOK
<1>6. OnlyCall(a) /\ Cleared(a)
  BY <1>1, <1>2, <1>3, ForgetEffect DEF Return
<1>7. pc'[a] = "done" /\ outcome'[a] = status
  BY <1>1, <1>2 DEF Return, Goto, TypeOK
<1> QED
  BY <1>1, <1>2, <1>4, <1>5, <1>6, <1>7 DEF Pushed

-----------------------------------------------------------------------------
(***************************************************************************)
(* The kinds of steps: those of LocalApply, those of a push, and the end   *)
(* of a system apply.                                                      *)
(***************************************************************************)
PushStep(a) ==
  /\ TypeOK' /\ Pushed(a) /\ pc[a] \notin Working
  /\ UNCHANGED inbDirty \/ target[a] # Local

\* apply either starts a local call or goes to the agent.
LEMMA DispatchKinds ==
  ASSUME SystemBase, NEW a \in Applies, NEW p, Dispatch(a, p)
  PROVE  PushStep(a) \/ Start(a, p)
<1>1. agents \subseteq Proxies /\ Base
  BY DEF SystemBase, NodeTypeOK
<1>2. CASE p \in agents
  BY <1>1, <1>2, DispatchEffect DEF PushStep, Working
<1>3. CASE p \notin agents
  BY <1>3 DEF Dispatch
<1> QED
  BY <1>2, <1>3

LEMMA CallType ==
  ASSUME NEW s \in Systems, NEW p \in Proxies
  PROVE  Call(s, p) \in Applies /\ Call(s, p) \in SystemCalls
  BY SystemApplyAssumption DEF SystemCalls

LEMMA Kinds ==
  ASSUME SystemBase, [SystemNext]_allVars
  PROVE  \/ [Next]_vars
         \/ \E a \in Applies: PushStep(a)
         \/ \E s \in Systems: EndSystem(s)
<1>1. /\ Base /\ NodeTypeOK /\ agents \subseteq Proxies \ {Local} /\ Local \in Proxies
      /\ \A a \in Applies: pc[a] \in Pushing => target[a] \in agents
  BY SystemApplyAssumption DEF SystemBase, NodeTypeOK, Directed
<1>2. CASE KnownMutate
  BY <1>2 DEF KnownMutate, Next
<1>3. ASSUME NEW p \in Proxies, CreateProxy(p) \/ Register(p) PROVE UNCHANGED vars
  BY <1>3 DEF CreateProxy, Register
<1>4. ASSUME NEW a \in Applies, Step(a) PROVE Next
  BY <1>4 DEF Next
<1>5. ASSUME NEW a \in Applies, Build(a) PROVE PushStep(a)
  BY <1>1, <1>5, BuildEffect DEF PushStep, Working
<1>6. ASSUME NEW a \in Applies, Push(a) PROVE PushStep(a)
  BY <1>1, <1>6, PushEffect DEF PushStep, Working
<1>7. ASSUME NEW a \in Applies, Handle(a) PROVE UNCHANGED vars
  BY <1>7 DEF Handle
<1>8. ASSUME NEW a \in Applies, Answer(a) PROVE PushStep(a)
  <2>1. pc[a] = "wait" /\ TypeOK' /\ Pushed(a)
    BY <1>1, <1>8, AnswerEffect
  <2>2. target[a] # Local
    BY <1>1, <2>1 DEF Pushing
  <2> QED
    BY <2>1, <2>2 DEF PushStep, Working
<1>9. ASSUME NEW a \in Applies, NEW p \in Proxies, MutationApply(a, p)
      PROVE  PushStep(a) \/ Next
  BY <1>9, DispatchKinds DEF MutationApply, Next
<1>10. CASE Expire
  BY <1>10 DEF Next
<1>11. ASSUME NEW s \in Systems, StartSystem(s) PROVE UNCHANGED vars
  BY <1>11 DEF StartSystem
<1>12. ASSUME NEW s \in Systems, NEW p \in Proxies, NextProxy(s, p)
       PROVE  PushStep(Call(s, p)) \/ Next
  BY <1>12, CallType, DispatchKinds DEF NextProxy, Next
<1>13. CASE UNCHANGED allVars
  BY <1>13 DEF allVars
<1> QED
  BY <1>2, <1>3, <1>4, <1>5, <1>6, <1>7, <1>8, <1>9, <1>10, <1>11, <1>12, <1>13, CallType DEF SystemNext

LEMMA BaseNext ==
  ASSUME SystemBase, [SystemNext]_allVars
  PROVE  Base'
<1>1. Base
  BY DEF SystemBase
<1>2. ASSUME NEW a \in Applies, PushStep(a) PROVE Base'
  BY <1>1, <1>2, PushedBase DEF PushStep
<1>3. ASSUME NEW s \in Systems, EndSystem(s) PROVE Base'
  <2>1. /\ UNCHANGED <<rows, inbRev, inbDirty, userRev, pending, reconciled>>
        /\ UNCHANGED <<deployed, lock, callVars>>
        /\ userDirty' \in [Users -> BOOLEAN]
    BY <1>1, <1>3 DEF EndSystem, Base, TypeOK
  <2>2. TypeOK' /\ Locked'
    BY <1>1, <2>1 DEF Base, TypeOK, Locked, callVars
  <2>3. Blank' /\ Ahead' /\ Placed'
    BY <1>1, <2>1 DEF Base, Blank, Ahead, Placed, callVars
  <2> QED
    BY <2>2, <2>3 DEF Base
<1> QED
  BY <1>1, <1>2, <1>3, Kinds, NextBase
\* A step of a local call.
LEMMA StepMoves ==
  ASSUME TypeOK, NEW a \in Applies, Step(a)
  PROVE  /\ pc[a] \in {"lock"} \cup Working /\ pc'[a] \in Working \cup {"done", "crashed"}
         /\ \A b \in Applies \ {a}: pc'[b] = pc[b]
         /\ UNCHANGED target
<1>1. /\ pc[a] \in {"lock"} \cup Working /\ UNCHANGED target
      /\ \/ \E l \in {"load", "deploy", "done", "crashed"}: Goto(a, l)
         \/ NextEngine(a)
  BY CommitReturns DEF Step, Lock, Load, Deploy, Commit, Crash, Return, Working
<1>2. ASSUME NEW l \in {"load", "deploy", "done", "crashed"}, Goto(a, l)
      PROVE  pc'[a] \in Working \cup {"done", "crashed"} /\ \A b \in Applies \ {a}: pc'[b] = pc[b]
  BY <1>2 DEF Goto, TypeOK, Working
<1> QED
  BY <1>1, <1>2, NextEngineType

\* What Directed asks of the call that has moved.
LEMMA DirectedMove ==
  ASSUME SystemBase, NEW a \in Applies, agents \subseteq agents',
         \A b \in Applies \ {a}: pc'[b] = pc[b] /\ target'[b] = target[b] /\ post'[b] = post[b],
         pc'[a] \in Pushing => target'[a] \in agents',
         post'[a].state # "none" => target'[a] \in agents' /\ pc'[a] \in {"wait", "done"}
  PROVE  Directed'
  BY DEF SystemBase, Directed

\* A call that has been posted waits or is over.
LEMMA Unposted ==
  ASSUME SystemBase, NEW a \in Applies, pc[a] \notin {"wait", "done"}
  PROVE  post[a].state = "none"
  BY DEF SystemBase, Directed

LEMMA DirectedNext ==
  ASSUME SystemBase, [SystemNext]_allVars
  PROVE  NodeTypeOK' /\ Directed'
<1>1. /\ TypeOK /\ Base /\ NodeTypeOK /\ Directed /\ agents \subseteq Proxies \ {Local}
      /\ Local \in Proxies /\ agents \subseteq known
  BY SystemApplyAssumption DEF SystemBase, NodeTypeOK, Base
<1>3. CASE UNCHANGED <<callVars, nodeVars, sysVars>>
  BY <1>1, <1>3 DEF Directed, NodeTypeOK, callVars, nodeVars, sysVars
<1>4. CASE KnownMutate
  BY <1>1, <1>3, <1>4, MutateType DEF KnownMutate
<1>5. ASSUME NEW p \in Proxies, CreateProxy(p) \/ Register(p)
      PROVE  NodeTypeOK' /\ Directed'
  <2>1. /\ UNCHANGED <<pc, target, node, post, sysVars>>
        /\ known \subseteq known' /\ agents \subseteq agents' /\ agents' \subseteq known' \ {Local}
        /\ known' \subseteq Proxies
    BY <1>1, <1>5 DEF CreateProxy, Register, vars, callVars, NodeTypeOK
  <2>2. NodeTypeOK'
    BY <1>1, <2>1 DEF NodeTypeOK, sysVars
  <2>3. Directed'
    BY <1>1, <2>1 DEF Directed, sysVars
  <2> QED
    BY <2>2, <2>3
<1>6. ASSUME NEW a \in Applies, Step(a), UNCHANGED <<nodeVars, sysVars>>
      PROVE  NodeTypeOK' /\ Directed'
  <2>1. /\ pc[a] \in {"lock"} \cup Working /\ pc'[a] \in Working \cup {"done", "crashed"}
        /\ \A b \in Applies \ {a}: pc'[b] = pc[b]
        /\ UNCHANGED target
    BY <1>1, <1>6, StepMoves
  <2>2. post[a].state = "none"
    BY <2>1, Unposted DEF Working
  <2>3. UNCHANGED <<known, agents, node, post, sys, todo, userRev0>>
    BY <1>6 DEF nodeVars, sysVars
  <2>4. pc'[a] \notin Pushing
    BY <2>1 DEF Working, Pushing
  <2>5. Directed'
    BY <2>1, <2>2, <2>3, <2>4, DirectedMove
  <2> QED
    BY <1>1, <2>3, <2>5 DEF NodeTypeOK
<1>7. ASSUME NEW a \in Applies, Build(a)
      PROVE  NodeTypeOK' /\ Directed'
  <2>1. /\ pc[a] = "build" /\ pc'[a] \in Pushing \cup {"done"} /\ OnlyCall(a)
        /\ UNCHANGED <<known, agents, node, post, sys, todo, userRev0, target>>
    BY <1>1, <1>7, BuildEffect DEF Pushed, nodeVars, sysVars
  <2>2. target[a] \in agents /\ post[a].state = "none"
    BY <1>1, <2>1, Unposted DEF Directed, Pushing
  <2>3. Directed'
    BY <2>1, <2>2, DirectedMove DEF OnlyCall
  <2> QED
    BY <1>1, <2>1, <2>3 DEF NodeTypeOK
<1>8. ASSUME NEW a \in Applies, Push(a)
      PROVE  NodeTypeOK' /\ Directed'
  <2>1. /\ pc[a] = "push" /\ pc'[a] = "wait" /\ OnlyCall(a)
        /\ UNCHANGED <<known, agents, node, sys, todo, userRev0, target>>
        /\ post' = [post EXCEPT ![a] = [state |-> "handled", body |-> loaded[a], at |-> 1, ok |-> TRUE]]
    BY <1>1, <1>8, PushEffect DEF Pushed, sysVars
  <2>2. loaded[a] \in [Engines -> States] /\ 1 \in Engines
    BY <1>1, LocalApplyAssumption DEF TypeOK
  <2>3. post' \in [Applies -> Posts]
    BY <1>1, <2>1, <2>2 DEF NodeTypeOK, Posts
  <2>4. target[a] \in agents
    BY <1>1, <2>1 DEF Directed, Pushing
  <2>5. \A b \in Applies \ {a}: post'[b] = post[b]
    BY <1>1, <2>1 DEF NodeTypeOK
  <2>6. Directed'
    BY <2>1, <2>4, <2>5, DirectedMove DEF OnlyCall
  <2> QED
    BY <1>1, <2>1, <2>3, <2>6 DEF NodeTypeOK
<1>9. ASSUME NEW a \in Applies, Handle(a)
      PROVE  NodeTypeOK' /\ Directed'
  <2>1. /\ post[a].state = "handled" /\ UNCHANGED <<pc, target, known, agents, sys, todo, userRev0>>
        /\ \/ node' = [node EXCEPT ![target[a]][post[a].at] = post[a].body[post[a].at]]
           \/ UNCHANGED node
    BY <1>9 DEF Handle, vars, callVars, sysVars
  <2>2. PICK ok \in BOOLEAN:
          post' = [post EXCEPT ![a] = [state |-> IF post[a].at < N THEN "handled" ELSE "answered",
                                       body |-> post[a].body,
                                       at |-> IF post[a].at < N THEN post[a].at + 1 ELSE post[a].at,
                                       ok |-> post[a].ok /\ ok]]
    BY <1>1, <1>9 DEF Handle, NodeTypeOK
  <2>3. /\ post[a].body \in [Engines -> States] /\ post[a].at \in Engines /\ post[a].ok \in BOOLEAN
        /\ post \in [Applies -> Posts]
    BY <1>1 DEF NodeTypeOK, Posts
  <2>4. (IF post[a].at < N THEN post[a].at + 1 ELSE post[a].at) \in Engines
    BY <2>3, LocalApplyAssumption
  <2>5. PICK ok2 \in BOOLEAN: ok2 = (post[a].ok /\ ok)
    BY <2>3
  <2>6. post' \in [Applies -> Posts] /\ \A b \in Applies \ {a}: post'[b] = post[b]
    BY <2>2, <2>3, <2>4, <2>5 DEF Posts
  <2>7. target[a] \in agents /\ pc[a] \in {"wait", "done"}
    BY <1>1, <2>1 DEF Directed
  <2>8. Directed'
    BY <1>1, <2>1, <2>6, <2>7, DirectedMove DEF Directed
  <2>9. node' \in [Proxies -> [Engines -> States]]
    <3>1. /\ node \in [Proxies -> [Engines -> States]] /\ post[a].body[post[a].at] \in States
          /\ target[a] \in Proxies
      BY <1>1, <2>3 DEF NodeTypeOK, TypeOK
    <3>2. PICK q \in Proxies, e \in Engines, new \in States:
            q = target[a] /\ e = post[a].at /\ new = post[a].body[post[a].at]
      BY <2>3, <3>1
    <3>3. UNCHANGED node \/ node' = [node EXCEPT ![q][e] = new]
      BY <2>1, <3>2
    <3>4. PICK row \in [Engines -> States]: row = [node[q] EXCEPT ![e] = new]
      BY <3>1
    <3>5. UNCHANGED node \/ node' = [node EXCEPT ![q] = row]
      BY <3>3, <3>4, Zenon
    <3> QED
      BY <3>1, <3>5
  <2> QED
    BY <1>1, <2>1, <2>6, <2>8, <2>9 DEF NodeTypeOK
<1>10. ASSUME NEW a \in Applies, Answer(a)
       PROVE  NodeTypeOK' /\ Directed'
  <2>1. /\ pc[a] = "wait" /\ pc'[a] = "done" /\ OnlyCall(a)
        /\ UNCHANGED <<known, agents, node, post, sys, todo, userRev0, target>>
    BY <1>1, <1>10, AnswerEffect DEF Pushed, nodeVars, sysVars
  <2>2. target[a] \in agents /\ pc'[a] \notin Pushing
    BY <1>1, <2>1 DEF Directed, Pushing
  <2>3. Directed'
    BY <2>1, <2>2, DirectedMove DEF OnlyCall
  <2> QED
    BY <1>1, <2>1, <2>3 DEF NodeTypeOK
<1>11. ASSUME NEW a \in Applies, NEW p \in Proxies, Dispatch(a, p),
              UNCHANGED <<agents, post>>
       PROVE  Directed'
  <2>1. /\ pc[a] = "idle" /\ \A b \in Applies \ {a}: pc'[b] = pc[b] /\ target'[b] = target[b]
        /\ \/ pc'[a] = "build" /\ target'[a] = p /\ p \in agents
           \/ pc'[a] = "lock"
    BY <1>1, <1>11 DEF Dispatch, Start, Goto, TypeOK
  <2>2. post[a].state = "none"
    BY <2>1, Unposted
  <2>3. pc'[a] \in Pushing => target'[a] \in agents'
    BY <1>11, <2>1 DEF Pushing
  <2> QED
    BY <1>11, <2>1, <2>2, <2>3, DirectedMove
<1>12. ASSUME NEW a \in Applies, NEW p \in Proxies, MutationApply(a, p)
       PROVE  NodeTypeOK' /\ Directed'
  <2>1. Dispatch(a, p) /\ UNCHANGED <<known, agents, node, post, sys, todo, userRev0>>
    BY <1>12 DEF MutationApply, nodeVars, sysVars
  <2> QED
    BY <1>1, <1>11, <2>1 DEF NodeTypeOK
<1>13. CASE Expire /\ UNCHANGED <<nodeVars, sysVars>>
  BY <1>3, <1>13 DEF Expire
<1>14. ASSUME NEW s \in Systems, StartSystem(s)
       PROVE  NodeTypeOK' /\ Directed'
  <2>1. /\ UNCHANGED <<pc, target, known, agents, node, post>>
        /\ sys' = [sys EXCEPT ![s] = "run"] /\ todo' = [todo EXCEPT ![s] = known]
        /\ userRev0' = [userRev0 EXCEPT ![s] = userRev]
    BY <1>14 DEF StartSystem, vars, callVars, nodeVars
  <2>2. userRev \in [Users -> Nat]
    BY <1>1 DEF TypeOK
  <2>3. todo' \in [Systems -> SUBSET known] /\ sys' \in [Systems -> {"idle", "run", "done"}]
        /\ userRev0' \in [Systems -> [Users -> Nat]]
    BY <1>1, <2>1, <2>2 DEF NodeTypeOK
  <2> QED
    BY <1>1, <2>1, <2>3 DEF NodeTypeOK, Directed
<1>15. ASSUME NEW s \in Systems, EndSystem(s)
       PROVE  NodeTypeOK' /\ Directed'
  <2>1. /\ UNCHANGED <<callVars, nodeVars, todo, userRev0>> /\ sys' = [sys EXCEPT ![s] = "done"]
    BY <1>15 DEF EndSystem
  <2> QED
    BY <1>1, <2>1 DEF Directed, NodeTypeOK, callVars, nodeVars
<1>16. ASSUME NEW s \in Systems, NEW p \in Proxies, NextProxy(s, p)
       PROVE  NodeTypeOK' /\ Directed'
  <2>1. /\ Dispatch(Call(s, p), p) /\ Call(s, p) \in Applies
        /\ UNCHANGED <<known, agents, node, post, sys, userRev0>>
        /\ todo' = [todo EXCEPT ![s] = @ \ {p}]
    BY <1>16, CallType DEF NextProxy, nodeVars
  <2>2. todo' \in [Systems -> SUBSET known]
    BY <1>1, <2>1 DEF NodeTypeOK
  <2>3. Directed'
    BY <1>11, <2>1
  <2> QED
    BY <1>1, <2>1, <2>2, <2>3 DEF NodeTypeOK
<1>17. CASE UNCHANGED allVars
  BY <1>3, <1>17 DEF allVars, vars
<1> QED
  BY <1>4, <1>5, <1>6, <1>7, <1>8, <1>9, <1>10, <1>12, <1>13, <1>14, <1>15, <1>16, <1>17 DEF SystemNext
LEMMA InitSystem == SystemInit => SystemBase
<1> SUFFICES ASSUME SystemInit PROVE SystemBase
  OBVIOUS
<1>1. /\ Init /\ known = {Local} /\ agents = {}
      /\ node = [p \in Proxies |-> [e \in Engines |-> NoState]]
      /\ post = [a \in Applies |-> NoPost]
      /\ sys = [s \in Systems |-> "idle"] /\ todo = [s \in Systems |-> {}]
      /\ userRev0 = [s \in Systems |-> userRev]
  BY DEF SystemInit
<1>2. Base
  BY <1>1, InitBase
<1>3. NoPost \in Posts /\ NoPost.state = "none"
  BY NoStateType, LocalApplyAssumption DEF NoPost, Posts
<1>4. userRev \in [Users -> Nat] /\ \A a \in Applies: pc[a] = "idle"
  BY <1>1, <1>2 DEF Init, Base, TypeOK
<1>5. NodeTypeOK
  BY <1>1, <1>3, <1>4, NoStateType, SystemApplyAssumption DEF NodeTypeOK
<1>6. Directed
  BY <1>1, <1>3, <1>4 DEF Directed, Working, Pushing
<1> QED
  BY <1>2, <1>5, <1>6 DEF SystemBase

LEMMA NextSystem ==
  ASSUME SystemBase, [SystemNext]_allVars
  PROVE  SystemBase'
  BY BaseNext, DirectedNext DEF SystemBase

THEOREM SystemBaseHolds == SystemSpec => []SystemBase
<1>1. ASSUME SystemBase, [SystemNext]_allVars PROVE SystemBase'
  BY <1>1, NextSystem
<1> QED
  BY <1>1, InitSystem, PTL DEF SystemSpec

-----------------------------------------------------------------------------
(***************************************************************************)
(* The local inbounds.  What is pushed to another node marks none of them. *)
(***************************************************************************)
LEMMA NextLocal ==
  ASSUME SystemBase, InboundInv(Local), [SystemNext]_allVars
  PROVE  InboundInv(Local)'
<1>1. Base /\ Base'
  BY BaseNext DEF SystemBase
<1>2. ASSUME NEW a \in Applies, PushStep(a) PROVE InboundInv(Local)'
  <2>1. OnlyCall(a) /\ pc'[a] # "deploy" /\ UNCHANGED <<rows, inbRev, deployed>>
    BY <1>2 DEF PushStep, Pushed, Pushing
  <2>2. \A i \in rows: InbProxy[i] = Local => inbDirty'[i] = inbDirty[i]
    <3>1. CASE UNCHANGED inbDirty
      BY <3>1
    <3>2. CASE MarkPushed(target[a]) /\ target[a] # Local
      <4>1. rows \subseteq Inbounds /\ inbDirty \in [Inbounds -> BOOLEAN]
        BY <1>1 DEF Base, TypeOK
      <4>2. \A i \in rows: InbProxy[i] = Local => inbDirty'[i] = (inbDirty[i] /\ TRUE)
        BY <3>2, <4>1 DEF MarkPushed
      <4> QED
        BY <4>1, <4>2
    <3> QED
      BY <1>2, <3>1, <3>2 DEF PushStep, Pushed
  <2>3. \A b \in Applies: pc'[b] = "deploy" =>
          pc[b] = "deploy" /\ eng'[b] = eng[b] /\ loaded'[b] = loaded[b]
    BY <2>1 DEF OnlyCall
  <2> QED
    BY <2>1, <2>2, <2>3 DEF InboundInv, InboundLoaded, InboundPlaced
<1>3. ASSUME NEW s \in Systems, EndSystem(s) PROVE InboundInv(Local)'
  BY <1>3 DEF EndSystem, callVars, InboundInv, InboundLoaded, InboundPlaced
<1> QED
  BY <1>1, <1>2, <1>3, Kinds, NextInbound

(***************************************************************************)
(* With applies and pushes for other nodes, system applies and the panel's *)
(* own applies in any order: while the panel's volumes hold a              *)
(* configuration of its own node, every inbound of it that no longer needs *)
(* an apply is in its core at its current revision.                        *)
(***************************************************************************)
THEOREM LocalVolumesHonest == SystemSpec => []VolumesHonest
<1>1. SystemInit => InboundInv(Local)
  BY InitInbound DEF SystemInit
<1>2. ASSUME SystemBase, InboundInv(Local), [SystemNext]_allVars PROVE InboundInv(Local)'
  BY <1>2, NextLocal
<1>3. InboundInv(Local) => VolumesHonest
  BY DEF InboundInv, InboundPlaced, VolumesHonest
<1> QED
  BY <1>1, <1>2, <1>3, SystemBaseHolds, PTL DEF SystemSpec

-----------------------------------------------------------------------------
(***************************************************************************)
(* The panel's own cores never go back, whatever system applies clear.     *)
(***************************************************************************)
LEMMA NextForward ==
  ASSUME SystemBase, Monotone, [SystemNext]_allVars
  PROVE  Monotone' /\ NoneBack
<1>1. Base /\ Base' /\ TypeOK /\ TypeOK'
  BY BaseNext DEF SystemBase, Base
<1>2. ASSUME NEW a \in Applies, PushStep(a) PROVE Monotone' /\ NoneBack
  <2>1. OnlyCall(a) /\ pc'[a] # "deploy" /\ UNCHANGED <<userRev, deployed>>
    BY <1>2 DEF PushStep, Pushed, Pushing
  <2> QED
    BY <1>1, <2>1, MonotoneKept
<1>3. ASSUME NEW s \in Systems, EndSystem(s) PROVE Monotone' /\ NoneBack
  <2>1. UNCHANGED <<userRev, deployed, pc, eng, loaded>>
    BY <1>3 DEF EndSystem, callVars
  <2>2. NoneBack
    BY <1>1, <2>1, Revisions DEF NoneBack
  <2> QED
    BY <2>1, <2>2 DEF Monotone, Bounded, Forward
<1> QED
  BY <1>1, <1>2, <1>3, Kinds, NextMonotone

-----------------------------------------------------------------------------
(***************************************************************************)
(* What a system apply has reached.  A call of it loads users that are at  *)
(* least as new as when it began, because it loads them later, and what    *)
(* it loaded stays where it was put: on the panel because the cores go     *)
(* forward under the lock, on a node unless an older push comes after it.  *)
(***************************************************************************)
\* A call that is over has a status, and no other has.
Told == \A a \in Applies: pc[a] = "done" <=> outcome[a] # "none"

\* A call that has not started is at the first engine.
Fresh == \A a \in Applies: pc[a] = "idle" => eng[a] = 1

\* The calls of a system apply are for its proxies, and it makes them.
Own == \A s \in Systems, p \in Proxies:
         pc[Call(s, p)] # "idle" => target[Call(s, p)] = p /\ sys[s] # "idle"

Since == \A s \in Systems: sys[s] = "run" => \A u \in Users: userRev[u] >= userRev0[s][u]

(***************************************************************************)
(* What call c has loaded and sent has users of revisions r at least.      *)
(***************************************************************************)
Bears(c, r) ==
  /\ pc[c] = "deploy" => \A u \in Users: loaded[c][eng[c]].user[u] >= r[u]
  /\ \A e \in Engines: result[c][e] = "SUCCEEDED" => \A u \in Users: loaded[c][e].user[u] >= r[u]
  /\ \A e \in Engines: pc[c] = "push" \/ (pc[c] = "build" /\ e < eng[c]) =>
       \A u \in Users: loaded[c][e].user[u] >= r[u]
  /\ post[c].state # "none" => \A e \in Engines, u \in Users: post[c].body[e].user[u] >= r[u]

\* If it has SUCCEEDED, the panel's own cores run them, or its push was answered,
\* and an engine its push was handled for runs them unless a later push overtook it.
Here(c, r) ==
  outcome[c] = "SUCCEEDED" /\ post[c].state = "none" =>
    \A e \in Engines, u \in Users: deployed[e].user[u] >= r[u]

Answered(c) ==
  outcome[c] = "SUCCEEDED" /\ post[c].state # "none" => post[c].state = "answered" /\ post[c].ok

There(c, p, r) ==
  post[c].state # "none" /\ post[c].ok =>
    \A e \in Engines: e < post[c].at \/ post[c].state = "answered" =>
      \A u \in Users: node[p][e].user[u] >= r[u] \/ Overtaken(c, e, u, r[u])

Held(c, p, r) == Bears(c, r) /\ Here(c, r) /\ Answered(c) /\ There(c, p, r)

Reached == \A s \in Systems, p \in Proxies:
             sys[s] = "run" => Held(Call(s, p), p, userRev0[s])

ReachInv == Told /\ Fresh /\ Own /\ Since /\ Reached

LEMMA InitReach == SystemInit => ReachInv
<1> SUFFICES ASSUME SystemInit PROVE ReachInv
  OBVIOUS
<1>1. /\ \A a \in Applies: pc[a] = "idle" /\ outcome[a] = "none" /\ eng[a] = 1
      /\ \A s \in Systems: sys[s] = "idle"
  BY DEF SystemInit, Init
<1>2. \A s \in Systems, p \in Proxies: pc[Call(s, p)] = "idle"
  BY <1>1, CallType
<1> QED
  BY <1>1, <1>2 DEF ReachInv, Told, Fresh, Own, Since, Reached

-----------------------------------------------------------------------------
\* The outcome of a call is set when it is over.
Settled(a) ==
  \/ pc'[a] # "done" /\ outcome'[a] = outcome[a]
  \/ pc'[a] = "done" /\ outcome'[a] # "none"

LEMMA ReturnEffect ==
  ASSUME TypeOK, NEW a \in Applies, NEW status, Return(a, status)
  PROVE  /\ outcome'[a] = status /\ pc'[a] = "done" /\ eng'[a] = 1
         /\ \A b \in Applies \ {a}: outcome'[b] = outcome[b]
  BY DEF TypeOK, Return, Goto, Forget

\* A local call: it can only have succeeded if every engine has.
LEMMA StepOutcome ==
  ASSUME Base, NEW a \in Applies, Step(a)
  PROVE  /\ Settled(a) /\ \A b \in Applies \ {a}: outcome'[b] = outcome[b]
         /\ pc'[a] = "done" /\ outcome'[a] = "SUCCEEDED" =>
              \A e \in Engines: result[a][e] = "SUCCEEDED" /\ deployed'[e] = deployed[e]
<1>1. TypeOK
  BY DEF Base
<1>2. CASE Lock(a)
  <2>1. CASE Return(a, "FAILED")
    BY <1>1, <2>1, ReturnEffect DEF Settled
  <2>2. CASE Goto(a, "load") /\ UNCHANGED outcome
    BY <1>1, <2>2 DEF Goto, TypeOK, Settled
  <2> QED
    BY <1>2, <2>1, <2>2 DEF Lock
<1>3. CASE Load(a) \/ Deploy(a)
  <2>1. UNCHANGED outcome /\ (Goto(a, "deploy") \/ NextEngine(a))
    BY <1>3 DEF Load, Deploy
  <2>2. pc'[a] # "done"
    BY <1>1, <2>1, NextEngineType DEF Goto, TypeOK, Working
  <2> QED
    BY <2>1, <2>2 DEF Settled
<1>4. CASE Commit(a)
  <2>1. UNCHANGED deployed
    BY <1>4 DEF Commit
  <2>2. PICK status \in {"FAILED", "ROLLED_BACK", "PARTIAL_SUCCEEDED", "SUCCEEDED"}:
          Return(a, status) /\ (status = "SUCCEEDED" => Aggregate(result[a]) = "SUCCEEDED")
    BY <1>4 DEF Commit, Recorded
  <2>3. status = "SUCCEEDED" => \A e \in Engines: result[a][e] = "SUCCEEDED"
    BY <2>2, AggregateSucceeds
  <2> QED
    BY <1>1, <2>1, <2>2, <2>3, ReturnEffect DEF Settled
<1>5. CASE Crash(a)
  BY <1>1, <1>5 DEF Crash, Goto, TypeOK, Settled
<1> QED
  BY <1>2, <1>3, <1>4, <1>5 DEF Step

LEMMA StepOnly ==
  ASSUME TypeOK, NEW a \in Applies, Step(a)
  PROVE  OnlyCall(a)
  BY LockEffect, LoadEffect, DeployEffect, CommitEffect, CrashEffect DEF Step

(***************************************************************************)
(* Every step of the system is of one of these shapes.                     *)
(***************************************************************************)
\* The calls stay as they are.
Calm == UNCHANGED callVars /\ UNCHANGED post

LEMMA Shapes ==
  ASSUME SystemBase, [SystemNext]_allVars
  PROVE  \/ Calm /\ UNCHANGED <<node, sysVars>>
         \/ \E s \in Systems: (StartSystem(s) \/ EndSystem(s)) /\ Calm /\ UNCHANGED node
         \/ \E a \in Applies: Handle(a) /\ UNCHANGED <<callVars, sysVars>>
         \/ \E a \in Applies: /\ Step(a) \/ Build(a) \/ Answer(a)
                             /\ UNCHANGED <<node, post, sysVars>>
         \/ \E a \in Applies: Push(a) /\ UNCHANGED <<node, sysVars>>
         \/ \E a \in Applies, p \in Proxies:
              /\ Dispatch(a, p) /\ UNCHANGED <<node, post, sys, userRev0>>
              /\ a \notin SystemCalls \/ \E s \in Systems: sys[s] = "run" /\ a = Call(s, p)
<1>1. TypeOK
  BY DEF SystemBase, Base
<1>2. CASE KnownMutate
  BY <1>1, <1>2, MutateType DEF KnownMutate, nodeVars, Calm
<1>3. ASSUME NEW p \in Proxies, CreateProxy(p) \/ Register(p) PROVE Calm /\ UNCHANGED <<node, sysVars>>
  BY <1>3 DEF CreateProxy, Register, vars, Calm
<1>4. ASSUME NEW a \in Applies, Step(a) /\ UNCHANGED <<nodeVars, sysVars>>
      PROVE UNCHANGED <<node, post, sysVars>>
  BY <1>4 DEF nodeVars
<1>5. ASSUME NEW a \in Applies
      PROVE  /\ Build(a) \/ Answer(a) => UNCHANGED <<node, post, sysVars>>
             /\ Push(a) => UNCHANGED <<node, sysVars>>
  BY DEF Build, Push, Answer, nodeVars
<1>6. ASSUME NEW a \in Applies, Handle(a) PROVE UNCHANGED <<callVars, sysVars>>
  BY <1>6 DEF Handle, vars
<1>7. ASSUME NEW a \in Applies, NEW p \in Proxies, MutationApply(a, p)
      PROVE  a \notin SystemCalls /\ Dispatch(a, p) /\ UNCHANGED <<node, post, sys, userRev0>>
  BY <1>7 DEF MutationApply, nodeVars, sysVars
<1>8. CASE Expire /\ UNCHANGED <<nodeVars, sysVars>>
  BY <1>8 DEF Expire, nodeVars, Calm
<1>9. ASSUME NEW s \in Systems, StartSystem(s) \/ EndSystem(s) PROVE Calm /\ UNCHANGED node
  BY <1>9 DEF StartSystem, EndSystem, vars, nodeVars, Calm
<1>10. ASSUME NEW s \in Systems, NEW p \in Proxies, NextProxy(s, p)
       PROVE  /\ Dispatch(Call(s, p), p) /\ sys[s] = "run"
              /\ UNCHANGED <<node, post, sys, userRev0>> /\ Call(s, p) \in Applies
  BY <1>10, CallType DEF NextProxy, nodeVars
<1>11. CASE UNCHANGED allVars
  BY <1>11 DEF allVars, vars, nodeVars, Calm
<1> QED
  BY <1>2, <1>3, <1>4, <1>5, <1>6, <1>7, <1>8, <1>9, <1>10, <1>11 DEF SystemNext

LEMMA ActorGoes ==
  ASSUME SystemBase, NEW a \in Applies, Step(a) \/ Build(a) \/ Push(a) \/ Answer(a),
         UNCHANGED sysVars
  PROVE  /\ Settled(a) /\ UNCHANGED target /\ pc[a] # "idle" /\ pc'[a] # "idle"
         /\ OnlyCall(a) /\ \A b \in Applies \ {a}: outcome'[b] = outcome[b]
<1>1. Base /\ TypeOK /\ NodeTypeOK
  BY DEF SystemBase, Base
<1>2. CASE Step(a)
  BY <1>1, <1>2, StepMoves, StepOutcome, StepOnly DEF Working
<1>3. CASE Build(a)
  <2>1. pc[a] = "build" /\ OnlyCall(a) /\ UNCHANGED target
        /\ pc'[a] \in Pushing \cup {"done"}
    BY <1>1, <1>3, BuildEffect DEF Pushed
  <2>2. Return(a, "FAILED") \/ (pc'[a] # "done" /\ UNCHANGED outcome)
    BY <1>3, <1>1 DEF Build, Goto, TypeOK
  <2> QED
    BY <1>1, <2>1, <2>2, ReturnEffect DEF Settled, Pushing
<1>4. CASE Push(a)
  BY <1>1, <1>4, PushEffect DEF Pushed, Settled
<1>5. CASE Answer(a)
  <2>1. pc[a] = "wait" /\ OnlyCall(a) /\ UNCHANGED target
    BY <1>1, <1>5, AnswerEffect DEF Pushed
  <2>2. Return(a, "FAILED") \/ Return(a, "SUCCEEDED")
    BY <1>5 DEF Answer, Recorded
  <2> QED
    BY <1>1, <2>1, <2>2, ReturnEffect DEF Settled
<1> QED
  BY <1>2, <1>3, <1>4, <1>5

LEMMA ActorStarts ==
  ASSUME SystemBase, NEW a \in Applies, NEW p \in Proxies, Dispatch(a, p)
  PROVE  /\ OnlyCall(a) /\ UNCHANGED <<eng, loaded, result, outcome, deployed>>
         /\ pc[a] = "idle" /\ target'[a] = p /\ pc'[a] \in {"lock", "build"}
<1>1. TypeOK
  BY DEF SystemBase, Base
<1>2. CASE p \in agents
  BY <1>1, <1>2 DEF Dispatch, Goto, TypeOK, OnlyCall
<1>3. CASE p \notin agents
  BY <1>1, <1>3 DEF Dispatch, Start, Goto, TypeOK, OnlyCall
<1> QED
  BY <1>2, <1>3

LEMMA CallsDiffer ==
  ASSUME NEW s, NEW p, NEW t, NEW q, Call(s, p) = Call(t, q)
  PROVE  s = t /\ p = q
  BY DEF Call

\* What a call that has been posted has sent stays with it.
LEMMA PostsStay ==
  ASSUME SystemBase, [SystemNext]_allVars, NEW a \in Applies, post[a].state # "none"
  PROVE  post'[a].state # "none" /\ post'[a].body = post[a].body /\ target'[a] = target[a]
<1>1. pc[a] \in {"wait", "done"} /\ SystemBase' /\ NodeTypeOK /\ TypeOK
  BY NextSystem DEF SystemBase, Directed, Base
<1>2. CASE Calm
  BY <1>2 DEF Calm, callVars
<1>3. ASSUME NEW b \in Applies, Handle(b), UNCHANGED <<callVars, sysVars>>
      PROVE  post'[a].state # "none" /\ post'[a].body = post[a].body /\ target'[a] = target[a]
  BY <1>1, <1>3 DEF Handle, callVars, NodeTypeOK
<1>4. ASSUME NEW b \in Applies, Step(b) \/ Build(b) \/ Answer(b), UNCHANGED <<node, post, sysVars>>
      PROVE  post'[a].state # "none" /\ post'[a].body = post[a].body /\ target'[a] = target[a]
  BY <1>4, ActorGoes
<1>5. ASSUME NEW b \in Applies, Push(b)
      PROVE  post'[a].state # "none" /\ post'[a].body = post[a].body /\ target'[a] = target[a]
  <2>1. b # a
    BY <1>1, <1>5 DEF Push
  <2> QED
    BY <1>1, <1>5, <2>1 DEF Push, NodeTypeOK
<1>6. ASSUME NEW b \in Applies, NEW p \in Proxies, Dispatch(b, p), UNCHANGED post
      PROVE  post'[a].state # "none" /\ post'[a].body = post[a].body /\ target'[a] = target[a]
  BY <1>1, <1>6, ActorStarts DEF OnlyCall
<1> QED
  BY <1>2, <1>3, <1>4, <1>5, <1>6, Shapes

-----------------------------------------------------------------------------
\* The users' revisions only grow.
LEMMA UsersGrow ==
  ASSUME SystemBase, [SystemNext]_allVars
  PROVE  \A u \in Users: userRev'[u] \in Nat /\ userRev[u] \in Nat /\ userRev'[u] >= userRev[u]
<1>1. TypeOK /\ TypeOK'
  BY BaseNext DEF SystemBase, Base
<1>2. \A u \in Users: userRev'[u] \in Nat /\ userRev[u] \in Nat
  BY <1>1 DEF TypeOK
<1>3. CASE KnownMutate
  <2>1. \A u \in Users: userRev'[u] = userRev[u] \/ userRev'[u] > userRev[u]
    BY <1>1, <1>3, MutateEffect DEF KnownMutate
  <2> QED
    BY <1>2, <2>1
<1>4. CASE ~KnownMutate
  <2>1. ASSUME NEW a \in Applies, Step(a) PROVE UNCHANGED userRev
    BY <2>1 DEF Step, Lock, Load, Deploy, Commit, Crash, dbVars
  <2>2. ASSUME NEW a \in Applies, NEW p \in Proxies, MutationApply(a, p) PROVE UNCHANGED userRev
    BY <2>2 DEF MutationApply, Dispatch, Start, dbVars
  <2>3. ASSUME NEW s \in Systems, NEW p \in Proxies, NextProxy(s, p) PROVE UNCHANGED userRev
    BY <2>3 DEF NextProxy, Dispatch, Start, dbVars
  <2>4. ASSUME NEW a \in Applies, Build(a) \/ Push(a) \/ Handle(a) \/ Answer(a) PROVE UNCHANGED userRev
    BY <2>4 DEF Build, Push, Handle, Answer, vars, dbVars
  <2>5. ASSUME NEW s \in Systems, StartSystem(s) \/ EndSystem(s) PROVE UNCHANGED userRev
    BY <2>5 DEF StartSystem, EndSystem, vars, dbVars
  <2>6. ASSUME NEW p \in Proxies, CreateProxy(p) \/ Register(p) PROVE UNCHANGED userRev
    BY <2>6 DEF CreateProxy, Register, vars, dbVars
  <2>7. ASSUME Expire \/ UNCHANGED allVars PROVE UNCHANGED userRev
    BY <2>7 DEF Expire, allVars, vars, dbVars
  <2>8. UNCHANGED userRev
    BY <1>4, <2>1, <2>2, <2>3, <2>4, <2>5, <2>6, <2>7 DEF SystemNext
  <2> QED
    BY <1>2, <2>8
<1> QED
  BY <1>3, <1>4

\* A system apply at work keeps what it noted when it began.
LEMMA SystemStays ==
  ASSUME SystemBase, [SystemNext]_allVars, NEW s \in Systems, sys'[s] = "run"
  PROVE  \/ sys[s] = "run" /\ userRev0'[s] = userRev0[s]
         \/ sys[s] = "idle" /\ userRev0'[s] = userRev /\ Calm /\ UNCHANGED node
<1>1. /\ sys \in [Systems -> {"idle", "run", "done"}]
      /\ userRev0 \in [Systems -> [Users -> Nat]]
  BY DEF SystemBase, NodeTypeOK
<1>2. ASSUME NEW t \in Systems, StartSystem(t), Calm, UNCHANGED node
      PROVE  \/ sys[s] = "run" /\ userRev0'[s] = userRev0[s]
             \/ sys[s] = "idle" /\ userRev0'[s] = userRev /\ Calm /\ UNCHANGED node
  BY <1>1, <1>2 DEF StartSystem
<1>3. ASSUME NEW t \in Systems, EndSystem(t)
      PROVE  sys[s] = "run" /\ userRev0'[s] = userRev0[s]
  BY <1>1, <1>3 DEF EndSystem
<1>4. CASE UNCHANGED <<sys, userRev0>>
  BY <1>4
<1> QED
  BY <1>2, <1>3, <1>4, Shapes DEF sysVars

LEMMA NextBooks ==
  ASSUME SystemBase, Told, Fresh, Own, Since, [SystemNext]_allVars
  PROVE  Told' /\ Fresh' /\ Own' /\ Since'
<1>1. TypeOK /\ NodeTypeOK
  BY DEF SystemBase, Base
<1>2. Since'
  <2> SUFFICES ASSUME NEW s \in Systems, sys'[s] = "run", NEW u \in Users
               PROVE  userRev'[u] >= userRev0'[s][u]
    BY DEF Since
  <2>1. userRev0[s][u] \in Nat
    BY <1>1 DEF NodeTypeOK
  <2> QED
    BY <2>1, UsersGrow, SystemStays DEF Since
<1>3. CASE Calm
  <2>1. Told' /\ Fresh'
    BY <1>3 DEF Calm, callVars, Told, Fresh
  <2>2. \A s \in Systems: sys[s] # "idle" => sys'[s] # "idle"
    <3>1. CASE UNCHANGED sys
      BY <3>1
    <3>2. ASSUME NEW t \in Systems, StartSystem(t) \/ EndSystem(t)
          PROVE  \A s \in Systems: sys[s] # "idle" => sys'[s] # "idle"
      BY <1>1, <3>2 DEF StartSystem, EndSystem, NodeTypeOK
    <3> QED
      BY <3>1, <3>2, Shapes DEF sysVars
  <2>3. Own'
    BY <1>3, <2>2 DEF Calm, callVars, Own
  <2> QED
    BY <1>2, <2>1, <2>3
<1>4. ASSUME UNCHANGED <<callVars, sysVars>>
      PROVE  Told' /\ Fresh' /\ Own'
  BY <1>4 DEF callVars, sysVars, Told, Fresh, Own
<1>5. ASSUME NEW a \in Applies, Step(a) \/ Build(a) \/ Push(a) \/ Answer(a), UNCHANGED sysVars
      PROVE  Told' /\ Fresh' /\ Own'
  <2>1. /\ Settled(a) /\ UNCHANGED target /\ pc[a] # "idle" /\ pc'[a] # "idle"
        /\ OnlyCall(a) /\ \A b \in Applies \ {a}: outcome'[b] = outcome[b]
    BY <1>5, ActorGoes
  <2>2. pc[a] # "done"
    BY <1>1, <1>5, StepMoves DEF Build, Push, Answer, Working
  <2>3. Told'
    BY <2>1, <2>2 DEF Told, OnlyCall, Settled
  <2>4. Fresh'
    BY <2>1 DEF Fresh, OnlyCall
  <2>5. \A b \in Applies: pc'[b] # "idle" => pc[b] # "idle"
    BY <2>1 DEF OnlyCall
  <2>6. Own'
    BY <1>5, <2>1, <2>5, CallType DEF Own, sysVars
  <2> QED
    BY <2>3, <2>4, <2>6
<1>6. ASSUME NEW a \in Applies, NEW p \in Proxies, Dispatch(a, p), UNCHANGED sys,
             a \notin SystemCalls \/ \E s \in Systems: sys[s] = "run" /\ a = Call(s, p)
      PROVE  Told' /\ Fresh' /\ Own'
  <2>1. /\ OnlyCall(a) /\ UNCHANGED <<eng, loaded, result, outcome, deployed>>
        /\ pc[a] = "idle" /\ target'[a] = p /\ pc'[a] \in {"lock", "build"}
    BY <1>6, ActorStarts
  <2>2. Told' /\ Fresh'
    BY <2>1 DEF Told, Fresh, OnlyCall
  <2>3. ASSUME NEW t \in Systems, NEW q \in Proxies, pc'[Call(t, q)] # "idle"
        PROVE  target'[Call(t, q)] = q /\ sys'[t] # "idle"
    <3>1. CASE Call(t, q) = a
      <4>1. PICK s \in Systems: sys[s] = "run" /\ a = Call(s, p)
        BY <1>6, <3>1, CallType
      <4>2. t = s /\ q = p
        BY <3>1, <4>1, CallsDiffer
      <4> QED
        BY <1>6, <2>1, <3>1, <4>1, <4>2
    <3>2. CASE Call(t, q) # a
      BY <1>6, <2>1, <2>3, <3>2, CallType DEF OnlyCall, Own
    <3> QED
      BY <3>1, <3>2
  <2> QED
    BY <2>2, <2>3 DEF Own
<1> QED
  BY <1>2, <1>3, <1>4, <1>5, <1>6, Shapes

-----------------------------------------------------------------------------
(***************************************************************************)
(* A call of a system apply carries users at least as new as when the      *)
(* system apply began.                                                     *)
(***************************************************************************)
\* A step of a local call.
LEMMA StepBears ==
  ASSUME Base, NEW c \in Applies, NEW r, Bears(c, r), Step(c), post[c].state = "none",
         UNCHANGED post, \A u \in Users: userRev[u] >= r[u]
  PROVE  Bears(c, r)'
<1>1. TypeOK /\ pc'[c] \in Working \cup {"done", "crashed"} /\ eng[c] \in Engines
  BY StepMoves DEF Base, TypeOK
<1>2. pc'[c] \notin {"push", "build"}
  BY <1>1 DEF Working
<1>3. SUFFICES /\ pc'[c] = "deploy" => \A u \in Users: loaded'[c][eng'[c]].user[u] >= r[u]
               /\ \A e \in Engines: result'[c][e] = "SUCCEEDED" =>
                    \A u \in Users: loaded'[c][e].user[u] >= r[u]
  BY <1>2 DEF Bears
<1>4. CASE Lock(c)
  BY <1>1, <1>4, LockEffect DEF Bears, Cleared, Working
<1>5. CASE Load(c)
  <2> DEFINE e == eng[c]
  <2>1. result[c][e] = "none"
    <3>1. pc[c] # "commit" /\ e >= eng[c]
      BY <1>1, <1>5 DEF Load
    <3> QED
      BY <1>1, <3>1 DEF Base, Ahead
  <2>2. /\ \A d \in Engines \ {e}: loaded'[c][d] = loaded[c][d] /\ result'[c][d] = result[c][d]
        /\ \/ /\ pc'[c] = "deploy" /\ eng'[c] = e /\ result'[c] = result[c]
              /\ loaded'[c][e] = Desired(e, target[c])
           \/ /\ Advanced(c) /\ loaded'[c] = loaded[c]
              /\ result'[c][e] = "FAILED"
    BY <1>1, <1>5, LoadEffect
  <2>3. Desired(e, target[c]).user = userRev
    BY DEF Desired
  <2> QED
    BY <2>1, <2>2, <2>3 DEF Bears, Advanced
<1>6. CASE Deploy(c)
  <2>1. /\ pc[c] = "deploy" /\ Advanced(c) /\ UNCHANGED loaded
        /\ \A e \in Engines \ {eng[c]}: result'[c][e] = result[c][e]
    BY <1>1, <1>6, DeployEffect
  <2> QED
    BY <2>1 DEF Bears, Advanced
<1>7. CASE Commit(c) \/ Crash(c)
  BY <1>1, <1>7, CommitEffect, CrashEffect DEF Cleared, Working
<1> QED
  BY <1>4, <1>5, <1>6, <1>7 DEF Step

LEMMA BuildBears ==
  ASSUME Base, NEW c \in Applies, NEW r, Bears(c, r), Build(c), post[c].state = "none",
         UNCHANGED post, \A u \in Users: userRev[u] >= r[u]
  PROVE  Bears(c, r)'
<1> DEFINE e == eng[c]
<1>1. /\ Pushed(c) /\ pc[c] = "build"
      /\ \/ /\ \A d \in Engines \ {e}: loaded'[c][d] = loaded[c][d]
            /\ loaded'[c][e] = Desired(e, target[c])
            /\ \/ pc'[c] = "build" /\ eng'[c] = e + 1
               \/ pc'[c] = "push" /\ eng'[c] = e /\ e = N
         \/ pc'[c] = "done"
  BY BuildEffect
<1>2. e \in Engines /\ N \in Nat \ {0}
  BY LocalApplyAssumption DEF Base, TypeOK
<1>3. \A u \in Users: Desired(e, target[c]).user[u] >= r[u]
  BY DEF Desired
<1>4. ASSUME NEW d \in Engines, pc'[c] = "push" \/ (pc'[c] = "build" /\ d < eng'[c])
      PROVE  \A u \in Users: loaded'[c][d].user[u] >= r[u]
  <2>1. d = e \/ d < e
    BY <1>1, <1>2, <1>4
  <2>2. CASE d = e
    BY <1>1, <1>3, <1>4, <2>2
  <2>3. CASE d < e
    <3>1. loaded'[c][d] = loaded[c][d]
      BY <1>1, <1>2, <1>4, <2>3
    <3> QED
      BY <1>1, <2>3, <3>1 DEF Bears
  <2> QED
    BY <2>1, <2>2, <2>3
<1>5. \A d \in Engines: result'[c][d] = "none"
  BY <1>1 DEF Pushed, Cleared
<1> QED
  BY <1>1, <1>4, <1>5 DEF Bears

LEMMA NextCarried ==
  ASSUME SystemBase, Fresh, [SystemNext]_allVars, NEW c \in Applies, NEW r,
         Bears(c, r), \A u \in Users: userRev[u] >= r[u]
  PROVE  Bears(c, r)'
<1>1. Base /\ TypeOK /\ NodeTypeOK
  BY DEF SystemBase, Base
<1>2. \A b \in Applies \ {c}: OnlyCall(b) =>
        /\ pc'[c] = pc[c] /\ eng'[c] = eng[c] /\ loaded'[c] = loaded[c] /\ result'[c] = result[c]
  BY DEF OnlyCall
<1>3. CASE Calm
  BY <1>3 DEF Calm, callVars, Bears
<1>4. ASSUME NEW a \in Applies, Handle(a), UNCHANGED <<callVars, sysVars>>
      PROVE  Bears(c, r)'
  <2>1. post[c].state = "none" => post'[c] = post[c]
    BY <1>1, <1>4 DEF Handle, NodeTypeOK
  <2>2. post[c].state # "none" => post'[c].body = post[c].body
    BY PostsStay
  <2> QED
    BY <1>4, <2>1, <2>2 DEF callVars, Bears
<1>5. ASSUME NEW a \in Applies, Step(a) \/ Build(a) \/ Answer(a), UNCHANGED <<node, post, sysVars>>
      PROVE  Bears(c, r)'
  <2>1. CASE a # c
    <3>1. OnlyCall(a)
      BY <1>5, ActorGoes
    <3> QED
      BY <1>2, <1>5, <2>1, <3>1 DEF Bears
  <2>2. CASE a = c /\ Step(c)
    BY <1>1, <1>5, <2>2, StepBears, StepMoves, Unposted DEF Working
  <2>3. CASE a = c /\ Build(c)
    BY <1>1, <1>5, <2>3, BuildBears, Unposted DEF Build
  <2>4. CASE a = c /\ Answer(c)
    BY <1>1, <1>5, <2>4, AnswerEffect DEF Pushed, Cleared, Bears
  <2> QED
    BY <1>5, <2>1, <2>2, <2>3, <2>4
<1>6. ASSUME NEW a \in Applies, Push(a), UNCHANGED <<node, sysVars>>
      PROVE  Bears(c, r)'
  <2>1. /\ Pushed(a) /\ pc[a] = "push" /\ pc'[a] = "wait"
        /\ post' = [post EXCEPT ![a] = [state |-> "handled", body |-> loaded[a], at |-> 1, ok |-> TRUE]]
    BY <1>1, <1>6, PushEffect
  <2>2. CASE a # c
    <3>1. post'[c] = post[c]
      BY <1>1, <2>1, <2>2 DEF NodeTypeOK
    <3> QED
      BY <1>2, <2>1, <2>2, <3>1 DEF Pushed, Bears
  <2>3. CASE a = c
    <3>1. post'[c].body = loaded[c]
      BY <1>1, <2>1, <2>3 DEF NodeTypeOK
    <3> QED
      BY <2>1, <2>3, <3>1 DEF Pushed, Cleared, Bears
  <2> QED
    BY <2>2, <2>3
<1>7. ASSUME NEW a \in Applies, NEW q \in Proxies, Dispatch(a, q), UNCHANGED post
      PROVE  Bears(c, r)'
  <2>1. /\ OnlyCall(a) /\ UNCHANGED <<eng, loaded, result>>
        /\ pc[a] = "idle" /\ pc'[a] \in {"lock", "build"}
    BY <1>7, ActorStarts
  <2>2. CASE a # c
    BY <1>2, <1>7, <2>1, <2>2 DEF Bears
  <2>3. CASE a = c
    <3>1. eng'[c] = 1
      BY <2>1, <2>3 DEF Fresh
    <3>2. \A e \in Engines: ~(e < 1)
      OBVIOUS
    <3> QED
      BY <1>7, <2>1, <2>3, <3>1, <3>2 DEF Bears
  <2> QED
    BY <2>2, <2>3
<1> QED
  BY <1>3, <1>4, <1>5, <1>6, <1>7, Shapes

-----------------------------------------------------------------------------
(***************************************************************************)
(* What has come of it stays: on the panel the cores go forward, on the    *)
(* node only the push of another call can come after it.                   *)
(***************************************************************************)
\* A call becomes SUCCEEDED in two ways.
LEMMA Succeeds ==
  ASSUME SystemBase, Told, [SystemNext]_allVars, NEW c \in Applies,
         outcome[c] # "SUCCEEDED", outcome'[c] = "SUCCEEDED"
  PROVE  \/ /\ Step(c) /\ UNCHANGED post
            /\ \A e \in Engines: result[c][e] = "SUCCEEDED" /\ deployed'[e] = deployed[e]
         \/ Answer(c) /\ post[c].state = "answered" /\ post[c].ok /\ UNCHANGED post
<1>1. Base /\ TypeOK
  BY DEF SystemBase, Base
<1>2. CASE Calm \/ UNCHANGED callVars
  BY <1>2 DEF Calm, callVars
<1>3. ASSUME NEW a \in Applies, NEW p \in Proxies, Dispatch(a, p)
      PROVE  UNCHANGED outcome
  BY <1>3, ActorStarts
<1>4. ASSUME NEW a \in Applies, Step(a) \/ Build(a) \/ Push(a) \/ Answer(a), UNCHANGED sysVars
      PROVE  a = c /\ pc[c] # "done" /\ outcome[c] = "none" /\ pc'[c] = "done"
  <2>1. /\ Settled(a) /\ \A b \in Applies \ {a}: outcome'[b] = outcome[b]
    BY <1>4, ActorGoes
  <2>2. a = c /\ pc'[c] = "done"
    BY <2>1 DEF Settled
  <2>3. pc[a] # "done"
    BY <1>1, <1>4, StepMoves DEF Build, Push, Answer, Working
  <2> QED
    BY <2>2, <2>3 DEF Told
<1>5. ASSUME NEW a \in Applies, Push(a) PROVE UNCHANGED outcome
  BY <1>5 DEF Push
<1>6. ASSUME Step(c)
      PROVE  \A e \in Engines: result[c][e] = "SUCCEEDED" /\ deployed'[e] = deployed[e]
  <2>1. pc'[c] = "done" => \A e \in Engines: result[c][e] = "SUCCEEDED" /\ deployed'[e] = deployed[e]
    BY <1>1, <1>6, StepOutcome
  <2>2. pc'[c] = "done" \/ outcome'[c] = outcome[c]
    BY <1>1, <1>6, StepOutcome DEF Settled
  <2> QED
    BY <1>6, <2>1, <2>2
<1>7. ASSUME Build(c), UNCHANGED sysVars PROVE FALSE
  <2>1. \/ UNCHANGED outcome
        \/ pc'[c] = "done" /\ outcome'[c] = "FAILED"
    BY <1>1, <1>7, BuildEffect
  <2> QED
    BY <2>1
<1>8. ASSUME Answer(c)
      PROVE  post[c].state = "answered" /\ post[c].ok /\ UNCHANGED post
  BY <1>1, <1>8, AnswerEffect DEF nodeVars
<1> QED
  BY <1>2, <1>3, <1>4, <1>5, <1>6, <1>7, <1>8, Shapes

LEMMA NextHere ==
  ASSUME SystemBase, Monotone, Told, [SystemNext]_allVars,
         NEW c \in Applies, NEW r \in [Users -> Nat], Bears(c, r), Here(c, r)
  PROVE  Here(c, r)'
<1> SUFFICES ASSUME outcome'[c] = "SUCCEEDED", post'[c].state = "none",
                    NEW e \in Engines, NEW u \in Users
             PROVE  deployed'[e].user[u] >= r[u]
  BY DEF Here
<1>1. Base /\ Base' /\ TypeOK /\ TypeOK'
  BY BaseNext DEF SystemBase, Base
<1>2. post[c].state = "none"
  BY PostsStay
<1>3. CASE outcome[c] = "SUCCEEDED"
  <2>1. deployed[e].user[u] >= r[u] /\ deployed'[e].user[u] >= deployed[e].user[u]
    BY <1>2, <1>3, NextForward DEF Here, NoneBack
  <2>2. deployed[e].user[u] \in Nat /\ deployed'[e].user[u] \in Nat /\ r[u] \in Nat
    <3>1. deployed[e] \in States /\ deployed'[e] \in States
      BY <1>1 DEF TypeOK
    <3> QED
      BY <3>1 DEF States
  <2> QED
    BY <2>1, <2>2
<1>4. CASE outcome[c] # "SUCCEEDED"
  <2>1. result[c][e] = "SUCCEEDED" /\ deployed'[e] = deployed[e]
    BY <1>2, <1>4, Succeeds
  <2>2. deployed[e] = loaded[c][e]
    BY <1>1, <2>1 DEF Base, Placed
  <2> QED
    BY <2>1, <2>2 DEF Bears
<1> QED
  BY <1>3, <1>4

LEMMA NextAnswered ==
  ASSUME SystemBase, Told, [SystemNext]_allVars, NEW c \in Applies, Answered(c)
  PROVE  Answered(c)'
<1> SUFFICES ASSUME outcome'[c] = "SUCCEEDED", post'[c].state # "none"
             PROVE  post'[c].state = "answered" /\ post'[c].ok
  BY DEF Answered
<1>1. Base /\ TypeOK /\ NodeTypeOK
  BY DEF SystemBase, Base
<1>2. CASE outcome[c] = "SUCCEEDED"
  <2>1. pc[c] = "done" /\ (post[c].state # "none" => post[c].state = "answered" /\ post[c].ok)
    BY <1>2 DEF Answered, Told
  <2>2. ASSUME NEW a \in Applies, Handle(a) \/ Push(a) PROVE post'[c] = post[c]
    <3>1. a # c
      BY <2>1, <2>2 DEF Handle, Push
    <3> QED
      BY <1>1, <2>2, <3>1 DEF Handle, Push, NodeTypeOK
  <2>3. post'[c] = post[c]
    BY <2>2, Shapes DEF Calm
  <2> QED
    BY <2>1, <2>3
<1>3. CASE outcome[c] # "SUCCEEDED"
  <2>1. ~(Step(c) /\ UNCHANGED post)
    BY <1>1, StepMoves, Unposted DEF Working
  <2> QED
    BY <1>3, <2>1, Succeeds
<1> QED
  BY <1>2, <1>3

\* Once overtaken, it stays so.
LEMMA OvertakenStays ==
  ASSUME SystemBase, [SystemNext]_allVars, NEW c \in Applies, post[c].state # "none",
         NEW e \in Engines, NEW u \in Users, NEW rev, Overtaken(c, e, u, rev)
  PROVE  Overtaken(c, e, u, rev)'
<1>1. PICK a \in Applies \ {c}: /\ target[a] = target[c] /\ post[a].state # "none"
                                /\ post[a].body[e].user[u] < rev
  BY DEF Overtaken
<1>2. /\ target'[a] = target'[c] /\ post'[a].state # "none"
      /\ post'[a].body[e].user[u] < rev
  BY <1>1, PostsStay
<1> QED
  BY <1>2 DEF Overtaken

LEMMA NextThere ==
  ASSUME SystemBase, [SystemNext]_allVars, NEW c \in Applies, NEW p \in Proxies,
         pc[c] # "idle" => target[c] = p,
         NEW r \in [Users -> Nat], Bears(c, r), There(c, p, r)
  PROVE  There(c, p, r)'
<1>1. Base /\ TypeOK /\ NodeTypeOK
  BY DEF SystemBase, Base
<1>2. CASE post[c].state = "none"
  <2>1. ASSUME NEW a \in Applies, Handle(a) PROVE post'[c] = post[c]
    BY <1>1, <1>2, <2>1 DEF Handle, NodeTypeOK
  <2>2. ASSUME NEW a \in Applies, Push(a)
        PROVE  post'[c] = post[c] \/ (post'[c].state = "handled" /\ post'[c].at = 1)
    BY <1>1, <2>2 DEF Push, NodeTypeOK
  <2>3. post'[c] = post[c] \/ (post'[c].state = "handled" /\ post'[c].at = 1)
    BY <2>1, <2>2, Shapes DEF Calm
  <2>4. \A e \in Engines: ~(e < 1)
    OBVIOUS
  <2> QED
    BY <1>2, <2>3, <2>4 DEF There
<1>3. CASE post[c].state # "none"
  <2>1. target[c] = p
    BY <1>3 DEF SystemBase, Directed
  <2>2. \A e \in Engines, u \in Users: Overtaken(c, e, u, r[u]) => Overtaken(c, e, u, r[u])'
    BY <1>3, OvertakenStays
  <2>3. ASSUME UNCHANGED node, post'[c] = post[c] PROVE There(c, p, r)'
    BY <2>2, <2>3 DEF There
  <2>4. ASSUME NEW a \in Applies, Push(a), UNCHANGED <<node, sysVars>>
        PROVE  There(c, p, r)'
    <3>1. a # c
      BY <1>3, <2>4, Unposted DEF Push
    <3>2. post'[c] = post[c]
      BY <1>1, <2>4, <3>1 DEF Push, NodeTypeOK
    <3> QED
      BY <2>3, <2>4, <3>2
  <2>5. ASSUME NEW a \in Applies \ {c}, Handle(a)
        PROVE  There(c, p, r)'
    <3> DEFINE f == post[a].at
    <3>1. post'[c] = post[c] /\ post[a].state # "none" /\ f \in Engines
      BY <1>1, <2>5 DEF Handle, NodeTypeOK, Posts
    <3>2. \/ node' = [node EXCEPT ![target[a]][f] = post[a].body[f]]
          \/ UNCHANGED node
      BY <2>5 DEF Handle
    <3>3. ASSUME NEW e \in Engines, NEW u \in Users, node'[p][e] # node[p][e]
          PROVE  node'[p][e].user[u] >= r[u] \/ Overtaken(c, e, u, r[u])'
      <4>1. target[a] = p /\ e = f /\ node'[p][e] = post[a].body[e]
        <5>1. node \in [Proxies -> [Engines -> States]] /\ target[a] \in Proxies
          BY <1>1 DEF NodeTypeOK, TypeOK
        <5>2. PICK q \in Proxies, g \in Engines, new \in States:
                q = target[a] /\ g = f /\ new = post[a].body[f]
          BY <1>1, <3>1, <5>1 DEF NodeTypeOK, Posts
        <5>3. node' = [node EXCEPT ![q][g] = new]
          BY <3>2, <3>3, <5>2
        <5>4. q = p /\ e = g /\ node'[p][e] = new
          BY <3>3, <5>1, <5>3
        <5> QED
          BY <5>2, <5>4
      <4>2. post[a].body[e].user[u] \in Nat /\ r[u] \in Nat
        <5>1. post[a] \in Posts
          BY <1>1 DEF NodeTypeOK
        <5>2. post[a].body \in [Engines -> States]
          BY <5>1 DEF Posts
        <5>3. post[a].body[e] \in States
          BY <5>2
        <5> QED
          BY <5>3 DEF States
      <4>3. CASE post[a].body[e].user[u] >= r[u]
        BY <4>1, <4>3
      <4>4. CASE post[a].body[e].user[u] < r[u]
        <5>1. Overtaken(c, e, u, r[u])
          BY <2>1, <3>1, <4>1, <4>4 DEF Overtaken
        <5> QED
          BY <2>2, <5>1
      <4> QED
        BY <4>2, <4>3, <4>4
    <3> QED
      BY <2>2, <3>1, <3>3 DEF There
  <2>6. CASE Handle(c)
    <3> DEFINE f == post[c].at
    <3>1. f \in Engines /\ N \in Nat \ {0} /\ post[c].ok \in BOOLEAN
      BY <1>1, LocalApplyAssumption DEF NodeTypeOK, Posts
    <3>2. PICK ok \in BOOLEAN:
            /\ \/ node' = [node EXCEPT ![target[c]][f] = post[c].body[f]]
               \/ ~ok /\ UNCHANGED node
            /\ post'[c].state = IF f < N THEN "handled" ELSE "answered"
            /\ post'[c].at = IF f < N THEN f + 1 ELSE f
            /\ post'[c].ok = (post[c].ok /\ ok)
      BY <1>1, <2>6 DEF Handle, NodeTypeOK
    <3> SUFFICES ASSUME post'[c].ok, NEW e \in Engines, NEW u \in Users,
                        e < post'[c].at \/ post'[c].state = "answered"
                 PROVE  node'[p][e].user[u] >= r[u] \/ Overtaken(c, e, u, r[u])'
      BY DEF There
    <3>3. ok /\ post[c].ok /\ node' = [node EXCEPT ![p][f] = post[c].body[f]]
      BY <2>1, <3>1, <3>2
    <3>4. e < f \/ e = f
      BY <3>1, <3>2
    <3>5. CASE e = f
      <4>1. node'[p][e] = post[c].body[e]
        BY <1>1, <3>1, <3>3, <3>5 DEF NodeTypeOK
      <4>2. post[c].body[e].user[u] >= r[u]
        BY <1>3 DEF Bears
      <4> QED
        BY <4>1, <4>2
    <3>6. CASE e < f /\ e # f
      <4>1. node'[p][e] = node[p][e]
        BY <1>1, <3>3, <3>6 DEF NodeTypeOK
      <4>2. node[p][e].user[u] >= r[u] \/ Overtaken(c, e, u, r[u])
        BY <1>3, <3>3, <3>6 DEF There
      <4> QED
        BY <2>2, <4>1, <4>2
    <3> QED
      BY <3>1, <3>4, <3>5, <3>6
  <2> QED
    BY <2>3, <2>4, <2>5, <2>6, Shapes DEF Calm
<1> QED
  BY <1>2, <1>3
-----------------------------------------------------------------------------
(***************************************************************************)
(* All of it together, for a system apply at work or one that begins.      *)
(***************************************************************************)
LEMMA NextHeld ==
  ASSUME SystemBase, Monotone, ReachInv, [SystemNext]_allVars,
         NEW s \in Systems, NEW p \in Proxies, sys[s] = "run", userRev0'[s] = userRev0[s]
  PROVE  Held(Call(s, p), p, userRev0[s])'
<1>1. Told /\ Fresh /\ Own /\ Since /\ Held(Call(s, p), p, userRev0[s])
  BY DEF ReachInv, Reached
<1>2. PICK c \in Applies, r \in [Users -> Nat]: c = Call(s, p) /\ r = userRev0[s]
  BY CallType DEF SystemBase, NodeTypeOK
<1>3. /\ pc[c] # "idle" => target[c] = p
      /\ \A u \in Users: userRev[u] >= r[u]
      /\ Held(c, p, r)
  BY <1>1, <1>2 DEF Own, Since
<1>4. Bears(c, r)'
  BY <1>1, <1>3, NextCarried DEF Held
<1>5. Here(c, r)'
  BY <1>1, <1>3, NextHere DEF Held
<1>6. Answered(c)'
  BY <1>1, <1>3, NextAnswered DEF Held
<1>7. There(c, p, r)'
  BY <1>3, NextThere DEF Held
<1>8. Held(c, p, r)'
  BY <1>4, <1>5, <1>6, <1>7 DEF Held
<1>9. userRev0'[s] = r /\ c = Call(s, p)
  BY <1>2
<1> QED
  BY <1>8, <1>9

LEMMA BeginHeld ==
  ASSUME SystemBase, Told, Own, Calm, NEW s \in Systems, NEW p \in Proxies, sys[s] = "idle"
  PROVE  Held(Call(s, p), p, userRev0[s])'
<1> DEFINE c == Call(s, p)
<1>1. c \in Applies /\ pc[c] = "idle"
  BY CallType DEF Own
<1>2. /\ outcome[c] = "none" /\ post[c].state = "none"
      /\ \A e \in Engines: result[c][e] = "none"
  BY <1>1, Unposted DEF Told, SystemBase, Base, Blank, Working
<1> QED
  BY <1>1, <1>2 DEF Calm, callVars, Held, Bears, Here, Answered, There

LEMMA NextReach ==
  ASSUME SystemBase, Monotone, ReachInv, [SystemNext]_allVars
  PROVE  ReachInv'
<1>1. Told' /\ Fresh' /\ Own' /\ Since'
  BY NextBooks DEF ReachInv
<1>2. ASSUME NEW s \in Systems, NEW p \in Proxies, sys'[s] = "run"
      PROVE  Held(Call(s, p), p, userRev0[s])'
  <2>1. CASE sys[s] = "run" /\ userRev0'[s] = userRev0[s]
    BY <2>1, NextHeld
  <2>2. CASE sys[s] = "idle" /\ Calm
    BY <2>2, BeginHeld DEF ReachInv
  <2> QED
    BY <1>2, <2>1, <2>2, SystemStays
<1> QED
  BY <1>1, <1>2 DEF ReachInv, Reached

-----------------------------------------------------------------------------
(***************************************************************************)
(* The step that clears the users.                                         *)
(***************************************************************************)
SystemClears ==
  \A s \in Systems, u \in Users:
    sys[s] = "run" /\ sys'[s] = "done" /\ userDirty[u] /\ ~userDirty'[u]
      => \A p \in Proxies, e \in Engines:
           LET c == Call(s, p) IN
           pc[c] # "idle" =>
             IF post[c].state = "none"
               THEN deployed[e].user[u] >= userRev0[s][u]
               ELSE \/ node[p][e].user[u] >= userRev0[s][u]
                    \/ Overtaken(c, e, u, userRev0[s][u])

LEMMA ClearsReach ==
  ASSUME SystemBase, ReachInv, [SystemNext]_allVars
  PROVE  SystemClears
<1> SUFFICES ASSUME NEW s \in Systems, NEW u \in Users, sys[s] = "run", sys'[s] = "done",
                    userDirty[u], ~userDirty'[u],
                    NEW p \in Proxies, NEW e \in Engines, NEW c, c = Call(s, p), pc[c] # "idle"
             PROVE  IF post[c].state = "none"
                      THEN deployed[e].user[u] >= userRev0[s][u]
                      ELSE \/ node[p][e].user[u] >= userRev0[s][u]
                           \/ Overtaken(c, e, u, userRev0[s][u])
  BY DEF SystemClears
<1>1. c \in Applies /\ Told /\ Held(c, p, userRev0[s])
  BY CallType DEF ReachInv, Reached
<1>2. EndSystem(s)
  <2>1. sys \in [Systems -> {"idle", "run", "done"}]
    BY DEF SystemBase, NodeTypeOK
  <2>2. ASSUME NEW t \in Systems, StartSystem(t) PROVE FALSE
    BY <2>1, <2>2 DEF StartSystem
  <2>3. ASSUME NEW t \in Systems, EndSystem(t) PROVE t = s
    BY <2>1, <2>3 DEF EndSystem
  <2> QED
    BY <2>2, <2>3, Shapes DEF sysVars
<1>3. outcome[c] = "SUCCEEDED"
  <2>1. pc[c] = "done" /\ AllSucceeded(s)
    BY <1>2 DEF EndSystem, Idle, SystemBase, Base, TypeOK
  <2> QED
    BY <1>1, <2>1 DEF AllSucceeded, Told
<1> QED
  BY <1>1, <1>3 DEF Held, Here, Answered, There

(***************************************************************************)
(* When a system apply clears a user that needed it, the cores that each   *)
(* of its applies went to run a revision of the user at least as new as    *)
(* when it began, or an older push of another call overtook it there.      *)
(***************************************************************************)
THEOREM SystemAppliesReach == SystemSpec => SystemReaches
<1>1. SystemInit => Monotone
  BY InitUser DEF SystemInit, UserInv
<1>2. ASSUME SystemBase, Monotone, [SystemNext]_allVars PROVE Monotone'
  BY <1>2, NextForward
<1>3. ASSUME SystemBase, Monotone, ReachInv, [SystemNext]_allVars PROVE ReachInv'
  BY <1>3, NextReach
<1>4. ASSUME SystemBase, ReachInv, [SystemNext]_allVars PROVE SystemClears
  BY <1>4, ClearsReach
<1>5. SystemSpec => [][SystemClears]_allVars
  BY <1>1, <1>2, <1>3, <1>4, InitReach, SystemBaseHolds, PTL DEF SystemSpec
<1> QED
  BY <1>5 DEF SystemReaches, SystemClears
=============================================================================
