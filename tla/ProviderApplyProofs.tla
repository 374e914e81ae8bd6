------------------------- MODULE ProviderApplyProofs -------------------------
(***************************************************************************)
(* Safety of ProviderApply, for any number of calls and of configurations. *)
(*                                                                         *)
(* What a call reports is true because an acknowledgement with its id      *)
(* cannot be older than its request: ids are not used twice (Fresh), and   *)
(* no other call changes the configuration in between (Alone, Held).  So   *)
(* the core that has reloaded for this id reads what the call wrote.       *)
(*                                                                         *)
(* And of SupervisedApply, for the engines that run under a supervisor,    *)
(* and of DistLock, for the lock under which the panel applies.            *)
(***************************************************************************)
EXTENDS ProviderApply, SupervisedApply, DistLockFaults, TLAPS

ApplyTypeOK ==
  /\ config \in Configs /\ lkg \in Configs /\ running \in Configs
  /\ request \in Requests \cup {Nothing}
  /\ handling \in Requests \cup {Nothing}
  /\ ack \in Acks \cup {Nothing}
  /\ phase \in {"clean", "start", "loop"}
  /\ child \in {"up", "down"}
  /\ loaded \in BOOLEAN
  /\ lastId \in Ids \cup {Nothing}
  /\ outages \in Nat
  /\ step \in [Applies -> {"idle"} \cup Steps \cup Done]
  /\ desired \in [Applies -> Configs]
  /\ previous \in [Applies -> Configs]
  /\ outcome \in [Applies -> Outcomes]
  /\ notice \in {"due", "given"}

\* One call at a time.
Alone == \A a, b \in Applies: step[a] \in Steps /\ step[b] \in Steps => a = b

\* Until the entrypoint starts the core, it is down and no request is handled.
Down == phase # "loop" => child = "down" /\ handling = Nothing

\* What the file holds while a call waits for the core.
Held ==
  \A a \in Applies:
    /\ step[a] \in {"request", "await", "verify"} => config = desired[a]
    /\ step[a] \in {"rerequest", "reawait", "reverify"} => config = previous[a]

\* Nobody has seen this id yet.
Unseen(id) ==
  /\ request # Nothing => request.id # id
  /\ handling # Nothing => handling.id # id
  /\ ack # Nothing => ack.id # id
  /\ lastId # id

Fresh ==
  \A a \in Applies:
    /\ step[a] \in {"idle", "save", "replace", "request"} => Unseen(ApplyId(a))
    /\ step[a] \in {"idle", "save", "replace", "request", "await", "verify",
                    "restore", "rerequest"} => Unseen(RollbackId(a))

\* A core that is alive runs with the file.
InSync == child = "up" => running = config

\* The core has reloaded for the request with this id, or has said so.
ReloadedFor(id) ==
  \/ handling # Nothing /\ handling.id = id /\ loaded
  \/ Answered(id, TRUE)

Truthful ==
  \A a \in Applies:
    /\ step[a] = "await" /\ ReloadedFor(ApplyId(a)) => InSync
    /\ step[a] = "reawait" /\ ReloadedFor(RollbackId(a)) => InSync
    /\ step[a] \in {"verify", "reverify"} => InSync

IInv == ApplyTypeOK /\ Alone /\ Down /\ Held /\ Fresh /\ Truthful

\* A core that is alive with another configuration than the file's will be told, if
\* anybody asked for it.
Told ==
  \/ notice = "due"
  \/ handling # Nothing /\ ~loaded
  \/ /\ request # Nothing
     /\ request.id # lastId
     /\ handling # Nothing => handling.id # request.id

Pending == InSync \/ Told

\* A file that holds a configuration nobody has verified yet belongs to a call.
Verified ==
  /\ lkg \in Good
  /\ \A a \in Applies: previous[a] \in Good
  /\ config \in Good \/ \E a \in Applies: step[a] \in {"request", "await", "verify", "restore"}
  /\ child = "up" => running \in Good

-----------------------------------------------------------------------------
\* The ids of different requests differ.
LEMMA IdsDiffer ==
  ASSUME NEW a \in Applies, NEW b \in Applies
  PROVE  /\ ApplyId(a) \in Ids /\ RollbackId(a) \in Ids
         /\ ApplyId(a) # RollbackId(b)
         /\ ApplyId(a) = ApplyId(b) => a = b
         /\ RollbackId(a) = RollbackId(b) => a = b
BY DEF ApplyId, RollbackId, Ids

\* What a core reads when it starts is the file.
LEMMA StartCoreReads ==
  ASSUME StartCore
  PROVE  running' = config /\ child' \in {"up", "down"}
BY DEF StartCore

LEMMA SidecarTypes ==
  ASSUME ApplyTypeOK, Sidecar \/ Outage, UNCHANGED applyVars
  PROVE  ApplyTypeOK'
<1> USE DEF ApplyTypeOK, applyVars, fileVars
<1>1. CASE Clean
  BY <1>1 DEF Clean
<1>2. CASE Start
  BY <1>2, StartCoreReads DEF Start
<1>3. CASE PickUp
  BY <1>3 DEF PickUp
<1>4. CASE Reload
  BY <1>4, StartCoreReads DEF Reload
<1>5. CASE Acknowledge
  <2>1. handling \in Requests
    BY <1>5 DEF Acknowledge
  <2>2. ack' \in Acks /\ lastId' \in Ids
    BY <1>5, <2>1 DEF Acknowledge, Acks, Requests
  <2>3. running' \in Configs /\ child' \in {"up", "down"}
    BY <1>5, StartCoreReads DEF Acknowledge
  <2> QED
    BY <1>5, <2>2, <2>3 DEF Acknowledge
<1>6. CASE DieLate
  BY <1>6 DEF DieLate
<1>7. CASE Exit
  BY <1>7 DEF Exit
<1>8. CASE Outage
  <2>1. outages' \in Nat
    BY <1>8 DEF Outage
  <2> QED
    BY <1>8, <2>1 DEF Outage
<1> QED
  BY <1>1, <1>2, <1>3, <1>4, <1>5, <1>6, <1>7, <1>8 DEF Sidecar

\* What a call does keeps the types.
LEMMA CallTypes ==
  ASSUME ApplyTypeOK, NEW a \in Applies, Apply(a) \/ Rollback(a) \/ ApiDies(a)
  PROVE  ApplyTypeOK'
<1> USE DEF ApplyTypeOK, Goto, Return, Steps, Done, Outcomes
<1> USE DEF sidecarVars, fileVars, coreVars
<1>1. CASE Begin(a)
  BY <1>1 DEF Begin
<1>2. CASE Save(a)
  BY <1>2 DEF Save
<1>3. CASE Replace(a)
  BY <1>3 DEF Replace
<1>4. CASE Request(a)
  <2>1. [id |-> ApplyId(a), hash |-> desired[a]] \in Requests
    BY IdsDiffer DEF Requests
  <2> QED
    BY <1>4, <2>1 DEF Request
<1>5. CASE Await(a)
  BY <1>5 DEF Await
<1>6. CASE VerifyHealthy(a)
  BY <1>6 DEF VerifyHealthy
<1>7. CASE Restore(a)
  BY <1>7 DEF Restore
<1>8. CASE Rerequest(a)
  <2>1. [id |-> RollbackId(a), hash |-> previous[a]] \in Requests
    BY IdsDiffer DEF Requests
  <2> QED
    BY <1>8, <2>1 DEF Rerequest
<1>9. CASE Reawait(a)
  BY <1>9 DEF Reawait
<1>10. CASE Reverify(a)
  BY <1>10 DEF Reverify
<1>11. CASE ApiDies(a)
  BY <1>11 DEF ApiDies
<1> QED
  BY <1>1, <1>2, <1>3, <1>4, <1>5, <1>6, <1>7, <1>8, <1>9, <1>10, <1>11 DEF Apply, Rollback

-----------------------------------------------------------------------------
\* The sidecar invents no ids, and reloads before it acknowledges.
LEMMA SidecarKeeps ==
  ASSUME IInv, ApplyTypeOK', Sidecar \/ Outage, UNCHANGED applyVars
  PROVE  IInv'
<1> USE DEF IInv, ApplyTypeOK, applyVars, fileVars
<1>1. UNCHANGED <<config, step, desired, previous>>
  BY DEF Sidecar, Clean, Start, PickUp, Reload, Acknowledge, DieLate, Exit, Outage
<1>2. Alone' /\ Held'
  BY <1>1 DEF Alone, Held
<1>3. /\ request' \in {request, Nothing}
      /\ handling' \in {handling, request, Nothing}
      /\ ack' # Nothing => ack' = ack \/ (handling # Nothing /\ ack'.id = handling.id)
      /\ lastId' = Nothing \/ lastId' = lastId \/ (handling # Nothing /\ lastId' = handling.id)
  <2>1. CASE Acknowledge
    BY <2>1 DEF Acknowledge
  <2>2. CASE PickUp
    BY <2>2 DEF PickUp
  <2>3. CASE ~(Acknowledge \/ PickUp)
    BY <2>3 DEF Sidecar, Clean, Start, Reload, DieLate, Exit, Outage
  <2> QED
    BY <2>1, <2>2, <2>3
<1>4. ASSUME NEW id \in Ids, Unseen(id)
      PROVE  Unseen(id)'
  BY <1>3, <1>4, ApplyAssumption DEF Unseen
<1>5. Fresh'
  BY <1>1, <1>4, IdsDiffer DEF Fresh
<1>6. InSync \/ (loaded' /\ ~loaded) => InSync'
  BY <1>1, StartCoreReads
     DEF InSync, Sidecar, Clean, Start, PickUp, Reload, Acknowledge, DieLate, Exit, Outage
<1>7. ASSUME NEW id \in Ids, ReloadedFor(id)'
      PROVE  ReloadedFor(id) \/ (loaded' /\ ~loaded)
  <2>1. CASE Acknowledge
    BY <1>7, <2>1 DEF ReloadedFor, Answered, Acknowledge
  <2>2. CASE ~Acknowledge
    BY <1>7, <2>2 DEF ReloadedFor, Answered, Sidecar, Clean, Start, PickUp, Reload, DieLate,
       Exit, Outage
  <2> QED
    BY <2>1, <2>2
<1>8. Down'
  BY StartCoreReads
     DEF Down, Sidecar, Clean, Start, PickUp, Reload, Acknowledge, DieLate, Exit, Outage
<1>9. Truthful'
  <2> SUFFICES ASSUME NEW a \in Applies
               PROVE  /\ step[a] = "await" /\ ReloadedFor(ApplyId(a))' => InSync'
                      /\ step[a] = "reawait" /\ ReloadedFor(RollbackId(a))' => InSync'
                      /\ step[a] \in {"verify", "reverify"} => InSync'
    BY <1>1 DEF Truthful, ApplyId, RollbackId
  <2> QED
    BY <1>6, <1>7, IdsDiffer DEF Truthful
<1> QED
  BY <1>2, <1>5, <1>8, <1>9

\* While a call acts, the others have not begun or are over.
LEMMA OthersWait ==
  ASSUME IInv, NEW a \in Applies, Apply(a) \/ Rollback(a) \/ ApiDies(a),
         NEW b \in Applies, b # a
  PROVE  step'[b] = step[b] /\ step[b] \notin Steps
<1> USE DEF IInv, ApplyTypeOK, Goto, Return
<1>1. step'[b] = step[b]
  BY DEF Apply, Rollback, Begin, Save, Replace, Request, Await, VerifyHealthy,
         Restore, Rerequest, Reawait, Reverify, ApiDies
<1>2. CASE Begin(a)
  BY <1>2 DEF Begin, Steps, Done
<1>3. CASE ~Begin(a)
  <2>1. step[a] \in Steps
    BY <1>3 DEF Apply, Rollback, Save, Replace, Request, Await, VerifyHealthy,
                Restore, Rerequest, Reawait, Reverify, ApiDies, Steps
  <2> QED
    BY <1>1, <2>1 DEF Alone
<1> QED
  BY <1>1, <1>2, <1>3

\* A request of this call leaves the ids of the other calls unseen.
LEMMA UnseenStays ==
  ASSUME IInv, NEW id \in Ids, Unseen(id), UNCHANGED <<ack, coreVars>>,
         request' # request => request' \in Requests /\ request'.id # id
  PROVE  Unseen(id)'
BY DEF Unseen, coreVars

\* The sidecar has not reloaded for an id it has not seen.
LEMMA UnseenNotReloaded ==
  ASSUME NEW id, Unseen(id)
  PROVE  ~ReloadedFor(id)
BY DEF Unseen, ReloadedFor, Answered

LEMMA CallKeeps ==
  ASSUME IInv, ApplyTypeOK', NEW a \in Applies, Apply(a) \/ Rollback(a) \/ ApiDies(a)
  PROVE  IInv'
<1> USE DEF IInv, ApplyTypeOK, Goto, Return
<1>1. \A b \in Applies \ {a}: step'[b] = step[b] /\ step[b] \notin Steps
  BY OthersWait
<1>2. UNCHANGED <<ack, coreVars>>
  BY DEF Apply, Rollback, Begin, Save, Replace, Request, Await, VerifyHealthy,
         Restore, Rerequest, Reawait, Reverify, ApiDies, sidecarVars, fileVars
<1>3. Alone' /\ Down'
  BY <1>1, <1>2 DEF Alone, Down, coreVars
<1>4. UNCHANGED <<desired, previous>> \/ Begin(a)
  BY DEF Apply, Rollback, Save, Replace, Request, Await, VerifyHealthy,
         Restore, Rerequest, Reawait, Reverify, ApiDies
<1>5. Held'
  <2> SUFFICES /\ step'[a] \in {"request", "await", "verify"} => config' = desired'[a]
               /\ step'[a] \in {"rerequest", "reawait", "reverify"} => config' = previous'[a]
    BY <1>1 DEF Held, Steps
  <2> QED
    BY DEF Held, Apply, Rollback, Begin, Save, Replace, Request, Await, VerifyHealthy,
           Restore, Rerequest, Reawait, Reverify, ApiDies, sidecarVars, fileVars
<1>6. /\ request' # request /\ Apply(a) => request' \in Requests /\ request'.id = ApplyId(a)
      /\ request' # request /\ ~Apply(a) => request' \in Requests /\ request'.id = RollbackId(a)
  <2>1. ApplyId(a) \in Ids /\ RollbackId(a) \in Ids
    BY IdsDiffer
  <2>2. CASE Request(a)
    BY <2>1, <2>2 DEF Request, Requests, Apply
  <2>3. CASE Rerequest(a)
    <3>1. ~Apply(a)
      BY <2>3 DEF Rerequest, Apply, Begin, Save, Replace, Request, Await, VerifyHealthy
    <3> QED
      BY <2>1, <2>3, <3>1 DEF Rerequest, Requests
  <2>4. CASE ~Request(a) /\ ~Rerequest(a)
    BY <2>4 DEF Apply, Rollback, Begin, Save, Replace, Await, VerifyHealthy,
                Restore, Reawait, Reverify, ApiDies, sidecarVars, fileVars
  <2> QED
    BY <2>2, <2>3, <2>4
<1>7. Fresh'
  <2>1. ASSUME NEW b \in Applies \ {a}, NEW id \in {ApplyId(b), RollbackId(b)}, Unseen(id)
        PROVE  Unseen(id)'
    BY <1>2, <1>6, <2>1, IdsDiffer, UnseenStays
  <2>2. /\ step'[a] \in {"save", "replace", "request"} => Unseen(ApplyId(a))'
        /\ step'[a] \in {"save", "replace", "request", "await", "verify",
                         "restore", "rerequest"} => Unseen(RollbackId(a))'
    <3>1. CASE Apply(a)
      <4>1. Unseen(RollbackId(a))'
        BY <1>2, <1>6, <3>1, IdsDiffer, UnseenStays
           DEF Fresh, Apply, Begin, Save, Replace, Request, Await, VerifyHealthy
      <4>2. CASE step'[a] \in {"save", "replace", "request"}
        <5>1. step[a] \in {"idle", "save", "replace"} /\ request' = request
          BY <3>1, <4>2 DEF Apply, Begin, Save, Replace, Request, Await, VerifyHealthy,
             sidecarVars, fileVars
        <5> QED
          BY <1>2, <4>1, <5>1, IdsDiffer, UnseenStays DEF Fresh
      <4> QED
        BY <4>1, <4>2
    <3>2. CASE Rollback(a)
      <4>1. step'[a] \notin {"save", "replace", "request", "await", "verify", "restore"}
        BY <3>2 DEF Rollback, Restore, Rerequest, Reawait, Reverify
      <4>2. CASE step'[a] = "rerequest"
        <5>1. step[a] = "restore" /\ request' = request
          BY <3>2, <4>2 DEF Rollback, Restore, Rerequest, Reawait, Reverify
        <5> QED
          BY <1>2, <4>1, <5>1, IdsDiffer, UnseenStays DEF Fresh
      <4> QED
        BY <4>1, <4>2
    <3>3. CASE ApiDies(a)
      BY <3>3 DEF ApiDies
    <3> QED
      BY <3>1, <3>2, <3>3
  <2>3. step'[a] # "idle"
    BY DEF Apply, Rollback, Begin, Save, Replace, Request, Await, VerifyHealthy,
           Restore, Rerequest, Reawait, Reverify, ApiDies
  <2> SUFFICES ASSUME NEW b \in Applies
               PROVE  /\ step'[b] \in {"idle", "save", "replace", "request"} => Unseen(ApplyId(b))'
                      /\ step'[b] \in {"idle", "save", "replace", "request", "await", "verify",
                                       "restore", "rerequest"} => Unseen(RollbackId(b))'
    BY DEF Fresh, ApplyId, RollbackId
  <2>4. CASE b = a
    BY <2>2, <2>3, <2>4
  <2>5. CASE b # a
    BY <1>1, <2>1, <2>5 DEF Fresh
  <2> QED
    BY <2>4, <2>5
<1>8. Truthful'
  <2> SUFFICES /\ step'[a] = "await" /\ ReloadedFor(ApplyId(a))' => InSync'
               /\ step'[a] = "reawait" /\ ReloadedFor(RollbackId(a))' => InSync'
               /\ step'[a] \in {"verify", "reverify"} => InSync'
    BY <1>1 DEF Truthful, Steps, ApplyId, RollbackId
  <2>1. ReloadedFor(ApplyId(a))' <=> ReloadedFor(ApplyId(a))
    BY <1>2 DEF ReloadedFor, Answered, coreVars
  <2>2. ReloadedFor(RollbackId(a))' <=> ReloadedFor(RollbackId(a))
    BY <1>2 DEF ReloadedFor, Answered, coreVars
  <2>3. step'[a] = "await" => ~ReloadedFor(ApplyId(a))'
    BY <2>1, UnseenNotReloaded
       DEF Fresh, Apply, Rollback, Begin, Save, Replace, Request, Await, VerifyHealthy,
           Restore, Rerequest, Reawait, Reverify, ApiDies
  <2>4. step'[a] = "reawait" => ~ReloadedFor(RollbackId(a))'
    BY <2>2, UnseenNotReloaded
       DEF Fresh, Apply, Rollback, Begin, Save, Replace, Request, Await, VerifyHealthy,
           Restore, Rerequest, Reawait, Reverify, ApiDies
  <2>5. step'[a] = "verify" => InSync'
    <3> SUFFICES ASSUME step'[a] = "verify" PROVE InSync'
      OBVIOUS
    <3>1. Await(a) /\ Answered(ApplyId(a), TRUE)
      BY DEF Apply, Rollback, Begin, Save, Replace, Request, Await, VerifyHealthy,
             Restore, Rerequest, Reawait, Reverify, ApiDies
    <3>2. InSync /\ config' = config
      BY <3>1 DEF Await, Truthful, ReloadedFor, sidecarVars, fileVars
    <3> QED
      BY <1>2, <3>2 DEF InSync, coreVars
  <2>6. step'[a] = "reverify" => InSync'
    <3> SUFFICES ASSUME step'[a] = "reverify" PROVE InSync'
      OBVIOUS
    <3>1. Reawait(a) /\ Answered(RollbackId(a), TRUE)
      BY DEF Apply, Rollback, Begin, Save, Replace, Request, Await, VerifyHealthy,
             Restore, Rerequest, Reawait, Reverify, ApiDies
    <3>2. InSync /\ config' = config
      BY <3>1 DEF Reawait, Truthful, ReloadedFor, sidecarVars, fileVars
    <3> QED
      BY <1>2, <3>2 DEF InSync, coreVars
  <2> QED
    BY <2>3, <2>4, <2>5, <2>6
<1> QED
  BY <1>3, <1>5, <1>7, <1>8

-----------------------------------------------------------------------------
LEMMA Initially == ProviderInit => IInv
<1> SUFFICES ASSUME ProviderInit PROVE IInv
  OBVIOUS
<1> USE SidecarAssumption, ApplyAssumption DEF ProviderInit, SidecarInit
<1>1. ApplyTypeOK
  BY DEF ApplyTypeOK, Outcomes
<1>2. Alone /\ Down /\ Held /\ Truthful
  BY DEF Alone, Down, Held, Truthful, Steps
<1>3. Fresh
  BY IdsDiffer DEF Fresh, Unseen
<1> QED
  BY <1>1, <1>2, <1>3 DEF IInv

LEMMA Inductive == IInv /\ [ProviderNext]_providerVars => IInv'
<1> SUFFICES ASSUME IInv, [ProviderNext]_providerVars PROVE IInv'
  OBVIOUS
<1>1. CASE (Sidecar \/ Outage) /\ UNCHANGED applyVars
  BY <1>1, SidecarTypes, SidecarKeeps DEF IInv
<1>2. ASSUME NEW a \in Applies, Apply(a) \/ Rollback(a) \/ ApiDies(a) PROVE IInv'
  BY <1>2, CallTypes, CallKeeps DEF IInv
<1>3. CASE UNCHANGED providerVars
  <2>1. UNCHANGED <<config, lkg, request, ack, phase, child, running, handling, loaded,
                    lastId, outages, step, desired, previous, outcome, notice>>
    BY <1>3 DEF providerVars, sidecarVars, fileVars, coreVars, applyVars
  <2>2. ApplyTypeOK' /\ Alone' /\ Down' /\ Held'
    BY <2>1 DEF IInv, ApplyTypeOK, Alone, Down, Held
  <2>3. \A id: Unseen(id)' <=> Unseen(id)
    BY <2>1 DEF Unseen
  <2>4. \A id: ReloadedFor(id)' <=> ReloadedFor(id)
    BY <2>1 DEF ReloadedFor, Answered
  <2>5. Fresh'
    BY <2>1, <2>3 DEF IInv, Fresh, ApplyId, RollbackId
  <2>6. Truthful'
    BY <2>1, <2>4 DEF IInv, Truthful, InSync, ApplyId, RollbackId
  <2> QED
    BY <2>2, <2>5, <2>6 DEF IInv
<1> QED
  BY <1>1, <1>2, <1>3 DEF ProviderNext

(***************************************************************************)
(* The variables stay in their types, whatever fails and whoever crashes:  *)
(* every acknowledgement carries the id of a request of some call.         *)
(***************************************************************************)
THEOREM TypeCorrect == ProviderSpec => []ApplyTypeOK
<1>1. IInv => ApplyTypeOK
  BY DEF IInv
<1> QED
  BY <1>1, Initially, Inductive, PTL DEF ProviderSpec

(***************************************************************************)
(* A call that returns SUCCEEDED or ROLLED_BACK tells the truth about the  *)
(* core, although files fail, the container goes down at any moment, the   *)
(* panel dies in an apply and the core may die of its configuration later  *)
(* than the sidecar looks.                                                 *)
(***************************************************************************)
THEOREM TruthTold == ProviderSpec => OutcomeIsReal
<1> DEFINE Real(a) ==
      outcome'[a] # outcome[a] =>
        /\ outcome'[a] = "SUCCEEDED" => Runs(desired[a])'
        /\ outcome'[a] = "ROLLED_BACK" => Runs(previous[a])'
<1>1. ASSUME IInv, [ProviderNext]_providerVars
      PROVE  [\A a \in Applies: Real(a)]_providerVars
  <2> SUFFICES ASSUME NEW a \in Applies, ProviderNext, outcome'[a] # outcome[a],
                      outcome'[a] \in {"SUCCEEDED", "ROLLED_BACK"}
               PROVE  Real(a)
    BY <1>1 DEF ProviderNext
  <2> USE <1>1 DEF IInv, ApplyTypeOK, Runs
  <2>1. \/ VerifyHealthy(a) /\ child = "up" /\ outcome'[a] = "SUCCEEDED"
        \/ Reverify(a) /\ child = "up" /\ outcome'[a] = "ROLLED_BACK"
    <3>1. PICK b \in Applies: Apply(b) \/ Rollback(b) \/ ApiDies(b)
      BY DEF ProviderNext, applyVars
    <3>2. b = a
      BY <3>1 DEF Apply, Rollback, Begin, Save, Replace, Request, Await, VerifyHealthy,
                  Restore, Rerequest, Reawait, Reverify, ApiDies, Return
    <3> QED
      BY <3>1, <3>2
         DEF Apply, Rollback, Begin, Save, Replace, Request, Await, VerifyHealthy,
             Restore, Rerequest, Reawait, Reverify, ApiDies, Return
  <2>2. UNCHANGED <<config, child, running, desired, previous>>
    BY <2>1 DEF VerifyHealthy, Reverify, sidecarVars, fileVars, coreVars
  <2>3. CASE VerifyHealthy(a) /\ child = "up" /\ outcome'[a] = "SUCCEEDED"
    <3>1. running = config /\ config = desired[a]
      BY <2>3 DEF VerifyHealthy, Truthful, Held, InSync
    <3> QED
      BY <2>2, <2>3, <3>1
  <2>4. CASE Reverify(a) /\ child = "up" /\ outcome'[a] = "ROLLED_BACK"
    <3>1. running = config /\ config = previous[a]
      BY <2>4 DEF Reverify, Truthful, Held, InSync
    <3> QED
      BY <2>2, <2>4, <3>1
  <2> QED
    BY <2>1, <2>3, <2>4
<1> QED
  BY <1>1, Initially, Inductive, PTL DEF ProviderSpec, OutcomeIsReal

-----------------------------------------------------------------------------
(***************************************************************************)
(* No reload is lost.                                                      *)
(***************************************************************************)

\* What the sidecar does leaves the core with the file, or the core will be told.
LEMMA SidecarTells ==
  ASSUME IInv, Pending, Sidecar \/ Outage, UNCHANGED applyVars
  PROVE  Pending'
<1> USE ApplyAssumption DEF IInv, ApplyTypeOK, Pending, applyVars, fileVars
<1> SUFFICES ASSUME ~InSync' PROVE Told'
  OBVIOUS
<1>1. config' = config /\ step' = step
  BY DEF Sidecar, Clean, Start, PickUp, Reload, Acknowledge, DieLate, Exit, Outage
<1>2. ~Outage /\ ~Clean /\ ~Start /\ ~Exit /\ ~DieLate
  BY <1>1, StartCoreReads DEF InSync, Down, Outage, Clean, Start, Exit, DieLate
<1>3. CASE PickUp
  BY <1>3 DEF PickUp, Told
<1>4. CASE Reload
  BY <1>1, <1>4, StartCoreReads DEF InSync, Told, Reload
<1>5. CASE Acknowledge
  <2>1. running' = running /\ child' = child
    BY <1>1, <1>5, StartCoreReads DEF InSync, Acknowledge
  <2>2. Told
    BY <1>1, <2>1 DEF InSync
  <2>3. CASE notice = "given"
    <3>1. /\ request' = request /\ handling # Nothing /\ loaded /\ handling' = Nothing
          /\ lastId' = handling.id
      BY <1>5 DEF Acknowledge
    <3>2. request # Nothing /\ handling.id # request.id
      BY <2>2, <2>3, <3>1 DEF Told
    <3> QED
      BY <3>1, <3>2 DEF Told
  <2>4. CASE notice = "due"
    BY <2>4 DEF Told
  <2> QED
    BY <2>3, <2>4
<1> QED
  BY <1>2, <1>3, <1>4, <1>5 DEF Sidecar

\* What a call does: it writes the file, and asks for nothing yet, or it asks.
LEMMA CallTells ==
  ASSUME IInv, ApplyTypeOK', Pending,
         NEW a \in Applies, Apply(a) \/ Rollback(a) \/ ApiDies(a)
  PROVE  Pending'
<1> USE ApplyAssumption DEF IInv, ApplyTypeOK, Pending, Goto, Return
<1>1. \A b \in Applies \ {a}: step'[b] = step[b]
  BY OthersWait
<1>2. UNCHANGED <<ack, coreVars>>
  BY DEF Apply, Rollback, Begin, Save, Replace, Request, Await, VerifyHealthy,
         Restore, Rerequest, Reawait, Reverify, ApiDies, sidecarVars, fileVars
<1>3. CASE Request(a) /\ request' # request
  <2>1. request' = [id |-> ApplyId(a), hash |-> desired[a]]
    BY <1>3 DEF Request
  <2>2. Unseen(ApplyId(a)) /\ request' # Nothing
    BY <1>3, <2>1, IdsDiffer DEF Fresh, Request, Requests
  <2> QED
    BY <1>2, <2>1, <2>2 DEF Told, Unseen, coreVars
<1>4. CASE Rerequest(a) /\ request' # request
  <2>1. request' = [id |-> RollbackId(a), hash |-> previous[a]]
    BY <1>4 DEF Rerequest
  <2>2. Unseen(RollbackId(a)) /\ request' # Nothing
    BY <1>4, <2>1, IdsDiffer DEF Fresh, Rerequest, Requests
  <2> QED
    BY <1>2, <2>1, <2>2 DEF Told, Unseen, coreVars
<1>5. CASE request' = request /\ notice = "due" /\ notice' = "given"
  <2>0. Request(a) \/ Rerequest(a)
    <3>1. \/ Begin(a) \/ Save(a) \/ Await(a) \/ VerifyHealthy(a)
          \/ Reawait(a) \/ Reverify(a) \/ ApiDies(a)
          => notice' = notice
      BY DEF Begin, Save, Await, VerifyHealthy, Reawait, Reverify, ApiDies
    <3>2. Replace(a) \/ Restore(a) => notice' \in {notice, "due"}
      BY DEF Replace, Restore
    <3> QED
      BY <1>5, <3>1, <3>2 DEF Apply, Rollback
  <2>1. \/ Request(a) /\ request = [id |-> ApplyId(a), hash |-> desired[a]]
        \/ Rerequest(a) /\ request = [id |-> RollbackId(a), hash |-> previous[a]]
    BY <1>5, <2>0 DEF Request, Rerequest
  <2>2. CASE Request(a) /\ request = [id |-> ApplyId(a), hash |-> desired[a]]
    <3>1. Unseen(ApplyId(a)) /\ request.id = ApplyId(a)
      BY <2>2 DEF Fresh, Request
    <3>2. request \in Requests
      BY <2>2, IdsDiffer DEF Requests
    <3> QED
      BY <3>1, <3>2 DEF Unseen
  <2>3. CASE Rerequest(a) /\ request = [id |-> RollbackId(a), hash |-> previous[a]]
    <3>1. Unseen(RollbackId(a)) /\ request.id = RollbackId(a)
      BY <2>3 DEF Fresh, Rerequest
    <3>2. request \in Requests
      BY <2>3, IdsDiffer DEF Requests
    <3> QED
      BY <3>1, <3>2 DEF Unseen
  <2> QED
    BY <2>1, <2>2, <2>3
<1>6. CASE config' # config
  <2>1. notice' = "due"
    BY <1>6 DEF Apply, Rollback, Begin, Save, Replace, Request, Await, VerifyHealthy,
                Restore, Rerequest, Reawait, Reverify, ApiDies, sidecarVars, fileVars
  <2> QED
    BY <2>1 DEF Told
<1>7. CASE request' = request /\ config' = config /\ (notice' = "given" => notice = "given")
  BY <1>2, <1>7 DEF Told, InSync, coreVars
<1>8. request' # request => Request(a) \/ Rerequest(a)
  BY DEF Apply, Rollback, Begin, Save, Replace, Await, VerifyHealthy,
         Restore, Reawait, Reverify, ApiDies, sidecarVars, fileVars
<1> QED
  BY <1>3, <1>4, <1>5, <1>6, <1>7, <1>8

(***************************************************************************)
(* No reload is lost: whatever files fail, whatever restarts of the        *)
(* container and crashes of the panel come in between, a sidecar at rest   *)
(* runs its core with the file, once a reload has been requested since the *)
(* file was last written.                                                  *)
(***************************************************************************)
THEOREM ReloadsArrive == ProviderSpec => []NoReloadLost
<1>1. ProviderInit => Pending
  BY DEF ProviderInit, SidecarInit, Pending, InSync
<1>2. ASSUME IInv, IInv', Pending, [ProviderNext]_providerVars PROVE Pending'
  <2>1. CASE (Sidecar \/ Outage) /\ UNCHANGED applyVars
    BY <1>2, <2>1, SidecarTells
  <2>2. ASSUME NEW a \in Applies, Apply(a) \/ Rollback(a) \/ ApiDies(a) PROVE Pending'
    BY <1>2, <2>2, CallTells DEF IInv
  <2>3. CASE UNCHANGED providerVars
    <3>1. notice' = notice
      BY <2>3 DEF providerVars, applyVars
    <3>2. UNCHANGED <<config, request, child, running, handling, loaded, lastId>>
      BY <2>3 DEF providerVars, sidecarVars, fileVars, coreVars
    <3> QED
      BY <1>2, <3>1, <3>2 DEF Pending, Told, InSync
  <2> QED
    BY <1>2, <2>1, <2>2, <2>3 DEF ProviderNext
<1>3. IInv /\ Pending => NoReloadLost
  BY DEF Pending, Told, InSync, NoReloadLost, Settled
<1> QED
  BY <1>1, <1>2, <1>3, Initially, Inductive, PTL DEF ProviderSpec

-----------------------------------------------------------------------------
(***************************************************************************)
(* The last-known-good file.                                               *)
(***************************************************************************)

\* With no late death, a core that is up after its start runs a good configuration.
LEMMA StartCoreGood ==
  ASSUME ~LateDeath, StartCore, child' = "up"
  PROVE  running' \in Good
BY DEF StartCore

LEMMA VerifiedStep ==
  ASSUME ~LateDeath, ~IoFails, IInv, ApplyTypeOK', Verified, ProviderNext,
         \A a \in Applies: ~ApiDies(a)
  PROVE  Verified'
<1> USE SidecarAssumption, ApplyAssumption DEF IInv, ApplyTypeOK, Verified
<1>1. CASE (Sidecar \/ Outage) /\ UNCHANGED applyVars
  <2>1. UNCHANGED <<config, lkg, step, previous>>
    BY <1>1 DEF Sidecar, Clean, Start, PickUp, Reload, Acknowledge, DieLate, Exit, Outage,
                applyVars, fileVars
  <2>2. child' = "up" => running' \in Good
    BY <1>1, StartCoreGood
       DEF Sidecar, Clean, Start, PickUp, Reload, Acknowledge, DieLate, Exit, Outage
  <2> QED
    BY <2>1, <2>2
<1>2. ASSUME NEW a \in Applies, Apply(a) \/ Rollback(a) PROVE Verified'
  <2> USE DEF Goto, Return
  <2>1. \A b \in Applies \ {a}: step'[b] = step[b] /\ step[b] \notin Steps
    BY <1>2, OthersWait
  <2>2. child' = child /\ running' = running
    BY <1>2 DEF Apply, Rollback, Begin, Save, Replace, Request, Await, VerifyHealthy,
                Restore, Rerequest, Reawait, Reverify, sidecarVars, coreVars
  <2>3. config \in Good \/ step[a] \in {"request", "await", "verify", "restore"}
    BY <2>1 DEF Steps
  <2>4. CASE Begin(a)
    BY <2>2, <2>3, <2>4 DEF Begin, sidecarVars, fileVars
  <2>5. CASE Save(a)
    BY <2>2, <2>3, <2>5 DEF Save
  <2>6. CASE Replace(a)
    BY <2>2, <2>6 DEF Replace
  <2>7. CASE Request(a) \/ Await(a)
    BY <2>2, <2>7 DEF Request, Await, sidecarVars, fileVars
  <2>8. CASE VerifyHealthy(a)
    <3>1. step'[a] # "restore" => config \in Good
      BY <2>8 DEF VerifyHealthy, Truthful, InSync
    <3> QED
      BY <2>2, <2>8, <3>1 DEF VerifyHealthy, sidecarVars, fileVars
  <2>9. CASE Restore(a)
    BY <2>2, <2>9 DEF Restore
  <2>10. CASE Rerequest(a) \/ Reawait(a) \/ Reverify(a)
    <3>1. config \in Good
      BY <2>3, <2>10 DEF Rerequest, Reawait, Reverify
    <3> QED
      BY <2>2, <2>10, <3>1 DEF Rerequest, Reawait, Reverify, sidecarVars, fileVars
  <2> QED
    BY <1>2, <2>4, <2>5, <2>6, <2>7, <2>8, <2>9, <2>10 DEF Apply, Rollback
<1> QED
  BY <1>1, <1>2 DEF ProviderNext

(***************************************************************************)
(* What is kept as last known good is a configuration the core has run     *)
(* with, up to a crash of the panel: a crash between replace and verify    *)
(* leaves a configuration nobody has verified, and the next call keeps it. *)
(* Both assumptions are needed: no file operation fails, and no core dies  *)
(* of its configuration after the sidecar has looked.                      *)
(***************************************************************************)
THEOREM KeptIsGood == ASSUME ~LateDeath, ~IoFails PROVE ProviderSpec => []LastKnownGood
<1> DEFINE Sound == Uncut => Verified
<1>1. ProviderInit => Sound
  BY DEF ProviderInit, SidecarInit, Verified
<1>2. ASSUME IInv, IInv', Sound, [ProviderNext]_providerVars PROVE Sound'
  <2> SUFFICES ASSUME Uncut' PROVE Verified'
    OBVIOUS
  <2>1. CASE ProviderNext
    <3>1. \A a \in Applies: ~ApiDies(a)
      BY <1>2 DEF ApiDies, Goto, Uncut, IInv, ApplyTypeOK
    <3>2. Uncut
      <4>1. SUFFICES ASSUME NEW b \in Applies, step[b] = "crashed" PROVE FALSE
        BY DEF Uncut
      <4>2. CASE UNCHANGED applyVars
        BY <4>1, <4>2 DEF Uncut, applyVars
      <4>3. ASSUME NEW a \in Applies, Apply(a) \/ Rollback(a) PROVE FALSE
        <5>1. step'[b] = step[b]
          BY <1>2, <4>1, <4>3
             DEF Apply, Rollback, Begin, Save, Replace, Request, Await, VerifyHealthy,
                 Restore, Rerequest, Reawait, Reverify, Goto, Return, IInv, ApplyTypeOK
        <5> QED
          BY <4>1, <5>1 DEF Uncut
      <4> QED
        BY <2>1, <3>1, <4>2, <4>3 DEF ProviderNext
    <3> QED
      BY <1>2, <2>1, <3>1, <3>2, VerifiedStep DEF IInv
  <2>2. CASE UNCHANGED providerVars
    BY <1>2, <2>2 DEF Uncut, Verified, providerVars, sidecarVars, fileVars, coreVars, applyVars
  <2> QED
    BY <1>2, <2>1, <2>2
<1>3. Sound => LastKnownGood
  BY DEF Verified, LastKnownGood
<1> HIDE DEF Sound
<1> QED
  BY <1>1, <1>2, <1>3, Initially, Inductive, PTL DEF ProviderSpec

-----------------------------------------------------------------------------
(***************************************************************************)
(* SupervisedApply.  An answer carries the id of its request, so what it   *)
(* says is of the file as it has been since that request was written.      *)
(***************************************************************************)
Revisions == [Tags -> Nat]
ProviderStages == {"idle", "request", "wait", "health", "returned"}
SupervisorStages == {"off", "poll", "settle", "interfaces", "ack"}
Providers == [stage: ProviderStages, id: Nat, previous: Revisions, wanted: Revisions, back: BOOLEAN,
              status: {"none", "NOT_REPLACED", "FAILED", "ROLLED_BACK", "SUCCEEDED"}]
Supervisors == [stage: SupervisorStages, id: Nat, last: Nat, file: Revisions,
                left: SUBSET Tags, again: BOOLEAN]

SupervisedTypeOK ==
  /\ engine \in Engines /\ file \in Revisions /\ asked \in Nat /\ served \in Revisions
  /\ answer \in [id: Nat, status: {"none", "ok", "error"}]
  /\ provider \in Providers /\ supervisor \in Supervisors
  /\ state \in SUBSET Tags /\ disturbed \in BOOLEAN

\* The last request stands: its file has not been written again.
Standing == provider.stage \in {"wait", "health"} \/ Returned({"SUCCEEDED", "ROLLED_BACK"})
InHand == supervisor.stage \in {"settle", "interfaces", "ack"}

Placed ==
  /\ provider.stage \in {"request", "wait", "health"} =>
       file = (IF provider.back THEN provider.previous ELSE provider.wanted)
  /\ Returned({"SUCCEEDED", "ROLLED_BACK"}) => file = Promised

Numbered ==
  /\ asked <= provider.id /\ supervisor.id <= provider.id /\ answer.id <= provider.id
  /\ Standing => provider.id # 0
  /\ supervisor.stage = "ack" => supervisor.id # 0

\* What the supervisor has in hand of the last request is the file as it is.
TakenAsItIs ==
  Standing /\ InHand /\ supervisor.id = provider.id =>
    supervisor.file = file /\ asked = provider.id

Serves(c) == /\ \A t \in TagsOf(c) : served[t] = c[t]
             /\ engine = "MTPROXY" => served = c

\* How far it has come with it.
Progress ==
  /\ supervisor.stage = "settle" => engine = "MTPROXY"
  /\ supervisor.stage = "interfaces" =>
       /\ engine = "AMNEZIAWG"
       /\ \A t \in TagsOf(supervisor.file) \ supervisor.left : served[t] = supervisor.file[t]
  /\ supervisor.stage = "ack" /\ ~supervisor.again => Serves(supervisor.file)

\* An answer to the last request: the supervisor rests, and serves what it answered for.
AnswerServed ==
  answer.status = "ok" /\ answer.id = provider.id /\ Standing /\ ~disturbed =>
    /\ supervisor.stage = "poll" /\ supervisor.last = provider.id /\ asked = provider.id
    /\ Serves(file)

Believed ==
  (provider.stage = "health" \/ Returned({"SUCCEEDED", "ROLLED_BACK"})) /\ ~disturbed =>
    answer.status = "ok" /\ answer.id = provider.id

SupervisedInv ==
  /\ SupervisedTypeOK /\ Placed /\ Numbered /\ TakenAsItIs /\ Progress /\ AnswerServed /\ Believed


\* The provider: before it asks again nothing it had asked for counts any more.
LEMMA ReplacingKeeps ==
  ASSUME SupervisedInv, ReplaceFile \/ ReplaceFileFails
  PROVE  SupervisedInv'
<1>1. SupervisedTypeOK /\ UNCHANGED <<engine, asked, answer, supervisor, served, state, disturbed>>
  BY DEF SupervisedInv, ReplaceFile, ReplaceFileFails
<1>2. PICK n \in Revisions, s \in {"request", "returned"}, a \in {"none", "NOT_REPLACED"} :
        /\ file' = n \/ (s = "returned" /\ file' = file)
        /\ s = "returned" <=> a = "NOT_REPLACED"
        /\ provider' = [provider EXCEPT !.stage = s, !.previous = file, !.wanted = file',
                                        !.back = FALSE, !.status = a]
  <2>1. PICK T \in SUBSET Tags :
          \/ /\ file' = [t \in Tags |-> IF t \in T THEN provider.id + 1 ELSE 0]
             /\ provider' = [provider EXCEPT !.stage = "request", !.previous = file,
                               !.wanted = file', !.back = FALSE, !.status = "none"]
          \/ /\ UNCHANGED file \/ file' = [t \in Tags |-> IF t \in T THEN provider.id + 1 ELSE 0]
             /\ provider' = [provider EXCEPT !.stage = "returned", !.previous = file,
                               !.wanted = file', !.back = FALSE, !.status = "NOT_REPLACED"]
    BY DEF ReplaceFile, ReplaceFileFails
  <2>2. PICK k \in Nat : k = provider.id + 1
    BY <1>1 DEF SupervisedTypeOK, Providers
  <2>3. [t \in Tags |-> IF t \in T THEN k ELSE 0] \in Revisions
    BY DEF Revisions
  <2> QED
    BY <2>1, <2>2, <2>3
<1>3. file' \in Revisions /\ file \in Revisions
  BY <1>1, <1>2 DEF SupervisedTypeOK
<1>4. /\ provider' \in Providers /\ provider'.stage = s /\ provider'.id = provider.id
      /\ provider'.wanted = file' /\ provider'.back = FALSE /\ provider'.status = a
  BY <1>1, <1>2, <1>3 DEF SupervisedTypeOK, Providers, ProviderStages
<1>5. SupervisedTypeOK'
  BY <1>1, <1>3, <1>4 DEF SupervisedTypeOK
<1>6. ~Standing'
  BY <1>2, <1>4 DEF Standing, Returned
<1>7. Placed' /\ Believed'
  BY <1>2, <1>4, <1>6 DEF Placed, Believed, Returned
<1>8. Numbered' /\ TakenAsItIs' /\ AnswerServed'
  BY <1>1, <1>4, <1>6 DEF Numbered, TakenAsItIs, AnswerServed, SupervisedInv
<1>9. Progress'
  BY <1>1 DEF Progress, Serves, SupervisedInv
<1> QED
  BY <1>5, <1>7, <1>8, <1>9 DEF SupervisedInv

\* The new id is of no request, no work and no answer before.
LEMMA AskKeeps ==
  ASSUME SupervisedInv, Ask
  PROVE  SupervisedInv'
<1>1. /\ SupervisedTypeOK /\ provider.stage = "request" /\ disturbed' = FALSE
      /\ UNCHANGED <<engine, file, answer, supervisor, served, state>>
      /\ asked' \in {asked, provider.id + 1}
      /\ provider' = [provider EXCEPT !.stage = "wait", !.id = @ + 1]
  BY DEF SupervisedInv, Ask
<1>2. PICK n \in Nat : n = provider.id
  BY <1>1 DEF SupervisedTypeOK, Providers
<1>3. /\ provider' \in Providers /\ provider'.stage = "wait" /\ provider'.id = n + 1
      /\ provider'.back = provider.back /\ provider'.previous = provider.previous
      /\ provider'.wanted = provider.wanted
  <2>1. PICK k \in Nat : k = n + 1
    OBVIOUS
  <2>2. provider' = [provider EXCEPT !.stage = "wait", !.id = k]
    BY <1>1, <1>2, <2>1
  <2> QED
    BY <1>1, <2>1, <2>2 DEF SupervisedTypeOK, Providers, ProviderStages
<1>4. asked \in Nat /\ supervisor.id \in Nat /\ answer.id \in Nat
  BY <1>1 DEF SupervisedTypeOK, Supervisors
<1>5. asked <= n /\ supervisor.id <= n /\ answer.id <= n
  BY <1>2 DEF SupervisedInv, Numbered
<1>6. asked' \in Nat /\ asked' <= n + 1 /\ supervisor.id <= n + 1 /\ answer.id <= n + 1
      /\ supervisor.id # n + 1 /\ answer.id # n + 1 /\ n + 1 # 0
  BY <1>1, <1>2, <1>4, <1>5
<1>7. SupervisedTypeOK'
  BY <1>1, <1>3, <1>6 DEF SupervisedTypeOK
<1>8. Placed' /\ Believed'
  BY <1>1, <1>3 DEF SupervisedInv, Placed, Believed, Returned
<1>9. Numbered' /\ TakenAsItIs' /\ AnswerServed'
  BY <1>1, <1>3, <1>6 DEF SupervisedInv, Numbered, TakenAsItIs, AnswerServed
<1>10. Progress'
  BY <1>1 DEF Progress, Serves, SupervisedInv
<1> QED
  BY <1>7, <1>8, <1>9, <1>10 DEF SupervisedInv

LEMMA GiveUpKeeps ==
  ASSUME SupervisedInv, GiveUp
  PROVE  SupervisedInv'
<1>1. /\ SupervisedTypeOK
      /\ UNCHANGED <<engine, asked, answer, supervisor, served, state, disturbed>>
      /\ Failed
  BY DEF SupervisedInv, GiveUp
<1>2. /\ file' \in Revisions
      /\ provider' \in Providers /\ provider'.id = provider.id
      /\ \/ provider'.stage = "request" /\ provider'.back /\ file' = provider'.previous
         \/ provider'.stage = "returned" /\ provider'.status = "FAILED"
  BY <1>1 DEF Failed, SupervisedTypeOK, Providers, ProviderStages
<1>3. SupervisedTypeOK'
  BY <1>1, <1>2 DEF SupervisedTypeOK
<1>4. ~Standing'
  BY <1>2 DEF Standing, Returned
<1>5. Placed' /\ Believed'
  BY <1>2 DEF Placed, Believed, Returned
<1>6. Numbered' /\ TakenAsItIs' /\ AnswerServed'
  BY <1>1, <1>2, <1>4 DEF Numbered, TakenAsItIs, AnswerServed, SupervisedInv
<1>7. Progress'
  BY <1>1 DEF Progress, Serves, SupervisedInv
<1> QED
  BY <1>3, <1>5, <1>6, <1>7 DEF SupervisedInv

\* Believing an answer moves nothing else.
LEMMA BelieveKeeps ==
  ASSUME SupervisedInv, Accepted \/ Healthy
  PROVE  SupervisedInv'
<1>1. /\ SupervisedTypeOK
      /\ UNCHANGED <<engine, file, asked, answer, supervisor, served, state, disturbed>>
  BY DEF SupervisedInv, Accepted, Healthy
<1>2. /\ provider' \in Providers /\ provider'.id = provider.id /\ provider'.back = provider.back
      /\ provider'.previous = provider.previous /\ provider'.wanted = provider.wanted
      /\ provider.stage \in {"wait", "health"}
      /\ \/ provider'.stage = "health" /\ answer.status = "ok" /\ answer.id = provider.id
         \/ /\ provider.stage = "health" /\ provider'.stage = "returned"
            /\ provider'.status = IF provider.back THEN "ROLLED_BACK" ELSE "SUCCEEDED"
  BY <1>1 DEF Accepted, Healthy, Answers, SupervisedTypeOK, Providers, ProviderStages
<1>3. SupervisedTypeOK'
  BY <1>1, <1>2 DEF SupervisedTypeOK
<1>4. Standing /\ Standing'
  BY <1>2 DEF Standing, Returned
<1>5. Placed'
  BY <1>1, <1>2 DEF SupervisedInv, Placed, Returned, Promised
<1>6. Believed'
  BY <1>1, <1>2 DEF SupervisedInv, Believed
<1>7. Numbered' /\ TakenAsItIs' /\ AnswerServed'
  BY <1>1, <1>2, <1>4 DEF Numbered, TakenAsItIs, AnswerServed, InHand, Serves, SupervisedInv
<1>8. Progress'
  BY <1>1 DEF Progress, Serves, SupervisedInv
<1> QED
  BY <1>3, <1>5, <1>6, <1>7, <1>8 DEF SupervisedInv

\* The supervisor takes the file up on a request or a start: not while an answer stands.
LEMMA TakeUpKeeps ==
  ASSUME SupervisedInv, Boot \/ Poll
  PROVE  SupervisedInv'
<1>1. SupervisedTypeOK /\ UNCHANGED <<engine, file, provider, state, disturbed>>
  BY DEF SupervisedInv, Boot, Poll
<1>2. PICK id \in Nat : /\ supervisor' = ToApply(id) /\ served' = StoppedFor
                        /\ \/ supervisor.stage = "off" /\ id = 0 /\ asked' = 0 /\ answer' = NoAck
                           \/ /\ supervisor.stage = "poll" /\ id = asked
                              /\ asked \notin {0, supervisor.last}
                              /\ asked' = asked /\ answer' = answer
  BY <1>1 DEF Boot, Poll, SupervisedTypeOK
<1>3. /\ supervisor' \in Supervisors /\ supervisor'.id = id /\ supervisor'.file = file
      /\ supervisor'.left = TagsOf(file) \cup state
      /\ supervisor'.stage = IF engine = "MTPROXY" THEN "settle" ELSE "interfaces"
  BY <1>1, <1>2 DEF ToApply, TagsOf, SupervisedTypeOK, Supervisors, SupervisorStages
<1>4. served' \in Revisions
  BY <1>1, <1>2 DEF StoppedFor, Empty, SupervisedTypeOK, Revisions
<1>5. SupervisedTypeOK'
  BY <1>1, <1>2, <1>3, <1>4 DEF SupervisedTypeOK, NoAck
<1>6. /\ provider.id \in Nat /\ asked \in Nat /\ engine \in {"MTPROXY", "AMNEZIAWG"}
  BY <1>1 DEF SupervisedTypeOK, Providers, Engines
<1>7. Numbered'
  BY <1>1, <1>2, <1>3, <1>6 DEF SupervisedInv, Numbered, Standing, Returned, NoAck
<1>8. TakenAsItIs'
  BY <1>1, <1>2, <1>3, <1>6 DEF SupervisedInv, Numbered, TakenAsItIs, Standing, Returned
<1>9. Progress'
  BY <1>1, <1>3, <1>6 DEF Progress
<1>10. AnswerServed' /\ Believed' /\ Placed'
  BY <1>1, <1>2 DEF SupervisedInv, AnswerServed, Believed, Placed, Standing, Returned, Promised,
     NoAck
<1> QED
  BY <1>5, <1>7, <1>8, <1>9, <1>10 DEF SupervisedInv

\* A step of its work, on the file it has taken up or on the file as it is now.
LEMMA WorkMoves ==
  ASSUME SupervisedInv, InHand, supervisor.stage # "ack",
         UNCHANGED <<engine, file, asked, answer, provider, disturbed>>,
         supervisor' \in Supervisors, served' \in Revisions, state' \in SUBSET Tags,
         \/ supervisor'.id = supervisor.id /\ supervisor'.file \in {supervisor.file, file}
         \/ supervisor'.id = 0 /\ supervisor'.stage = "off",
         supervisor'.stage = "ack" => supervisor'.id # 0, Progress'
  PROVE  SupervisedInv'
<1>1. SupervisedTypeOK /\ SupervisedTypeOK'
  BY DEF SupervisedInv, SupervisedTypeOK
<1>2. provider.id \in Nat /\ supervisor.id \in Nat
  BY <1>1 DEF SupervisedTypeOK, Providers, Supervisors
<1>3. Numbered'
  BY <1>2 DEF SupervisedInv, Numbered, Standing, Returned
<1>4. TakenAsItIs'
  BY DEF SupervisedInv, TakenAsItIs, Standing, Returned, InHand
<1>5. AnswerServed' /\ Believed' /\ Placed'
  BY DEF SupervisedInv, AnswerServed, Believed, Placed, Standing, Returned, Promised, InHand
<1> QED
  BY <1>1, <1>3, <1>4, <1>5 DEF SupervisedInv

LEMMA SettleKeeps ==
  ASSUME SupervisedInv, Settle
  PROVE  SupervisedInv'
<1>1. /\ SupervisedTypeOK /\ UNCHANGED <<engine, file, asked, answer, provider, state, disturbed>>
      /\ supervisor.stage = "settle" /\ engine = "MTPROXY" /\ InHand
  BY DEF SupervisedInv, Settle, Progress, InHand
<1>2. Empty \in Revisions /\ {} \in SUBSET Tags
  BY DEF Empty, Revisions
<1>3. ASSUME NEW status \in {"ok", "error"}
      PROVE  /\ Reported(status) \in Supervisors /\ Reported(status).id = supervisor.id
             /\ Reported(status).file = supervisor.file
             /\ Reported(status).stage = IF supervisor.id = 0 THEN "poll" ELSE "ack"
             /\ Reported(status).again = (status = "error")
  BY <1>1 DEF Reported, SupervisedTypeOK, Supervisors, SupervisorStages
<1>4. CASE /\ served' = supervisor.file
           /\ supervisor' = Reported(IF supervisor.again THEN "error" ELSE "ok")
  <2>1. served' \in Revisions
    BY <1>1, <1>4 DEF SupervisedTypeOK, Supervisors
  <2>2. Progress'
    BY <1>1, <1>3, <1>4 DEF Progress, Serves
  <2> QED
    BY <1>1, <1>3, <1>4, <2>1, <2>2, WorkMoves DEF SupervisedTypeOK
<1>5. CASE served' = Empty /\ supervisor.id = 0 /\ supervisor' = Off
  <2>1. Off \in Supervisors /\ Off.stage = "off" /\ Off.id = 0
    BY <1>2 DEF Off, Supervisors, SupervisorStages
  <2>2. Progress'
    BY <1>5, <2>1 DEF Progress
  <2> QED
    BY <1>1, <1>2, <1>5, <2>1, <2>2, WorkMoves DEF SupervisedTypeOK
<1>6. CASE served' = Empty /\ supervisor' = Reported("error")
  <2>1. Progress'
    BY <1>3, <1>6 DEF Progress
  <2> QED
    BY <1>1, <1>2, <1>3, <1>6, <2>1, WorkMoves DEF SupervisedTypeOK
<1>7. CASE served' = Empty /\ supervisor' = [supervisor EXCEPT !.again = TRUE, !.file = file]
  <2>1. /\ supervisor' \in Supervisors /\ supervisor'.id = supervisor.id
        /\ supervisor'.file = file /\ supervisor'.stage = "settle"
    BY <1>1, <1>7 DEF SupervisedTypeOK, Supervisors
  <2>2. Progress'
    BY <1>1, <2>1 DEF Progress
  <2> QED
    BY <1>1, <1>2, <1>7, <2>1, <2>2, WorkMoves DEF SupervisedTypeOK
<1> QED
  BY <1>4, <1>5, <1>6, <1>7 DEF Settle

LEMMA InterfacesKeep ==
  ASSUME SupervisedInv, TakeDownInterface \/ BringUp \/ SaveState
  PROVE  SupervisedInv'
<1>1. /\ SupervisedTypeOK /\ UNCHANGED <<engine, file, asked, answer, provider, disturbed>>
      /\ supervisor.stage = "interfaces" /\ engine = "AMNEZIAWG" /\ InHand
      /\ \A t \in TagsOf(supervisor.file) \ supervisor.left : served[t] = supervisor.file[t]
  BY DEF SupervisedInv, TakeDownInterface, BringUp, SaveState, Progress, InHand
<1>2. ASSUME NEW status \in {"ok", "error"}
      PROVE  /\ Reported(status) \in Supervisors /\ Reported(status).id = supervisor.id
             /\ Reported(status).file = supervisor.file
             /\ Reported(status).stage = IF supervisor.id = 0 THEN "poll" ELSE "ack"
             /\ Reported(status).again = (status = "error")
  BY <1>1 DEF Reported, SupervisedTypeOK, Supervisors, SupervisorStages
<1>3. ASSUME NEW t \in supervisor.left, NEW n \in Nat, served' = [served EXCEPT ![t] = n],
             t \in TagsOf(supervisor.file) => n = supervisor.file[t], state' = state,
             supervisor' = [supervisor EXCEPT !.left = @ \ {t}]
      PROVE  SupervisedInv'
  <2>1. /\ supervisor' \in Supervisors /\ supervisor'.id = supervisor.id
        /\ supervisor'.file = supervisor.file /\ supervisor'.stage = "interfaces"
        /\ supervisor'.left = supervisor.left \ {t} /\ t \in Tags
    BY <1>1, <1>3 DEF SupervisedTypeOK, Supervisors
  <2>2. served' \in Revisions
    BY <1>1, <1>3 DEF SupervisedTypeOK, Revisions
  <2>3. ASSUME NEW k \in TagsOf(supervisor.file) \ (supervisor.left \ {t})
        PROVE  served'[k] = supervisor.file[k]
    BY <1>1, <1>3, <2>1, <2>3 DEF TagsOf, SupervisedTypeOK, Revisions
  <2>4. Progress'
    BY <1>1, <2>1, <2>3 DEF Progress
  <2> QED
    BY <1>1, <1>3, <2>1, <2>2, <2>4, WorkMoves DEF SupervisedTypeOK
<1>4. CASE TakeDownInterface
  BY <1>3, <1>4 DEF TakeDownInterface, Obsolete
<1>5. CASE BringUp
  <2>1. PICK t \in supervisor.left :
          \/ /\ served' = [served EXCEPT ![t] = supervisor.file[t]]
             /\ supervisor' = [supervisor EXCEPT !.left = @ \ {t}]
          \/ \E n \in {0, served[t]} : /\ served' = [served EXCEPT ![t] = n]
                                       /\ supervisor' = Reported("error")
    BY <1>5 DEF BringUp
  <2>2. t \in Tags /\ supervisor.file[t] \in Nat /\ served[t] \in Nat /\ state' = state
    BY <1>1, <1>5 DEF SupervisedTypeOK, Supervisors, Revisions, BringUp
  <2>3. CASE \E n \in {0, served[t]} : /\ served' = [served EXCEPT ![t] = n]
                                       /\ supervisor' = Reported("error")
    <3>1. served' \in Revisions
      BY <1>1, <2>2, <2>3 DEF SupervisedTypeOK, Revisions
    <3>2. Progress'
      BY <1>2, <2>3 DEF Progress
    <3> QED
      BY <1>1, <1>2, <2>2, <2>3, <3>1, <3>2, WorkMoves DEF SupervisedTypeOK
  <2> QED
    BY <1>3, <2>1, <2>2, <2>3
<1>6. CASE SaveState
  <2>1. /\ supervisor' = Reported("ok") /\ served' = served /\ supervisor.left = {}
        /\ state' = TagsOf(supervisor.file)
    BY <1>6 DEF SaveState
  <2>2. Progress'
    BY <1>1, <1>2, <2>1 DEF Progress, Serves
  <2>3. state' \in SUBSET Tags
    BY <2>1 DEF TagsOf
  <2> QED
    BY <1>1, <1>2, <2>1, <2>2, <2>3, WorkMoves DEF SupervisedTypeOK
<1> QED
  BY <1>4, <1>5, <1>6

LEMMA AckKeeps ==
  ASSUME SupervisedInv, Ack
  PROVE  SupervisedInv'
<1>1. /\ SupervisedTypeOK /\ UNCHANGED <<engine, file, asked, provider, served, state, disturbed>>
      /\ supervisor.stage = "ack" /\ InHand
      /\ answer' = [id |-> supervisor.id, status |-> IF supervisor.again THEN "error" ELSE "ok"]
      /\ supervisor' = [Off EXCEPT !.stage = "poll", !.last = supervisor.id]
  BY DEF SupervisedInv, Ack, InHand
<1>2. /\ supervisor.id \in Nat /\ supervisor.again \in BOOLEAN
  BY <1>1 DEF SupervisedTypeOK, Supervisors
<1>3. /\ supervisor' \in Supervisors /\ supervisor'.stage = "poll" /\ supervisor'.id = 0
      /\ supervisor'.last = supervisor.id
  BY <1>1, <1>2 DEF Off, Empty, Supervisors, SupervisorStages, Revisions
<1>4. SupervisedTypeOK'
  BY <1>1, <1>2, <1>3 DEF SupervisedTypeOK
<1>5. Numbered' /\ TakenAsItIs' /\ Progress' /\ Placed'
  BY <1>1, <1>2, <1>3 DEF SupervisedInv, SupervisedTypeOK, Providers, Numbered, TakenAsItIs,
     Progress,
     Placed, Standing, Returned, Promised, InHand
<1>6. AnswerServed'
  <2> SUFFICES ASSUME answer'.status = "ok", answer'.id = provider.id, Standing
               PROVE  /\ supervisor.id = provider.id /\ asked = provider.id /\ Serves(file)
    BY <1>1, <1>3 DEF AnswerServed, Standing, Returned, Serves
  <2>1. supervisor.id = provider.id /\ ~supervisor.again
    BY <1>1
  <2> QED
    BY <1>1, <2>1 DEF SupervisedInv, TakenAsItIs, Progress
<1>7. Believed'
  BY <1>1 DEF SupervisedInv, Believed, AnswerServed, Standing, Returned
<1> QED
  BY <1>4, <1>5, <1>6, <1>7 DEF SupervisedInv

LEMMA StopKeeps ==
  ASSUME SupervisedInv, Stop
  PROVE  SupervisedInv'
<1>1. /\ SupervisedTypeOK /\ UNCHANGED <<engine, file, asked, answer, provider, state>>
      /\ supervisor' = Off /\ served' = Empty /\ disturbed' = TRUE
  BY DEF SupervisedInv, Stop
<1>2. /\ Off \in Supervisors /\ Off.stage = "off" /\ Off.id = 0 /\ Empty \in Revisions
  BY DEF Off, Empty, Supervisors, SupervisorStages, Revisions
<1>3. SupervisedTypeOK'
  BY <1>1, <1>2 DEF SupervisedTypeOK
<1> QED
  BY <1>1, <1>2, <1>3 DEF SupervisedInv, SupervisedTypeOK, Providers, Numbered, TakenAsItIs,
     Progress,
     Placed, AnswerServed, Believed, Standing, Returned, Promised, InHand

LEMMA SupervisedStep == SupervisedInv /\ [SupervisedNext]_supervisedVars => SupervisedInv'
<1> SUFFICES ASSUME SupervisedInv, [SupervisedNext]_supervisedVars PROVE SupervisedInv'
  OBVIOUS
<1>1. CASE UNCHANGED supervisedVars
  BY <1>1 DEF supervisedVars, SupervisedInv, SupervisedTypeOK, Numbered, TakenAsItIs, Progress,
     Placed,
     AnswerServed, Believed, Standing, Returned, Promised, InHand, Serves
<1> QED
  BY <1>1, ReplacingKeeps, AskKeeps, GiveUpKeeps, BelieveKeeps, TakeUpKeeps, SettleKeeps,
     InterfacesKeep, AckKeeps, StopKeeps DEF SupervisedNext, ProviderStep, SupervisorStep

LEMMA SupervisedStart == SupervisedInit => SupervisedInv
<1> SUFFICES ASSUME SupervisedInit PROVE SupervisedInv
  OBVIOUS
<1>1. Empty \in Revisions /\ {} \in SUBSET Tags
  BY DEF Empty, Revisions
<1>2. SupervisedTypeOK
  BY <1>1 DEF SupervisedInit, SupervisedTypeOK, Providers, ProviderStages, Supervisors,
     SupervisorStages, Off, NoAck
<1> QED
  BY <1>2 DEF SupervisedInit, SupervisedInv, Numbered, TakenAsItIs, Progress, Placed,
     AnswerServed, Believed,
     Standing, Returned, InHand, Off, NoAck

(***************************************************************************)
(* What an apply of a supervised engine reports is in place and served,    *)
(* for both engines, any inbounds and any requests, answers late or        *)
(* refused, retries and stops of the container.                            *)
(***************************************************************************)
THEOREM SupervisedReported == SupervisedSpec => []ReportedIsServed
<1>1. SupervisedInv => ReportedIsServed
  BY DEF SupervisedInv, Placed, Believed, AnswerServed, Standing, Returned, Serves,
     ReportedIsServed
<1> QED
  BY <1>1, SupervisedStart, SupervisedStep, PTL DEF SupervisedSpec

-----------------------------------------------------------------------------
(***************************************************************************)
(* The lock a call holds: DistLock for every number of calls and every     *)
(* expiry, renewal period and latency that satisfy Timely.  The length of  *)
(* a stretch of work is free.                                              *)
(*                                                                         *)
(* MutualExclusion is not inductive: it says nothing of the key.  The      *)
(* invariant below adds how much of the expiry a call can count on at each *)
(* point of the renewal cycle.                                             *)
(*                                                                         *)
(* The last section is about DistLockFaults, where none of that is left.   *)
(***************************************************************************)


\* Before the operation runs nothing has been renewed or lost.
Unstarted(c) ==
  pc[c] \in {"idle", "set"} => ~lost[c] /\ renewal[c] = "none" /\ since[c] = 0

\* A call that knows of its loss renews no more, so no answer can undo the loss.
Sticky(c) == lost[c] => renewal[c] = "none"

\* While the answer to SET is on its way, the key is the call's.
Acquired(c) ==
  pc[c] = "set" => token = c /\ ttl + age[c] >= Ttl

\* What a call that believes it owns the key can count on.
Leased(c) ==
  Believes(c) =>
    /\ token = c
    /\ renewal[c] # "no"
    /\ renewal[c] = "none" => ttl + Latency + since[c] >= Ttl
    /\ renewal[c] = "sent" => ttl + Latency + Period + age[c] >= Ttl
    /\ renewal[c] = "yes" => ttl + age[c] >= Ttl

\* What the expiry still protects the call from.
Left(c) == IF token = c THEN ttl ELSE 0

\* A call at work after a failed renewal keeps the key until it has worked for long.
Outlasts(c) ==
  pc[c] = "working" /\ lost[c] => work[c] + Left(c) + Period + 2 * Latency >= Ttl

\* A stretch of work starts its clock at zero.
Rested(c) == pc[c] \in {"idle", "set", "running", "verifying"} => work[c] = 0

Kept(c) ==
  Unstarted(c) /\ Sticky(c) /\ Acquired(c) /\ Leased(c) /\ Outlasts(c) /\ Rested(c)

Lease == \A c \in Calls: Kept(c)

LockInv == TypeOK /\ Lease

-----------------------------------------------------------------------------
\* The renewal period is a number of ticks, at least the floor.
LEMMA PeriodNat == Period \in Nat \ {0}
BY TimeAssumption DEF Period

\* No clock of a renewal, of a command or of a stretch of work overruns its bound.
LEMMA TypeStep == ASSUME TypeOK, [Next]_vars PROVE TypeOK'
<1> USE CallsAssumption, TimeAssumption, PeriodNat
<1> USE DEF TypeOK, PCs, Active, Releasing, Final
<1>1. CASE Tick
  BY <1>1 DEF Tick, PassTime, Prompt
<1>2. ASSUME NEW c \in Calls, SetKey(c) PROVE TypeOK'
  BY <1>2 DEF SetKey
<1>3. ASSUME NEW c \in Calls, SetReply(c) PROVE TypeOK'
  BY <1>3 DEF SetReply
<1>4. ASSUME NEW c \in Calls, TimerFires(c) PROVE TypeOK'
  BY <1>4 DEF TimerFires, Renew
<1>5. ASSUME NEW c \in Calls, RenewExec(c) PROVE TypeOK'
  BY <1>5 DEF RenewExec
<1>6. ASSUME NEW c \in Calls, RenewReply(c) PROVE TypeOK'
  BY <1>6 DEF RenewReply, AfterVerify
<1>7. ASSUME NEW c \in Calls, Operation(c) PROVE TypeOK'
  BY <1>7 DEF Operation, BeginWork, EndWork, Verify, EndOperation, Renew
<1>8. ASSUME NEW c \in Calls, Release(c) PROVE TypeOK'
  BY <1>8 DEF Release
<1>9. ASSUME NEW c \in Calls, Crash(c) PROVE TypeOK'
  BY <1>9 DEF Crash
<1>10. CASE UNCHANGED vars
  BY <1>10 DEF vars
<1> QED
  BY <1>1, <1>2, <1>3, <1>4, <1>5, <1>6, <1>7, <1>8, <1>9, <1>10 DEF Next, Commands

(***************************************************************************)
(* The variables stay in their types: no clock of a renewal, of a command  *)
(* or of a stretch of work overruns its bound.                             *)
(***************************************************************************)
THEOREM LockTypeCorrect == Spec => []TypeOK
<1>1. Init => TypeOK
  BY CallsAssumption, TimeAssumption, PeriodNat DEF Init, TypeOK, PCs
<1> QED
  BY <1>1, TypeStep, PTL DEF Spec

-----------------------------------------------------------------------------
\* Every step preserves what the calls can count on.
LEMMA LeaseStep == ASSUME Timely, LockInv, TypeOK', [Next]_vars PROVE Lease'
<1> USE CallsAssumption, TimeAssumption, PeriodNat DEF LockInv, Lease
<1> USE DEF Kept, Unstarted, Sticky, Acquired, Leased, Outlasts, Left, Rested
<1> USE DEF Believes, TypeOK, PCs, Active, Releasing, Final
<1>1. CASE Tick
  <2> SUFFICES ASSUME NEW c \in Calls
               PROVE  Kept(c)'
    OBVIOUS
  <2>1. Prompt(c) /\ PassTime
    BY <1>1 DEF Tick
  <2>2. Unstarted(c)' /\ Sticky(c)'
    BY <2>1 DEF PassTime
  <2>3. Acquired(c)'
    BY <2>1 DEF PassTime, Prompt, Timely
  <2>4. Leased(c)'
    BY <2>1 DEF PassTime, Prompt, Timely
  <2>5. Outlasts(c)'
    BY <2>1 DEF PassTime
  <2>6. Rested(c)'
    BY <2>1 DEF PassTime
  <2> QED
    BY <2>2, <2>3, <2>4, <2>5, <2>6
<1>2. ASSUME NEW d \in Calls, SetKey(d) PROVE Lease'
  <2>1. CASE token = NoCall
    <3> SUFFICES ASSUME NEW c \in Calls
                 PROVE  Kept(c)'
      OBVIOUS
    <3>1. CASE c = d
      BY <1>2, <2>1, <3>1 DEF SetKey
    <3>2. CASE c # d
      BY <1>2, <2>1, <3>2 DEF SetKey
    <3> QED
      BY <3>1, <3>2
  <2>2. CASE token # NoCall
    BY <1>2, <2>2 DEF SetKey
  <2> QED
    BY <2>1, <2>2
<1>3. ASSUME NEW d \in Calls, SetReply(d) PROVE Lease'
  BY <1>3 DEF SetReply
<1>4. ASSUME NEW d \in Calls, TimerFires(d) PROVE Lease'
  BY <1>4 DEF TimerFires, Renew
<1>5. ASSUME NEW d \in Calls, RenewExec(d) PROVE Lease'
  BY <1>5 DEF RenewExec
<1>6. ASSUME NEW d \in Calls, RenewReply(d) PROVE Lease'
  <2> SUFFICES ASSUME NEW c \in Calls
               PROVE  Kept(c)'
    OBVIOUS
  <2>1. PICK isLost \in BOOLEAN:
          /\ renewal[d] \in {"sent", "no"} => isLost
          /\ lost' = [lost EXCEPT ![d] = isLost]
          /\ pc' = [pc EXCEPT ![d] = AfterVerify(d, isLost)]
    BY <1>6 DEF RenewReply
  <2>2. CASE c # d
    BY <1>6, <2>1, <2>2 DEF RenewReply
  <2>3. CASE c = d /\ ~isLost
    <3>1. /\ renewal[c] = "yes" /\ renewal'[c] = "none"
          /\ pc'[c] = IF pc[c] = "verifying" THEN "running" ELSE pc[c]
          /\ ~lost'[c]
          /\ since' = since /\ ttl' = ttl /\ token' = token
      BY <1>6, <2>1, <2>3 DEF RenewReply, AfterVerify
    <3>2. Unstarted(c)' /\ Sticky(c)' /\ Acquired(c)' /\ Outlasts(c)' /\ Rested(c)'
      BY <1>6, <3>1 DEF RenewReply
    <3>3. Leased(c)'
      BY <3>1
    <3> QED
      BY <3>2, <3>3
  <2>4. CASE c = d /\ isLost
    BY <1>6, <2>1, <2>4 DEF RenewReply, AfterVerify
  <2> QED
    BY <2>2, <2>3, <2>4
<1>7. ASSUME NEW d \in Calls, Operation(d) PROVE Lease'
  BY <1>7 DEF Operation, BeginWork, EndWork, Verify, EndOperation, Renew
<1>8. ASSUME NEW d \in Calls, Release(d) PROVE Lease'
  BY <1>8 DEF Release
<1>9. ASSUME NEW d \in Calls, Crash(d) PROVE Lease'
  BY <1>9 DEF Crash
<1>10. CASE UNCHANGED vars
  BY <1>10 DEF vars
<1> QED
  BY <1>1, <1>2, <1>3, <1>4, <1>5, <1>6, <1>7, <1>8, <1>9, <1>10 DEF Next, Commands

\* The inductive invariant holds throughout.
LEMMA LockInductive == ASSUME Timely PROVE Spec => []LockInv
<1>1. Init => LockInv
  <2>1. Init => TypeOK
    BY CallsAssumption, TimeAssumption, PeriodNat DEF Init, TypeOK, PCs
  <2>2. Init => Lease
    BY DEF Init, Lease, Kept, Unstarted, Sticky, Acquired, Leased, Outlasts, Rested, Believes, Active
  <2> QED
    BY <2>1, <2>2 DEF LockInv
<1>2. LockInv /\ TypeOK' /\ [Next]_vars => LockInv'
  BY LeaseStep DEF LockInv
<1> QED
  BY <1>1, <1>2, LockTypeCorrect, PTL DEF Spec

(***************************************************************************)
(* Two operations never both take themselves for the owner.                *)
(***************************************************************************)
THEOREM Exclusion == ASSUME Timely PROVE Spec => []MutualExclusion
<1>1. LockInv => MutualExclusion
  BY DEF LockInv, Lease, Kept, Leased, MutualExclusion
<1> QED
  BY <1>1, LockInductive, PTL

\* The call that begins to work has the key, so a call at work beside it had lost its own.
LEMMA StaggerStep ==
  ASSUME LockInv, WorkStaggered, [Next]_vars PROVE WorkStaggered'
<1> USE TimeAssumption, PeriodNat DEF LockInv, TypeOK
<1> SUFFICES ASSUME NEW c \in Calls, NEW d \in Calls, c # d,
                    pc'[c] = "working", pc'[d] = "working"
             PROVE  Longer(c, d)' \/ Longer(d, c)'
  BY DEF WorkStaggered
<1>1. CASE Tick
  <2>1. pc' = pc
    BY <1>1 DEF Tick, PassTime
  <2>2. work'[c] = work[c] + 1 /\ work'[d] = work[d] + 1
    BY <1>1, <2>1 DEF Tick, PassTime
  <2>3. Longer(c, d) \/ Longer(d, c)
    BY <2>1 DEF WorkStaggered
  <2> QED
    BY <2>2, <2>3 DEF Longer
<1>2. ASSUME NEW b \in Calls, BeginWork(b) PROVE Longer(c, d)' \/ Longer(d, c)'
  <2>1. /\ pc[b] = "running" /\ ~lost[b] /\ work' = work
        /\ \A a \in Calls \ {b} : pc'[a] = pc[a]
    BY <1>2 DEF BeginWork
  <2>2. token = b /\ work[b] = 0
    BY <2>1 DEF Lease, Kept, Leased, Rested, Believes, Active
  <2>3. ASSUME NEW a \in Calls, a # b, pc[a] = "working"
        PROVE  work[a] + Period + 2 * Latency >= work[b] + Ttl
    <3>1. lost[a]
      BY <2>2, <2>3 DEF Lease, Kept, Leased, Believes, Active
    <3>2. Left(a) = 0
      BY <2>2, <2>3 DEF Left
    <3>3. work[a] + Left(a) + Period + 2 * Latency >= Ttl
      BY <2>3, <3>1 DEF Lease, Kept, Outlasts
    <3> QED
      BY <2>2, <3>2, <3>3
  <2>4. CASE c = b
    BY <2>1, <2>3, <2>4 DEF Longer
  <2>5. CASE d = b
    BY <2>1, <2>3, <2>5 DEF Longer
  <2>6. CASE c # b /\ d # b
    BY <2>1, <2>6 DEF Longer, WorkStaggered
  <2> QED
    BY <2>4, <2>5, <2>6
<1>3. CASE pc[c] = "working" /\ pc[d] = "working" /\ work'[c] = work[c] /\ work'[d] = work[d]
  BY <1>3 DEF Longer, WorkStaggered
<1>4. ASSUME NEW b \in Calls,
             SetKey(b) \/ Commands(b) \/ EndWork(b) \/ Verify(b) \/ EndOperation(b) \/ Crash(b)
      PROVE  pc[c] = "working" /\ pc[d] = "working" /\ work'[c] = work[c] /\ work'[d] = work[d]
  BY <1>4 DEF SetKey, Commands, SetReply, TimerFires, RenewExec, RenewReply, AfterVerify, Release,
              EndWork, Verify, EndOperation, Crash
<1> QED
  BY <1>1, <1>2, <1>3, <1>4 DEF Next, Operation, vars

(***************************************************************************)
(* Two operations at work at once, one of them after its renewal failed,   *)
(* began at least Ttl - Period - 2 * Latency apart, however long they are  *)
(* at work.                                                                *)
(***************************************************************************)
THEOREM WorkStaggers == ASSUME Timely PROVE Spec => []WorkStaggered
<1>1. Init => WorkStaggered
  BY DEF Init, WorkStaggered
<1>2. LockInv /\ WorkStaggered /\ [Next]_vars => WorkStaggered'
  BY StaggerStep
<1> QED
  BY <1>1, <1>2, LockInductive, PTL DEF Spec

-----------------------------------------------------------------------------
\* A step of call d changes nothing of what the other calls know.
OnlyMoves(d) == \A c \in Calls \ {d}: pc'[c] = pc[c] /\ lost'[c] = lost[c]

Retired(c) == pc[c] \in Releasing \cup Final \/ (pc[c] \in Active /\ lost[c])

\* A call that comes to own the key finds no owner and was never one before.
Comes(d) == ~Retired(d) /\ ~Believes(d) /\ Believes(d)' /\ Owners = {}

\* How a step of call d shows in the abstract lock.
LEMMA MutexStep ==
  ASSUME NEW d \in Calls, OnlyMoves(d), ~(Believes(d)' /\ Retired(d)'),
         \/ Believes(d)' = Believes(d) /\ Retired(d)' = Retired(d)
         \/ Comes(d)
         \/ Retired(d)' /\ ~Retired(d)
  PROVE  [M!Next]_(M!mutexVars)
<1>1. \A c \in Calls \ {d}: Believes(c)' = Believes(c) /\ Retired(c)' = Retired(c)
  BY DEF OnlyMoves, Believes, Retired
<1>2. Past = {c \in Calls: Retired(c)} /\ Past' = {c \in Calls: Retired(c)'}
  BY DEF Past, Retired
<1>3. Owners = {c \in Calls: Believes(c)} /\ Owners' = {c \in Calls: Believes(c)'}
  BY DEF Owners
<1>4. CASE Believes(d)' = Believes(d) /\ Retired(d)' = Retired(d)
  <2>1. Past' = Past
    BY <1>1, <1>2, <1>4
  <2>2. Owners' = Owners
    BY <1>1, <1>3, <1>4
  <2> QED
    BY <2>1, <2>2 DEF M!mutexVars
<1>5. CASE Comes(d)
  <2>1. Past' = Past /\ d \notin Past
    BY <1>1, <1>2, <1>5 DEF Comes
  <2>2. Owners = {} /\ Owners' = {d}
    BY <1>1, <1>3, <1>5 DEF Comes
  <2> QED
    BY <2>1, <2>2 DEF M!Next, M!Enter
<1>6. CASE Retired(d)' /\ ~Retired(d)
  <2>1. Past' = Past \cup {d}
    BY <1>1, <1>2, <1>6
  <2>2. CASE Believes(d)
    <3>1. d \in Owners /\ Owners' = Owners \ {d}
      BY <1>1, <1>3, <1>6, <2>2
    <3> QED
      BY <2>1, <3>1 DEF M!Next, M!Leave
  <2>3. CASE ~Believes(d)
    <3>1. d \notin Owners /\ Owners' = Owners
      BY <1>1, <1>3, <1>6, <2>3
    <3> QED
      BY <2>1, <3>1 DEF M!Next, M!GiveUp
  <2> QED
    BY <2>2, <2>3
<1> QED
  BY <1>4, <1>5, <1>6

(***************************************************************************)
(* The lock implements the abstract Mutex: the operation that comes to own *)
(* the key finds no owner, and who has lost the key or is done never owns  *)
(* it again.                                                               *)
(***************************************************************************)
THEOREM Implements == ASSUME Timely PROVE Spec => ImplementsMutex
<1>1. Init => M!Init
  BY DEF Init, M!Init, Owners, Past, Believes, Active, Releasing, Final
<1>2. ASSUME LockInv, [Next]_vars PROVE [M!Next]_(M!mutexVars)
  <2> USE <1>2 DEF OnlyMoves, TypeOK, PCs, LockInv
  <2> USE DEF Believes, Retired, Active, Releasing, Final
  <2>1. CASE Tick \/ UNCHANGED vars
    BY <2>1 DEF Tick, PassTime, vars, Owners, Past, M!mutexVars
  <2>2. ASSUME NEW d \in Calls, SetKey(d) PROVE [M!Next]_(M!mutexVars)
    <3>1. pc[d] = "idle" /\ pc'[d] \in {"set", "refused"} /\ lost' = lost
      BY <2>2 DEF SetKey
    <3>2. OnlyMoves(d)
      BY <2>2 DEF SetKey
    <3> QED
      BY <3>1, <3>2, MutexStep
  <2>3. ASSUME NEW d \in Calls, SetReply(d) PROVE [M!Next]_(M!mutexVars)
    <3>1. pc[d] = "set" /\ pc'[d] \in {"running", "failed"} /\ lost' = lost
      BY <2>3 DEF SetReply
    <3>2. OnlyMoves(d)
      BY <2>3 DEF SetReply
    <3>3. token = d /\ ~lost[d]
      BY <3>1 DEF Lease, Kept, Acquired, Unstarted
    <3>4. Owners = {}
      BY <3>1, <3>3 DEF Lease, Kept, Leased, Owners
    <3> QED
      BY <3>1, <3>2, <3>3, <3>4, MutexStep DEF Comes
  <2>4. ASSUME NEW d \in Calls, TimerFires(d) PROVE [M!Next]_(M!mutexVars)
    BY <2>4 DEF TimerFires, Owners, Past, M!mutexVars
  <2>5. ASSUME NEW d \in Calls, RenewExec(d) PROVE [M!Next]_(M!mutexVars)
    BY <2>5 DEF RenewExec, Owners, Past, M!mutexVars
  <2>6. ASSUME NEW d \in Calls, RenewReply(d) PROVE [M!Next]_(M!mutexVars)
    <3>1. OnlyMoves(d)
      BY <2>6 DEF RenewReply
    <3>2. ~lost[d]
      BY <2>6 DEF RenewReply, Lease, Kept, Sticky
    <3>3. \/ pc'[d] = pc[d]
          \/ pc[d] = "verifying" /\ pc'[d] = "running" /\ ~lost'[d]
          \/ pc[d] = "verifying" /\ pc'[d] = "aborting"
      BY <2>6 DEF RenewReply, AfterVerify
    <3> QED
      BY <3>1, <3>2, <3>3, MutexStep
  <2>7. ASSUME NEW d \in Calls, Operation(d) \/ Release(d) \/ Crash(d)
        PROVE  [M!Next]_(M!mutexVars)
    <3> USE DEF Operation, BeginWork, EndWork, Verify, EndOperation, Release, Crash
    <3>1. OnlyMoves(d)
      BY <2>7
    <3>2. lost' = lost
      BY <2>7
    <3>3. \/ pc[d] \in Active /\ pc'[d] \in Active
          \/ pc[d] \in Releasing /\ pc'[d] \in Final
          \/ pc[d] \in {"set"} \cup Active /\ pc'[d] \in Releasing \cup Final
      BY <2>7
    <3> QED
      BY <3>1, <3>2, <3>3, MutexStep
  <2> QED
    BY <1>2, <2>1, <2>2, <2>3, <2>4, <2>5, <2>6, <2>7 DEF Next, Commands
<1> QED
  BY <1>1, <1>2, LockInductive, PTL DEF Spec, M!Spec, ImplementsMutex

-----------------------------------------------------------------------------
(***************************************************************************)
(* With a Redis that loses the key.  A call that believes wrongly has done *)
(* so at most since its last good renewal was sent, and it is bounded      *)
(* where each renewal is: in flight, or a period away.                     *)
(***************************************************************************)
Doubted(c) ==
  /\ ~Believes(c) \/ token = c => doubt[c] = 0
  /\ Believes(c) =>
       /\ renewal[c] = "none" => doubt[c] <= Latency + since[c]
       /\ renewal[c] \in {"sent", "no"} => doubt[c] <= Latency + Period + age[c]
       /\ renewal[c] = "yes" => doubt[c] <= age[c]

FTypeOK ==
  /\ vanished \in Nat /\ stalled \in Nat
  /\ doubt \in [Calls -> Nat]

Punctual ==
  /\ TypeOK
  /\ \A c \in Calls: Unstarted(c) /\ Sticky(c) /\ Doubted(c)

FInv == FTypeOK /\ (stalled = 0 => Punctual)

\* A stall is never forgotten.
LEMMA FTypeStep == ASSUME FTypeOK, [FNext]_faultVars PROVE FTypeOK' /\ stalled <= stalled'
<1> USE DEF FTypeOK
<1>1. CASE FTick
  BY <1>1 DEF FTick, Doubting
<1>2. CASE LateTick
  BY <1>2 DEF LateTick, Doubting
<1>3. CASE Vanish
  BY <1>3 DEF Vanish
<1>4. ASSUME NEW c \in Calls, FStep(c) PROVE FTypeOK' /\ stalled <= stalled'
  BY <1>4 DEF FStep
<1>5. CASE UNCHANGED faultVars
  BY <1>5 DEF faultVars
<1> QED
  BY <1>1, <1>2, <1>3, <1>4, <1>5 DEF FNext

\* A step of a call that is not stalled.
LEMMA FStepPunctual ==
  ASSUME FTypeOK, Punctual, NEW d \in Calls, FStep(d), TypeOK'
  PROVE  Punctual'
<1> USE CallsAssumption, TimeAssumption, PeriodNat DEF FTypeOK, Punctual
<1> USE DEF Unstarted, Sticky, Doubted, Believes, TypeOK, PCs, Active, Releasing, Final, FStep
<1> SUFFICES ASSUME NEW c \in Calls PROVE (Unstarted(c) /\ Sticky(c) /\ Doubted(c))'
  OBVIOUS
<1>1. CASE c # d
  BY <1>1 DEF SetKey, Commands, SetReply, TimerFires, Renew, RenewExec, RenewReply, Release,
              Crash, BeginWork, Verify, EndWork, EndOperation
<1>2. CASE c = d /\ SetKey(d)
  BY <1>2 DEF SetKey
<1>3. CASE c = d /\ SetReply(d)
  BY <1>3 DEF SetReply
<1>4. CASE c = d /\ TimerFires(d)
  BY <1>4 DEF TimerFires, Renew
<1>5. CASE c = d /\ RenewExec(d)
  BY <1>5 DEF RenewExec
<1>6. CASE c = d /\ RenewReply(d)
  BY <1>6 DEF RenewReply, AfterVerify
<1>7. CASE c = d /\ (BeginWork(d) \/ EndWork(d))
  BY <1>7 DEF BeginWork, EndWork
<1>8. CASE c = d /\ Verify(d)
  BY <1>8 DEF Verify, Renew
<1>9. CASE c = d /\ (EndOperation(d) \/ Release(d) \/ Crash(d))
  BY <1>9 DEF EndOperation, Release, Crash
<1> QED
  BY <1>1, <1>2, <1>3, <1>4, <1>5, <1>6, <1>7, <1>8, <1>9 DEF Commands

(***************************************************************************)
(* However the key is lost, and for every expiry, renewal period and       *)
(* latency (Timely is not assumed), a call of a process that has not       *)
(* stalled believes wrongly in its lock for at most one renewal period and *)
(* two round trips.                                                        *)
(***************************************************************************)
THEOREM DoubtEnds == FSpec => []DoubtBounded
<1> USE CallsAssumption, TimeAssumption, PeriodNat
<1>1. FInit => FInv
  BY DEF FInit, FInv, FTypeOK, Punctual, Init, TypeOK, PCs, Unstarted, Sticky, Doubted, Believes, Active
<1>2. ASSUME FInv, [FNext]_faultVars PROVE FInv'
  <2> USE DEF FInv
  <2>1. FTypeOK' /\ stalled <= stalled'
    BY <1>2, FTypeStep
  <2> SUFFICES ASSUME stalled' = 0 PROVE Punctual'
    BY <2>1
  <2>2. stalled = 0 /\ Punctual
    BY <1>2, <2>1 DEF FTypeOK
  <2>3. CASE FTick
    <3>1. TypeOK'
      BY <2>2, <2>3, TypeStep DEF Punctual, FTick, Next
    <3> SUFFICES ASSUME NEW c \in Calls PROVE (Unstarted(c) /\ Sticky(c) /\ Doubted(c))'
      BY <3>1 DEF Punctual
    <3>2. Prompt(c) /\ PassTime /\ Doubting
      BY <2>3 DEF FTick, Tick
    <3>3. Unstarted(c)' /\ Sticky(c)'
      BY <2>2, <3>2 DEF Punctual, Unstarted, Sticky, PassTime, TypeOK, Active
    <3>4. Doubted(c)'
      BY <1>2, <2>2, <3>2
         DEF Punctual, Doubted, Believes, Prompt, PassTime, Doubting, TypeOK, FTypeOK, Active
    <3> QED
      BY <3>3, <3>4
  <2>4. CASE LateTick
    BY <2>2, <2>4 DEF LateTick
  <2>5. CASE Vanish
    BY <2>2, <2>5 DEF Vanish, Punctual, TypeOK, Unstarted, Sticky, Doubted, Believes
  <2>6. ASSUME NEW d \in Calls, FStep(d) PROVE Punctual'
    <3>1. TypeOK'
      BY <2>2, <2>6, TypeStep DEF Punctual, FStep, Next, Operation
    <3> QED
      BY <1>2, <2>2, <2>6, <3>1, FStepPunctual
  <2>7. CASE UNCHANGED faultVars
    BY <2>2, <2>7 DEF faultVars, vars, Punctual, TypeOK, Unstarted, Sticky, Doubted, Believes
  <2> QED
    BY <1>2, <2>3, <2>4, <2>5, <2>6, <2>7 DEF FNext
<1>3. FInv => DoubtBounded
  <2> SUFFICES ASSUME FInv, stalled = 0, NEW c \in Calls
               PROVE  doubt[c] <= Period + 2 * Latency
    BY DEF DoubtBounded
  <2>1. Doubted(c) /\ TypeOK
    BY DEF FInv, Punctual
  <2>2. /\ since[c] \in Nat /\ since[c] <= Period /\ age[c] \in Nat /\ age[c] <= Latency
        /\ Period \in Nat /\ doubt[c] \in Nat
        /\ renewal[c] \in {"none", "sent", "yes", "no"}
    BY <2>1 DEF TypeOK, FInv, FTypeOK
  <2>3. CASE Believes(c)
    BY <2>1, <2>2, <2>3 DEF Doubted
  <2>4. CASE ~Believes(c)
    BY <2>1, <2>2, <2>4 DEF Doubted
  <2> QED
    BY <2>3, <2>4
<1> QED
  BY <1>1, <1>2, <1>3, PTL DEF FSpec

=============================================================================
