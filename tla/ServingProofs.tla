---------------------------- MODULE ServingProofs ----------------------------
(***************************************************************************)
(* Proofs about Serving, for any inbounds, users, protocols and statuses,  *)
(* and about Assignments, for any users, plans, inbounds and requests.     *)
(***************************************************************************)
EXTENDS Serving, Assignments, TLAPS

InboundRows == [row: {"none", "there", "gone"}, protocol: Protocols, enabled: BOOLEAN,
                dirty: BOOLEAN, host: Hosts \cup {None}, method: {None, "16", "32"}, key: Nat]
UserRows == [status: {"ACTIVE", "LIMITED", "EXPIRED", "DISABLED"}, deleted: BOOLEAN, dirty: BOOLEAN]
AssignmentRows == [status: {None, "ACTIVE", "DISABLED"}, version: Nat, method: {None, "16", "32"}]
Credentials == [user: Users, version: Nat, method: {None, "16", "32"}]
Configurations == [method: {None, "16", "32"}, key: Nat, users: SUBSET Credentials]

TypeOK ==
  /\ inbound \in [Inbounds -> InboundRows]
  /\ user \in [Users -> UserRows]
  /\ assigned \in [Users -> [Inbounds -> AssignmentRows]]
  /\ running \in [Inbounds -> Configurations]

\* What the core of an inbound has been given is what the row of the inbound says,
Configured(i) ==
  inbound[i].enabled => running[i].method = inbound[i].method /\ running[i].key = inbound[i].key

\* and, for one user, what the rows of the user and of the assignment say.
Active(u, i) == inbound[i].enabled /\ u \in Included(i)

Agreed(u, i) ==
  /\ Active(u, i) => /\ Credential(u, i) \in running[i].users
                     /\ assigned[u][i].method = inbound[i].method
  /\ \A c \in running[i].users: c.user = u => Active(u, i) /\ c = Credential(u, i)

\* A row without a mark is what runs; two rows without a mark agree with it.
Clean(i) == ~inbound[i].dirty => /\ Configured(i)
                                 /\ \A u \in Users: ~user[u].dirty => Agreed(u, i)

ServingInv == TypeOK /\ \A i \in Rows: Clean(i)

-----------------------------------------------------------------------------
LEMMA MethodsAre == \A p \in Protocols: MethodsOf(p) \subseteq {None, "16", "32"}
BY DEF MethodsOf

\* The rows that the operations store.
There(r, p, host, on, method, key) ==
  r = [row |-> "there", protocol |-> p, enabled |-> on, dirty |-> TRUE,
       host |-> host, method |-> method, key |-> key]

LEMMA StoredRows ==
  ASSUME NEW w \in InboundRows, NEW host \in Hosts, NEW on \in BOOLEAN,
         NEW method \in {None, "16", "32"}, NEW key \in Nat
  PROVE  \A r: There(r, w.protocol, host, on, method, key) => r \in InboundRows /\ r.dirty
<1>1. w.protocol \in Protocols
  BY DEF InboundRows
<1> QED
  BY <1>1 DEF There, InboundRows

LEMMA NextCredential ==
  ASSUME NEW w \in AssignmentRows, NEW method \in {None, "16", "32"}
  PROVE  /\ [w EXCEPT !.version = @ + 1, !.method = method] \in AssignmentRows
         /\ [[w EXCEPT !.version = @ + 1, !.method = method] EXCEPT !.status = "ACTIVE"]
              \in AssignmentRows
         /\ [w EXCEPT !.status = "DISABLED"] \in AssignmentRows
<1>1. [w EXCEPT !.version = @ + 1, !.method = method] \in AssignmentRows
  <2>1. PICK n \in Nat: n = w.version + 1
    BY DEF AssignmentRows
  <2>2. [w EXCEPT !.version = n, !.method = method] \in AssignmentRows
    BY DEF AssignmentRows
  <2> QED
    BY <2>1, <2>2
<1>2. ASSUME NEW r \in AssignmentRows PROVE [r EXCEPT !.status = "ACTIVE"] \in AssignmentRows
  BY DEF AssignmentRows
<1>3. [w EXCEPT !.status = "DISABLED"] \in AssignmentRows
  BY DEF AssignmentRows
<1> QED
  BY <1>1, <1>2, <1>3

\* A step that leaves the configurations alone: what it changes, it marks.
LEMMA MarkedStep ==
  ASSUME ServingInv, TypeOK', running' = running,
         \A i \in Rows': inbound'[i].dirty \/ (i \in Rows /\ inbound'[i] = inbound[i]),
         \A u \in Users: user'[u].dirty \/ user'[u] = user[u],
         \A u \in Users, i \in Rows':
           inbound'[i].dirty \/ user'[u].dirty \/ assigned'[u][i] = assigned[u][i]
  PROVE  ServingInv'
<1> USE DEF ServingInv
<1> SUFFICES ASSUME NEW i \in Rows', ~inbound'[i].dirty
             PROVE  Configured(i)' /\ \A u \in Users: ~user'[u].dirty => Agreed(u, i)'
  BY DEF Clean
<1>1. i \in Rows /\ inbound'[i] = inbound[i] /\ ~inbound[i].dirty
  OBVIOUS
<1>2. Configured(i)'
  BY <1>1 DEF Clean, Configured
<1>3. ASSUME NEW u \in Users, ~user'[u].dirty PROVE Agreed(u, i)'
  <2>1. user'[u] = user[u] /\ assigned'[u][i] = assigned[u][i]
    BY <1>3
  <2>2. Agreed(u, i)
    BY <1>1, <1>3, <2>1 DEF Clean
  <2>3. (Active(u, i)' <=> Active(u, i)) /\ Credential(u, i)' = Credential(u, i)
    BY <1>1, <2>1 DEF Active, Included, Credential
  <2> QED
    BY <1>1, <2>1, <2>2, <2>3 DEF Agreed
<1> QED
  BY <1>2, <1>3

LEMMA InboundSteps ==
  ASSUME ServingInv, NEW i \in Inbounds,
         CreateInbound(i) \/ UpdateInbound(i) \/ SetEnabled(i) \/ RemoveInbound(i)
  PROVE  ServingInv'
<1> USE DEF ServingInv
<1>1. inbound[i] \in InboundRows
  BY DEF TypeOK
<1>2. PICK r \in InboundRows:
        /\ inbound' = [inbound EXCEPT ![i] = r]
        /\ r.row = "there" => r.dirty
  <2>1. CASE CreateInbound(i)
    <3>1. PICK host \in Hosts, on \in BOOLEAN, method \in MethodsOf(inbound[i].protocol):
            inbound' = [inbound EXCEPT ![i] =
              [row |-> "there", protocol |-> @.protocol, enabled |-> on, dirty |-> TRUE,
               host |-> host, method |-> method, key |-> 1]]
      BY <2>1 DEF CreateInbound
    <3>2. method \in {None, "16", "32"} /\ 1 \in Nat
      BY <1>1, MethodsAre DEF InboundRows
    <3>3. PICK r: There(r, inbound[i].protocol, host, on, method, 1)
      BY DEF There
    <3>4. inbound' = [inbound EXCEPT ![i] = r]
      BY <3>1, <3>3 DEF There
    <3>5. r \in InboundRows /\ r.dirty
      BY <1>1, <3>2, <3>3, StoredRows
    <3> QED
      BY <3>4, <3>5
  <2>2. CASE UpdateInbound(i)
    <3>1. PICK host \in Hosts, on \in BOOLEAN, method \in MethodsOf(inbound[i].protocol):
            \E key \in Stored(i, method): inbound' = [inbound EXCEPT ![i] =
              [row |-> "there", protocol |-> @.protocol, enabled |-> on, dirty |-> TRUE,
               host |-> host, method |-> method, key |-> key]]
      BY <2>2 DEF UpdateInbound
    <3>2. PICK key \in Stored(i, method): inbound' = [inbound EXCEPT ![i] =
              [row |-> "there", protocol |-> @.protocol, enabled |-> on, dirty |-> TRUE,
               host |-> host, method |-> method, key |-> key]]
      BY <3>1
    <3>3. method \in {None, "16", "32"} /\ key \in Nat
      BY <1>1, MethodsAre DEF InboundRows, Stored
    <3>4. PICK r: There(r, inbound[i].protocol, host, on, method, key)
      BY DEF There
    <3>5. inbound' = [inbound EXCEPT ![i] = r]
      BY <3>2, <3>4 DEF There
    <3>6. r \in InboundRows /\ r.dirty
      BY <1>1, <3>3, <3>4, StoredRows
    <3> QED
      BY <3>5, <3>6
  <2>3. CASE SetEnabled(i)
    <3>1. PICK r: r = [inbound[i] EXCEPT !.enabled = ~@, !.dirty = TRUE]
      OBVIOUS
    <3>2. inbound' = [inbound EXCEPT ![i] = r]
      BY <2>3, <3>1 DEF SetEnabled
    <3>3. r \in InboundRows /\ r.dirty
      BY <1>1, <3>1 DEF InboundRows
    <3> QED
      BY <3>2, <3>3
  <2>4. CASE RemoveInbound(i)
    <3>1. PICK r: r = [row |-> "gone", protocol |-> inbound[i].protocol, enabled |-> FALSE,
                       dirty |-> FALSE, host |-> None, method |-> None, key |-> 0]
      OBVIOUS
    <3>2. inbound' = [inbound EXCEPT ![i] = r]
      BY <2>4, <3>1 DEF RemoveInbound
    <3>3. r \in InboundRows /\ r.row # "there"
      BY <1>1, <3>1 DEF InboundRows
    <3> QED
      BY <3>2, <3>3
  <2> QED
    BY <2>1, <2>2, <2>3, <2>4
<1>3. UNCHANGED <<user, running>>
  BY DEF CreateInbound, UpdateInbound, SetEnabled, RemoveInbound
<1>4. /\ inbound' \in [Inbounds -> InboundRows] /\ inbound'[i] = r
      /\ \A j \in Inbounds \ {i}: inbound'[j] = inbound[j]
  BY <1>2 DEF TypeOK
<1>5. /\ assigned' \in [Users -> [Inbounds -> AssignmentRows]]
      /\ \A u \in Users: \A j \in Inbounds \ {i}: assigned'[u][j] = assigned[u][j]
  <2>1. CASE assigned' = assigned
    BY <2>1 DEF TypeOK
  <2>2. CASE assigned' # assigned
    <3>1. assigned' = [u \in Users |-> [assigned[u] EXCEPT ![i] = NoAssignment]]
      BY <2>2 DEF CreateInbound, UpdateInbound, SetEnabled, RemoveInbound
    <3>2. NoAssignment \in AssignmentRows
      BY DEF NoAssignment, AssignmentRows
    <3> QED
      BY <3>1, <3>2 DEF TypeOK
  <2> QED
    BY <2>1, <2>2
<1>6. TypeOK'
  BY <1>3, <1>4, <1>5 DEF TypeOK
<1>7. \A j \in Rows': inbound'[j].dirty \/ (j \in Rows /\ j # i /\ inbound'[j] = inbound[j])
  BY <1>2, <1>4 DEF Rows
<1>8. \A u \in Users, j \in Rows':
           inbound'[j].dirty \/ user'[u].dirty \/ assigned'[u][j] = assigned[u][j]
  BY <1>5, <1>7 DEF Rows
<1> QED
  BY <1>3, <1>6, <1>7, <1>8, MarkedStep

LEMMA AssignmentSteps ==
  ASSUME ServingInv, NEW u \in Users, NEW i \in Inbounds,
         AddAssignment(u, i) \/ RemoveAssignment(u, i) \/ RotateCredential(u, i)
  PROVE  ServingInv'
<1> USE DEF ServingInv
<1>0. inbound[i].method \in {None, "16", "32"}
  BY DEF TypeOK, InboundRows
<1>1. /\ assigned[u][i] \in AssignmentRows /\ inbound[i] \in InboundRows /\ user[u] \in UserRows
  BY DEF TypeOK
<1>2. AssignmentChanged(u, i) /\ running' = running
  BY DEF AddAssignment, RemoveAssignment, RotateCredential
<1>3. PICK r \in AssignmentRows: assigned' = [assigned EXCEPT ![u][i] = r]
  <2>1. CASE AddAssignment(u, i)
    <3>1. assigned' = [assigned EXCEPT ![u][i] =
            [[assigned[u][i] EXCEPT !.version = @ + 1, !.method = inbound[i].method]
               EXCEPT !.status = "ACTIVE"]]
      BY <2>1 DEF AddAssignment, NewCredential, TypeOK
    <3>2. [[assigned[u][i] EXCEPT !.version = @ + 1, !.method = inbound[i].method]
               EXCEPT !.status = "ACTIVE"] \in AssignmentRows
      BY <1>0, <1>1, NextCredential
    <3> QED
      BY <3>1, <3>2
  <2>2. CASE RemoveAssignment(u, i)
    <3>1. assigned' = [assigned EXCEPT ![u][i] = [assigned[u][i] EXCEPT !.status = "DISABLED"]]
      BY <2>2 DEF RemoveAssignment
    <3> QED
      BY <1>0, <1>1, <3>1, NextCredential
  <2>3. CASE RotateCredential(u, i)
    <3>1. assigned' = [assigned EXCEPT ![u][i] =
            [assigned[u][i] EXCEPT !.version = @ + 1, !.method = inbound[i].method]]
      BY <2>3 DEF RotateCredential, NewCredential, TypeOK
    <3>2. [assigned[u][i] EXCEPT !.version = @ + 1, !.method = inbound[i].method] \in AssignmentRows
      BY <1>0, <1>1, NextCredential
    <3> QED
      BY <3>1, <3>2
  <2> QED
    BY <2>1, <2>2, <2>3
<1>4. /\ assigned' \in [Users -> [Inbounds -> AssignmentRows]]
      /\ \A v \in Users, j \in Inbounds: v # u \/ j # i => assigned'[v][j] = assigned[v][j]
  BY <1>3 DEF TypeOK
<1>5. /\ [inbound[i] EXCEPT !.dirty = TRUE] \in InboundRows
      /\ [user[u] EXCEPT !.dirty = TRUE] \in UserRows
  BY <1>1 DEF InboundRows, UserRows
<1>6. /\ inbound' \in [Inbounds -> InboundRows] /\ user' \in [Users -> UserRows]
      /\ inbound'[i] = [inbound[i] EXCEPT !.dirty = TRUE] /\ user'[u] = [user[u] EXCEPT !.dirty = TRUE]
      /\ \A j \in Inbounds \ {i}: inbound'[j] = inbound[j]
      /\ \A v \in Users \ {u}: user'[v] = user[v]
  BY <1>2, <1>5 DEF AssignmentChanged, TypeOK
<1>7. inbound'[i].dirty /\ user'[u].dirty
  BY <1>1, <1>6 DEF InboundRows, UserRows
<1>8. TypeOK'
  BY <1>2, <1>4, <1>6 DEF TypeOK
<1>9. \A j \in Rows': inbound'[j].dirty \/ (j \in Rows /\ inbound'[j] = inbound[j])
  BY <1>6, <1>7 DEF Rows
<1>10. \A v \in Users, j \in Rows':
           inbound'[j].dirty \/ user'[v].dirty \/ assigned'[v][j] = assigned[v][j]
  BY <1>4, <1>7 DEF Rows
<1>11. \A v \in Users: user'[v].dirty \/ user'[v] = user[v]
  BY <1>6, <1>7
<1> QED
  BY <1>2, <1>8, <1>9, <1>10, <1>11, MarkedStep

LEMMA UserSteps ==
  ASSUME ServingInv, NEW u \in Users, RemoveUser(u) \/ \E s \in Statuses: SetStatus(u, s)
  PROVE  ServingInv'
<1> USE DEF ServingInv
<1>1. user[u] \in UserRows /\ UNCHANGED <<inbound, assigned, running>>
  BY DEF TypeOK, RemoveUser, SetStatus
<1>2. PICK r \in UserRows: user' = [user EXCEPT ![u] = r] /\ r.dirty
  <2>1. CASE RemoveUser(u)
    <3>1. PICK r: r = [status |-> "DISABLED", deleted |-> TRUE, dirty |-> TRUE]
      OBVIOUS
    <3>2. r \in UserRows /\ r.dirty
      BY <3>1 DEF UserRows
    <3> QED
      BY <2>1, <3>1, <3>2 DEF RemoveUser
  <2>2. ASSUME NEW s \in Statuses, SetStatus(u, s)
        PROVE  \E r \in UserRows: user' = [user EXCEPT ![u] = r] /\ r.dirty
    <3>1. PICK r: r = [user[u] EXCEPT !.status = s, !.dirty = TRUE]
      OBVIOUS
    <3>2. user' = [user EXCEPT ![u] = r]
      BY <2>2, <3>1 DEF SetStatus
    <3>3. s \in {"ACTIVE", "LIMITED", "EXPIRED", "DISABLED"}
      BY Bounds
    <3>4. r \in UserRows /\ r.dirty
      BY <1>1, <3>1, <3>3 DEF UserRows
    <3> QED
      BY <3>2, <3>4
  <2> QED
    BY <2>1, <2>2
<1>3. TypeOK' /\ \A v \in Users: user'[v].dirty \/ user'[v] = user[v]
  BY <1>1, <1>2 DEF TypeOK
<1>4. Rows' = Rows
  BY <1>1 DEF Rows
<1> QED
  BY <1>1, <1>3, <1>4, MarkedStep

-----------------------------------------------------------------------------
LEMMA RenderedTypes == ASSUME TypeOK, NEW i \in Inbounds PROVE Rendered(i) \in Configurations
<1>1. \A u \in Users: Credential(u, i) \in Credentials
  BY DEF TypeOK, Credential, Credentials, AssignmentRows
<1>2. Included(i) \subseteq Users
  BY DEF Included
<1>3. {Credential(u, i): u \in Included(i)} \in SUBSET Credentials
  BY <1>1, <1>2
<1>4. inbound[i].method \in {None, "16", "32"} /\ inbound[i].key \in Nat
  BY DEF TypeOK, InboundRows
<1> QED
  BY <1>3, <1>4 DEF Rendered, Configurations, Absent

\* An engine that has taken the state runs what its rows say.
LEMMA RenderedAgrees ==
  ASSUME TypeOK, NEW i \in Rows, Checked(EngineOf(inbound[i].protocol)), running'[i] = Rendered(i),
         UNCHANGED assigned, NEW b \in BOOLEAN, inbound'[i] = [inbound[i] EXCEPT !.dirty = b],
         \A u \in Users: \E c \in BOOLEAN: user'[u] = [user[u] EXCEPT !.dirty = c]
  PROVE  Configured(i)' /\ \A u \in Users: Agreed(u, i)'
<1>1. i \in Inbounds /\ inbound[i] \in InboundRows
  BY DEF Rows, TypeOK
<1>2. /\ inbound'[i].enabled = inbound[i].enabled /\ inbound'[i].method = inbound[i].method
      /\ inbound'[i].key = inbound[i].key
  BY <1>1 DEF InboundRows
<1>3. Configured(i)'
  BY <1>2 DEF Configured, Rendered
<1>4. ASSUME NEW u \in Users PROVE Agreed(u, i)'
  <2>1. user'[u].status = user[u].status /\ user'[u].deleted = user[u].deleted
    <3>1. PICK c \in BOOLEAN: user'[u] = [user[u] EXCEPT !.dirty = c]
      OBVIOUS
    <3>2. user[u] \in UserRows
      BY DEF TypeOK
    <3> QED
      BY <3>1, <3>2 DEF UserRows
  <2>2. /\ Active(u, i)' <=> Active(u, i)
        /\ Credential(u, i)' = Credential(u, i)
    BY <1>2, <2>1 DEF Active, Included, Credential
  <2>3. Active(u, i) => /\ Credential(u, i) \in running'[i].users
                        /\ assigned[u][i].method = inbound[i].method
    BY DEF Active, Rendered, Checked, LoadedOf
  <2>4. ASSUME NEW c \in running'[i].users, c.user = u PROVE Active(u, i) /\ c = Credential(u, i)
    <3>1. inbound[i].enabled /\ \E v \in Included(i): c = Credential(v, i)
      BY <2>4 DEF Rendered, Absent
    <3>2. PICK v \in Included(i): c = Credential(v, i)
      BY <3>1
    <3>3. v = u
      BY <2>4, <3>2 DEF Credential
    <3> QED
      BY <3>1, <3>2, <3>3 DEF Active
  <2> QED
    BY <1>2, <2>2, <2>3, <2>4 DEF Agreed
<1> QED
  BY <1>3, <1>4

LEMMA ApplyStep == ASSUME ServingInv, Apply PROVE ServingInv'
<1> USE DEF ServingInv
<1>1. PICK failed \in SUBSET Engines:
        /\ \A e \in Engines \ failed: Checked(e)
        /\ running' = [i \in Inbounds |-> IF EngineOf(inbound[i].protocol) \notin failed
                                            THEN Rendered(i) ELSE running[i]]
        /\ inbound' = [i \in Inbounds |-> [inbound[i] EXCEPT !.dirty =
                         @ /\ ~(i \in Rows /\ EngineOf(inbound[i].protocol) \notin failed)]]
        /\ user' = [u \in Users |-> [user[u] EXCEPT !.dirty = @ /\ failed # {}]]
        /\ UNCHANGED assigned
  BY DEF Apply
<1>2. ASSUME NEW i \in Inbounds
      PROVE  \E b \in BOOLEAN: /\ inbound'[i] = [inbound[i] EXCEPT !.dirty = b]
                               /\ b = (inbound[i].dirty /\
                                       ~(i \in Rows /\ EngineOf(inbound[i].protocol) \notin failed))
  BY <1>1
<1>3. ASSUME NEW u \in Users
      PROVE  \E c \in BOOLEAN: /\ user'[u] = [user[u] EXCEPT !.dirty = c]
                               /\ c = (user[u].dirty /\ failed # {})
  BY <1>1
<1>4. \A i \in Inbounds, b \in BOOLEAN: /\ [inbound[i] EXCEPT !.dirty = b] \in InboundRows
                                        /\ [inbound[i] EXCEPT !.dirty = b].dirty = b
                                        /\ [inbound[i] EXCEPT !.dirty = b].row = inbound[i].row
  BY DEF TypeOK, InboundRows
<1>5. \A u \in Users, c \in BOOLEAN: /\ [user[u] EXCEPT !.dirty = c] \in UserRows
                                     /\ [user[u] EXCEPT !.dirty = c].dirty = c
  BY DEF TypeOK, UserRows
<1>6. TypeOK'
  <2>1. inbound' \in [Inbounds -> InboundRows]
    BY <1>1, <1>2, <1>4
  <2>2. user' \in [Users -> UserRows]
    BY <1>1, <1>3, <1>5
  <2>3. running' \in [Inbounds -> Configurations]
    BY <1>1, RenderedTypes DEF TypeOK
  <2> QED
    BY <1>1, <2>1, <2>2, <2>3 DEF TypeOK
<1>7. Rows' = Rows
  <2>1. \A i \in Inbounds: inbound'[i].row = inbound[i].row
    BY <1>2, <1>4
  <2> QED
    BY <2>1 DEF Rows
<1>8. ASSUME NEW i \in Rows PROVE Clean(i)'
  <2>1. i \in Inbounds /\ EngineOf(inbound[i].protocol) \in Engines
    BY DEF Rows, TypeOK, InboundRows, Engines
  <2>2. CASE EngineOf(inbound[i].protocol) \notin failed
    <3>1. running'[i] = Rendered(i) /\ Checked(EngineOf(inbound[i].protocol))
      BY <1>1, <2>1, <2>2
    <3>2. Configured(i)' /\ \A u \in Users: Agreed(u, i)'
      BY <1>1, <1>2, <1>3, <2>1, <3>1, RenderedAgrees
    <3> QED
      BY <3>2 DEF Clean
  <2>3. CASE EngineOf(inbound[i].protocol) \in failed
    <3>1. running'[i] = running[i] /\ inbound'[i] = inbound[i]
      BY <1>1, <2>1, <2>3 DEF TypeOK, InboundRows
    <3>2. \A u \in Users: user'[u] = user[u]
      BY <1>1, <2>3 DEF TypeOK, UserRows
    <3>3. Clean(i)
      OBVIOUS
    <3>4. \A u \in Users: (Active(u, i)' <=> Active(u, i)) /\ Credential(u, i)' = Credential(u, i)
      BY <1>1, <3>1, <3>2 DEF Active, Included, Credential
    <3>5. \A u \in Users: Agreed(u, i)' <=> Agreed(u, i)
      BY <1>1, <3>1, <3>4 DEF Agreed
    <3>6. Configured(i)' <=> Configured(i)
      BY <3>1 DEF Configured
    <3> QED
      BY <3>1, <3>2, <3>3, <3>5, <3>6 DEF Clean
  <2> QED
    BY <2>2, <2>3
<1> QED
  BY <1>6, <1>7, <1>8

LEMMA ServingInductive == ServingInv /\ [Next]_vars => ServingInv'
<1> SUFFICES ASSUME ServingInv, [Next]_vars PROVE ServingInv'
  OBVIOUS
<1>1. CASE Next
  BY <1>1, InboundSteps, AssignmentSteps, UserSteps, ApplyStep DEF Next
<1>2. CASE UNCHANGED vars
  BY <1>2 DEF vars, ServingInv, TypeOK, Clean, Configured, Agreed, Active, Included, Credential, Rows
<1> QED
  BY <1>1, <1>2

LEMMA ServingBegins == Init => ServingInv
<1> SUFFICES ASSUME Init PROVE ServingInv
  OBVIOUS
<1>1. NoAssignment \in AssignmentRows /\ Absent \in Configurations
  BY DEF NoAssignment, AssignmentRows, Absent, Configurations
<1>2. TypeOK
  <2>1. inbound \in [Inbounds -> InboundRows]
    <3>1. ASSUME NEW i \in Inbounds PROVE inbound[i] \in InboundRows
      <4>1. inbound[i] \in [row: {"none"}, protocol: Protocols, enabled: {FALSE},
                            dirty: {FALSE}, host: {None}, method: {None}, key: {0}]
        BY DEF Init
      <4> QED
        <5>1. \E q \in Protocols: inbound[i] =
                [row |-> "none", protocol |-> q, enabled |-> FALSE, dirty |-> FALSE,
                 host |-> None, method |-> None, key |-> 0]
          BY <4>1
        <5> QED
          BY <5>1 DEF InboundRows
    <3> QED
      BY <3>1 DEF Init
  <2>2. [status |-> "ACTIVE", deleted |-> FALSE, dirty |-> FALSE] \in UserRows
    BY DEF UserRows
  <2> QED
    BY <1>1, <2>1, <2>2 DEF Init, TypeOK
<1>3. Rows = {}
  BY DEF Init, Rows
<1> QED
  BY <1>2, <1>3 DEF ServingInv

-----------------------------------------------------------------------------
(***************************************************************************)
(* What a subscription offers of rows without a mark is built and served   *)
(* as it says, whichever engines have failed in whichever applies.         *)
(***************************************************************************)
THEOREM OfferIsKept == Spec => []OfferedIsServed
<1>1. ServingInv => OfferedIsServed
  <2> SUFFICES ASSUME ServingInv, NEW u \in Users, NEW kind \in Kinds, Entitled(u),
                      NEW i \in Offered(u, kind), Settled(u, i)
               PROVE  Buildable(u, i) /\ Serves(u, i)
    BY DEF OfferedIsServed
  <2>1. i \in Rows /\ Active(u, i)
    BY DEF Offered, Listed, Rows, Active, Included, Entitled
  <2>2. Configured(i) /\ Agreed(u, i)
    BY <2>1 DEF ServingInv, Clean, Settled
  <2> QED
    BY <2>1, <2>2 DEF Configured, Agreed, Active, Buildable, Serves
<1> QED
  BY <1>1, ServingBegins, ServingInductive, PTL DEF Spec

\* Whoever is not entitled, or has another credential now, is out of the cores.
THEOREM OutForGood == Spec => []RevokedIsOut
<1>1. ServingInv => RevokedIsOut
  <2> SUFFICES ASSUME ServingInv, NEW i \in Rows, NEW c \in running[i].users, Settled(c.user, i)
               PROVE  /\ inbound[i].enabled /\ Entitled(c.user)
                      /\ assigned[c.user][i].status = "ACTIVE" /\ c = Credential(c.user, i)
    BY DEF RevokedIsOut
  <2>1. c.user \in Users
    BY DEF ServingInv, TypeOK, Configurations, Credentials, Rows
  <2>2. Agreed(c.user, i)
    BY <2>1 DEF ServingInv, Clean, Settled
  <2>3. Active(c.user, i) /\ c = Credential(c.user, i)
    BY <2>2 DEF Agreed
  <2> QED
    BY <2>3 DEF Active, Included, Entitled
<1> QED
  BY <1>1, ServingBegins, ServingInductive, PTL DEF Spec
-----------------------------------------------------------------------------
(***************************************************************************)
(* Assignments.  A request that no other concerns from its reading on      *)
(* writes what it has read: its rows are current when it commits, so its   *)
(* sync leaves the users with the inbounds of the plan.  One that another  *)
(* concerned knows it (crossed), and so do its users after it.             *)
(***************************************************************************)
AssignStatuses == {"none", "ACTIVE", "DISABLED"}
PlanIds == Plans \cup {NoPlan}
PlanRows == [status: {"ACTIVE", "ARCHIVED", "GONE"}, inbounds: SUBSET Inbounds]
People == [plan: PlanIds, deleted: BOOLEAN]
AssignRows == [status: AssignStatuses, version: Nat]
Findings == [Users -> [Inbounds -> AssignStatuses]]
CallStates == [kind: {"none", "setPlan", "updatePlan", "removePlan", "add"},
               stage: {"idle", "resolved", "held", "read", "counted"}, plan: PlanIds,
               users: SUBSET Users, ids: SUBSET Inbounds, found: Findings, crossed: BOOLEAN]

PlansTypeOK ==
  /\ plans \in [Plans -> PlanRows] /\ users \in [Users -> People]
  /\ assign \in [Users -> [Inbounds -> AssignRows]] /\ inbounds \in SUBSET Inbounds
  /\ calls \in [Calls -> CallStates]
  /\ manual \in SUBSET (Users \X Inbounds) /\ crossed \in SUBSET Users

\* What a request has read and still holds.
Read(m) ==
  m.stage \in {"held", "read"} =>
    \A u \in m.users, i \in inbounds : m.found[u][i] = assign[u][i].status
Wanted(m) ==
  m.kind = "setPlan" /\ m.stage = "held" =>
    \A i \in inbounds : i \in m.ids <=> (m.plan # NoPlan /\ i \in plans[m.plan].inbounds)
Members(m) ==
  /\ m.kind = "updatePlan" => \A u \in Living : u \in m.users <=> users[u].plan = m.plan
  /\ m.kind = "removePlan" => \A u \in Living : users[u].plan # m.plan
Current(m) == ~m.crossed => Read(m) /\ Wanted(m) /\ Members(m)

\* A request for a plan names one.
Named(m) ==
  /\ m.kind \in {"updatePlan", "removePlan"} => m.plan \in Plans /\ m.stage # "idle"
  /\ m.stage = "held" => m.kind = "setPlan"

PlansInv ==
  /\ PlansTypeOK /\ PlanFollowed
  /\ \A c \in Calls : Current(calls[c]) /\ Named(calls[c])

LEMMA NoCallFits == NoCall \in CallStates /\ Current(NoCall) /\ Named(NoCall)
  BY DEF NoCall, CallStates, Current, Read, Wanted, Members, Named, PlanIds, Findings, AssignStatuses

LEMMA FoundNow == PlansTypeOK => RowStatuses \in Findings
  BY DEF PlansTypeOK, RowStatuses, Findings, AssignRows

\* A request that begins, reads on or gives up.
LEMMA CallMoves ==
  ASSUME PlansInv, NEW c \in Calls, NEW m \in CallStates, calls' = [calls EXCEPT ![c] = m],
         UNCHANGED <<plans, users, assign, inbounds, manual, crossed>>, Current(m), Named(m)
  PROVE  PlansInv'
<1>1. PlansTypeOK /\ PlansTypeOK'
  BY DEF PlansInv, PlansTypeOK
<1>2. PlanFollowed'
  BY DEF PlansInv, PlanFollowed, Follows, Living
<1>3. ASSUME NEW d \in Calls PROVE Current(calls[d])' /\ Named(calls[d])'
  <2>1. PICK n \in CallStates : n = calls'[d] /\ n \in {calls[d], m}
    BY <1>1 DEF PlansTypeOK
  <2>2. Current(n) /\ Named(n)
    BY <2>1 DEF PlansInv
  <2>3. Current(n)'
    BY <2>2 DEF Current, Read, Wanted, Members, Living
  <2> QED
    BY <2>1, <2>2, <2>3 DEF Named, Current, Read, Wanted, Members, Living
<1> QED
  BY <1>1, <1>2, <1>3 DEF PlansInv

LEMMA BeginKeeps ==
  ASSUME PlansInv, NEW c \in Calls, SetPlan(c) \/ UpdatePlan(c) \/ RemovePlan(c) \/ ReadAssignment(c)
  PROVE  PlansInv'
<1>1. /\ PlansTypeOK /\ NoCall \in CallStates /\ RowStatuses \in Findings
      /\ UNCHANGED <<plans, users, assign, inbounds, manual, crossed>>
  BY NoCallFits, FoundNow DEF PlansInv, SetPlan, UpdatePlan, RemovePlan, ReadAssignment
<1>2. NoPlan \in PlanIds /\ Plans \subseteq PlanIds
  BY DEF PlanIds
<1>3. CASE SetPlan(c)
  <2>1. PICK u \in Users, p \in PlanIds :
          calls' = [calls EXCEPT ![c] = [NoCall EXCEPT !.kind = "setPlan", !.stage = "resolved",
                                           !.plan = p, !.users = {u}, !.ids = {}]]
    BY <1>3 DEF SetPlan, Enter, Living, PlanIds
  <2>2. PICK m : m = [NoCall EXCEPT !.kind = "setPlan", !.stage = "resolved",
                                    !.plan = p, !.users = {u}, !.ids = {}]
    OBVIOUS
  <2>3. m \in CallStates /\ m.kind = "setPlan" /\ m.stage = "resolved"
    BY <1>1, <2>2 DEF CallStates
  <2>4. Current(m) /\ Named(m)
    BY <2>3 DEF Current, Read, Wanted, Members, Named
  <2> QED
    BY <1>1, <2>1, <2>2, <2>3, <2>4, CallMoves
<1>4. CASE UpdatePlan(c)
  <2>1. PICK p \in Plans, ids \in SUBSET inbounds :
          calls' = [calls EXCEPT ![c] = [kind |-> "updatePlan", stage |-> "read", plan |-> p,
                      users |-> OnPlan(p), ids |-> ids, found |-> RowStatuses, crossed |-> FALSE]]
    BY <1>4 DEF UpdatePlan
  <2>2. PICK m : m = [kind |-> "updatePlan", stage |-> "read", plan |-> p,
                      users |-> OnPlan(p), ids |-> ids, found |-> RowStatuses, crossed |-> FALSE]
    OBVIOUS
  <2>3. OnPlan(p) \in SUBSET Users /\ ids \in SUBSET Inbounds
    BY <1>1 DEF OnPlan, Living, PlansTypeOK
  <2>4. m \in CallStates
    BY <1>1, <1>2, <2>2, <2>3 DEF CallStates
  <2>5. Current(m) /\ Named(m)
    <3>1. \A u \in m.users, i \in inbounds : m.found[u][i] = assign[u][i].status
      BY <1>1, <2>2, <2>3 DEF RowStatuses, PlansTypeOK
    <3> QED
      BY <2>2, <3>1 DEF Current, Read, Wanted, Members, Named, OnPlan
  <2> QED
    BY <1>1, <2>1, <2>2, <2>4, <2>5, CallMoves
<1>5. CASE RemovePlan(c)
  <2>1. PICK p \in Plans :
          /\ OnPlan(p) = {}
          /\ calls' = [calls EXCEPT ![c] = [NoCall EXCEPT !.kind = "removePlan", !.stage = "counted",
                                              !.plan = p, !.users = {}, !.ids = {}]]
    BY <1>5 DEF RemovePlan, Enter, Unused
  <2>2. PICK m : m = [NoCall EXCEPT !.kind = "removePlan", !.stage = "counted",
                                    !.plan = p, !.users = {}, !.ids = {}]
    OBVIOUS
  <2>3. m \in CallStates /\ m.kind = "removePlan" /\ m.stage = "counted" /\ m.plan = p
    BY <1>1, <1>2, <2>2 DEF CallStates
  <2>4. Current(m) /\ Named(m)
    BY <2>1, <2>3 DEF Current, Read, Wanted, Members, Named, OnPlan
  <2> QED
    BY <1>1, <2>1, <2>2, <2>3, <2>4, CallMoves
<1>6. CASE ReadAssignment(c)
  <2>1. PICK u \in Users, i \in inbounds :
          calls' = [calls EXCEPT ![c] = [NoCall EXCEPT !.kind = "add", !.stage = "read",
                                           !.users = {u}, !.ids = {i}, !.found = RowStatuses]]
    BY <1>6 DEF ReadAssignment, Living
  <2>2. PICK m : m = [NoCall EXCEPT !.kind = "add", !.stage = "read",
                                    !.users = {u}, !.ids = {i}, !.found = RowStatuses]
    OBVIOUS
  <2>3. m \in CallStates /\ m.kind = "add" /\ m.stage = "read" /\ m.found = RowStatuses /\ m.users = {u}
    BY <1>1, <2>1, <2>2 DEF CallStates, PlansTypeOK
  <2>4. Current(m) /\ Named(m)
    BY <1>1, <2>3 DEF Current, Read, Wanted, Members, Named, RowStatuses, PlansTypeOK
  <2> QED
    BY <1>1, <2>1, <2>2, <2>3, <2>4, CallMoves
<1> QED
  BY <1>3, <1>4, <1>5, <1>6

LEMMA AbortKeeps ==
  ASSUME PlansInv, NEW c \in Calls, Abort(c)
  PROVE  PlansInv'
  BY NoCallFits, CallMoves DEF Abort

LEMMA HoldKeeps ==
  ASSUME PlansInv, NEW c \in Calls, HoldUser(c)
  PROVE  PlansInv'
<1>1. CASE Abort(c)
  BY <1>1, AbortKeeps
<1>2. CASE ~Abort(c)
  <2>1. PICK m \in CallStates : m = calls[c] /\ m.kind = "setPlan"
    BY DEF PlansInv, PlansTypeOK, HoldUser, At
  <2>2. PICK ids : ids = IF m.plan = NoPlan THEN {} ELSE plans[m.plan].inbounds
    OBVIOUS
  <2>3. /\ PlansTypeOK /\ RowStatuses \in Findings
        /\ UNCHANGED <<plans, users, assign, inbounds, manual, crossed>>
        /\ calls' = [calls EXCEPT ![c].stage = "held", ![c].ids = ids, ![c].found = RowStatuses]
    BY <1>2, <2>1, <2>2, FoundNow DEF PlansInv, HoldUser
  <2>4. ids \in SUBSET Inbounds
    BY <2>1, <2>2, <2>3 DEF PlansTypeOK, PlanRows, CallStates, PlanIds
  <2>5. PICK n \in CallStates : n = [m EXCEPT !.stage = "held", !.ids = ids, !.found = RowStatuses]
    BY <2>3, <2>4 DEF CallStates
  <2>6. /\ n.stage = "held" /\ n.ids = ids /\ n.found = RowStatuses /\ n.kind = "setPlan"
        /\ n.plan = m.plan /\ n.users \in SUBSET Users
    BY <2>1, <2>5 DEF CallStates
  <2>7. calls' = [calls EXCEPT ![c] = n]
    BY <2>1, <2>3, <2>5 DEF PlansTypeOK
  <2>8. Current(n) /\ Named(n)
    <3>1. \A u \in n.users, i \in inbounds : n.found[u][i] = assign[u][i].status
      BY <2>3, <2>6 DEF RowStatuses, PlansTypeOK
    <3>2. \A i \in inbounds : i \in n.ids <=> (n.plan # NoPlan /\ i \in plans[n.plan].inbounds)
      BY <2>2, <2>6
    <3> QED
      BY <2>6, <3>1, <3>2 DEF Current, Read, Wanted, Members, Named
  <2> QED
    BY <2>3, <2>7, <2>8, CallMoves
<1> QED
  BY <1>1, <1>2

-----------------------------------------------------------------------------
\* What a commit concerns is marked, and what is not marked has not been touched.
LEMMA OthersStay ==
  ASSUME PlansInv, NEW d \in Calls, NEW p \in PlanIds, NEW us \in SUBSET Users,
         calls'[d] = [calls[d] EXCEPT !.crossed = @ \/ Concern(d, p, us)], inbounds' = inbounds,
         \A u \in Users \ us, i \in Inbounds : assign'[u][i].status = assign[u][i].status,
         \A q \in Plans \ {p} : plans'[q].inbounds = plans[q].inbounds,
         \A u \in Users : users'[u].deleted = users[u].deleted,
         \A u \in Users : \/ users'[u].plan = users[u].plan
                          \/ u \in us /\ users'[u].plan = p
                          \/ p # NoPlan /\ users[u].plan = p /\ users'[u].plan = NoPlan
  PROVE  calls'[d] \in CallStates /\ Current(calls[d])' /\ Named(calls[d])'
<1>1. PICK m \in CallStates : m = calls[d]
  BY DEF PlansInv, PlansTypeOK
<1>2. PICK b \in BOOLEAN : b = (m.crossed \/ Concern(d, p, us))
  BY <1>1 DEF CallStates, Concern
<1>3. PICK n \in CallStates : n = [m EXCEPT !.crossed = b]
  BY DEF CallStates
<1>4. /\ calls'[d] = n /\ n.kind = m.kind /\ n.stage = m.stage /\ n.plan = m.plan
      /\ n.users = m.users /\ n.ids = m.ids /\ n.found = m.found /\ n.crossed = b
  BY <1>1, <1>2, <1>3 DEF CallStates
<1>5. Named(m) /\ Named(n)
  BY <1>1, <1>4 DEF PlansInv, Named
<1>6. ASSUME ~b PROVE Read(n)' /\ Wanted(n)' /\ Members(n)'
  <2>1. /\ Read(m) /\ Wanted(m) /\ Members(m)
        /\ m.stage # "idle" => m.users \cap us = {} /\ (p # NoPlan => m.plan # p)
    BY <1>1, <1>2, <1>6 DEF PlansInv, Current, Concern, Idle
  <2>2. Read(n)'
    <3> SUFFICES ASSUME m.stage \in {"held", "read"}, NEW u \in m.users, NEW i \in inbounds
                 PROVE  m.found[u][i] = assign'[u][i].status
      BY <1>4 DEF Read
    <3>1. u \in Users \ us /\ i \in Inbounds
      BY <2>1 DEF CallStates, PlansInv, PlansTypeOK
    <3> QED
      BY <2>1, <3>1 DEF Read
  <2>3. Wanted(n)'
    <3> SUFFICES ASSUME m.stage = "held", m.kind = "setPlan", m.plan # NoPlan
                 PROVE  plans'[m.plan].inbounds = plans[m.plan].inbounds
      BY <1>4, <2>1 DEF Wanted
    <3>1. m.plan \in Plans
      BY DEF CallStates, PlanIds
    <3> QED
      BY <2>1, <3>1
  <2>4. Members(n)'
    <3>1. Living' = Living /\ Living \subseteq Users
      BY DEF Living
    <3>2. ASSUME m.kind \in {"updatePlan", "removePlan"}, NEW u \in Living
          PROVE  /\ u \in m.users => users'[u].plan = users[u].plan \/ users[u].plan # m.plan
                 /\ users'[u].plan = m.plan => users[u].plan = m.plan
                 /\ users[u].plan = m.plan => users'[u].plan = m.plan \/ u \in us
      <4>1. m.plan \in Plans /\ m.stage # "idle" /\ m.plan # NoPlan
        BY <1>5, <3>2, NoPlanIsNone DEF Named
      <4>2. m.plan # p
        BY <2>1, <4>1
      <4> QED
        BY <2>1, <3>1, <4>1, <4>2
    <3>3. m.kind = "updatePlan" => \A u \in Living : u \in m.users <=> users'[u].plan = m.plan
      BY <1>5, <2>1, <3>1, <3>2 DEF Members, Named
    <3>4. m.kind = "removePlan" => \A u \in Living : users'[u].plan # m.plan
      BY <2>1, <3>2 DEF Members
    <3> QED
      BY <1>4, <3>1, <3>3, <3>4 DEF Members
  <2> QED
    BY <2>2, <2>3, <2>4
<1>7. Current(n)'
  BY <1>4, <1>6 DEF Current
<1> QED
  BY <1>4, <1>5, <1>7 DEF Named, Current, Read, Wanted, Members, Living

\* The end of a request: its call is over, and the others stay current.
LEMMA OverMoves ==
  ASSUME PlansInv, NEW c \in Calls, NEW p \in PlanIds, NEW us \in SUBSET Users,
         calls' = Over(c, p, us), inbounds' = inbounds,
         \A u \in Users \ us, i \in Inbounds : assign'[u][i].status = assign[u][i].status,
         \A q \in Plans \ {p} : plans'[q].inbounds = plans[q].inbounds,
         \A u \in Users : users'[u].deleted = users[u].deleted,
         \A u \in Users : \/ users'[u].plan = users[u].plan
                          \/ u \in us /\ users'[u].plan = p
                          \/ p # NoPlan /\ users[u].plan = p /\ users'[u].plan = NoPlan
  PROVE  /\ calls' \in [Calls -> CallStates]
         /\ \A d \in Calls : Current(calls[d])' /\ Named(calls[d])'
<1>1. ASSUME NEW d \in Calls \ {c}
      PROVE  calls'[d] \in CallStates /\ Current(calls[d])' /\ Named(calls[d])'
  <2>1. calls'[d] = [calls[d] EXCEPT !.crossed = @ \/ Concern(d, p, us)]
    BY DEF Over
  <2> QED
    BY <2>1, OthersStay
<1>2. calls'[c] \in CallStates /\ Current(calls[c])' /\ Named(calls[c])'
  <2>1. calls'[c] = NoCall
    BY DEF Over
  <2>2. Current(NoCall)'
    BY DEF NoCall, Current, Read, Wanted, Members
  <2>3. Named(NoCall)
    BY NoCallFits
  <2> QED
    BY <2>1, <2>2, <2>3, NoCallFits DEF Named, Current, Read, Wanted, Members
<1> QED
  BY <1>1, <1>2 DEF Over

LEMMA EnabledRow ==
  ASSUME NEW row \in AssignRows, NEW found \in AssignStatuses
  PROVE  Enabled(row, found) \in AssignRows /\ Enabled(row, found).status = "ACTIVE"
<1>1. PICK n \in Nat : n = IF found = "none" THEN 1 ELSE row.version + 1
  BY DEF AssignRows
<1> QED
  BY <1>1 DEF Enabled, AssignRows, AssignStatuses

\* A sync writes the rows of its users only; one that nothing concerned leaves each of them
\* with the inbounds wanted.
LEMMA Syncing ==
  ASSUME PlansInv, NEW c \in Calls, NEW m \in CallStates, m = calls[c], SyncRows(c)
  PROVE  /\ assign' \in [Users -> [Inbounds -> AssignRows]]
         /\ \A u \in Users \ m.users, i \in Inbounds : assign'[u][i] = assign[u][i]
         /\ ~m.crossed /\ m.stage \in {"held", "read"} =>
              \A u \in m.users, i \in inbounds : assign'[u][i].status = "ACTIVE" <=> i \in m.ids
<1>1. PlansTypeOK
  BY DEF PlansInv
<1>2. assign' = [u \in Users |-> [i \in Inbounds |->
                   IF u \in m.users THEN Synced(assign[u][i], m.found[u][i], i \in m.ids)
                                    ELSE assign[u][i]]]
  BY DEF SyncRows
<1>3. ASSUME NEW u \in Users, NEW i \in Inbounds
      PROVE  /\ assign[u][i] \in AssignRows /\ m.found[u][i] \in AssignStatuses
             /\ Synced(assign[u][i], m.found[u][i], i \in m.ids) \in AssignRows
             /\ m.found[u][i] = assign[u][i].status =>
                  (Synced(assign[u][i], m.found[u][i], i \in m.ids).status = "ACTIVE" <=> i \in m.ids)
  <2>1. assign[u][i] \in AssignRows /\ m.found[u][i] \in AssignStatuses
    BY <1>1 DEF PlansTypeOK, CallStates, Findings
  <2> QED
    BY <2>1, EnabledRow DEF Synced, AssignRows, AssignStatuses
<1>4. assign' \in [Users -> [Inbounds -> AssignRows]]
  BY <1>2, <1>3
<1>5. \A u \in Users \ m.users, i \in Inbounds : assign'[u][i] = assign[u][i]
  BY <1>2
<1>6. ASSUME ~m.crossed, m.stage \in {"held", "read"}, NEW u \in m.users, NEW i \in inbounds
      PROVE  assign'[u][i].status = "ACTIVE" <=> i \in m.ids
  <2>1. u \in Users /\ i \in Inbounds
    BY <1>1 DEF PlansTypeOK, CallStates
  <2>2. m.found[u][i] = assign[u][i].status
    BY <1>6 DEF PlansInv, Current, Read
  <2> QED
    BY <1>2, <1>3, <2>1, <2>2
<1> QED
  BY <1>4, <1>5, <1>6

\* The other users at such a commit: theirs is not marked anew.
LEMMA SyncKeeps ==
  ASSUME PlansInv, NEW c \in Calls, CommitUser(c) \/ CommitPlan(c)
  PROVE  PlansInv'
<1>1. CASE Abort(c)
  BY <1>1, AbortKeeps
<1>2. CASE ~Abort(c)
  <2>1. PICK m \in CallStates : m = calls[c]
    BY DEF PlansInv, PlansTypeOK
  <2>2. PlansTypeOK /\ SyncRows(c) /\ inbounds' = inbounds /\ m.stage \in {"held", "read"}
    BY <1>2, <2>1 DEF PlansInv, CommitUser, CommitPlan, At
  <2>3. /\ manual' = {x \in manual : x[1] \notin m.users}
        /\ crossed' = IF Crosses(c, m.plan, m.users)
                        THEN crossed \cup m.users \cup OnPlan(m.plan) ELSE crossed \ m.users
        /\ calls' = Over(c, m.plan, m.users)
    BY <2>1, <2>2 DEF SyncRows
  <2>4. /\ assign' \in [Users -> [Inbounds -> AssignRows]]
        /\ \A u \in Users \ m.users, i \in Inbounds : assign'[u][i] = assign[u][i]
        /\ ~m.crossed => \A u \in m.users, i \in inbounds :
                           assign'[u][i].status = "ACTIVE" <=> i \in m.ids
    BY <2>1, <2>2, Syncing
  <2>5. /\ Current(m) /\ Named(m) /\ m.users \in SUBSET Users /\ m.plan \in PlanIds
        /\ m.ids \in SUBSET Inbounds
    BY <2>1 DEF PlansInv, CallStates
  <2>6. CASE CommitUser(c)
    <3>1. /\ m.kind = "setPlan" /\ m.stage = "held" /\ plans' = plans
          /\ users' = [u \in Users |-> IF u \in m.users THEN [users[u] EXCEPT !.plan = m.plan]
                                                         ELSE users[u]]
      BY <1>2, <2>1, <2>6 DEF CommitUser, At
    <3>2. ASSUME NEW u \in Users
          PROVE  /\ users'[u] \in People /\ users'[u].deleted = users[u].deleted
                 /\ u \in m.users => users'[u].plan = m.plan
                 /\ u \notin m.users => users'[u] = users[u]
      BY <2>2, <2>5, <3>1 DEF PlansTypeOK, People
    <3>3. /\ calls' \in [Calls -> CallStates]
          /\ \A d \in Calls : Current(calls[d])' /\ Named(calls[d])'
      BY <2>2, <2>3, <2>4, <2>5, <3>1, <3>2, OverMoves
    <3>4. PlansTypeOK'
      BY <2>2, <2>3, <2>4, <2>5, <3>1, <3>2, <3>3 DEF PlansTypeOK, OnPlan, Living
    <3>5. ASSUME NEW u \in Users, u \in (Living \ crossed)' PROVE Follows(u)'
      <4>1. CASE u \in m.users
        <5>1. ~m.crossed
          BY <2>1, <2>3, <3>5, <4>1 DEF Crosses
        <5>2. Wanted(m)
          BY <2>5, <5>1 DEF Current
        <5>3. \A i \in inbounds : assign'[u][i].status = "ACTIVE" <=>
                (m.plan # NoPlan /\ i \in plans[m.plan].inbounds)
          BY <2>4, <3>1, <4>1, <5>1, <5>2 DEF Wanted
        <5> QED
          BY <2>2, <3>1, <3>2, <4>1, <5>3 DEF Follows
      <4>2. CASE u \notin m.users
        <5>1. u \in Living \ crossed /\ users'[u].plan = users[u].plan
          BY <2>3, <3>2, <3>5, <4>2 DEF Living
        <5>2. \A i \in inbounds : <<u, i>> \in manual' <=> <<u, i>> \in manual
          BY <2>3, <4>2
        <5>3. \A i \in inbounds : assign'[u][i].status = assign[u][i].status
          BY <2>2, <2>4, <4>2 DEF PlansTypeOK
        <5> QED
          BY <2>2, <3>1, <5>1, <5>2, <5>3 DEF PlansInv, PlanFollowed, Follows
      <4> QED
        BY <4>1, <4>2
    <3> QED
      BY <3>3, <3>4, <3>5 DEF PlansInv, PlanFollowed, Living
  <2>7. CASE CommitPlan(c)
    <3>1. /\ m.kind = "updatePlan" /\ m.stage = "read" /\ users' = users
          /\ plans' = [plans EXCEPT ![m.plan].inbounds = m.ids]
      BY <1>2, <2>1, <2>7 DEF CommitPlan, At
    <3>2. m.plan \in Plans /\ m.plan # NoPlan
      BY <2>5, <3>1, NoPlanIsNone DEF Named
    <3>3. /\ plans' \in [Plans -> PlanRows] /\ plans'[m.plan].inbounds = m.ids
          /\ \A q \in Plans \ {m.plan} : plans'[q].inbounds = plans[q].inbounds
      BY <2>2, <2>5, <3>1, <3>2 DEF PlansTypeOK, PlanRows
    <3>4. /\ calls' \in [Calls -> CallStates]
          /\ \A d \in Calls : Current(calls[d])' /\ Named(calls[d])'
      BY <2>2, <2>3, <2>4, <2>5, <3>1, <3>3, OverMoves
    <3>5. PlansTypeOK'
      BY <2>2, <2>3, <2>4, <2>5, <3>1, <3>3, <3>4 DEF PlansTypeOK, OnPlan, Living
    <3>6. ASSUME NEW u \in Users, u \in (Living \ crossed)' PROVE Follows(u)'
      <4>1. u \in Living /\ users'[u].plan = users[u].plan
        BY <3>1, <3>6 DEF Living
      <4>2. CASE u \in m.users
        <5>1. ~m.crossed
          BY <2>1, <2>3, <3>6, <4>2 DEF Crosses
        <5>2. users[u].plan = m.plan
          BY <2>5, <3>1, <4>1, <4>2, <5>1 DEF Current, Members
        <5> QED
          BY <2>2, <2>4, <3>2, <3>3, <4>1, <4>2, <5>1, <5>2 DEF Follows
      <4>3. CASE u \notin m.users
        <5>1. u \notin crossed /\ users[u].plan # m.plan
          <6>1. CASE Crosses(c, m.plan, m.users)
            BY <2>3, <3>6, <4>1, <6>1 DEF OnPlan
          <6>2. CASE ~Crosses(c, m.plan, m.users)
            <7>1. ~m.crossed /\ u \notin crossed
              BY <2>1, <2>3, <3>6, <4>3, <6>2 DEF Crosses
            <7> QED
              BY <2>5, <3>1, <4>1, <4>3, <7>1 DEF Current, Members
          <6> QED
            BY <6>1, <6>2
        <5>2. \A i \in inbounds : <<u, i>> \in manual' <=> <<u, i>> \in manual
          BY <2>3, <4>3
        <5>3. \A i \in inbounds : assign'[u][i].status = assign[u][i].status
          BY <2>2, <2>4, <4>3 DEF PlansTypeOK
        <5>4. users[u].plan # NoPlan => plans'[users[u].plan].inbounds = plans[users[u].plan].inbounds
          BY <2>2, <3>3, <5>1 DEF PlansTypeOK, People, PlanIds
        <5> QED
          BY <2>2, <4>1, <5>1, <5>2, <5>3, <5>4 DEF PlansInv, PlanFollowed, Follows
      <4> QED
        BY <4>2, <4>3
    <3> QED
      BY <3>4, <3>5, <3>6 DEF PlansInv, PlanFollowed, Living
  <2> QED
    BY <2>6, <2>7
<1> QED
  BY <1>1, <1>2

LEMMA DeleteKeeps ==
  ASSUME PlansInv, NEW c \in Calls, DeletePlan(c)
  PROVE  PlansInv'
<1>1. PICK m \in CallStates : m = calls[c]
  BY DEF PlansInv, PlansTypeOK
<1>2. /\ PlansTypeOK /\ m.kind = "removePlan" /\ UNCHANGED <<assign, inbounds, manual>>
      /\ plans' = [plans EXCEPT ![m.plan] = [status |-> "GONE", inbounds |-> {}]]
      /\ users' = [u \in Users |-> IF users[u].plan = m.plan THEN [users[u] EXCEPT !.plan = NoPlan]
                                                             ELSE users[u]]
      /\ crossed' = IF Crosses(c, m.plan, OnPlan(m.plan))
                      THEN crossed \cup OnPlan(m.plan) ELSE crossed
      /\ calls' = Over(c, m.plan, OnPlan(m.plan))
  BY <1>1 DEF PlansInv, DeletePlan, At
<1>3. /\ Current(m) /\ m.plan \in Plans /\ m.plan # NoPlan /\ m.plan \in PlanIds
      /\ OnPlan(m.plan) \in SUBSET Users
  BY <1>1, <1>2, NoPlanIsNone DEF PlansInv, Named, PlanIds, OnPlan, Living
<1>4. ASSUME NEW u \in Users
      PROVE  /\ users'[u] \in People /\ users'[u].deleted = users[u].deleted
             /\ users[u].plan # m.plan => users'[u] = users[u]
             /\ users[u].plan = m.plan => users'[u].plan = NoPlan
  BY <1>2 DEF PlansTypeOK, People, PlanIds
<1>5. /\ plans' \in [Plans -> PlanRows]
      /\ \A q \in Plans \ {m.plan} : plans'[q].inbounds = plans[q].inbounds
  BY <1>2, <1>3 DEF PlansTypeOK, PlanRows
<1>6. /\ calls' \in [Calls -> CallStates]
      /\ \A d \in Calls : Current(calls[d])' /\ Named(calls[d])'
  BY <1>2, <1>3, <1>4, <1>5, OverMoves
<1>7. PlansTypeOK'
  <2>1. users' \in [Users -> People]
    BY <1>2, <1>4
  <2> QED
    BY <1>2, <1>3, <1>5, <1>6, <2>1 DEF PlansTypeOK
<1>8. ASSUME NEW u \in Users, u \in (Living \ crossed)' PROVE Follows(u)'
  <2>1. u \in Living \ crossed
    BY <1>2, <1>4, <1>8 DEF Living
  <2>2. users[u].plan # m.plan
    <3>1. CASE Crosses(c, m.plan, OnPlan(m.plan))
      BY <1>2, <1>8, <2>1, <3>1 DEF OnPlan
    <3>2. CASE ~Crosses(c, m.plan, OnPlan(m.plan))
      <4>1. ~m.crossed
        BY <1>1, <3>2 DEF Crosses
      <4> QED
        BY <1>2, <1>3, <2>1, <4>1 DEF Current, Members
    <3> QED
      BY <3>1, <3>2
  <2>3. users[u].plan # NoPlan => plans'[users[u].plan].inbounds = plans[users[u].plan].inbounds
    BY <1>2, <1>5, <2>2 DEF PlansTypeOK, People, PlanIds
  <2> QED
    BY <1>2, <1>4, <2>1, <2>2, <2>3 DEF PlansInv, PlanFollowed, Follows
<1> QED
  BY <1>6, <1>7, <1>8 DEF PlansInv, PlanFollowed, Living

\* What an administrator sets by hand is no longer the plan's.
LEMMA StoreKeeps ==
  ASSUME PlansInv, NEW c \in Calls, StoreAssignment(c)
  PROVE  PlansInv'
<1>1. CASE Abort(c)
  BY <1>1, AbortKeeps
<1>2. CASE ~Abort(c)
  <2>1. PICK m \in CallStates : m = calls[c]
    BY DEF PlansInv, PlansTypeOK
  <2>2. PICK u \in Users, i \in Inbounds :
          /\ assign' = [assign EXCEPT ![u][i] = Enabled(@, m.found[u][i])]
          /\ manual' = manual \cup {<<u, i>>}
          /\ calls' = Over(c, NoPlan, {u})
          /\ UNCHANGED <<plans, users, inbounds, crossed>>
    BY <1>2, <2>1 DEF StoreAssignment, CallStates
  <2>3. PlansTypeOK /\ NoPlan \in PlanIds /\ {u} \in SUBSET Users
    BY DEF PlansInv, PlanIds
  <2>4. Enabled(assign[u][i], m.found[u][i]) \in AssignRows
    BY <2>3, EnabledRow DEF PlansTypeOK, CallStates, Findings
  <2>5. /\ assign' \in [Users -> [Inbounds -> AssignRows]]
        /\ \A v \in Users, j \in Inbounds : <<v, j>> = <<u, i>> \/ assign'[v][j] = assign[v][j]
    BY <2>2, <2>3, <2>4 DEF PlansTypeOK
  <2>6. /\ calls' \in [Calls -> CallStates]
        /\ \A d \in Calls : Current(calls[d])' /\ Named(calls[d])'
    BY <2>2, <2>3, <2>5, OverMoves
  <2>7. PlansTypeOK'
    <3>1. manual' \in SUBSET (Users \X Inbounds)
      BY <2>2, <2>3 DEF PlansTypeOK
    <3> QED
      BY <2>2, <2>3, <2>5, <2>6, <3>1 DEF PlansTypeOK
  <2>8. ASSUME NEW v \in Users, v \in (Living \ crossed)' PROVE Follows(v)'
    <3>1. v \in Living \ crossed
      BY <2>2, <2>8 DEF Living
    <3>2. \A j \in inbounds : <<v, j>> \notin manual' =>
            <<v, j>> \notin manual /\ assign'[v][j] = assign[v][j]
      BY <2>2, <2>3, <2>5 DEF PlansTypeOK
    <3> QED
      BY <2>2, <3>1, <3>2 DEF PlansInv, PlanFollowed, Follows
  <2> QED
    BY <2>6, <2>7, <2>8 DEF PlansInv, PlanFollowed, Living
<1> QED
  BY <1>1, <1>2

LEMMA ChangeKeeps ==
  ASSUME PlansInv, NEW u \in Users, NEW i \in Inbounds, ChangeAssignment(u, i)
  PROVE  PlansInv'
<1>1. /\ PlansTypeOK /\ UNCHANGED <<plans, users, inbounds, crossed>>
      /\ NoPlan \in PlanIds /\ {u} \in SUBSET Users
  BY DEF PlansInv, ChangeAssignment, PlanIds
<1>2. PICK row \in AssignRows :
        /\ assign' = [assign EXCEPT ![u][i] = row]
        /\ \/ manual' = manual \cup {<<u, i>>}
           \/ manual' = manual /\ row.status = assign[u][i].status
  <2>1. assign[u][i] \in AssignRows
    BY <1>1 DEF PlansTypeOK
  <2>2. PICK n \in Nat : n = assign[u][i].version + 1
    BY <2>1 DEF AssignRows
  <2>3. CASE assign' = [assign EXCEPT ![u][i].status = "DISABLED"] /\ manual' = manual \cup {<<u, i>>}
    <3>1. PICK row \in AssignRows : row = [assign[u][i] EXCEPT !.status = "DISABLED"]
      BY <2>1 DEF AssignRows, AssignStatuses
    <3>2. assign' = [assign EXCEPT ![u][i] = row]
      BY <1>1, <2>3, <3>1 DEF PlansTypeOK
    <3> QED
      BY <2>3, <3>2
  <2>4. CASE assign' = [assign EXCEPT ![u][i].version = @ + 1] /\ manual' = manual
    <3>1. PICK row \in AssignRows : row = [assign[u][i] EXCEPT !.version = n]
      BY <2>1 DEF AssignRows
    <3>2. assign' = [assign EXCEPT ![u][i] = row]
      BY <1>1, <2>2, <2>4, <3>1 DEF PlansTypeOK
    <3>3. row.status = assign[u][i].status
      BY <2>1, <3>1 DEF AssignRows
    <3> QED
      BY <2>4, <3>2, <3>3
  <2> QED
    BY <2>3, <2>4 DEF ChangeAssignment
<1>3. /\ assign' \in [Users -> [Inbounds -> AssignRows]]
      /\ \A v \in Users, j \in Inbounds : <<v, j>> = <<u, i>> \/ assign'[v][j] = assign[v][j]
      /\ assign'[u][i] = row
  BY <1>1, <1>2 DEF PlansTypeOK
<1>4. ASSUME NEW d \in Calls PROVE calls'[d] \in CallStates /\ Current(calls[d])' /\ Named(calls[d])'
  <2>1. calls'[d] = [calls[d] EXCEPT !.crossed = @ \/ Concern(d, NoPlan, {u})]
    BY DEF ChangeAssignment
  <2>2. \A v \in Users \ {u}, j \in Inbounds : assign'[v][j].status = assign[v][j].status
    BY <1>3
  <2> QED
    BY <1>1, <2>1, <2>2, OthersStay
<1>5. PlansTypeOK'
  <2>1. calls' \in [Calls -> CallStates]
    BY <1>4 DEF ChangeAssignment
  <2> QED
    BY <1>1, <1>2, <1>3, <2>1 DEF PlansTypeOK
<1>6. ASSUME NEW v \in Users, v \in (Living \ crossed)' PROVE Follows(v)'
  <2>1. v \in Living \ crossed
    BY <1>1, <1>6 DEF Living
  <2>2. \A j \in inbounds : <<v, j>> \notin manual' =>
          <<v, j>> \notin manual /\ assign'[v][j].status = assign[v][j].status
    BY <1>1, <1>2, <1>3 DEF PlansTypeOK
  <2> QED
    BY <1>1, <2>1, <2>2 DEF PlansInv, PlanFollowed, Follows
<1> QED
  BY <1>4, <1>5, <1>6 DEF PlansInv, PlanFollowed, Living

\* An inbound that goes takes its assignments and its entries of plans along.
LEMMA DropKeeps ==
  ASSUME PlansInv, NEW i \in Inbounds, DropInbound(i)
  PROVE  PlansInv'
<1>1. /\ PlansTypeOK /\ UNCHANGED <<users, calls, crossed>> /\ inbounds' = inbounds \ {i}
      /\ manual' = {x \in manual : x[2] # i}
      /\ \A c \in Calls : calls[c].stage # "held"
  BY DEF PlansInv, DropInbound
<1>2. /\ assign' \in [Users -> [Inbounds -> AssignRows]]
      /\ \A u \in Users, j \in Inbounds \ {i} : assign'[u][j] = assign[u][j]
  <2>1. NoRow \in AssignRows
    BY DEF NoRow, AssignRows, AssignStatuses
  <2> QED
    BY <1>1, <2>1 DEF DropInbound, PlansTypeOK
<1>3. /\ plans' \in [Plans -> PlanRows]
      /\ \A p \in Plans : plans'[p].inbounds = plans[p].inbounds \ {i}
  BY <1>1 DEF DropInbound, PlansTypeOK, PlanRows
<1>4. PlansTypeOK'
  BY <1>1, <1>2, <1>3 DEF PlansTypeOK
<1>5. ASSUME NEW c \in Calls PROVE Current(calls[c])' /\ Named(calls[c])'
  <2>1. PICK m \in CallStates : m = calls[c] /\ m = calls'[c]
    BY <1>1 DEF PlansTypeOK
  <2>2. Current(m) /\ Named(m) /\ m.stage # "held"
    BY <1>1, <2>1 DEF PlansInv
  <2>3. Read(m) => Read(m)'
    <3>1. \A u \in m.users, j \in inbounds' : u \in Users /\ j \in Inbounds \ {i} /\ j \in inbounds
      BY <1>1 DEF CallStates, PlansTypeOK
    <3> QED
      BY <1>2, <3>1 DEF Read
  <2>4. Wanted(m)' /\ (Members(m) => Members(m)')
    BY <1>1, <2>2 DEF Wanted, Members, Living
  <2>5. Current(m)'
    BY <2>2, <2>3, <2>4 DEF Current
  <2> QED
    BY <2>1, <2>2, <2>5 DEF Named, Current, Read, Wanted, Members, Living
<1>6. ASSUME NEW u \in Users, u \in (Living \ crossed)' PROVE Follows(u)'
  <2>1. u \in Living \ crossed
    BY <1>1, <1>6 DEF Living
  <2>2. \A j \in inbounds' : /\ j \in inbounds /\ assign'[u][j] = assign[u][j]
                             /\ <<u, j>> \in manual' <=> <<u, j>> \in manual
    BY <1>1, <1>2 DEF PlansTypeOK
  <2>3. users[u].plan # NoPlan =>
          \A j \in inbounds' :
            j \in plans'[users[u].plan].inbounds <=> j \in plans[users[u].plan].inbounds
    BY <1>1, <1>3 DEF PlansTypeOK, People, PlanIds
  <2> QED
    BY <1>1, <2>1, <2>2, <2>3 DEF PlansInv, PlanFollowed, Follows
<1> QED
  BY <1>4, <1>5, <1>6 DEF PlansInv, PlanFollowed, Living

\* Neither an archived plan nor a user that goes changes what the others have.
LEMMA LeavingKeeps ==
  ASSUME PlansInv, (\E p \in Plans : ArchivePlan(p)) \/ (\E u \in Users : SoftDeleteUser(u))
  PROVE  PlansInv'
<1>1. /\ PlansTypeOK /\ UNCHANGED <<assign, inbounds, calls, manual, crossed>>
  BY DEF PlansInv, ArchivePlan, SoftDeleteUser
<1>2. /\ plans' \in [Plans -> PlanRows]
      /\ \A p \in Plans : plans'[p].inbounds = plans[p].inbounds
  BY <1>1 DEF ArchivePlan, SoftDeleteUser, PlansTypeOK, PlanRows
<1>3. /\ users' \in [Users -> People] /\ Living' \subseteq Living
      /\ \A u \in Users : users'[u].plan = users[u].plan
  <2>1. CASE \E p \in Plans : ArchivePlan(p)
    BY <1>1, <2>1 DEF ArchivePlan, PlansTypeOK, Living
  <2>2. CASE \E u \in Users : SoftDeleteUser(u)
    <3>1. PICK u \in Users : users' = [users EXCEPT ![u].deleted = TRUE]
      BY <2>2 DEF SoftDeleteUser
    <3>2. users' \in [Users -> People] /\ \A v \in Users : users'[v].plan = users[v].plan
      BY <1>1, <3>1 DEF PlansTypeOK, People
    <3>3. \A v \in Users : users[v].deleted => users'[v].deleted
      BY <1>1, <3>1 DEF PlansTypeOK, People
    <3> QED
      BY <3>2, <3>3 DEF Living
  <2> QED
    BY <2>1, <2>2
<1>4. PlansTypeOK'
  BY <1>1, <1>2, <1>3 DEF PlansTypeOK
<1>5. ASSUME NEW c \in Calls PROVE Current(calls[c])' /\ Named(calls[c])'
  <2>1. PICK m \in CallStates : m = calls[c] /\ m = calls'[c]
    BY <1>1 DEF PlansTypeOK
  <2>2. Current(m) /\ Named(m)
    BY <2>1 DEF PlansInv
  <2>3. Read(m) => Read(m)'
    BY <1>1 DEF Read
  <2>4. Wanted(m) => Wanted(m)'
    BY <1>1, <1>2 DEF Wanted, CallStates, PlanIds
  <2>5. Members(m) => Members(m)'
    BY <1>3 DEF Members, Living
  <2>6. Current(m)'
    BY <2>2, <2>3, <2>4, <2>5 DEF Current
  <2> QED
    BY <2>1, <2>2, <2>6 DEF Named, Current, Read, Wanted, Members, Living
<1>6. ASSUME NEW u \in Users, u \in (Living \ crossed)' PROVE Follows(u)'
  <2>1. u \in Living \ crossed
    BY <1>1, <1>3, <1>6
  <2>2. users[u].plan # NoPlan => plans'[users[u].plan].inbounds = plans[users[u].plan].inbounds
    BY <1>1, <1>2 DEF PlansTypeOK, People, PlanIds
  <2> QED
    BY <1>1, <1>3, <2>1, <2>2 DEF PlansInv, PlanFollowed, Follows
<1> QED
  BY <1>4, <1>5, <1>6 DEF PlansInv, PlanFollowed, Living

LEMMA PlansStep == PlansInv /\ [PlansNext]_plansVars => PlansInv'
<1> SUFFICES ASSUME PlansInv, [PlansNext]_plansVars PROVE PlansInv'
  OBVIOUS
<1>1. CASE UNCHANGED plansVars
  BY <1>1 DEF plansVars, PlansInv, PlansTypeOK, PlanFollowed, Follows, Living, Current, Read, Wanted,
     Members, Named
<1> QED
  BY <1>1, BeginKeeps, HoldKeeps, SyncKeeps, DeleteKeeps, StoreKeeps, ChangeKeeps, DropKeeps,
     LeavingKeeps DEF PlansNext

LEMMA PlansStart == PlansInit => PlansInv
<1> SUFFICES ASSUME PlansInit PROVE PlansInv
  OBVIOUS
<1>1. PlansTypeOK
  <2>1. NoRow \in AssignRows /\ NoPlan \in PlanIds /\ NoCall \in CallStates
    BY NoCallFits DEF NoRow, AssignRows, AssignStatuses, PlanIds
  <2>2. plans \in [Plans -> PlanRows]
    <3>1. {[status |-> "ACTIVE", inbounds |-> {}]} \subseteq PlanRows
      BY DEF PlanRows
    <3> QED
      BY <3>1 DEF PlansInit
  <2>3. users \in [Users -> People]
    BY <2>1 DEF PlansInit, People
  <2> QED
    BY <2>1, <2>2, <2>3 DEF PlansInit, PlansTypeOK
<1>2. PlanFollowed
  BY DEF PlansInit, PlanFollowed, Follows, Living, NoRow
<1>3. \A c \in Calls : Current(calls[c]) /\ Named(calls[c])
  BY NoCallFits DEF PlansInit
<1> QED
  BY <1>1, <1>2, <1>3 DEF PlansInv

(***************************************************************************)
(* A living user has the inbounds of its plan, for any users, plans and    *)
(* inbounds and any number of requests at once, unless an administrator    *)
(* set one by hand or a request crossed another                            *)
(* (plan-assignment-sync.service.ts).                                      *)
(***************************************************************************)
THEOREM PlansFollowed == PlansSpec => []PlanFollowed
<1>1. PlansInv => PlanFollowed
  BY DEF PlansInv
<1> QED
  BY <1>1, PlansStart, PlansStep, PTL DEF PlansSpec
=============================================================================
