----------------------------- MODULE LocalApply -----------------------------
(***************************************************************************)
(* The bookkeeping of CoreApplyService.applyLocal                          *)
(* (apps/api/src/core/core-apply.service.ts 398-611) while inbounds and    *)
(* users go on changing: which rows are marked as applied, and whether     *)
(* the panel's own cores have them.  The lock is the abstract one that     *)
(* DistLock implements, and its holder the only call at work: one that     *)
(* works on after its key has run out, until the next assertOwned(), is    *)
(* DistLock's.  What an engine provider does is what ProviderApply shows:  *)
(* SUCCEEDED means the configuration is the loaded one, ROLLED_BACK the    *)
(* previous one, FAILED either of them.                                    *)
(***************************************************************************)
EXTENDS Naturals, FiniteSets

CONSTANTS Proxies,     \* the proxy servers an apply may be for
          Inbounds,    \* inbound rows, each on one proxy and one engine
          Users,
          Applies,     \* the calls of apply
          N,           \* number of engines: 1 .. N is the registry's order
          InbProxy, InbEngine,
          Free,        \* the lock is free
          MaxRev       \* bound on the revisions of a row

Engines == 1 .. N

ASSUME LocalApplyAssumption ==
  /\ N \in Nat \ {0}
  /\ InbProxy \in [Inbounds -> Proxies]
  /\ InbEngine \in [Inbounds -> Engines]
  /\ Free \notin Applies
  /\ MaxRev \in Nat

VARIABLES rows,        \* the inbounds in the database
          inbRev,      \* Inbound.revision; 0: never created
          inbDirty,    \* Inbound.needsApply
          userRev,     \* User.revision
          userDirty,   \* User.needsApply
          pending,     \* CoreApplyRecords with status PENDING
          reconciled,  \* those an apply has marked SUCCEEDED, and whether it began too early
          deployed,    \* what each engine's configuration was rendered from
          lock,        \* the call that holds core:apply
          pc,          \* where each call is
          target,      \* the proxy it is for
          eng,         \* the engine it is at
          loaded,      \* what it loaded for each engine
          result,      \* the outcome of each engine
          outcome      \* the status of its record

dbVars == <<rows, inbRev, inbDirty, userRev, userDirty, pending, reconciled>>
callVars == <<pc, target, eng, loaded, result, outcome>>
vars == <<dbVars, deployed, lock, callVars>>

\* A desired state: the proxy it is of, the revisions of the rows it was made of (0: none).
States == [of: SUBSET Proxies, inb: [Inbounds -> Nat], user: [Users -> Nat]]
NoState == [of |-> {}, inb |-> [i \in Inbounds |-> 0], user |-> [u \in Users |-> 0]]

\* PENDING record of a user's change: of the calls under way at its commit, those that
\* had started before its createdAt, and those that started while its transaction was open.
Changes == [user: Users, rev: Nat, missed: SUBSET Applies, early: SUBSET Applies]
Closed == [user: Users, rev: Nat, early: BOOLEAN]

Working == {"load", "deploy", "commit"}
Pushing == {"build", "push", "wait"}   \* a call for an agent (SystemApply)
Over == {"done", "crashed"}
Labels == {"idle", "lock"} \cup Over \cup Working \cup Pushing
Results == {"none", "SUCCEEDED", "ROLLED_BACK", "FAILED"}
Outcomes == Results \cup {"PARTIAL_SUCCEEDED"}

\* CoreStateLoader.load: the proxy's inbounds of engine e, and all users.
Desired(e, p) ==
  [of |-> {p},
   inb |-> [i \in Inbounds |->
             IF i \in rows /\ InbEngine[i] = e /\ InbProxy[i] = p THEN inbRev[i] ELSE 0],
   user |-> userRev]

\* The inbounds of one proxy exist, and everything is applied.
Init ==
  \E p \in Proxies:
  /\ rows \in SUBSET {i \in Inbounds: InbProxy[i] = p}
  /\ inbRev = [i \in Inbounds |-> IF i \in rows THEN 1 ELSE 0]
  /\ inbDirty = [i \in Inbounds |-> FALSE]
  /\ userRev = [u \in Users |-> 1]
  /\ userDirty = [u \in Users |-> FALSE]
  /\ pending = {}
  /\ reconciled = {}
  /\ deployed = [e \in Engines |-> Desired(e, p)]
  /\ lock = Free
  /\ pc = [a \in Applies |-> "idle"]
  /\ target = [a \in Applies |-> p]
  /\ eng = [a \in Applies |-> 1]
  /\ loaded = [a \in Applies |-> [e \in Engines |-> NoState]]
  /\ result = [a \in Applies |-> [e \in Engines |-> "none"]]
  /\ outcome = [a \in Applies |-> "none"]

-----------------------------------------------------------------------------
(***************************************************************************)
(* The mutations, one transaction each.  Those of an inbound are followed  *)
(* by a call of apply, which may be any of the calls.                      *)
(***************************************************************************)
CreateInbound(i) ==
  /\ i \notin rows /\ inbRev[i] = 0
  /\ rows' = rows \cup {i}
  /\ inbRev' = [inbRev EXCEPT ![i] = 1]
  /\ inbDirty' = [inbDirty EXCEPT ![i] = TRUE]
  /\ UNCHANGED <<userRev, userDirty, pending, reconciled, deployed, lock, callVars>>

\* update (but for its display name alone), enable, disable.
ChangeInbound(i) ==
  /\ i \in rows /\ inbRev[i] < MaxRev
  /\ inbRev' = [inbRev EXCEPT ![i] = @ + 1]
  /\ inbDirty' = [inbDirty EXCEPT ![i] = TRUE]
  /\ UNCHANGED <<rows, userRev, userDirty, pending, reconciled, deployed, lock, callVars>>

RemoveInbound(i) ==
  /\ i \in rows
  /\ rows' = rows \ {i}
  /\ UNCHANGED <<inbRev, inbDirty, userRev, userDirty, pending, reconciled>>
  /\ UNCHANGED <<deployed, lock, callVars>>

\* markAssignmentChanged: an assignment is added, removed or gets a new credential.
ChangeAssignment(i, u) ==
  /\ i \in rows /\ inbRev[i] < MaxRev /\ userRev[u] < MaxRev
  /\ inbRev' = [inbRev EXCEPT ![i] = @ + 1]
  /\ inbDirty' = [inbDirty EXCEPT ![i] = TRUE]
  /\ userRev' = [userRev EXCEPT ![u] = @ + 1]
  /\ userDirty' = [userDirty EXCEPT ![u] = TRUE]
  /\ UNCHANGED <<rows, pending, reconciled, deployed, lock, callVars>>

Underway == {a \in Applies: pc[a] \notin {"idle"} \cup Over}

(***************************************************************************)
(* A user is changed: by an administrator, with a PENDING record, or by    *)
(* the limit enforcer, without.  The record's createdAt is a moment of the *)
(* transaction before its commit, which is what the other calls see.       *)
(***************************************************************************)
ChangeUser(u) ==
  /\ userRev[u] < MaxRev
  /\ userRev' = [userRev EXCEPT ![u] = @ + 1]
  /\ userDirty' = [userDirty EXCEPT ![u] = TRUE]
  /\ \/ UNCHANGED pending
     \/ \E missed \in SUBSET Underway:
          pending' = pending \cup {[user |-> u, rev |-> userRev[u] + 1,
                                   missed |-> missed, early |-> Underway \ missed]}
  /\ UNCHANGED <<rows, inbRev, inbDirty, reconciled, deployed, lock, callVars>>

-----------------------------------------------------------------------------
Goto(a, label) == pc' = [pc EXCEPT ![a] = label]

\* The call is over, what it knew is gone.
Forget(a) ==
  /\ eng' = [eng EXCEPT ![a] = 1]
  /\ loaded' = [loaded EXCEPT ![a] = [e \in Engines |-> NoState]]
  /\ result' = [result EXCEPT ![a] = [e \in Engines |-> "none"]]

\* Its record gets this status.
Return(a, status) ==
  /\ Goto(a, "done")
  /\ outcome' = [outcome EXCEPT ![a] = status]
  /\ Forget(a)

\* apply: the call is for proxy p; its record is created.
Start(a, p) ==
  /\ pc[a] = "idle"
  /\ target' = [target EXCEPT ![a] = p]
  /\ Goto(a, "lock")
  /\ UNCHANGED <<dbVars, deployed, lock, eng, loaded, result, outcome>>

\* Mutant of Lock: the call goes on without the lock.
LockAnyway(a) ==
  /\ pc[a] = "lock"
  /\ lock' = a
  /\ Goto(a, "load")
  /\ UNCHANGED <<dbVars, deployed, target, eng, loaded, result, outcome>>

\* withLock: a lock that is held fails the call.
Lock(a) ==
  /\ pc[a] = "lock"
  /\ \/ /\ lock = Free
        /\ lock' = a
        /\ Goto(a, "load")
        /\ UNCHANGED <<eng, loaded, result, outcome>>
     \/ /\ lock # Free
        /\ Return(a, "FAILED")
        /\ UNCHANGED lock
  /\ UNCHANGED <<dbVars, deployed, target>>

\* After the last engine comes the transaction.
NextEngine(a) ==
  IF eng[a] < N
    THEN eng' = [eng EXCEPT ![a] = @ + 1] /\ Goto(a, "load")
    ELSE Goto(a, "commit") /\ UNCHANGED eng

\* applyEngine loads the desired state and renders it, or fails to.
Load(a) ==
  /\ pc[a] = "load"
  /\ \/ /\ loaded' = [loaded EXCEPT ![a][eng[a]] = Desired(eng[a], target[a])]
        /\ Goto(a, "deploy")
        /\ UNCHANGED <<eng, result>>
     \/ /\ result' = [result EXCEPT ![a][eng[a]] = "FAILED"]
        /\ NextEngine(a)
        /\ UNCHANGED loaded
  /\ UNCHANGED <<dbVars, deployed, lock, target, outcome>>

(***************************************************************************)
(* applyEngine has the provider validate and apply what it loaded.         *)
(***************************************************************************)
Deploy(a) ==
  LET e == eng[a] IN
  /\ pc[a] = "deploy"
  /\ \/ /\ deployed' = [deployed EXCEPT ![e] = loaded[a][e]]
        /\ result' \in {[result EXCEPT ![a][e] = r]: r \in {"SUCCEEDED", "FAILED"}}
     \/ /\ result' \in {[result EXCEPT ![a][e] = r]: r \in {"ROLLED_BACK", "FAILED"}}
        /\ UNCHANGED deployed
  /\ NextEngine(a)
  /\ UNCHANGED <<dbVars, lock, target, loaded, outcome>>

\* aggregateApplyStatus
Aggregate(results) ==
  LET statuses == {results[e]: e \in Engines} IN
  IF statuses = {"SUCCEEDED"} THEN "SUCCEEDED"
  ELSE IF "SUCCEEDED" \in statuses THEN "PARTIAL_SUCCEEDED"
  ELSE IF statuses = {"ROLLED_BACK"} THEN "ROLLED_BACK"
  ELSE "FAILED"

\* Mutant of MarkInbounds: the inbound's revision is not compared.
MarkInboundsUnguarded(a) ==
  inbDirty' = [i \in Inbounds |->
    inbDirty[i] /\ ~(/\ i \in rows
                     /\ result[a][InbEngine[i]] = "SUCCEEDED"
                     /\ loaded[a][InbEngine[i]].inb[i] # 0)]

\* markInboundRevisionsApplied, for the engines that succeeded.
MarkInbounds(a) ==
  inbDirty' = [i \in Inbounds |->
    inbDirty[i] /\ ~(/\ i \in rows
                     /\ result[a][InbEngine[i]] = "SUCCEEDED"
                     /\ loaded[a][InbEngine[i]].inb[i] = inbRev[i])]

\* Mutant of MarkUsers: the revisions are not compared.
MarkUsersUnguarded(a) == userDirty' = [u \in Users |-> FALSE]

\* markUserRevisionsApplied, with the revisions that uniqueUserRevisions keeps:
\* those of the last engine.
MarkUsers(a) ==
  userDirty' = [u \in Users |-> userDirty[u] /\ loaded[a][N].user[u] # userRev[u]]

\* Mutant of Covered: every pending record.
CoveredAll(a) == pending

\* The PENDING records with createdAt <= startedAt.
Covered(a) == {c \in pending: a \notin c.missed}

Closing(a) ==
  {[user |-> c.user, rev |-> c.rev, early |-> a \in c.early]: c \in Covered(a)}

\* An error after the transaction (the lock has been lost) still makes it FAILED.
Recorded(a, status) == Return(a, status) \/ Return(a, "FAILED")

(***************************************************************************)
(* The transaction at the end, or its failure; then the lock is released.  *)
(***************************************************************************)
Commit(a) ==
  LET status == Aggregate(result[a]) IN
  /\ pc[a] = "commit"
  /\ \/ /\ status \in {"FAILED", "ROLLED_BACK"}
        /\ Return(a, status)
        /\ UNCHANGED <<inbDirty, userDirty, pending, reconciled>>
     \/ /\ status = "PARTIAL_SUCCEEDED"
        /\ MarkInbounds(a)
        /\ Recorded(a, status)
        /\ UNCHANGED <<userDirty, pending, reconciled>>
     \/ /\ status = "SUCCEEDED"
        /\ MarkInbounds(a)
        /\ MarkUsers(a)
        /\ pending' = pending \ Covered(a)
        /\ reconciled' = reconciled \cup Closing(a)
        /\ Recorded(a, status)
     \/ /\ Return(a, "FAILED")
        /\ UNCHANGED <<inbDirty, userDirty, pending, reconciled>>
  /\ lock' = Free
  /\ UNCHANGED <<rows, inbRev, userRev, deployed, target>>

\* The panel dies; the lock stays until its TTL is over.
Crash(a) ==
  /\ pc[a] \in {"lock"} \cup Working
  /\ Goto(a, "crashed")
  /\ Forget(a)
  /\ UNCHANGED <<dbVars, deployed, lock, target, outcome>>

Expire ==
  /\ lock # Free
  /\ pc[lock] = "crashed"
  /\ lock' = Free
  /\ UNCHANGED <<dbVars, deployed, callVars>>

Mutate ==
  \/ \E i \in Inbounds: CreateInbound(i) \/ ChangeInbound(i) \/ RemoveInbound(i)
  \/ \E i \in Inbounds, u \in Users: ChangeAssignment(i, u)
  \/ \E u \in Users: ChangeUser(u)

Step(a) == Lock(a) \/ Load(a) \/ Deploy(a) \/ Commit(a) \/ Crash(a)

Next ==
  \/ Mutate
  \/ \E a \in Applies: Step(a) \/ \E p \in Proxies: Start(a, p)
  \/ Expire

Spec == Init /\ [][Next]_vars

-----------------------------------------------------------------------------
\* The variables stay in their types, and the lock belongs to a call at work.
TypeOK ==
  /\ rows \in SUBSET Inbounds
  /\ inbRev \in [Inbounds -> Nat]
  /\ inbDirty \in [Inbounds -> BOOLEAN]
  /\ userRev \in [Users -> Nat]
  /\ userDirty \in [Users -> BOOLEAN]
  /\ pending \in SUBSET Changes
  /\ reconciled \in SUBSET Closed
  /\ deployed \in [Engines -> States]
  /\ lock \in Applies \cup {Free}
  /\ pc \in [Applies -> Labels]
  /\ target \in [Applies -> Proxies]
  /\ eng \in [Applies -> Engines]
  /\ loaded \in [Applies -> [Engines -> States]]
  /\ result \in [Applies -> [Engines -> Results]]
  /\ outcome \in [Applies -> Outcomes]
  /\ lock # Free => pc[lock] \in Working \cup {"crashed"}

(***************************************************************************)
(* An inbound that no longer needs an apply is in its core at its current  *)
(* revision, whatever was edited, failed, rolled back or crashed           *)
(* meanwhile (markInboundRevisionsApplied; needsApply in the inbound list).*)
(***************************************************************************)
InboundHonest ==
  \A i \in rows: ~inbDirty[i] => deployed[InbEngine[i]].inb[i] = inbRev[i]

(***************************************************************************)
(* A user that no longer needs an apply has its current revision in every  *)
(* core, so that a disabled user is out of all of them.                    *)
(***************************************************************************)
UserHonest ==
  \A u \in Users: ~userDirty[u] => \A e \in Engines: deployed[e].user[u] = userRev[u]

(***************************************************************************)
(* As UserHonest, for the engine whose revisions uniqueUserRevisions keeps.*)
(***************************************************************************)
UserHonestLast ==
  \A u \in Users: ~userDirty[u] => deployed[N].user[u] = userRev[u]

(***************************************************************************)
(* A change recorded as SUCCEEDED by an apply that reconciles it is in     *)
(* every core (reconciledByApplyRecordId).  An apply that began while the  *)
(* change's transaction was open may have loaded before its commit and     *)
(* still closes it, createdAt being before startedAt (548-552): then the   *)
(* record is wrong, and the user's flag goes on asking for an apply until  *)
(* the change is deployed.                                                 *)
(***************************************************************************)
ReconciledIsDeployed ==
  \A c \in reconciled:
    \/ \A e \in Engines: deployed[e].user[c.user] >= c.rev
    \/ c.early /\ (userDirty[c.user] \/ deployed[N].user[c.user] >= c.rev)

(***************************************************************************)
(* No apply puts a core back to an older state of a user than it has       *)
(* already run with: a disabled user does not come back.                   *)
(***************************************************************************)
NoStaleDeploy ==
  [][\A e \in Engines, u \in Users: deployed'[e].user[u] >= deployed[e].user[u]]_vars
==============================================================================
