---------------------------- MODULE ProviderApply ----------------------------
(***************************************************************************)
(* The panel's SingBoxProvider.apply and XrayProvider.apply (the same code *)
(* but for the names; apps/api/src/core/sing-box.provider.ts 231-316) and  *)
(* requestReload, against the sidecar of CoreSidecar.  A call of apply     *)
(* saves the current configuration, installs the candidate, asks the       *)
(* sidecar to reload and, when that or the health check fails, puts the    *)
(* previous configuration back.  Calls run one at a time, under the core   *)
(* apply lock of DistLock; a call that has lost it (WorkStaggered there)   *)
(* is not considered.                                                      *)
(***************************************************************************)
EXTENDS CoreSidecar

CONSTANTS Applies,     \* the calls of apply
          IoFails      \* a file operation may fail

\* The UUID of a reload request: each call of apply makes at most two.
ApplyId(a) == <<a, "apply">>
RollbackId(a) == <<a, "rollback">>
Ids == {ApplyId(a): a \in Applies} \cup {RollbackId(a): a \in Applies}

Requests == [id: Ids, hash: Configs]
Acks == [id: Ids, hash: Configs, ok: BOOLEAN]

ASSUME ApplyAssumption ==
  /\ IoFails \in BOOLEAN
  /\ Nothing \notin Ids \cup Requests \cup Acks

VARIABLES step,       \* where each call is
          desired,    \* the configuration it was given
          previous,   \* the configuration it read first
          outcome,    \* what it returned
          notice      \* ghost: a reload for the file as it is, due or given (requested)

applyVars == <<step, desired, previous, outcome, notice>>
providerVars == <<sidecarVars, applyVars>>

Done == {"done", "crashed"}
Steps == {"save", "replace", "request", "await", "verify",
          "restore", "rerequest", "reawait", "reverify"}
Outcomes == {"none", "FAILED_READ", "FAILED_BEFORE", "SUCCEEDED",
             "ROLLED_BACK", "FAILED_ROLLBACK"}

ProviderInit ==
  /\ SidecarInit
  /\ step = [a \in Applies |-> "idle"]
  /\ desired \in [Applies -> Configs]
  /\ previous = [a \in Applies |-> config]
  /\ outcome = [a \in Applies |-> "none"]
  /\ notice = "given"

Goto(a, label) == step' = [step EXCEPT ![a] = label]

Return(a, result) ==
  /\ Goto(a, "done")
  /\ outcome' = [outcome EXCEPT ![a] = result]

-----------------------------------------------------------------------------
\* Read the current configuration.
Begin(a) ==
  /\ step[a] = "idle"
  /\ \A b \in Applies: step[b] \in {"idle"} \cup Done
  /\ \/ /\ Goto(a, "save")
        /\ previous' = [previous EXCEPT ![a] = config]
        /\ UNCHANGED outcome
     \/ /\ IoFails
        /\ Return(a, "FAILED_READ")
        /\ UNCHANGED previous
  /\ UNCHANGED <<sidecarVars, desired, notice>>

\* Mutant of Save: the candidate is saved as last known good.
SaveCandidate(a) ==
  /\ step[a] = "save"
  /\ lkg' = desired[a]
  /\ Goto(a, "replace")
  /\ UNCHANGED <<config, request, ack, coreVars, desired, previous, outcome, notice>>

\* Write the candidate (under a name of its own), then the last-known-good file.
Save(a) ==
  /\ step[a] = "save"
  /\ \/ /\ lkg' = previous[a]
        /\ Goto(a, "replace")
        /\ UNCHANGED outcome
     \/ /\ IoFails
        /\ lkg' \in {lkg, previous[a]}
        /\ Return(a, "FAILED_BEFORE")
  /\ UNCHANGED <<config, request, ack, coreVars, desired, previous, notice>>

(***************************************************************************)
(* Rename the candidate over the configuration, then sync the directory:   *)
(* when the sync fails the rename has been done, and wroteCurrent is       *)
(* still false.                                                            *)
(***************************************************************************)
Replace(a) ==
  /\ step[a] = "replace"
  /\ \/ /\ config' = desired[a] /\ notice' = "due"
        /\ Goto(a, "request")
        /\ UNCHANGED outcome
     \/ /\ IoFails
        /\ \/ config' = desired[a] /\ notice' = "due"
           \/ UNCHANGED <<config, notice>>
        /\ Return(a, "FAILED_BEFORE")
  /\ UNCHANGED <<lkg, request, ack, coreVars, desired, previous>>

\* Write the reload request; an error leads to the rollback, even when the
\* sidecar can see the request.
Request(a) ==
  LET req == [id |-> ApplyId(a), hash |-> desired[a]] IN
  /\ step[a] = "request"
  /\ \/ request' = req /\ notice' = "given" /\ Goto(a, "await")
     \/ /\ IoFails
        /\ \/ request' = req /\ notice' = "given"
           \/ UNCHANGED <<request, notice>>
        /\ Goto(a, "restore")
  /\ UNCHANGED <<config, lkg, ack, coreVars, desired, previous, outcome>>

\* The acknowledgement file answers the request with this id.
Answered(id, ok) == ack # Nothing /\ ack.id = id /\ ack.ok = ok

\* Mutant of Await: any acknowledgement will do.
AwaitAny(a) ==
  /\ step[a] = "await"
  /\ ack # Nothing
  /\ Goto(a, IF ack.ok THEN "verify" ELSE "restore")
  /\ UNCHANGED <<sidecarVars, desired, previous, outcome, notice>>

(***************************************************************************)
(* Poll the acknowledgement until it has this id, says no, or the time is  *)
(* over.                                                                   *)
(***************************************************************************)
Await(a) ==
  /\ step[a] = "await"
  /\ \/ Answered(ApplyId(a), TRUE) /\ Goto(a, "verify")
     \/ Answered(ApplyId(a), FALSE) /\ Goto(a, "restore")
     \/ Goto(a, "restore")
  /\ UNCHANGED <<sidecarVars, desired, previous, outcome, notice>>

\* verifyHealthy: the core answers, or the time is over.
VerifyHealthy(a) ==
  /\ step[a] = "verify"
  /\ \/ /\ child = "up"
        /\ Return(a, "SUCCEEDED")
     \/ /\ Goto(a, "restore")
        /\ UNCHANGED outcome
  /\ UNCHANGED <<sidecarVars, desired, previous, notice>>

\* Mutant of Restore: the reload is requested without writing the file.
RestoreNothing(a) ==
  /\ step[a] = "restore"
  /\ Goto(a, "rerequest")
  /\ UNCHANGED <<sidecarVars, desired, previous, outcome, notice>>

\* The rollback: write the previous configuration back.
Restore(a) ==
  /\ step[a] = "restore"
  /\ \/ /\ config' = previous[a] /\ notice' = "due"
        /\ Goto(a, "rerequest")
        /\ UNCHANGED outcome
     \/ /\ IoFails
        /\ \/ config' = previous[a] /\ notice' = "due"
           \/ UNCHANGED <<config, notice>>
        /\ Return(a, "FAILED_ROLLBACK")
  /\ UNCHANGED <<lkg, request, ack, coreVars, desired, previous>>

\* Write the reload request for the previous configuration.
Rerequest(a) ==
  LET req == [id |-> RollbackId(a), hash |-> previous[a]] IN
  /\ step[a] = "rerequest"
  /\ \/ request' = req /\ notice' = "given" /\ Goto(a, "reawait") /\ UNCHANGED outcome
     \/ /\ IoFails
        /\ \/ request' = req /\ notice' = "given"
           \/ UNCHANGED <<request, notice>>
        /\ Return(a, "FAILED_ROLLBACK")
  /\ UNCHANGED <<config, lkg, ack, coreVars, desired, previous>>

\* Mutant of Reawait: the answer is not waited for.
ReawaitSkipped(a) ==
  /\ step[a] = "reawait"
  /\ Goto(a, "reverify")
  /\ UNCHANGED <<sidecarVars, desired, previous, outcome, notice>>

Reawait(a) ==
  /\ step[a] = "reawait"
  /\ \/ Answered(RollbackId(a), TRUE) /\ Goto(a, "reverify") /\ UNCHANGED outcome
     \/ Answered(RollbackId(a), FALSE) /\ Return(a, "FAILED_ROLLBACK")
     \/ Return(a, "FAILED_ROLLBACK")
  /\ UNCHANGED <<sidecarVars, desired, previous, notice>>

Reverify(a) ==
  /\ step[a] = "reverify"
  /\ \/ child = "up" /\ Return(a, "ROLLED_BACK")
     \/ Return(a, "FAILED_ROLLBACK")
  /\ UNCHANGED <<sidecarVars, desired, previous, notice>>

\* The API process dies during apply.
ApiDies(a) ==
  /\ step[a] \in Steps
  /\ Goto(a, "crashed")
  /\ UNCHANGED <<sidecarVars, desired, previous, outcome, notice>>

Apply(a) == Begin(a) \/ Save(a) \/ Replace(a) \/ Request(a) \/ Await(a) \/ VerifyHealthy(a)
Rollback(a) == Restore(a) \/ Rerequest(a) \/ Reawait(a) \/ Reverify(a)

ProviderNext ==
  \/ (Sidecar \/ Outage) /\ UNCHANGED applyVars
  \/ \E a \in Applies: Apply(a) \/ Rollback(a) \/ ApiDies(a)

ProviderSpec == ProviderInit /\ [][ProviderNext]_providerVars

(***************************************************************************)
(* The sidecar runs, Docker restarts it, and every wait of apply has a     *)
(* deadline.                                                               *)
(***************************************************************************)
ProviderLive ==
  /\ ProviderSpec
  /\ WF_providerVars(Sidecar /\ UNCHANGED applyVars)
  /\ \A a \in Applies: WF_providerVars(step[a] # "idle" /\ (Apply(a) \/ Rollback(a)))

-----------------------------------------------------------------------------
\* The core is alive and was started with configuration c, which is the one on disk.
Runs(c) == child = "up" /\ running = c /\ config = c

(***************************************************************************)
(* A SUCCEEDED apply has not only written the desired configuration: the   *)
(* core runs with it, whatever requests and acknowledgements of earlier    *)
(* calls are still about and whatever restarts of the sidecar came         *)
(* between.  A ROLLED_BACK one has restored the previous configuration,    *)
(* and the core runs with it again.                                        *)
(***************************************************************************)
OutcomeIsReal ==
  [][\A a \in Applies : outcome'[a] # outcome[a] =>
       /\ outcome'[a] = "SUCCEEDED" => Runs(desired[a])'
       /\ outcome'[a] = "ROLLED_BACK" => Runs(previous[a])']_providerVars

\* The panel has not died in an apply.
Uncut == \A a \in Applies: step[a] # "crashed"

(***************************************************************************)
(* No reload is lost: when a reload was requested since the file was last  *)
(* written and the sidecar has nothing to do, the core runs with the file, *)
(* even if the request came while the sidecar was starting or while it     *)
(* worked on another, and whichever call died in between.                  *)
(***************************************************************************)
NoReloadLost == Settled /\ notice = "given" => running = config

(***************************************************************************)
(* The last-known-good file holds a configuration the core can run with    *)
(* (its name, and README.md 240), as long as the panel has not died        *)
(* between writing a configuration and verifying it.                       *)
(***************************************************************************)
LastKnownGood == Uncut => lkg \in Good

(***************************************************************************)
(* In the end the core is up, with the configuration on disk, even after a *)
(* desired configuration that it cannot start with, if the panel lives to  *)
(* take it back.                                                           *)
(***************************************************************************)
CoreRecovers == []Uncut => <>[](child = "up" /\ running = config /\ running \in Good)
==============================================================================
