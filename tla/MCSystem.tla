------------------------------ MODULE MCSystem ------------------------------
(***************************************************************************)
(* For TLC: the applies of a panel and a node (SystemApply), and the       *)
(* panel's check for updates (UpdateChecks).  They share no variable: an   *)
(* instance runs one of them.                                              *)
(***************************************************************************)
EXTENDS MCSystemApply

CONSTANTS Runs, Asked, MaxVersion, MaxFaults

VARIABLES latest, build, status, notified, sent, health, checkLock, check, faults,
          part

U == INSTANCE UpdateChecks WITH Nobody <- Free, lock <- checkLock

updateVars == <<latest, build, status, notified, sent, health, checkLock, check, faults>>
everyVar == <<allVars, updateVars, part>>

Updates(action) == part = "updates" /\ action /\ UNCHANGED <<allVars, part>>

\* No action reads which records are pending or reconciled.
NoRecords == <<rows, inbRev, inbDirty, userRev, userDirty, deployed, lock, callVars, nodeVars, sysVars,
               updateVars, part>>

PanelInit == SystemInit /\ U!UpdatesInit /\ part \in {"applies", "updates"}

PanelSpec ==
  /\ PanelInit
  /\ [][\/ part = "applies" /\ SystemNext /\ UNCHANGED <<updateVars, part>>
        \/ Updates(U!UpdatesNext)]_everyVar
  /\ WF_everyVar(Updates(U!Due)) /\ WF_everyVar(Updates(U!Expiry))
  /\ \A c \in U!Checks : WF_everyVar(Updates(U!Proceed(c)))

ChecksSettle == part = "updates" => U!ChecksSettle
=============================================================================
