---------------------------- MODULE UpdateChecks ----------------------------
(***************************************************************************)
(* The check for updates of the panel (update-checker.service.ts): runs of *)
(* the worker under its lock, checks an administrator asks for without it, *)
(* the status they leave in Redis, the notification of a new version, and  *)
(* the health the worker reports (worker-health.service.ts); while commits *)
(* are pushed, the panel restarts or is updated, and requests to GitHub    *)
(* and Redis fail.  How a lock is renewed and lost is DistLock's.          *)
(***************************************************************************)
EXTENDS Naturals, Sequences

CONSTANTS
  Runs,        \* runs of the worker that may overlap
  Asked,       \* checks of administrators that may overlap
  Nobody,      \* the lock is free
  MaxVersion,  \* bound on the commits
  MaxFaults    \* bound on failures, restarts and losses of the lock

Checks == Runs \cup Asked
Versions == 1..MaxVersion

VARIABLES
  latest,    \* the commit GitHub has for the ref
  build,     \* OVERVPN_GIT_SHA of the panel that runs
  status,    \* overvpn:updates:status; "at" is none if the check failed
  notified,  \* overvpn:updates:notified-sha
  sent,      \* commits given to Telegram, whatever came of it
  health,    \* state of the worker
  lock,      \* overvpn:workers:update-checker:lock
  check,     \* of each check: the steps it has left, and the commit it has fetched
  faults

updateVars == <<latest, build, status, notified, sent, health, lock, check, faults>>

None == 0
Idle == [left |-> <<>>, saw |-> None]
NoStatus == [at |-> None, available |-> FALSE, error |-> FALSE]

UpdatesInit ==
  /\ latest = 2 /\ build = 1
  /\ status = NoStatus /\ notified = None /\ sent = {}
  /\ health = "NOT_RUN" /\ lock = Nobody
  /\ check = [c \in Checks |-> Idle]
  /\ faults = 0

-----------------------------------------------------------------------------
\* performCheck
Check == <<"fetch", "cache", "news">>

\* runOnce, in its lock; and what it does if anything in it fails
Guarded == <<"running">> \o Check \o <<"success", "release">>
Failure == <<"failure", "no status">>

\* Mutant of Announce: the version is marked before it is sent.
MarkFirst == <<"mark", "send">>

\* notifyIfNew, of a version that is not the last one announced
Announce == <<"send", "mark">>

At(c, step) == check[c].left # <<>> /\ Head(check[c].left) = step
Rest(c) == Tail(check[c].left)
Go(c, steps) == check' = [check EXCEPT ![c] = IF steps = <<>> THEN Idle ELSE [@ EXCEPT !.left = steps]]
Fault == faults < MaxFaults /\ faults' = faults + 1

\* A write to Redis that may fail, in which case nobody hears of it.
Written(write, old) == (write /\ UNCHANGED faults) \/ (UNCHANGED old /\ Fault)

Start(c) ==
  /\ c \in Runs /\ check[c] = Idle /\ lock = Nobody
  /\ lock' = c /\ Go(c, Guarded)
  /\ UNCHANGED <<latest, build, status, notified, sent, health, faults>>

Ask(c) ==
  /\ c \in Asked /\ check[c] = Idle /\ Go(c, Check)
  /\ UNCHANGED <<latest, build, status, notified, sent, health, lock, faults>>

MarkRunning(c) ==
  /\ At(c, "running") /\ Go(c, Rest(c)) /\ Written(health' = "RUNNING", health)
  /\ UNCHANGED <<latest, build, status, notified, sent, lock>>

FetchLatestCommit(c) ==
  /\ At(c, "fetch")
  /\ check' = [check EXCEPT ![c] = [left |-> Rest(c), saw |-> latest]]
  /\ UNCHANGED <<latest, build, status, notified, sent, health, lock, faults>>

WriteCache(c) ==
  /\ At(c, "cache") /\ Go(c, Rest(c))
  /\ Written(status' = [at |-> check[c].saw, available |-> check[c].saw # build, error |-> FALSE],
             status)
  /\ UNCHANGED <<latest, build, notified, sent, health, lock>>

NotifyIfNew(c) ==
  /\ At(c, "news")
  /\ Go(c, IF check[c].saw \in {build, notified} THEN Rest(c) ELSE Announce \o Rest(c))
  /\ UNCHANGED <<latest, build, status, notified, sent, health, lock, faults>>

\* Telegram may be off or fail: the check does not hear of it.
NotifyUpdateAvailable(c) ==
  /\ At(c, "send") /\ Go(c, Rest(c)) /\ sent' = sent \cup {check[c].saw}
  /\ UNCHANGED <<latest, build, status, notified, health, lock, faults>>

MarkNotified(c) ==
  /\ At(c, "mark") /\ Go(c, Rest(c)) /\ notified' = check[c].saw
  /\ UNCHANGED <<latest, build, status, sent, health, lock, faults>>

MarkSuccess(c) ==
  /\ At(c, "success") /\ Go(c, Rest(c)) /\ Written(health' = "HEALTHY", health)
  /\ UNCHANGED <<latest, build, status, notified, sent, lock>>

\* A run that has noticed that its lock is lost has failed, after it reported success; a
\* release that fails is not looked at.
Release(c) ==
  /\ At(c, "release")
  /\ IF lock = c
     THEN Go(c, <<>>) /\ Written(lock' = Nobody, lock)
     ELSE Go(c, <<>>) \/ Go(c, Failure)
  /\ lock # c => UNCHANGED <<lock, faults>>
  /\ UNCHANGED <<latest, build, status, notified, sent, health>>

\* GitHub does not answer, or Redis in notifyIfNew or in the renewal of the lock.  The administrator is told
\* of it, the worker records it after its lock is released, or left to expire.
Fails(c) ==
  /\ \E step \in {"fetch", "news", "mark", "release"} : At(c, step)
  /\ Fault
  /\ Go(c, IF c \in Runs THEN Failure ELSE <<>>)
  /\ lock' = lock \/ (lock = c /\ lock' = Nobody)
  /\ UNCHANGED <<latest, build, status, notified, sent, health>>

MarkFailure(c) ==
  /\ At(c, "failure") /\ Go(c, Rest(c)) /\ Written(health' = "FAILED", health)
  /\ UNCHANGED <<latest, build, status, notified, sent, lock>>

CacheFailure(c) ==
  /\ At(c, "no status") /\ Go(c, Rest(c))
  /\ Written(status' = [at |-> None, available |-> FALSE, error |-> TRUE], status)
  /\ UNCHANGED <<latest, build, notified, sent, health, lock>>

Proceed(c) ==
  \/ MarkRunning(c) \/ FetchLatestCommit(c) \/ WriteCache(c) \/ NotifyIfNew(c)
  \/ NotifyUpdateAvailable(c) \/ MarkNotified(c) \/ MarkSuccess(c) \/ Release(c)
  \/ MarkFailure(c) \/ CacheFailure(c)

-----------------------------------------------------------------------------
Push ==
  /\ latest < MaxVersion /\ latest' = latest + 1
  /\ UNCHANGED <<build, status, notified, sent, health, lock, check, faults>>

\* The panel is gone in the middle of anything; Redis keeps what it has.
Gone == check' = [c \in Checks |-> Idle]

Restart ==
  /\ Fault /\ Gone
  /\ UNCHANGED <<latest, build, status, notified, sent, health, lock>>

\* overvpn update
Update ==
  /\ build' \in (build + 1)..latest /\ Gone
  /\ UNCHANGED <<latest, status, notified, sent, health, lock, faults>>

\* The lock of a process that is gone expires; one that is held may be lost.
LockExpires ==
  /\ lock # Nobody /\ lock' = Nobody
  /\ IF check[lock] = Idle THEN UNCHANGED faults ELSE Fault
  /\ UNCHANGED <<latest, build, status, notified, sent, health, check>>

UpdatesNext ==
  \/ \E c \in Checks : Start(c) \/ Ask(c) \/ Proceed(c) \/ Fails(c)
  \/ Push \/ Restart \/ Update \/ LockExpires

(***************************************************************************)
(* The scheduler starts a run at every interval, a step under way ends by  *)
(* its timeout, and an orphaned lock expires.  Administrators need not ask.*)
(***************************************************************************)
Due == \E c \in Runs : Start(c)
Expiry == lock # Nobody /\ check[lock] = Idle /\ LockExpires

UpdatesSpec ==
  /\ UpdatesInit /\ [][UpdatesNext]_updateVars
  /\ WF_updateVars(Due) /\ WF_updateVars(Expiry)
  /\ \A c \in Checks : WF_updateVars(Proceed(c))

-----------------------------------------------------------------------------
(***************************************************************************)
(* Once commits, updates and failures are over, whatever checks overlapped *)
(* or were cut: the status tells whether there is an update, the worker is *)
(* shown to be well, and a version that stays the latest was announced.    *)
(***************************************************************************)
TellsTheTruth ==
  /\ status = [at |-> latest, available |-> latest # build, error |-> FALSE]
  /\ health \in {"RUNNING", "HEALTHY"}
  /\ latest # build => latest \in sent

ChecksSettle == <>[]TellsTheTruth
=============================================================================
