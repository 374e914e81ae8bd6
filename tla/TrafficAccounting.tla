-------------------------- MODULE TrafficAccounting --------------------------
(***************************************************************************)
(* How the counters of the cores become the bytes a user has used:         *)
(* TrafficCollectorService (apps/api/src/workers/traffic-collector.service *)
(* .ts) reads them, and in one Serializable transaction charges what they  *)
(* have grown by since the user's cursors (traffic-accounting.ts), while   *)
(* the cores restart, the usage is reset, and the worker's lock gets lost. *)
(***************************************************************************)
EXTENDS Integers, FiniteSetsExt

CONSTANTS Collectors,  \* runs of the collector that may overlap
          Engines,
          Dirs,        \* upload and download
          Free,        \* the worker's lock is free
          None,        \* no cursor yet, no counter in a sample
          MaxBytes,    \* bound on the bytes an engine carries
          MaxEpoch,    \* bound on the resets of the usage
          MaxClock,    \* bound on the clock, which ticks with the captures
          MaxLost      \* bound on the losses of the lock

Bytes == [Dirs -> Nat]
Zero == [d \in Dirs |-> 0]

\* The sum of f over the engines of S.
Total(f, S) == MapThenSumSet(LAMBDA e: f[e], S)

VARIABLES carried,     \* what each core has ever carried for the user
          start,       \* the part of it before the core's last start
          user,        \* the user's row: accountingEpoch and bytes used
          cursor,      \* the user's TrafficCursor of each engine
          deltas,      \* the TrafficDelta rows
          clock,
          holder,      \* who has the worker's lock
          losses,      \* how often it has been lost
          place,       \* where each run is
          capturedAt,
          sample,      \* the counters it has read
          snap,        \* what its transaction sees
          upTo,        \* history: carried when the counters of the cursor were read
          base         \* history: the counters at the last baseline

coreVars == <<carried, start>>
dbVars == <<user, cursor, deltas, upTo, base>>
lockVars == <<holder, losses>>
runVars == <<clock, lockVars, place, capturedAt, sample, snap>>
trafficVars == <<coreVars, dbVars, runVars>>

Users == [epoch: Nat, used: Bytes]
Cursors == [last: Bytes, epoch: Nat, generation: Nat, observedAt: Nat]
Samples == [counter: Bytes, at: Bytes]
Labels == {"idle", "read", "begin", "charge", "commit"}

ASSUME TrafficAssumption ==
  /\ IsFiniteSet(Engines)
  /\ Free \notin Collectors
  /\ None \notin Cursors \cup Samples

Blank == [user |-> [epoch |-> 0, used |-> Zero], cursor |-> [e \in Engines |-> None]]

\* The cursor of a user who has been seen but has had no traffic yet.
Baselined == [last |-> Zero, epoch |-> 0, generation |-> 0, observedAt |-> 0]

TrafficInit ==
  /\ carried = [e \in Engines |-> Zero]
  /\ start = [e \in Engines |-> Zero]
  /\ user = [epoch |-> 0, used |-> Zero]
  /\ cursor \in [Engines -> {None, Baselined}]
  /\ deltas = {}
  /\ clock = 0
  /\ holder = Free
  /\ losses = 0
  /\ place = [c \in Collectors |-> "idle"]
  /\ capturedAt = [c \in Collectors |-> 0]
  /\ sample = [c \in Collectors |-> [e \in Engines |-> None]]
  /\ snap = [c \in Collectors |-> Blank]
  /\ upTo = [e \in Engines |-> Zero]
  /\ base = [e \in Engines |-> Zero]

-----------------------------------------------------------------------------
(***************************************************************************)
(* The environment: traffic, restarts, resets, and the loss of the lock.   *)
(***************************************************************************)

\* The user's counter at a core.
Counter(e) == [d \in Dirs |-> carried[e][d] - start[e][d]]

Carry(e, d) ==
  /\ MapThenSumSet(LAMBDA b: carried[e][b], Dirs) < MaxBytes
  /\ carried' = [carried EXCEPT ![e][d] = @ + 1]
  /\ UNCHANGED <<start, dbVars, runVars>>

\* A core starts again from zero: a reload, a restart of its container.
Restart(e) ==
  /\ start[e] # carried[e]
  /\ start' = [start EXCEPT ![e] = carried[e]]
  /\ UNCHANGED <<carried, dbVars, runVars>>

\* reset-traffic by an administrator, or the limit enforcer's when it is due.
Reset ==
  /\ user.epoch < MaxEpoch
  /\ user' = [epoch |-> user.epoch + 1, used |-> Zero]
  /\ UNCHANGED <<coreVars, cursor, deltas, upTo, base, runVars>>

\* The lock's key expires or vanishes, whatever its holder is doing.
Lose ==
  /\ holder # Free /\ losses < MaxLost
  /\ holder' = Free
  /\ losses' = losses + 1
  /\ UNCHANGED <<coreVars, dbVars, clock, place, capturedAt, sample, snap>>

-----------------------------------------------------------------------------
Goto(c, label) == place' = [place EXCEPT ![c] = label]

\* The run is over and forgets what it has read.
Forget(c) ==
  /\ Goto(c, "idle")
  /\ capturedAt' = [capturedAt EXCEPT ![c] = 0]
  /\ sample' = [sample EXCEPT ![c] = [e \in Engines |-> None]]
  /\ snap' = [snap EXCEPT ![c] = Blank]

\* tryWithLock releases the lock, if it is still its own.
Return(c) ==
  /\ Forget(c)
  /\ holder' = IF holder = c THEN Free ELSE holder

(***************************************************************************)
(* runOnce gets the lock; getTrafficSnapshot takes the time, which may be  *)
(* the same millisecond as that of the capture before.                     *)
(***************************************************************************)
Capture(c) ==
  /\ place[c] = "idle"
  /\ holder = Free
  /\ holder' = c
  /\ clock < MaxClock
  /\ clock' = clock + 1
  /\ \E t \in {clock, clock + 1}: capturedAt' = [capturedAt EXCEPT ![c] = t]
  /\ Goto(c, "read")
  /\ UNCHANGED <<coreVars, dbVars, losses, sample, snap>>

(***************************************************************************)
(* The engines answer one by one; those that do not, or with a counter     *)
(* that is no 64-bit number, give no sample.                               *)
(***************************************************************************)
Read(c, e) ==
  /\ place[c] = "read"
  /\ sample[c][e] = None
  /\ sample' = [sample EXCEPT ![c][e] = [counter |-> Counter(e), at |-> carried[e]]]
  /\ UNCHANGED <<coreVars, dbVars, clock, lockVars, place, capturedAt, snap>>

HasSample(c, e) == sample[c][e] # None

(***************************************************************************)
(* The answers are in: with no counter at all there is nothing to do, and  *)
(* a run that assertOwned.verify finds without the lock is over.           *)
(***************************************************************************)
Answered(c) ==
  /\ place[c] = "read"
  /\ \/ /\ holder = c
        /\ \E e \in Engines: HasSample(c, e)
        /\ Goto(c, "begin")
        /\ UNCHANGED <<holder, capturedAt, sample, snap>>
     \/ /\ holder # c \/ \A e \in Engines: ~HasSample(c, e)
        /\ Return(c)
  /\ UNCHANGED <<coreVars, dbVars, clock, losses>>

\* The transaction begins: it reads the user and the cursors as they are now.
BeginTx(c) ==
  /\ place[c] = "begin"
  /\ snap' = [snap EXCEPT ![c] = [user |-> user, cursor |-> cursor]]
  /\ Goto(c, "charge")
  /\ UNCHANGED <<coreVars, dbVars, clock, lockVars, capturedAt, sample>>

\* assertOwned.verify at the end of the transaction.
VerifyOwned(c) ==
  /\ place[c] = "charge"
  /\ holder = c
  /\ Goto(c, "commit")
  /\ UNCHANGED <<coreVars, dbVars, clock, lockVars, capturedAt, sample, snap>>

-----------------------------------------------------------------------------
(***************************************************************************)
(* computeTrafficDelta, for engine e in the transaction of run c.          *)
(***************************************************************************)
Stale(c, e) ==
  LET cur == snap[c].cursor[e] IN cur # None /\ capturedAt[c] <= cur.observedAt

\* The engines whose cursors the transaction writes.
Written(c) == {e \in Engines: HasSample(c, e) /\ ~Stale(c, e)}

EpochChanged(c, e) ==
  LET cur == snap[c].cursor[e] IN cur # None /\ cur.epoch # snap[c].user.epoch

\* Mutant of Baseline: a reset of the usage is not one.
BaselineFirstOnly(c, e) == snap[c].cursor[e] = None

Baseline(c, e) == snap[c].cursor[e] = None \/ EpochChanged(c, e)

CounterReset(c, e) ==
  /\ ~Baseline(c, e)
  /\ \E d \in Dirs: sample[c][e].counter[d] < snap[c].cursor[e].last[d]

Generation(c, e) ==
  LET cur == snap[c].cursor[e]
  IN  IF cur = None THEN 0
      ELSE IF EpochChanged(c, e) \/ CounterReset(c, e)
        THEN cur.generation + 1 ELSE cur.generation

Delta(c, e) ==
  IF Baseline(c, e) THEN Zero
  ELSE IF CounterReset(c, e) THEN sample[c][e].counter
  ELSE [d \in Dirs |-> sample[c][e].counter[d] - snap[c].cursor[e].last[d]]

\* The rows it creates, and what they add up to.
NewRows(c) ==
  {[engine |-> e, epoch |-> snap[c].user.epoch, generation |-> Generation(c, e),
    counter |-> sample[c][e].counter, delta |-> Delta(c, e)]:
     e \in {f \in Written(c): Delta(c, f) # Zero}}

Charge(c) == [d \in Dirs |-> Total([e \in Written(c) |-> Delta(c, e)[d]], Written(c))]

NewCursor(c, e) ==
  [last |-> sample[c][e].counter, epoch |-> snap[c].user.epoch,
   generation |-> Generation(c, e), observedAt |-> capturedAt[c]]

\* sampleKey is unique in the table.
SampleKey(row) == <<row.engine, row.epoch, row.generation, row.counter>>
KeyClash(c) == \E r \in NewRows(c), s \in deltas: SampleKey(r) = SampleKey(s)

(***************************************************************************)
(* Serializable: a row the transaction writes has been written since its   *)
(* snapshot.  The user's row is written only when there is a charge.       *)
(***************************************************************************)
Conflict(c) ==
  \/ \E e \in Written(c): cursor[e] # snap[c].cursor[e]
  \/ NewRows(c) # {} /\ user # snap[c].user

-----------------------------------------------------------------------------
\* What the transaction writes.
Write(c) ==
  /\ cursor' = [e \in Engines |-> IF e \in Written(c) THEN NewCursor(c, e) ELSE cursor[e]]
  /\ deltas' = deltas \cup NewRows(c)
  /\ user' = [user EXCEPT !.used = [d \in Dirs |-> @[d] + Charge(c)[d]]]
  /\ upTo' = [e \in Engines |-> IF e \in Written(c) THEN sample[c][e].at ELSE upTo[e]]
  /\ base' = [e \in Engines |->
                IF e \in Written(c) /\ Baseline(c, e) THEN sample[c][e].counter ELSE base[e]]

\* Mutant of CommitTx: the default isolation level.
CommitReadCommitted(c) ==
  /\ place[c] = "commit"
  /\ ~KeyClash(c)
  /\ Write(c)
  /\ Return(c)
  /\ UNCHANGED <<coreVars, clock, losses>>

CommitTx(c) ==
  /\ place[c] = "commit"
  /\ ~Conflict(c) /\ ~KeyClash(c)
  /\ Write(c)
  /\ Return(c)
  /\ UNCHANGED <<coreVars, clock, losses>>

\* The transaction fails: the lock is lost, a conflict, a clash of keys, any error.
Abort(c) ==
  /\ place[c] \in {"charge", "commit"}
  /\ Return(c)
  /\ UNCHANGED <<coreVars, dbVars, clock, losses>>

\* The panel dies; its lock stays until it expires.
PanelDies(c) ==
  /\ place[c] # "idle"
  /\ Forget(c)
  /\ UNCHANGED <<coreVars, dbVars, clock, lockVars>>

Step(c) ==
  \/ Capture(c) \/ Answered(c)
  \/ BeginTx(c) \/ VerifyOwned(c) \/ CommitTx(c) \/ Abort(c)
  \/ PanelDies(c)
  \/ \E e \in Engines: Read(c, e)

TrafficNext ==
  \/ \E e \in Engines: Restart(e) \/ \E d \in Dirs: Carry(e, d)
  \/ Reset \/ Lose
  \/ \E c \in Collectors: Step(c)

TrafficSpec == TrafficInit /\ [][TrafficNext]_trafficVars

-----------------------------------------------------------------------------
\* As long as no core restarts, the usage is all that the cores have measured since the
\* baselines of the current accounting epoch.
NothingLost ==
  LET measured == {e \in Engines: cursor[e] # None /\ cursor[e].epoch = user.epoch}
  IN  (\A e \in Engines: start[e] = Zero) =>
        \A d \in Dirs:
          user.used[d] = Total([e \in measured |-> cursor[e].last[d] - base[e][d]], measured)

\* A charge is at most what the core carried between the reading of the sample charged
\* before and its own.
NothingTwice ==
  \A r \in deltas' \ deltas, d \in Dirs: r.delta[d] <= upTo'[r.engine][d] - upTo[r.engine][d]

(***************************************************************************)
(* Every byte is charged once: whatever runs overlap, and however often    *)
(* cores restart and usage is reset, none is charged twice (the double     *)
(* counting after a reload of CONTRIBUTING.md), and without a restart none *)
(* is lost.                                                                *)
(***************************************************************************)
EachByteOnce == [][NothingTwice /\ NothingLost']_trafficVars

==============================================================================
