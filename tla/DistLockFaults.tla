--------------------------- MODULE DistLockFaults ---------------------------
(***************************************************************************)
(* DistLock with what its timing cannot exclude: Redis loses the key (a    *)
(* failover, an eviction, a DEL by hand), and a process stalls past its    *)
(* deadlines.  What is left of the lock's promises is stated here, on a    *)
(* ghost variable that records the truth about the key.                    *)
(***************************************************************************)
EXTENDS DistLock

CONSTANTS MaxVanish,   \* how often Redis loses the key
          MaxStall     \* how many ticks pass although something is overdue

ASSUME FaultAssumption == MaxVanish \in Nat /\ MaxStall \in Nat

VARIABLES vanished,  \* how often Redis has lost the key
          stalled,   \* how many ticks have passed with something overdue
          doubt      \* for how long each call has believed wrongly that it owns the key

faultVars == <<vars, vanished, stalled, doubt>>

FInit ==
  /\ Init
  /\ vanished = 0
  /\ stalled = 0
  /\ doubt = [c \in Calls |-> 0]

Vanish ==
  /\ token # NoCall
  /\ vanished < MaxVanish
  /\ token' = NoCall
  /\ ttl' = 0
  /\ vanished' = vanished + 1
  /\ UNCHANGED <<pc, lost, renewal, since, age, work, stalled, doubt>>

\* The ghost clocks of a tick.
Doubting ==
  doubt' = [c \in Calls |-> IF Believes(c) /\ token # c THEN doubt[c] + 1 ELSE 0]

FTick ==
  /\ Tick
  /\ Doubting
  /\ UNCHANGED <<vanished, stalled>>

LateTick ==
  /\ \E c \in Calls: ~Prompt(c)
  /\ stalled < MaxStall
  /\ PassTime
  /\ stalled' = stalled + 1
  /\ Doubting
  /\ UNCHANGED vanished

FStep(c) ==
  /\ \/ SetKey(c) \/ Commands(c) \/ Crash(c)
     \/ BeginWork(c) \/ Verify(c) \/ EndWork(c) \/ EndOperation(c)
  /\ doubt' = [doubt EXCEPT ![c] = IF Believes(c)' THEN @ ELSE 0]
  /\ UNCHANGED <<vanished, stalled>>

FNext ==
  \/ FTick \/ LateTick \/ Vanish
  \/ \E c \in Calls: FStep(c)

FSpec == FInit /\ [][FNext]_faultVars

-----------------------------------------------------------------------------
(***************************************************************************)
(* However the key was lost, a process that is not stalled goes on         *)
(* believing in it for at most one renewal period and two round trips: the *)
(* renewal in flight at the loss may already have been answered with yes,  *)
(* and only the next one finds out (lines 137-163).                        *)
(***************************************************************************)
DoubtBounded == stalled = 0 => \A c \in Calls: doubt[c] <= Period + 2 * Latency

=============================================================================
