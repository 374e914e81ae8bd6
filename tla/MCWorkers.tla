----------------------------- MODULE MCWorkers -----------------------------
(***************************************************************************)
(* For TLC: the distributed lock with its faults (DistLockFaults), and the *)
(* two workers that must be right although they may lose it, the collector *)
(* of traffic (TrafficAccounting) and the aggregator of days (DailyUsage). *)
(* They share no variable: an instance runs one of them.                   *)
(***************************************************************************)
EXTENDS DistLockFaults, DailyUsage, TrafficAccounting, TLC

VARIABLE part

\* Two calls, or two runs of a worker, and the two directions.
Symm == Permutations(Calls) \cup Permutations(Dirs)

WorkersInit ==
  /\ FInit /\ DailyInit /\ TrafficInit
  /\ part \in {"lock", "collector", "aggregator"}
  /\ part # "collector" => cursor = [e \in Engines |-> None]

WorkersNext ==
  \/ part = "lock" /\ FNext /\ UNCHANGED <<trafficVars, dailyVars, part>>
  \/ part = "collector" /\ TrafficNext /\ UNCHANGED <<faultVars, dailyVars, part>>
  \/ part = "aggregator" /\ DailyNext /\ UNCHANGED <<faultVars, trafficVars, part>>

WorkersSpec ==
  WorkersInit /\ [][WorkersNext]_<<faultVars, trafficVars, dailyVars, part>>
=============================================================================
