----------------------------- MODULE DailyUsage -----------------------------
(***************************************************************************)
(* daily-usage-aggregator.service.ts: deltas of traffic are folded into    *)
(* the usage of their day, batch by batch, and deleted when they are old.  *)
(* A run is one SERIALIZABLE transaction under a lock that may expire      *)
(* before it commits, so that runs may overlap.                            *)
(***************************************************************************)
EXTENDS Naturals, FiniteSets, FiniteSetsExt

CONSTANTS Runs,       \* runs under way at once
          Days,
          BatchSize,  \* TRAFFIC_AGGREGATION_BATCH_SIZE
          MaxRows   \* bound: deltas written

VARIABLES
  rows,      \* TrafficDelta: [day, mark] of the rows that exist; each is one unit of traffic
  daily,     \* UsageDaily of each day
  made,      \* rows written so far; ids grow with createdAt
  written,   \* history: the traffic written for each day
  runs       \* [stage, snapshot, conflict]: what the run has read; whether another
             \* run has committed changes of it since

dailyVars == <<rows, daily, made, written, runs>>

IdleRun == [stage |-> "idle", batch |-> {}, conflict |-> FALSE]

DailyInit ==
  /\ rows = [n \in {} |-> 0]
  /\ daily = [d \in Days |-> 0]
  /\ made = 0
  /\ written = [d \in Days |-> 0]
  /\ runs = [r \in Runs |-> IdleRun]

Unmarked == {n \in DOMAIN rows : ~rows[n].mark}
OfDay(S, d) == {n \in S : rows[n].day = d}

\* The collector writes a delta (TrafficCollectorService.persistSnapshot).
Observe(d) == /\ made < MaxRows
              /\ made' = made + 1
              /\ rows' = [n \in DOMAIN rows \cup {made + 1} |->
                              IF n = made + 1 THEN [day |-> d, mark |-> FALSE] ELSE rows[n]]
              /\ written' = [written EXCEPT ![d] = @ + 1]
              /\ UNCHANGED <<daily, runs>>

\* The oldest unmarked rows, as many as there are up to BatchSize (there is one such set).
Batches == {S \in kSubset(Min({BatchSize, Cardinality(Unmarked)}), Unmarked) :
              \A n \in S, m \in Unmarked \ S : n < m}

Begin(r) == /\ runs[r].stage = "idle"
            /\ \E batch \in Batches :
                 runs' = [runs EXCEPT ![r] = [stage |-> "read", batch |-> batch, conflict |-> FALSE]]
            /\ UNCHANGED <<rows, daily, made, written>>

\* For comparison: a run in READ COMMITTED.
RefusedNever(r) == FALSE

\* SERIALIZABLE: a run whose rows another run has changed since does not commit.
Refused(r) == runs[r].conflict

\* The rows a run deletes are any of the marked ones, the oldest in the code.
Commit(r) ==
  LET fold == runs[r].batch IN
  /\ runs[r].stage = "read" /\ ~Refused(r)
  /\ daily' = [d \in Days |-> daily[d] + Cardinality({n \in fold : n \in DOMAIN rows /\ rows[n].day = d})]
  /\ \E old \in SUBSET {n \in DOMAIN rows : rows[n].mark \/ n \in fold} :
       rows' = [n \in DOMAIN rows \ old |->
                    [rows[n] EXCEPT !.mark = @ \/ n \in fold]]
  /\ runs' = [q \in Runs |->
       IF q = r THEN IdleRun
       ELSE [runs[q] EXCEPT !.conflict = @ \/ runs[q].batch \cap fold # {}]]
  /\ UNCHANGED <<made, written>>

\* The lock is found to be lost, the process stops, or the database refuses.
Fail(r) == /\ runs[r].stage = "read"
           /\ runs' = [runs EXCEPT ![r] = IdleRun]
           /\ UNCHANGED <<rows, daily, made, written>>

DailyNext == (\E d \in Days : Observe(d)) \/ (\E r \in Runs : Begin(r) \/ Commit(r) \/ Fail(r))

DailySpec == DailyInit /\ [][DailyNext]_dailyVars

-----------------------------------------------------------------------------
\* What was written for a day is what its usage holds and what is still to be folded:
\* nothing is folded twice or lost by runs that overlap, fail or begin again, by
\* deltas written meanwhile, or by the deletion of old deltas.
EachDeltaOnce == \A d \in Days : daily[d] + Cardinality(OfDay(Unmarked, d)) = written[d]
=============================================================================
