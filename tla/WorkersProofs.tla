---------------------------- MODULE WorkersProofs ----------------------------
(***************************************************************************)
(* Proofs about what runs by itself: the aggregator (DailyUsage), for any  *)
(* number of runs, days and deltas, the agent of a node (NodeSync), for    *)
(* any number of engines, changes and pushes, and the enforcer of limits   *)
(* (UserLimits), for any inputs of administrators and any periods.         *)
(***************************************************************************)
EXTENDS DailyUsage, NodeSync, UserLimits, OnlineSessions, FiniteSetTheorems, TLAPS

DailyTypeOK ==
  /\ made \in Nat
  /\ DOMAIN rows \subseteq 1..made
  /\ rows \in [DOMAIN rows -> [day: Days, mark: BOOLEAN]]
  /\ daily \in [Days -> Nat] /\ written \in [Days -> Nat]
  /\ runs \in [Runs -> [stage: {"idle", "read"}, batch: SUBSET Nat, conflict: BOOLEAN]]

\* A run that would not be refused has read rows that are still there and not folded.
Untouched == \A r \in Runs :
  runs[r].stage = "read" /\ ~runs[r].conflict => runs[r].batch \subseteq Unmarked

DailyInv == DailyTypeOK /\ Untouched /\ EachDeltaOnce

LEMMA UnmarkedFinite ==
  ASSUME DailyTypeOK
  PROVE  /\ IsFiniteSet(Unmarked) /\ Unmarked \subseteq 1..made
         /\ \A d : IsFiniteSet(OfDay(Unmarked, d))
<1>1. Unmarked \subseteq 1..made /\ IsFiniteSet(1..made)
  BY FS_Interval DEF DailyTypeOK, Unmarked
<1>2. IsFiniteSet(Unmarked)
  BY <1>1, FS_Subset
<1>3. \A d : OfDay(Unmarked, d) \subseteq Unmarked
  BY DEF OfDay
<1> QED
  BY <1>1, <1>2, <1>3, FS_Subset

\* A delta is one more row to be folded, for its day.
LEMMA ObserveStep == ASSUME DailyInv, NEW d \in Days, Observe(d) PROVE DailyInv'
<1> USE DEF DailyInv
<1> DEFINE n == made + 1
<1>1. /\ made' = n /\ n \in Nat /\ n \notin DOMAIN rows
      /\ rows' = [m \in DOMAIN rows \cup {n} |-> IF m = n THEN [day |-> d, mark |-> FALSE] ELSE rows[m]]
      /\ written' = [written EXCEPT ![d] = @ + 1] /\ UNCHANGED <<daily, runs>>
  BY DEF Observe, DailyTypeOK
<1> HIDE DEF n
<1>2. /\ DOMAIN rows' = DOMAIN rows \cup {n}
      /\ rows'[n] = [day |-> d, mark |-> FALSE] /\ \A m \in DOMAIN rows : rows'[m] = rows[m]
  BY <1>1
<1>3. DailyTypeOK'
  <2>1. DOMAIN rows' \subseteq 1..made'
    BY <1>1, <1>2 DEF DailyTypeOK, n
  <2>2. rows' \in [DOMAIN rows' -> [day: Days, mark: BOOLEAN]]
    BY <1>1, <1>2 DEF DailyTypeOK
  <2>3. written' \in [Days -> Nat]
    BY <1>1 DEF DailyTypeOK
  <2> QED
    BY <1>1, <2>1, <2>2, <2>3 DEF DailyTypeOK
<1>4. Unmarked' = Unmarked \cup {n}
  BY <1>2 DEF Unmarked
<1>5. Untouched'
  BY <1>1, <1>4 DEF Untouched
<1>6. ASSUME NEW e \in Days PROVE daily'[e] + Cardinality(OfDay(Unmarked, e)') = written'[e]
  <2>1. IsFiniteSet(OfDay(Unmarked, e)) /\ n \notin OfDay(Unmarked, e)
    BY <1>1, UnmarkedFinite DEF OfDay, Unmarked
  <2>2. daily[e] + Cardinality(OfDay(Unmarked, e)) = written[e]
    BY DEF EachDeltaOnce
  <2>3. Cardinality(OfDay(Unmarked, e)) \in Nat /\ daily[e] \in Nat
    BY <2>1, FS_CardinalityType DEF DailyTypeOK
  <2>4. CASE e = d
    <3>1. OfDay(Unmarked, e)' = OfDay(Unmarked, e) \cup {n}
      BY <1>1, <1>2, <1>4, <2>4 DEF OfDay, Unmarked
    <3>2. Cardinality(OfDay(Unmarked, e)') = Cardinality(OfDay(Unmarked, e)) + 1
      BY <2>1, <3>1, FS_AddElement
    <3> QED
      BY <1>1, <2>2, <2>3, <2>4, <3>2 DEF DailyTypeOK
  <2>5. CASE e # d
    <3>1. OfDay(Unmarked, e)' = OfDay(Unmarked, e)
      BY <1>1, <1>2, <1>4, <2>5 DEF OfDay, Unmarked
    <3> QED
      BY <1>1, <2>2, <2>5, <3>1 DEF DailyTypeOK
  <2> QED
    BY <2>4, <2>5
<1> QED
  BY <1>3, <1>5, <1>6 DEF EachDeltaOnce

LEMMA BeginStep == ASSUME DailyInv, NEW r \in Runs, Begin(r) \/ Fail(r) PROVE DailyInv'
<1> USE DEF DailyInv
<1>1. UNCHANGED <<rows, daily, made, written>>
  BY DEF Begin, Fail
<1>2. PICK b \in [stage: {"idle", "read"}, batch: SUBSET Nat, conflict: BOOLEAN] :
        /\ runs' = [runs EXCEPT ![r] = b]
        /\ b.stage = "read" => b.batch \subseteq Unmarked
  <2>1. CASE Begin(r)
    <3>1. PICK batch \in Batches :
            runs' = [runs EXCEPT ![r] = [stage |-> "read", batch |-> batch, conflict |-> FALSE]]
      BY <2>1 DEF Begin
    <3>2. batch \subseteq Unmarked
      BY DEF Batches, kSubset
    <3>3. batch \in SUBSET Nat
      BY <3>2, UnmarkedFinite DEF DailyTypeOK
    <3>4. PICK b : b = [stage |-> "read", batch |-> batch, conflict |-> FALSE]
      OBVIOUS
    <3>5. b \in [stage: {"idle", "read"}, batch: SUBSET Nat, conflict: BOOLEAN]
      BY <3>3, <3>4
    <3>6. runs' = [runs EXCEPT ![r] = b] /\ b.batch \subseteq Unmarked
      BY <3>1, <3>2, <3>4
    <3> QED
      BY <3>5, <3>6
  <2>2. CASE Fail(r)
    <3>1. IdleRun \in [stage: {"idle", "read"}, batch: SUBSET Nat, conflict: BOOLEAN]
      BY DEF IdleRun
    <3> QED
      BY <2>2, <3>1 DEF Fail, IdleRun
  <2> QED
    BY <2>1, <2>2
<1>3. Unmarked' = Unmarked /\ \A d : OfDay(Unmarked, d)' = OfDay(Unmarked, d)
  BY <1>1 DEF Unmarked, OfDay
<1>4. DailyTypeOK'
  BY <1>1, <1>2 DEF DailyTypeOK
<1>5. Untouched'
  BY <1>2, <1>3 DEF Untouched, DailyTypeOK
<1>6. EachDeltaOnce'
  BY <1>1, <1>3 DEF EachDeltaOnce
<1> QED
  BY <1>4, <1>5, <1>6

(***************************************************************************)
(* A run that commits folds what it has read, all of which is still there  *)
(* and unmarked, and whoever has read some of it will be refused.          *)
(***************************************************************************)
LEMMA CommitStep == ASSUME DailyInv, NEW r \in Runs, Commit(r) PROVE DailyInv'
<1> USE DEF DailyInv
<1> DEFINE fold == runs[r].batch
<1>1. PICK old \in SUBSET {n \in DOMAIN rows : rows[n].mark \/ n \in fold} :
        rows' = [n \in DOMAIN rows \ old |-> [rows[n] EXCEPT !.mark = @ \/ n \in fold]]
  BY DEF Commit
<1>2. /\ daily' = [d \in Days |-> daily[d] + Cardinality({n \in fold : n \in DOMAIN rows /\ rows[n].day = d})]
      /\ runs' = [q \in Runs |-> IF q = r THEN IdleRun
                   ELSE [runs[q] EXCEPT !.conflict = @ \/ runs[q].batch \cap fold # {}]]
      /\ UNCHANGED <<made, written>>
      /\ fold \subseteq Unmarked
  BY DEF Commit, Refused, Untouched
<1> HIDE DEF fold
<1>3. \A n \in DOMAIN rows : /\ rows[n] \in [day: Days, mark: BOOLEAN]
                             /\ rows[n].mark \in BOOLEAN
  BY DEF DailyTypeOK
<1>4. /\ DOMAIN rows' = DOMAIN rows \ old
      /\ \A n \in DOMAIN rows' : /\ rows'[n] \in [day: Days, mark: BOOLEAN]
                                 /\ rows'[n].day = rows[n].day
                                 /\ rows'[n].mark = (rows[n].mark \/ n \in fold)
  <2>1. DOMAIN rows' = DOMAIN rows \ old
    BY <1>1
  <2>2. ASSUME NEW n \in DOMAIN rows'
        PROVE  /\ rows'[n] \in [day: Days, mark: BOOLEAN]
               /\ rows'[n].day = rows[n].day
               /\ rows'[n].mark = (rows[n].mark \/ n \in fold)
    <3>1. PICK b \in BOOLEAN : b = (rows[n].mark \/ n \in fold)
      OBVIOUS
    <3>2. rows'[n] = [rows[n] EXCEPT !.mark = b]
      BY <1>1, <2>1, <3>1
    <3> QED
      BY <1>3, <2>1, <3>1, <3>2
  <2> QED
    BY <2>1, <2>2
<1>5. Unmarked' = Unmarked \ fold
  <2>1. \A n \in old : n \in DOMAIN rows /\ (rows[n].mark \/ n \in fold)
    BY <1>1
  <2>2. ASSUME NEW n \in Unmarked' PROVE n \in Unmarked \ fold
    <3>1. n \in DOMAIN rows' /\ ~rows'[n].mark
      BY DEF Unmarked
    <3>2. n \in DOMAIN rows /\ ~(rows[n].mark \/ n \in fold)
      BY <1>4, <3>1
    <3> QED
      BY <3>2 DEF Unmarked
  <2>3. ASSUME NEW n \in Unmarked \ fold PROVE n \in Unmarked'
    <3>1. n \in DOMAIN rows /\ ~(rows[n].mark \/ n \in fold)
      BY DEF Unmarked
    <3>2. n \in DOMAIN rows'
      BY <1>4, <2>1, <3>1
    <3>3. ~rows'[n].mark
      BY <1>4, <3>1, <3>2
    <3> QED
      BY <3>2, <3>3 DEF Unmarked
  <2> QED
    BY <2>2, <2>3
<1>6. \A d \in Days : /\ IsFiniteSet(OfDay(Unmarked, d))
                      /\ IsFiniteSet(OfDay(fold, d)) /\ Cardinality(OfDay(fold, d)) \in Nat
  <2>1. IsFiniteSet(fold)
    BY <1>2, UnmarkedFinite, FS_Subset
  <2>2. \A d \in Days : OfDay(fold, d) \subseteq fold
    BY DEF OfDay
  <2>3. \A d \in Days : IsFiniteSet(OfDay(fold, d))
    BY <2>1, <2>2, FS_Subset
  <2> QED
    BY <2>3, UnmarkedFinite, FS_CardinalityType
<1>7. \A d \in Days : daily'[d] = daily[d] + Cardinality(OfDay(fold, d))
  <2>1. \A d \in Days : {n \in fold : n \in DOMAIN rows /\ rows[n].day = d} = OfDay(fold, d)
    BY <1>2 DEF OfDay, Unmarked
  <2> QED
    BY <1>2, <2>1
<1>8. DailyTypeOK'
  <2>1. rows' \in [DOMAIN rows' -> [day: Days, mark: BOOLEAN]]
    BY <1>1, <1>4
  <2>2. daily' \in [Days -> Nat]
    <3>1. \A d \in Days : daily'[d] \in Nat
      BY <1>6, <1>7 DEF DailyTypeOK
    <3> QED
      BY <1>2, <3>1
  <2>3. runs' \in [Runs -> [stage: {"idle", "read"}, batch: SUBSET Nat, conflict: BOOLEAN]]
    <3>1. ASSUME NEW q \in Runs
          PROVE  runs'[q] \in [stage: {"idle", "read"}, batch: SUBSET Nat, conflict: BOOLEAN]
      <4>1. PICK b \in BOOLEAN : b = (runs[q].conflict \/ runs[q].batch \cap fold # {})
        BY DEF DailyTypeOK
      <4>2. runs'[q] = IF q = r THEN IdleRun ELSE [runs[q] EXCEPT !.conflict = b]
        BY <1>2, <4>1
      <4> QED
        BY <4>2 DEF DailyTypeOK, IdleRun
    <3> QED
      BY <1>2, <3>1
  <2> QED
    BY <1>2, <1>4, <2>1, <2>2, <2>3 DEF DailyTypeOK
<1>9. Untouched'
  <2> SUFFICES ASSUME NEW q \in Runs, runs'[q].stage = "read", ~runs'[q].conflict
               PROVE  runs'[q].batch \subseteq Unmarked'
    BY DEF Untouched
  <2>1. q # r
    BY <1>2 DEF IdleRun
  <2>2. PICK b : b = (runs[q].conflict \/ runs[q].batch \cap fold # {})
    OBVIOUS
  <2>3. runs'[q] = [runs[q] EXCEPT !.conflict = b]
    BY <1>2, <2>1, <2>2
  <2>4. /\ runs'[q].stage = runs[q].stage /\ runs'[q].batch = runs[q].batch
        /\ runs'[q].conflict = b
    BY <2>3 DEF DailyTypeOK
  <2>5. runs[q].batch \subseteq Unmarked /\ runs[q].batch \cap fold = {}
    BY <2>2, <2>4 DEF Untouched
  <2> QED
    BY <1>5, <2>4, <2>5
<1>10. ASSUME NEW d \in Days PROVE daily'[d] + Cardinality(OfDay(Unmarked, d)') = written'[d]
  <2>1. OfDay(Unmarked, d)' = OfDay(Unmarked, d) \ OfDay(fold, d)
    BY <1>4, <1>5 DEF OfDay, Unmarked
  <2>2. OfDay(Unmarked, d) \cap OfDay(fold, d) = OfDay(fold, d)
    BY <1>2 DEF OfDay
  <2>3. Cardinality(OfDay(Unmarked, d)') = Cardinality(OfDay(Unmarked, d)) - Cardinality(OfDay(fold, d))
    BY <1>6, <2>1, <2>2, FS_Difference
  <2>4. daily[d] + Cardinality(OfDay(Unmarked, d)) = written[d]
    BY DEF EachDeltaOnce
  <2>5. Cardinality(OfDay(Unmarked, d)) \in Nat /\ daily[d] \in Nat
    BY <1>6, FS_CardinalityType DEF DailyTypeOK
  <2> QED
    BY <1>2, <1>6, <1>7, <2>3, <2>4, <2>5
<1> QED
  BY <1>8, <1>9, <1>10 DEF EachDeltaOnce

(***************************************************************************)
(* However runs of the aggregator overlap, fail and begin again, nothing   *)
(* that the collector wrote is lost from the usage of its day or counted   *)
(* in it twice.                                                            *)
(***************************************************************************)
THEOREM DeltasCountOnce == DailySpec => []EachDeltaOnce
<1>1. DailyInit => DailyInv
  <2> SUFFICES ASSUME DailyInit PROVE DailyInv
    OBVIOUS
  <2>1. DOMAIN rows = {} /\ Unmarked = {}
    BY DEF DailyInit, Unmarked
  <2>2. DailyTypeOK
    BY <2>1 DEF DailyInit, DailyTypeOK, IdleRun
  <2>3. Untouched
    BY DEF DailyInit, Untouched, IdleRun
  <2>4. \A d : OfDay(Unmarked, d) = {}
    BY <2>1 DEF OfDay
  <2>5. EachDeltaOnce
    <3>1. \A d : Cardinality(OfDay(Unmarked, d)) = 0
      BY <2>4, FS_EmptySet
    <3>2. \A d \in Days : daily[d] = 0 /\ written[d] = 0
      BY DEF DailyInit
    <3>3. 0 + 0 = 0
      OBVIOUS
    <3> QED
      BY <3>1, <3>2, <3>3 DEF EachDeltaOnce
  <2> QED
    BY <2>2, <2>3, <2>5 DEF DailyInv
<1>2. DailyInv /\ [DailyNext]_dailyVars => DailyInv'
  <2> SUFFICES ASSUME DailyInv, [DailyNext]_dailyVars PROVE DailyInv'
    OBVIOUS
  <2>1. CASE DailyNext
    BY <2>1, ObserveStep, BeginStep, CommitStep DEF DailyNext
  <2>2. CASE UNCHANGED dailyVars
    BY <2>2 DEF dailyVars, DailyInv, DailyTypeOK, Untouched, Unmarked, OfDay, EachDeltaOnce
  <2> QED
    BY <2>1, <2>2
<1>3. DailyInv => EachDeltaOnce
  BY DEF DailyInv
<1> QED
  BY <1>1, <1>2, <1>3, PTL DEF DailySpec

-----------------------------------------------------------------------------
(***************************************************************************)
(* The agent of a node.                                                    *)
(***************************************************************************)
Doing == {"idle", "build", "sent", "apply", "result"} \cup InEngine
JobRows == [step: Doing, rev: Nat, body: [Engines -> Nat], left: SUBSET Engines,
            ok: BOOLEAN, told: BOOLEAN]

SyncTypeOK ==
  /\ content \in [Engines -> Nat] /\ desired \in [Engines -> Nat]
  /\ live \in [Engines -> Nat] /\ ran \in [Engines -> SUBSET Nat]
  /\ file \in [Engines -> Nat] /\ cand \in [Engines -> SUBSET Nat]
  /\ previous \in [Jobs -> Nat] /\ crossed \in [Jobs -> SUBSET Engines]
  /\ nodeRev \in Nat
  /\ job \in [Jobs -> JobRows]

\* An engine that a job has done without a failure was reloaded with its version,
\* unless the other job handled it too.
Reloaded(j) ==
  /\ job[j].step \in InEngine => job[j].left # {}
  /\ job[j].step = "result" => job[j].left = {}
  /\ job[j].step \in {"apply", "result"} \cup InEngine /\ job[j].ok =>
       \A e \in Engines: e \in job[j].left \/ e \in crossed[j] \/ job[j].body[e] \in ran[e]

\* A job at work on an engine for itself finds its own files.
Placed(j) ==
  job[j].step \in InEngine /\ Current(j) \notin crossed[j] =>
    /\ \A k \in Jobs \ {j}: ~(job[k].step \in InEngine /\ Current(k) = Current(j))
    /\ job[j].step = "place" => cand[Current(j)] = {job[j].body[Current(j)]}
    /\ job[j].step = "reload" => file[Current(j)] = job[j].body[Current(j)]

SyncInv == SyncTypeOK /\ \A j \in Jobs: Reloaded(j) /\ Placed(j)

LEMMA FirstOf == ASSUME NEW S, S # {} PROVE First(S) \in S
  BY DEF First

LEMMA RaisedNat == ASSUME NEW r \in Nat, NEW d \in Nat PROVE Raised(r, d) \in Nat
<1>1. \E x \in {r, d}: \A y \in {r, d}: x >= y
  OBVIOUS
<1>2. Max({r, d}) \in {r, d}
  BY <1>1 DEF Max
<1> QED
  BY <1>2 DEF Raised

\* The rows that the steps of a job write.
LEMMA JobUpdates ==
  ASSUME NEW r \in JobRows, NEW e \in Engines, NEW v \in Nat, NEW n \in Nat, NEW s \in Doing
  PROVE  /\ NoJob \in JobRows /\ [NoJob EXCEPT !.step = "build", !.left = Engines] \in JobRows
         /\ [r EXCEPT !.left = @ \ {e}, !.body[e] = v, !.rev = n, !.step = s] \in JobRows
         /\ [r EXCEPT !.step = "apply", !.left = Engines] \in JobRows
         /\ [r EXCEPT !.step = "apply", !.left = @ \ {e}] \in JobRows
         /\ [r EXCEPT !.step = "apply", !.left = @ \ {e}, !.ok = FALSE] \in JobRows
         /\ [r EXCEPT !.step = s] \in JobRows
         /\ [r EXCEPT !.told = FALSE] \in JobRows
<1>1. NoJob \in JobRows
  BY DEF NoJob, NoBody, JobRows, Doing
<1>2. [NoJob EXCEPT !.step = "build", !.left = Engines] \in JobRows
  BY <1>1 DEF JobRows, Doing
<1>3. [r EXCEPT !.left = @ \ {e}, !.body[e] = v, !.rev = n, !.step = s] \in JobRows
  <2>1. [r.body EXCEPT ![e] = v] \in [Engines -> Nat]
    BY DEF JobRows
  <2> QED
    BY <2>1 DEF JobRows
<1>4. [r EXCEPT !.step = "apply", !.left = Engines] \in JobRows
  BY DEF JobRows, Doing
<1>5. [r EXCEPT !.step = "apply", !.left = @ \ {e}] \in JobRows
  BY DEF JobRows, Doing
<1>6. [r EXCEPT !.step = "apply", !.left = @ \ {e}, !.ok = FALSE] \in JobRows
  BY DEF JobRows, Doing
<1>7. [r EXCEPT !.step = s] \in JobRows /\ [r EXCEPT !.told = FALSE] \in JobRows
  BY DEF JobRows, Doing
<1> QED
  BY <1>1, <1>2, <1>3, <1>4, <1>5, <1>6, <1>7

LEMMA PutEffect ==
  ASSUME job \in [Jobs -> JobRows], NEW j \in Jobs, NEW r \in JobRows, Put(j, r)
  PROVE  /\ job' \in [Jobs -> JobRows] /\ job'[j] = r
         /\ \A k \in Jobs \ {j}: job'[k] = job[k]
  BY DEF Put

\* A step of one job: it leaves the other as it is, and the files of the engine that
\* the other is at work on for itself.
Moves(j) ==
  /\ job' \in [Jobs -> JobRows] /\ \A k \in Jobs \ {j}: job'[k] = job[k]
  /\ ran' \in [Engines -> SUBSET Nat] /\ \A e \in Engines: ran[e] \subseteq ran'[e]
  /\ \A k \in Jobs \ {j}: crossed[k] \subseteq crossed'[k]
  /\ \A k \in Jobs \ {j}: job[k].step \in InEngine /\ Current(k) \notin crossed'[k] =>
       /\ cand'[Current(k)] = cand[Current(k)] /\ file'[Current(k)] = file[Current(k)]
       /\ ~(job'[j].step \in InEngine /\ Current(j)' = Current(k))

LEMMA MoveKeeps ==
  ASSUME SyncInv, NEW j \in Jobs, Moves(j), Reloaded(j)', Placed(j)'
  PROVE  \A k \in Jobs: Reloaded(k)' /\ Placed(k)'
<1>1. ASSUME NEW k \in Jobs \ {j} PROVE Reloaded(k)'
  BY <1>1 DEF SyncInv, Reloaded, Moves
<1>2. ASSUME NEW k \in Jobs \ {j} PROVE Placed(k)'
  <2>1. job'[k] = job[k] /\ Current(k)' = Current(k) /\ Placed(k) /\ crossed[k] \subseteq crossed'[k]
    BY <1>2 DEF SyncInv, Moves, Current
  <2>2. SUFFICES ASSUME job[k].step \in InEngine, Current(k) \notin crossed'[k]
                 PROVE  /\ \A i \in Jobs \ {k}: ~(job'[i].step \in InEngine /\ Current(i)' = Current(k))
                        /\ job[k].step = "place" => cand'[Current(k)] = {job[k].body[Current(k)]}
                        /\ job[k].step = "reload" => file'[Current(k)] = job[k].body[Current(k)]
    BY <2>1 DEF Placed
  <2>3. /\ cand'[Current(k)] = cand[Current(k)] /\ file'[Current(k)] = file[Current(k)]
        /\ ~(job'[j].step \in InEngine /\ Current(j)' = Current(k))
    BY <1>2, <2>2 DEF Moves
  <2>4. ASSUME NEW i \in Jobs \ {k} PROVE i = j
    BY <1>2, <2>4 DEF Jobs
  <2> QED
    BY <2>1, <2>2, <2>3, <2>4 DEF Placed
<1> QED
  BY <1>1, <1>2

\* A step of a job that touches no file of an engine and is at work on none afterwards.
LEMMA AwayKeeps ==
  ASSUME SyncInv, NEW j \in Jobs, NEW r \in JobRows, Put(j, r), r.step \notin InEngine,
         UNCHANGED <<ran, file, cand, crossed>>, Reloaded(j)'
  PROVE  job' \in [Jobs -> JobRows] /\ \A k \in Jobs: Reloaded(k)' /\ Placed(k)'
<1>1. SyncTypeOK
  BY DEF SyncInv
<1>2. job' \in [Jobs -> JobRows] /\ job'[j] = r /\ \A k \in Jobs \ {j}: job'[k] = job[k]
  BY <1>1, PutEffect DEF SyncTypeOK
<1>3. Moves(j)
  BY <1>1, <1>2 DEF Moves, SyncTypeOK
<1>4. Placed(j)'
  BY <1>2 DEF Placed
<1> QED
  BY <1>2, <1>3, <1>4, MoveKeeps

LEMMA ArriveKeeps ==
  ASSUME SyncInv, NEW j \in Jobs, Arrive(j)
  PROVE  SyncInv'
<1>1. SyncTypeOK /\ job[j] \in JobRows /\ NoJob \in JobRows
      /\ UNCHANGED <<content, desired, live, ran, file, cand, previous, crossed, nodeRev>>
  <2>1. NoJob \in JobRows
    BY DEF NoJob, NoBody, JobRows, Doing
  <2> QED
    BY <2>1 DEF SyncInv, SyncTypeOK, Arrive, fileVars
<1>2. CASE Put(j, NoJob)
  <2>1. job'[j] = NoJob
    BY <1>1, <1>2, PutEffect DEF SyncTypeOK
  <2>2. Reloaded(j)' /\ NoJob.step \notin InEngine
    BY <2>1 DEF Reloaded, NoJob, InEngine
  <2>3. job' \in [Jobs -> JobRows] /\ \A k \in Jobs: Reloaded(k)' /\ Placed(k)'
    BY <1>1, <1>2, <2>2, AwayKeeps
  <2> QED
    BY <1>1, <2>3 DEF SyncInv, SyncTypeOK
<1>3. CASE Put(j, [job[j] EXCEPT !.step = "apply", !.left = Engines])
  <2>1. [job[j] EXCEPT !.step = "apply", !.left = Engines] \in JobRows
    BY <1>1 DEF JobRows, Doing
  <2>2. PICK r \in JobRows: r = [job[j] EXCEPT !.step = "apply", !.left = Engines]
    BY <2>1
  <2>3. r.step = "apply" /\ r.left = Engines
    BY <1>1, <2>2 DEF JobRows
  <2>4. Put(j, r)
    BY <1>3, <2>2
  <2>5. job'[j] = r
    BY <1>1, <2>4, PutEffect DEF SyncTypeOK
  <2>6. Reloaded(j)' /\ r.step \notin InEngine
    BY <2>3, <2>5 DEF Reloaded, InEngine
  <2>7. job' \in [Jobs -> JobRows] /\ \A k \in Jobs: Reloaded(k)' /\ Placed(k)'
    BY <1>1, <2>4, <2>6, AwayKeeps
  <2> QED
    BY <1>1, <2>7 DEF SyncInv, SyncTypeOK
<1> QED
  BY <1>2, <1>3 DEF Arrive

LEMMA LoadKeeps ==
  ASSUME SyncInv, NEW j \in Jobs, NEW e \in Engines, Load(j, e)
  PROVE  SyncInv'
<1>1. SyncTypeOK /\ job[j] \in JobRows /\ content[e] \in Nat /\ desired[e] \in Nat
      /\ UNCHANGED <<content, desired, live, ran, file, cand, previous, crossed, nodeRev>>
  BY DEF SyncInv, SyncTypeOK, Load, fileVars
<1>2. PICK n \in Nat: n = Raised(job[j].rev, desired[e])
  BY <1>1, RaisedNat DEF JobRows
<1>3. PICK s \in {"sent", "build"}: s = IF job[j].left = {e} THEN "sent" ELSE "build"
  OBVIOUS
<1>4. PICK r \in JobRows:
        r = [job[j] EXCEPT !.left = @ \ {e}, !.body[e] = content[e], !.rev = n, !.step = s]
  BY <1>1, JobUpdates DEF Doing
<1>5. r.step = s
  BY <1>1, <1>4 DEF JobRows
<1>6. Put(j, r)
  BY <1>2, <1>3, <1>4 DEF Load
<1>7. job'[j] = r
  BY <1>1, <1>6, PutEffect DEF SyncTypeOK
<1>8. Reloaded(j)' /\ r.step \notin InEngine
  BY <1>5, <1>7 DEF Reloaded, InEngine
<1>9. job' \in [Jobs -> JobRows] /\ \A k \in Jobs: Reloaded(k)' /\ Placed(k)'
  BY <1>1, <1>6, <1>8, AwayKeeps
<1> QED
  BY <1>1, <1>9 DEF SyncInv, SyncTypeOK

\* What is known of a job at work on an engine.
LEMMA AtEngine ==
  ASSUME SyncInv, NEW j \in Jobs, job[j].step \in InEngine
  PROVE  /\ Current(j) \in job[j].left /\ Current(j) \in Engines /\ job[j] \in JobRows
         /\ job[j].body[Current(j)] \in Nat
         /\ \A k \in Jobs \ {j}: job[k].step \in InEngine /\ Current(k) \notin crossed[k] =>
              Current(k) \in Engines \ {Current(j)}
<1>1. SyncTypeOK /\ job[j] \in JobRows /\ job[j].left # {} /\ job[j].left \subseteq Engines
  BY DEF SyncInv, SyncTypeOK, Reloaded, JobRows
<1>2. Current(j) \in job[j].left
  BY <1>1, FirstOf DEF Current
<1>3. job[j].body[Current(j)] \in Nat
  BY <1>1, <1>2 DEF JobRows
<1>4. ASSUME NEW k \in Jobs \ {j}, job[k].step \in InEngine, Current(k) \notin crossed[k]
      PROVE  Current(k) \in Engines \ {Current(j)}
  <2>1. job[k].left # {} /\ job[k].left \subseteq Engines
    BY <1>1, <1>4 DEF SyncInv, SyncTypeOK, Reloaded, JobRows
  <2>2. Current(k) \in Engines
    BY <2>1, FirstOf DEF Current
  <2>3. Current(j) # Current(k)
    BY <1>4 DEF SyncInv, Placed
  <2> QED
    BY <2>2, <2>3
<1> QED
  BY <1>1, <1>2, <1>3, <1>4

\* It writes the files of its engine only.
LEMMA EngineMoves ==
  ASSUME SyncInv, NEW j \in Jobs, job[j].step \in InEngine, NEW r \in JobRows, Put(j, r),
         r.step \in InEngine => r.left = job[j].left,
         ran' \in [Engines -> SUBSET Nat], \A e \in Engines: ran[e] \subseteq ran'[e],
         crossed' = crossed,
         \A e \in Engines \ {Current(j)}: cand'[e] = cand[e] /\ file'[e] = file[e]
  PROVE  Moves(j) /\ job'[j] = r
<1>1. job' \in [Jobs -> JobRows] /\ job'[j] = r /\ \A k \in Jobs \ {j}: job'[k] = job[k]
  BY PutEffect DEF SyncInv, SyncTypeOK
<1>2. r.step \in InEngine => Current(j)' = Current(j)
  BY <1>1 DEF Current
<1>3. ASSUME NEW k \in Jobs \ {j}, job[k].step \in InEngine, Current(k) \notin crossed'[k]
      PROVE  /\ cand'[Current(k)] = cand[Current(k)] /\ file'[Current(k)] = file[Current(k)]
             /\ ~(job'[j].step \in InEngine /\ Current(j)' = Current(k))
  <2>1. Current(k) \in Engines \ {Current(j)}
    BY <1>3, AtEngine
  <2> QED
    BY <1>1, <1>2, <2>1
<1> QED
  BY <1>1, <1>3 DEF Moves

\* On to the next step of the same engine.
LEMMA GoOn ==
  ASSUME SyncInv, NEW j \in Jobs, job[j].step \in InEngine,
         NEW s \in InEngine, GoesTo(j, s),
         ran' \in [Engines -> SUBSET Nat], \A e \in Engines: ran[e] \subseteq ran'[e],
         crossed' = crossed,
         \A e \in Engines \ {Current(j)}: cand'[e] = cand[e] /\ file'[e] = file[e],
         Current(j) \notin crossed[j] =>
           /\ s = "place" => cand'[Current(j)] = {job[j].body[Current(j)]}
           /\ s = "reload" => file'[Current(j)] = job[j].body[Current(j)]
  PROVE  job' \in [Jobs -> JobRows] /\ \A k \in Jobs: Reloaded(k)' /\ Placed(k)'
<1>1. job[j] \in JobRows /\ [job[j] EXCEPT !.step = s] \in JobRows
  BY AtEngine DEF JobRows, Doing
<1>2. PICK r \in JobRows: r = [job[j] EXCEPT !.step = s]
  BY <1>1
<1>3. r.step = s /\ r.left = job[j].left /\ r.ok = job[j].ok /\ r.body = job[j].body
  BY <1>1, <1>2 DEF JobRows
<1>4. Put(j, r)
  BY <1>2 DEF GoesTo
<1>5. Moves(j) /\ job'[j] = r
  BY <1>3, <1>4, EngineMoves
<1>6. Reloaded(j)'
  BY <1>3, <1>5 DEF Reloaded, SyncInv, InEngine
<1>7. Current(j)' = Current(j) /\ \A k \in Jobs \ {j}: job'[k] = job[k] /\ Current(k)' = Current(k)
  BY <1>3, <1>5 DEF Current, Moves
<1>8. Placed(j) /\ Placed(j)'
  BY <1>3, <1>5, <1>7 DEF Placed, SyncInv
<1> QED
  BY <1>5, <1>6, <1>8, MoveKeeps DEF Moves

\* Done with the engine, in one way or the other.
LEMMA DoneWith ==
  ASSUME SyncInv, NEW j \in Jobs, job[j].step \in InEngine, NEW e, e = Current(j),
         ran' \in [Engines -> SUBSET Nat], \A d \in Engines: ran[d] \subseteq ran'[d],
         crossed' = crossed,
         \A d \in Engines \ {e}: cand'[d] = cand[d] /\ file'[d] = file[d],
         \/ EngineFailed(j, e)
         \/ EngineDone(j, e) /\ (e \notin crossed[j] => job[j].body[e] \in ran'[e])
  PROVE  job' \in [Jobs -> JobRows] /\ \A k \in Jobs: Reloaded(k)' /\ Placed(k)'
<1>1. job[j] \in JobRows /\ e \in Engines
  BY AtEngine
<1>2. CASE EngineFailed(j, e)
  <2>1. PICK r \in JobRows: r = [job[j] EXCEPT !.step = "apply", !.left = @ \ {e}, !.ok = FALSE]
    BY <1>1, JobUpdates DEF Doing
  <2>2. r.step = "apply" /\ ~r.ok /\ r.step \notin InEngine
    BY <1>1, <2>1 DEF JobRows, InEngine
  <2>3. Put(j, r)
    BY <1>2, <2>1 DEF EngineFailed
  <2>4. Moves(j) /\ job'[j] = r
    BY <2>2, <2>3, EngineMoves
  <2>5. Reloaded(j)' /\ Placed(j)'
    BY <2>2, <2>4 DEF Reloaded, Placed
  <2> QED
    BY <2>4, <2>5, MoveKeeps DEF Moves
<1>3. CASE EngineDone(j, e) /\ (e \notin crossed[j] => job[j].body[e] \in ran'[e])
  <2>1. PICK r \in JobRows: r = [job[j] EXCEPT !.step = "apply", !.left = @ \ {e}]
    BY <1>1, JobUpdates DEF Doing
  <2>2. /\ r.step = "apply" /\ r.step \notin InEngine /\ r.left = job[j].left \ {e}
        /\ r.ok = job[j].ok /\ r.body = job[j].body
    BY <1>1, <2>1 DEF JobRows, InEngine
  <2>3. Put(j, r)
    BY <1>3, <2>1 DEF EngineDone
  <2>4. Moves(j) /\ job'[j] = r
    BY <2>2, <2>3, EngineMoves
  <2>5. Reloaded(j)'
    BY <1>1, <1>3, <2>2, <2>4 DEF Reloaded, SyncInv
  <2>6. Placed(j)'
    BY <2>2, <2>4 DEF Placed
  <2> QED
    BY <2>4, <2>5, <2>6, MoveKeeps DEF Moves
<1> QED
  BY <1>2, <1>3

LEMMA ReadKeeps ==
  ASSUME SyncInv, NEW j \in Jobs, ReadPrevious(j)
  PROVE  SyncInv'
<1> DEFINE e == Current(j)
           crossing == IF Beside(j, e) = {} THEN {} ELSE {j} \cup Beside(j, e)
<1>1. SyncTypeOK /\ job[j] \in JobRows /\ job[j].step = "apply" /\ job[j].left # {}
      /\ UNCHANGED <<content, desired, live, ran, file, cand, nodeRev>>
  BY DEF SyncInv, SyncTypeOK, ReadPrevious
<1>2. e \in job[j].left /\ e \in Engines
  <2>1. job[j].left \subseteq Engines
    BY <1>1 DEF JobRows
  <2> QED
    BY <1>1, <2>1, FirstOf DEF Current
<1>3. CASE /\ GoesTo(j, "write") /\ previous' = [previous EXCEPT ![j] = file[e]]
           /\ crossed' = [k \in Jobs |-> IF k \in crossing THEN crossed[k] \cup {e} ELSE crossed[k]]
  <2>1. [job[j] EXCEPT !.step = "write"] \in JobRows
    BY <1>1 DEF JobRows, Doing, InEngine
  <2>2. PICK r \in JobRows: r = [job[j] EXCEPT !.step = "write"]
    BY <2>1
  <2>3. r.step = "write" /\ r.left = job[j].left /\ r.ok = job[j].ok /\ r.body = job[j].body
    BY <1>1, <2>2 DEF JobRows
  <2>4. Put(j, r)
    BY <1>3, <2>2 DEF GoesTo
  <2>5. job' \in [Jobs -> JobRows] /\ job'[j] = r /\ \A k \in Jobs \ {j}: job'[k] = job[k]
    BY <1>1, <2>4, PutEffect DEF SyncTypeOK
  <2>6. Current(j)' = e /\ \A k \in Jobs \ {j}: Current(k)' = Current(k)
    BY <2>3, <2>5 DEF Current
  <2>7. /\ crossed' \in [Jobs -> SUBSET Engines] /\ previous' \in [Jobs -> Nat]
        /\ \A k \in Jobs: crossed[k] \subseteq crossed'[k]
    BY <1>1, <1>2, <1>3 DEF SyncTypeOK
  <2>8. ASSUME NEW k \in Jobs \ {j}, job[k].step \in InEngine, Current(k) = e
        PROVE  e \in crossed'[k] /\ e \in crossed'[j]
    <3>1. k \in Beside(j, e)
      BY <2>8 DEF Beside
    <3>2. k \in crossing /\ j \in crossing
      BY <3>1
    <3> QED
      BY <1>3, <3>2
  <2> HIDE DEF e, crossing
  <2>9. Moves(j)
    <3>1. ASSUME NEW k \in Jobs \ {j}, job[k].step \in InEngine, Current(k) \notin crossed'[k]
          PROVE  Current(k) # e
      BY <2>8, <3>1
    <3> QED
      BY <1>1, <2>5, <2>6, <2>7, <3>1 DEF Moves, SyncTypeOK
  <2>10. Reloaded(j)'
    BY <1>1, <2>3, <2>5, <2>7 DEF Reloaded, SyncInv, InEngine
  <2>11. Placed(j)'
    <3>1. ASSUME NEW k \in Jobs \ {j}, job'[k].step \in InEngine, Current(k)' = e
          PROVE  e \in crossed'[j]
      BY <2>5, <2>6, <2>8, <3>1
    <3> QED
      BY <2>3, <2>5, <2>6, <3>1 DEF Placed
  <2>12. \A k \in Jobs: Reloaded(k)' /\ Placed(k)'
    BY <2>9, <2>10, <2>11, MoveKeeps
  <2> QED
    BY <1>1, <2>5, <2>7, <2>12 DEF SyncInv, SyncTypeOK
<1>4. CASE EngineFailed(j, e) /\ UNCHANGED <<previous, crossed>>
  <2>1. PICK r \in JobRows: r = [job[j] EXCEPT !.step = "apply", !.left = @ \ {e}, !.ok = FALSE]
    BY <1>1, <1>2, JobUpdates DEF Doing
  <2>2. r.step = "apply" /\ ~r.ok /\ r.step \notin InEngine
    BY <1>1, <2>1 DEF JobRows, InEngine
  <2>3. Put(j, r)
    BY <1>4, <2>1 DEF EngineFailed
  <2>4. job'[j] = r
    BY <1>1, <2>3, PutEffect DEF SyncTypeOK
  <2>5. Reloaded(j)'
    BY <2>2, <2>4 DEF Reloaded
  <2>6. job' \in [Jobs -> JobRows] /\ \A k \in Jobs: Reloaded(k)' /\ Placed(k)'
    BY <1>1, <1>4, <2>2, <2>3, <2>5, AwayKeeps
  <2> QED
    BY <1>1, <1>4, <2>6 DEF SyncInv, SyncTypeOK
<1> QED
  BY <1>3, <1>4 DEF ReadPrevious

LEMMA FilesKeep ==
  ASSUME SyncInv, NEW j \in Jobs, WriteCandidate(j) \/ ReplaceConfig(j)
  PROVE  SyncInv'
<1> DEFINE e == Current(j)
<1>1. /\ SyncTypeOK /\ job[j].step \in InEngine
      /\ UNCHANGED <<content, desired, live, ran, previous, crossed, nodeRev>>
  BY DEF SyncInv, WriteCandidate, ReplaceConfig, InEngine
<1>2. e \in Engines /\ job[j].body[e] \in Nat
  BY <1>1, AtEngine
<1>3. ran' \in [Engines -> SUBSET Nat] /\ \A d \in Engines: ran[d] \subseteq ran'[d]
  BY <1>1 DEF SyncTypeOK
<1>4. {"place", "reload", "undo"} \subseteq InEngine
  BY DEF InEngine
<1>5. CASE WriteCandidate(j)
  <2>1. /\ file' = file /\ cand' \in [Engines -> SUBSET Nat]
        /\ \A d \in Engines \ {e}: cand'[d] = cand[d]
    BY <1>1, <1>2, <1>5 DEF WriteCandidate, SyncTypeOK
  <2>2. CASE cand' = [cand EXCEPT ![e] = {job[j].body[e]}] /\ GoesTo(j, "place")
    <3>1. cand'[e] = {job[j].body[e]}
      BY <1>1, <1>2, <2>2 DEF SyncTypeOK
    <3>2. job' \in [Jobs -> JobRows] /\ \A k \in Jobs: Reloaded(k)' /\ Placed(k)'
      BY <1>1, <1>3, <1>4, <2>1, <2>2, <3>1, GoOn
    <3> QED
      BY <1>1, <2>1, <3>2 DEF SyncInv, SyncTypeOK
  <2>3. CASE GoesTo(j, "undo")
    <3>1. job' \in [Jobs -> JobRows] /\ \A k \in Jobs: Reloaded(k)' /\ Placed(k)'
      BY <1>1, <1>3, <1>4, <2>1, <2>3, GoOn
    <3> QED
      BY <1>1, <2>1, <3>1 DEF SyncInv, SyncTypeOK
  <2> QED
    BY <1>5, <2>2, <2>3 DEF WriteCandidate
<1>6. CASE ReplaceConfig(j)
  <2>1. cand[e] \subseteq Nat /\ job[j].step = "place"
    BY <1>1, <1>2, <1>6 DEF ReplaceConfig, SyncTypeOK
  <2>2. /\ file' \in [Engines -> Nat] /\ cand' \in [Engines -> SUBSET Nat]
        /\ \A d \in Engines \ {e}: cand'[d] = cand[d] /\ file'[d] = file[d]
    BY <1>1, <1>2, <1>6, <2>1 DEF ReplaceConfig, SyncTypeOK
  <2>3. CASE (\E v \in cand[e]: file' = [file EXCEPT ![e] = v]) /\ GoesTo(j, "reload")
    <3>1. file'[e] \in cand[e]
      BY <1>1, <1>2, <2>3 DEF SyncTypeOK
    <3>2. e \notin crossed[j] => cand[e] = {job[j].body[e]}
      BY <1>1, <2>1 DEF SyncInv, Placed
    <3>3. e \notin crossed[j] => file'[e] = job[j].body[e]
      BY <3>1, <3>2
    <3>4. job' \in [Jobs -> JobRows] /\ \A k \in Jobs: Reloaded(k)' /\ Placed(k)'
      BY <1>1, <1>3, <1>4, <2>2, <2>3, <3>3, GoOn
    <3> QED
      BY <1>1, <2>2, <3>4 DEF SyncInv, SyncTypeOK
  <2>4. CASE GoesTo(j, "undo")
    <3>1. job' \in [Jobs -> JobRows] /\ \A k \in Jobs: Reloaded(k)' /\ Placed(k)'
      BY <1>1, <1>3, <1>4, <2>2, <2>4, GoOn
    <3> QED
      BY <1>1, <2>2, <3>1 DEF SyncInv, SyncTypeOK
  <2> QED
    BY <1>6, <2>3, <2>4 DEF ReplaceConfig
<1> QED
  BY <1>5, <1>6

LEMMA LoadsEffect ==
  ASSUME SyncTypeOK, NEW e \in Engines, NEW v \in Nat, Loads(e, v)
  PROVE  /\ live' \in [Engines -> Nat] /\ ran' \in [Engines -> SUBSET Nat] /\ v \in ran'[e]
         /\ \A d \in Engines: ran[d] \subseteq ran'[d]
  BY DEF SyncTypeOK, Loads

LEMMA ReloadKeeps ==
  ASSUME SyncInv, NEW j \in Jobs, ReloadEngine(j)
  PROVE  SyncInv'
<1> DEFINE e == Current(j)
<1>1. /\ SyncTypeOK /\ job[j].step = "reload" /\ job[j].step \in InEngine /\ "undo" \in InEngine
      /\ UNCHANGED <<content, desired, file, cand, crossed, nodeRev>>
  BY DEF SyncInv, ReloadEngine, InEngine
<1>0. previous' \in [Jobs -> Nat]
  BY <1>1 DEF ReloadEngine, Forget, SyncTypeOK
<1>2. e \in Engines /\ file[e] \in Nat
  <2>1. e \in Engines
    BY <1>1, AtEngine
  <2> QED
    BY <1>1, <2>1 DEF SyncTypeOK
<1>3. /\ live' \in [Engines -> Nat] /\ ran' \in [Engines -> SUBSET Nat]
      /\ \A d \in Engines: ran[d] \subseteq ran'[d]
  <2>1. Loads(e, file[e]) \/ UNCHANGED <<live, ran>>
    BY DEF ReloadEngine
  <2> QED
    BY <1>1, <1>2, <2>1, LoadsEffect DEF SyncTypeOK
<1>4. CASE Loads(e, file[e]) /\ EngineDone(j, e)
  <2>1. file[e] \in ran'[e]
    BY <1>1, <1>2, <1>4, LoadsEffect
  <2>2. e \notin crossed[j] => file[e] = job[j].body[e]
    BY <1>1 DEF SyncInv, Placed
  <2>3. e \notin crossed[j] => job[j].body[e] \in ran'[e]
    BY <2>1, <2>2
  <2>4. job' \in [Jobs -> JobRows] /\ \A k \in Jobs: Reloaded(k)' /\ Placed(k)'
    BY <1>1, <1>3, <1>4, <2>3, DoneWith
  <2> QED
    BY <1>0, <1>1, <1>3, <2>4 DEF SyncInv, SyncTypeOK
<1>5. CASE GoesTo(j, "undo")
  <2>1. job' \in [Jobs -> JobRows] /\ \A k \in Jobs: Reloaded(k)' /\ Placed(k)'
    BY <1>1, <1>3, <1>5, GoOn
  <2> QED
    BY <1>0, <1>1, <1>3, <2>1 DEF SyncInv, SyncTypeOK
<1> QED
  BY <1>4, <1>5 DEF ReloadEngine

LEMMA RollBackKeeps ==
  ASSUME SyncInv, NEW j \in Jobs, RollBack(j)
  PROVE  SyncInv'
<1> DEFINE e == Current(j)
<1>1. /\ SyncTypeOK /\ job[j].step = "undo" /\ job[j].step \in InEngine /\ "again" \in InEngine
      /\ UNCHANGED <<content, desired, live, ran, crossed, nodeRev>>
  BY DEF SyncInv, RollBack, InEngine
<1>2. e \in Engines /\ previous[j] \in Nat
  <2>1. e \in Engines
    BY <1>1, AtEngine
  <2> QED
    BY <1>1, <2>1 DEF SyncTypeOK
<1>3. ran' \in [Engines -> SUBSET Nat] /\ \A d \in Engines: ran[d] \subseteq ran'[d]
  BY <1>1 DEF SyncTypeOK
<1>4. /\ file' \in [Engines -> Nat] /\ cand' \in [Engines -> SUBSET Nat]
      /\ previous' \in [Jobs -> Nat]
      /\ \A d \in Engines \ {e}: cand'[d] = cand[d] /\ file'[d] = file[d]
  BY <1>1, <1>2 DEF RollBack, Forget, SyncTypeOK
<1>5. job' \in [Jobs -> JobRows] /\ \A k \in Jobs: Reloaded(k)' /\ Placed(k)'
  <2>1. CASE GoesTo(j, "again")
    BY <1>1, <1>3, <1>4, <2>1, GoOn
  <2>2. CASE EngineFailed(j, e)
    BY <1>1, <1>3, <1>4, <2>2, DoneWith
  <2> QED
    BY <2>1, <2>2 DEF RollBack
<1> QED
  BY <1>1, <1>3, <1>4, <1>5 DEF SyncInv, SyncTypeOK

LEMMA ReloadPreviousKeeps ==
  ASSUME SyncInv, NEW j \in Jobs, ReloadPrevious(j)
  PROVE  SyncInv'
<1> DEFINE e == Current(j)
<1>1. /\ SyncTypeOK /\ job[j].step \in InEngine
      /\ UNCHANGED <<content, desired, file, previous, crossed, nodeRev>>
  BY DEF SyncInv, ReloadPrevious, InEngine
<1>2. e \in Engines /\ file[e] \in Nat
  <2>1. e \in Engines
    BY <1>1, AtEngine
  <2> QED
    BY <1>1, <2>1 DEF SyncTypeOK
<1>3. /\ live' \in [Engines -> Nat] /\ ran' \in [Engines -> SUBSET Nat]
      /\ \A d \in Engines: ran[d] \subseteq ran'[d]
  <2>1. Loads(e, file[e]) \/ UNCHANGED <<live, ran>>
    BY DEF ReloadPrevious
  <2> QED
    BY <1>1, <1>2, <2>1, LoadsEffect DEF SyncTypeOK
<1>4. /\ cand' \in [Engines -> SUBSET Nat]
      /\ \A d \in Engines \ {e}: cand'[d] = cand[d] /\ file'[d] = file[d]
  BY <1>1, <1>2 DEF ReloadPrevious, SyncTypeOK
<1>5. EngineFailed(j, e)
  BY DEF ReloadPrevious
<1>6. job' \in [Jobs -> JobRows] /\ \A k \in Jobs: Reloaded(k)' /\ Placed(k)'
  BY <1>1, <1>3, <1>4, <1>5, DoneWith
<1> QED
  BY <1>1, <1>3, <1>4, <1>6 DEF SyncInv, SyncTypeOK

LEMMA EndKeeps ==
  ASSUME SyncInv, NEW j \in Jobs, EndApply(j)
  PROVE  SyncInv'
<1>1. SyncTypeOK /\ job[j] \in JobRows /\ job[j].step = "apply" /\ job[j].left = {}
      /\ UNCHANGED <<content, desired, live, ran, file, cand, previous, crossed>>
  BY DEF SyncInv, SyncTypeOK, EndApply, fileVars
<1>2. PICK r \in JobRows: r = [job[j] EXCEPT !.step = "result"]
  <2>1. [job[j] EXCEPT !.step = "result"] \in JobRows
    BY <1>1 DEF JobRows, Doing
  <2> QED
    BY <2>1
<1>3. /\ r.step = "result" /\ r.left = job[j].left
      /\ r.ok = job[j].ok /\ r.body = job[j].body
  BY <1>1, <1>2 DEF JobRows
<1>4. Put(j, r)
  BY <1>2 DEF EndApply, GoesTo
<1>5. job'[j] = r
  BY <1>1, <1>4, PutEffect DEF SyncTypeOK
<1>6. Reloaded(j)' /\ r.step \notin InEngine
  BY <1>1, <1>3, <1>5 DEF Reloaded, SyncInv, InEngine
<1>7. nodeRev' \in Nat
  BY <1>1 DEF EndApply, Remember, SyncTypeOK, JobRows
<1>8. job' \in [Jobs -> JobRows] /\ \A k \in Jobs: Reloaded(k)' /\ Placed(k)'
  BY <1>1, <1>4, <1>6, AwayKeeps
<1> QED
  BY <1>1, <1>7, <1>8 DEF SyncInv, SyncTypeOK

LEMMA ToldKeeps ==
  ASSUME SyncInv, NEW j \in Jobs, Told(j)
  PROVE  SyncInv'
<1>1. SyncTypeOK /\ job[j] \in JobRows /\ NoJob \in JobRows
      /\ UNCHANGED <<content, live, ran, file, cand, nodeRev>>
  <2>1. NoJob \in JobRows
    BY DEF NoJob, NoBody, JobRows, Doing
  <2> QED
    BY <2>1 DEF SyncInv, SyncTypeOK, Told
<1>2. job' \in [Jobs -> JobRows] /\ job'[j] = NoJob /\ \A k \in Jobs \ {j}: job'[k] = job[k]
  BY <1>1, PutEffect DEF SyncTypeOK, Told
<1>3. /\ previous' \in [Jobs -> Nat] /\ crossed' \in [Jobs -> SUBSET Engines]
      /\ \A k \in Jobs \ {j}: crossed'[k] = crossed[k]
  BY <1>1 DEF Told, SyncTypeOK
<1>4. desired' \in [Engines -> Nat]
  BY <1>1 DEF Told, Record, SyncTypeOK, JobRows
<1>5. NoJob.step \notin InEngine /\ NoJob.step \notin {"apply", "result"}
  BY DEF NoJob, InEngine
<1>6. Moves(j)
  BY <1>1, <1>2, <1>3, <1>5 DEF Moves, SyncTypeOK
<1>7. Reloaded(j)' /\ Placed(j)'
  BY <1>2, <1>5 DEF Reloaded, Placed
<1>8. \A k \in Jobs: Reloaded(k)' /\ Placed(k)'
  BY <1>6, <1>7, MoveKeeps
<1> QED
  BY <1>1, <1>2, <1>3, <1>4, <1>8 DEF SyncInv, SyncTypeOK

LEMMA BeginKeeps ==
  ASSUME SyncInv, NEW j \in Jobs, job[j] = NoJob,
         Put(j, [NoJob EXCEPT !.step = "build", !.left = Engines]),
         UNCHANGED <<content, desired, fileVars, nodeRev>>
  PROVE  SyncInv'
<1>1. [NoJob EXCEPT !.step = "build", !.left = Engines] \in JobRows
  <2>1. NoJob \in JobRows
    BY DEF NoJob, NoBody, JobRows, Doing
  <2> QED
    BY <2>1 DEF JobRows, Doing
<1>2. PICK r \in JobRows: r = [NoJob EXCEPT !.step = "build", !.left = Engines]
  BY <1>1
<1>3. r.step = "build"
  BY <1>2 DEF NoJob
<1>4. SyncTypeOK /\ Put(j, r) /\ UNCHANGED <<live, ran, file, cand, previous, crossed>>
  BY <1>2 DEF SyncInv, fileVars
<1>5. job'[j] = r
  BY <1>4, PutEffect DEF SyncTypeOK
<1>6. Reloaded(j)' /\ r.step \notin InEngine
  BY <1>3, <1>5 DEF Reloaded, InEngine
<1>7. job' \in [Jobs -> JobRows] /\ \A k \in Jobs: Reloaded(k)' /\ Placed(k)'
  BY <1>4, <1>6, AwayKeeps
<1> QED
  BY <1>4, <1>7 DEF SyncInv, SyncTypeOK

LEMMA SyncInductive ==
  ASSUME SyncInv, [SyncNext]_syncVars
  PROVE  SyncInv'
<1>1. ASSUME NEW e \in Engines, Change(e) PROVE SyncInv'
  <2>1. SyncTypeOK'
    BY <1>1 DEF Change, SyncInv, SyncTypeOK, fileVars
  <2>2. UNCHANGED <<job, ran, file, cand, crossed>> /\ \A j \in Jobs: Current(j)' = Current(j)
    BY <1>1 DEF Change, fileVars, Current
  <2> QED
    BY <2>1, <2>2 DEF SyncInv, Reloaded, Placed
<1>2. CASE StartPush \/ StartPull
  BY <1>2, BeginKeeps DEF StartPush, StartPull, Jobs
<1>3. CASE PushTimeout
  <2> DEFINE j == "push"
  <2>1. j \in Jobs /\ SyncTypeOK /\ job[j] \in JobRows
        /\ UNCHANGED <<content, desired, live, ran, file, cand, previous, crossed, nodeRev>>
    BY <1>3 DEF SyncInv, SyncTypeOK, Jobs, PushTimeout, fileVars
  <2>2. PICK r \in JobRows: r = [job[j] EXCEPT !.told = FALSE]
    <3>1. [job[j] EXCEPT !.told = FALSE] \in JobRows
      BY <2>1 DEF JobRows
    <3> QED
      BY <3>1
  <2>3. /\ r.step = job[j].step /\ r.left = job[j].left
        /\ r.ok = job[j].ok /\ r.body = job[j].body
    BY <2>1, <2>2 DEF JobRows
  <2>4. job' \in [Jobs -> JobRows] /\ job'[j] = r /\ \A k \in Jobs \ {j}: job'[k] = job[k]
    BY <1>3, <2>1, <2>2, PutEffect DEF SyncTypeOK, PushTimeout
  <2> HIDE DEF j
  <2>5. \A k \in Jobs: /\ job'[k].step = job[k].step /\ job'[k].left = job[k].left
                       /\ job'[k].ok = job[k].ok /\ job'[k].body = job[k].body
    BY <2>3, <2>4
  <2>6. \A k \in Jobs: Current(k)' = Current(k)
    BY <2>5 DEF Current
  <2>7. \A k \in Jobs: Reloaded(k)'
    BY <2>1, <2>5 DEF Reloaded, SyncInv
  <2>8. \A k \in Jobs: Placed(k)'
    BY <2>1, <2>5, <2>6 DEF Placed, SyncInv
  <2> QED
    BY <2>1, <2>4, <2>7, <2>8 DEF SyncInv, SyncTypeOK
<1>4. CASE Restart
  <2>1. NoJob \in JobRows /\ NoJob.step = "idle" /\ NoJob.step \notin InEngine
    BY DEF NoJob, NoBody, JobRows, Doing, InEngine
  <2>2. SyncTypeOK'
    BY <1>4, <2>1 DEF Restart, SyncInv, SyncTypeOK
  <2>3. \A j \in Jobs: job'[j].step \in {"idle", "build", "sent"}
    BY <1>4, <2>1 DEF Restart
  <2>4. \A j \in Jobs: Reloaded(j)' /\ Placed(j)'
    BY <2>3 DEF Reloaded, Placed, InEngine
  <2> QED
    BY <2>2, <2>4 DEF SyncInv
<1>5. ASSUME NEW j \in Jobs, Work(j) PROVE SyncInv'
  BY <1>5, ArriveKeeps, LoadKeeps, ReadKeeps, FilesKeep, ReloadKeeps, RollBackKeeps,
     ReloadPreviousKeeps, EndKeeps, ToldKeeps DEF Work, ApplyEngine
<1>6. CASE UNCHANGED syncVars
  <2>1. SyncTypeOK' /\ UNCHANGED <<job, ran, file, cand, crossed>>
    BY <1>6 DEF syncVars, fileVars, SyncInv, SyncTypeOK
  <2>2. \A j \in Jobs: Current(j)' = Current(j)
    BY <2>1 DEF Current
  <2> QED
    BY <2>1, <2>2 DEF SyncInv, Reloaded, Placed
<1> QED
  BY <1>1, <1>2, <1>3, <1>4, <1>5, <1>6 DEF SyncNext

(***************************************************************************)
(* What the panel records as the revision that a node has applied is the   *)
(* revision of one push or pull, and every engine that the other did not   *)
(* handle at the same moment was reloaded with the version it carries, for *)
(* every interleaving of the two and whatever files and reloads fail.      *)
(***************************************************************************)
THEOREM RecordIsTrue == SyncSpec => RecordedRan
<1> DEFINE Recorded ==
      applied' # applied => \E j \in Jobs: /\ \A e \in Engines: applied'[e] = job[j].rev
                                           /\ \A e \in Engines \ crossed[j]: job[j].body[e] \in ran[e]
<1>1. SyncInit => SyncInv
  <2> SUFFICES ASSUME SyncInit PROVE SyncInv
    OBVIOUS
  <2>1. NoJob \in JobRows /\ NoJob.step = "idle"
    BY DEF NoJob, NoBody, JobRows, Doing
  <2>2. SyncTypeOK
    BY <2>1 DEF SyncInit, SyncTypeOK, NoBody
  <2> QED
    BY <2>1, <2>2 DEF SyncInit, SyncInv, Reloaded, Placed, InEngine
<1>2. ASSUME SyncInv, [SyncNext]_syncVars PROVE SyncInv'
  BY <1>2, SyncInductive
<1>3. ASSUME SyncInv, [SyncNext]_syncVars PROVE Recorded
  <2>1. ASSUME NEW j \in Jobs, Told(j) PROVE Recorded
    BY <1>3, <2>1 DEF Told, Record, SyncInv, Reloaded
  <2>2. ASSUME NEW j \in Jobs, Work(j), ~Told(j) PROVE UNCHANGED applied
    BY <2>2 DEF Work, Arrive, EndApply, Load, ApplyEngine, ReadPrevious, WriteCandidate,
       ReplaceConfig, ReloadEngine, RollBack, ReloadPrevious
  <2>3. ASSUME NEW e \in Engines, Change(e) PROVE UNCHANGED applied
    BY <2>3 DEF Change
  <2>4. CASE StartPush \/ StartPull \/ PushTimeout \/ Restart \/ UNCHANGED syncVars
    BY <2>4 DEF StartPush, StartPull, PushTimeout, Restart, syncVars
  <2> QED
    BY <1>3, <2>1, <2>2, <2>3, <2>4 DEF SyncNext
<1> QED
  BY <1>1, <1>2, <1>3, PTL DEF SyncSpec, RecordedRan

-----------------------------------------------------------------------------
(***************************************************************************)
(* The limits of a user.                                                   *)
(***************************************************************************)
Fields == {"expire", "limit", "used", "strategy", "next", "seats", "status", "reason", "hold",
           "deleted", "needsApply"}
EditRows == [on: {TRUE}, row: Rows, cols: SUBSET Fields, odd: BOOLEAN]

UserTypeOK ==
  /\ now \in 0..MaxNow /\ devices \in Nat
  /\ user \in Rows
  /\ edit \in [Admins -> {NoEdit} \cup EditRows]
  /\ resets \in [0..(MaxNow \div ResetEvery) -> Nat]
  /\ stale \in BOOLEAN
  /\ enforcer.step = "evaluate" =>
       enforcer.at \in 0..now /\ enforcer.row \in Rows /\ enforcer.devices \in Nat

\* What the next reset of a row says of period i: it is over.
Past(row, i) == row.next # None => row.next >= (i + 1) * ResetEvery

\* Neither the row nor an edit that may be written, but for one that is odd,
\* would reset again what was reset, and the runs of the enforcer go on in time.
ResetsPast ==
  \A i \in DOMAIN resets: resets[i] # 0 =>
    /\ resets[i] = 1 /\ i <= now \div ResetEvery
    /\ enforcer.step = "evaluate" => i <= enforcer.at \div ResetEvery
    /\ Past(user, i)
    /\ \A a \in Admins: edit[a].on /\ ~edit[a].odd /\ "next" \in edit[a].cols =>
         Past(edit[a].row, i)

UserInv == UserTypeOK /\ (~stale => ResetsPast)

\* Times and the periods they are in.
LEMMA Periods ==
  ASSUME NEW p \in Nat \ {0}, NEW t \in Nat, NEW u \in Nat, t <= u
  PROVE  /\ t \div p \in Nat /\ u \div p \in Nat /\ t \div p <= u \div p
         /\ t < (t \div p + 1) * p /\ (t \div p + 1) * p \in Nat
  BY SMT

LEMMA Earlier ==
  ASSUME NEW p \in Nat \ {0}, NEW i \in Nat, NEW j \in Nat, i <= j
  PROVE  (i + 1) * p <= (j + 1) * p
  BY SMT

LEMMA NextReset ==
  ASSUME NEW s \in Strategies, NEW t \in Nat
  PROVE  /\ calculateNextResetAt(s, t) \in Dates
         /\ s # "NO_RESET" => calculateNextResetAt(s, t) > t
         /\ \A i \in 0..(t \div ResetEvery):
              calculateNextResetAt(s, t) # None => calculateNextResetAt(s, t) >= (i + 1) * ResetEvery
<1>1. ResetEvery \in Nat \ {0}
  BY UserConstants
<1>2. t \div ResetEvery \in Nat /\ t < (t \div ResetEvery + 1) * ResetEvery /\ (t \div ResetEvery + 1) * ResetEvery \in Nat
  BY <1>1, Periods
<1>3. \A i \in 0..(t \div ResetEvery): (i + 1) * ResetEvery <= (t \div ResetEvery + 1) * ResetEvery
  BY <1>1, <1>2, Earlier
<1> QED
  BY <1>2, <1>3 DEF calculateNextResetAt, Dates, None

Verdicts == [status: Statuses, reason: Reasons]

LEMMA Normalized ==
  ASSUME NEW row, NEW s \in Statuses, NEW r, NEW t
  PROVE  normalizeUserStatus(row, s, r, t) \in Verdicts
<1>1. CASE s = "ACTIVE"
  BY <1>1 DEF normalizeUserStatus, St, Verdicts, Statuses, Reasons
<1>2. CASE s # "ACTIVE"
  BY <1>2 DEF normalizeUserStatus, St, Verdicts, Statuses, Reasons
<1> QED
  BY <1>1, <1>2

LEMMA EnforcedStatus ==
  ASSUME NEW row, NEW n, NEW t
  PROVE  /\ evaluateEnforcedStatus(row, n, t) \in Verdicts
         /\ row.status = "DISABLED" => evaluateEnforcedStatus(row, n, t).status = "DISABLED"
  BY DEF evaluateEnforcedStatus, St, Verdicts, Statuses, Reasons

LEMMA StatusRow ==
  ASSUME NEW row \in Rows, NEW st \in Verdicts
  PROVE  WithStatus(row, st) \in Rows /\ WithStatus(row, st).next = row.next
  BY DEF WithStatus, Rows, Dates, Verdicts

(***************************************************************************)
(* Whatever an administrator makes of a row is a row, and its next reset   *)
(* is the row's, one after now, or the administrator's own.                *)
(***************************************************************************)
LEMMA EditedRow ==
  ASSUME UserTypeOK, NEW input \in Inputs
  PROVE  /\ Edited(user, input) \in Rows
         /\ Edited(user, input).next = user.next \/ Given(input, "next")
              \/ \E s \in Strategies: Edited(user, input).next = calculateNextResetAt(s, now)
<1>1. now \in Nat /\ user \in Rows
  BY UserConstants DEF UserTypeOK
<1>2. \A s \in Strategies: calculateNextResetAt(s, now) \in Dates
  BY <1>1, NextReset
<1>3. CASE input.action = "update"
  <2>1. PICK new : new = [user EXCEPT !.expire = Or(input, "expire", @), !.limit = Or(input, "limit", @),
                         !.strategy = Or(input, "strategy", @),
                         !.seats = Or(input, "seats", @)]
    OBVIOUS
  <2>2. new \in Rows /\ new.next = user.next
    <3>1. /\ Or(input, "expire", user.expire) \in Dates /\ Or(input, "limit", user.limit) \in Dates
          /\ Or(input, "strategy", user.strategy) \in Strategies
          /\ Or(input, "seats", user.seats) \in Nat
      BY <1>1, UserConstants DEF Or, Rows
    <3> QED
      BY <1>1, <2>1, <3>1 DEF Rows
  <2>3. PICK next : next = IF Given(input, "next") THEN input.next
                      ELSE IF Given(input, "strategy") THEN calculateNextResetAt(new.strategy, now)
                      ELSE user.next
    OBVIOUS
  <2>4. next \in Dates /\ (next = user.next \/ Given(input, "next")
              \/ \E s \in Strategies: next = calculateNextResetAt(s, now))
    BY <1>1, <1>2, <2>2, <2>3, UserConstants DEF Rows
  <2>5. PICK st : st = normalizeUserStatus(new, Or(input, "status", user.status), user.reason, now)
    OBVIOUS
  <2>6. st \in Verdicts
    BY <1>1, <2>5, Normalized, UserConstants DEF Or, Rows
  <2>7. Edited(user, input) = WithStatus([new EXCEPT !.next = next], st)
    BY <1>3, <2>1, <2>3, <2>5 DEF Edited, Updated
  <2>8. [new EXCEPT !.next = next] \in Rows /\ [new EXCEPT !.next = next].next = next
    BY <2>2, <2>4 DEF Rows
  <2> QED
    BY <2>4, <2>6, <2>7, <2>8, StatusRow
<1>4. CASE input.action = "remove"
  BY <1>1, <1>4 DEF Edited, Removed, Rows, Statuses, Reasons
<1>5. CASE input.action \notin {"update", "remove"}
  <2>1. PICK new :
          new = CASE input.action = "reset-traffic" ->
                    [user EXCEPT !.used = 0, !.next = calculateNextResetAt(user.strategy, now)]
               [] input.action = "extend" -> [user EXCEPT !.expire = Extended(user)]
               [] input.action = "set-plan" ->
                    [user EXCEPT !.expire = input.plan.expire, !.limit = input.plan.limit,
                                !.seats = input.plan.seats, !.strategy = input.plan.strategy,
                                !.next = calculateNextResetAt(input.plan.strategy, now)]
               [] OTHER -> user
    OBVIOUS
  <2>2. PICK wanted : wanted = CASE input.action = "disable" -> "DISABLED"
                  [] input.action = "enable" -> "ACTIVE"
                  [] OTHER -> Unblocked(user)
    OBVIOUS
  <2>3. /\ new \in Rows
        /\ new.next = user.next \/ \E s \in Strategies: new.next = calculateNextResetAt(s, now)
    <3>1. CASE input.action = "reset-traffic"
      BY <1>1, <1>2, <2>1, <3>1 DEF Rows
    <3>2. CASE input.action = "extend"
      <4>1. Extended(user) \in Dates
        BY <1>1 DEF Extended, Rows, Dates, None
      <4> QED
        BY <1>1, <2>1, <3>2, <4>1 DEF Rows
    <3>3. CASE input.action = "set-plan"
      <4>1. input.plan \in Plans
        BY <3>3, UserConstants
      <4> QED
        BY <1>1, <1>2, <2>1, <3>3, <4>1 DEF Rows, Plans
    <3>4. CASE input.action \notin {"reset-traffic", "extend", "set-plan"}
      BY <1>1, <2>1, <3>4
    <3> QED
      BY <3>1, <3>2, <3>3, <3>4
  <2>4. wanted \in Statuses
    BY <2>2 DEF Unblocked, Statuses
  <2>5. Edited(user, input) = WithStatus(new, normalizeUserStatus(new, wanted, user.reason, now))
    BY <1>5, <2>1, <2>2 DEF Edited, Bulk
  <2> QED
    BY <2>3, <2>4, <2>5, Normalized, StatusRow
<1> QED
  BY <1>3, <1>4, <1>5

LEMMA WrittenRow ==
  ASSUME NEW row \in Rows, NEW new \in Rows, NEW cols
  PROVE  /\ Written(cols, new, row) \in Rows
         /\ Written(cols, new, row).next = IF "next" \in cols THEN new.next ELSE row.next
  BY DEF Written, Rows

\* A run that is due writes a reset after its own time, and leaves a disabled user disabled.
LEMMA EnforcedRow ==
  ASSUME NEW row \in Rows, enforcer.at \in Nat, enforcer.devices \in Nat
  PROVE  /\ Enforced(row) \in Rows
         /\ row.status = "DISABLED" => Enforced(row).status = "DISABLED"
         /\ Enforced(row).next = row.next
              \/ Enforced(row).next = calculateNextResetAt(row.strategy, enforcer.at)
         /\ Due(row) => /\ Enforced(row).next = calculateNextResetAt(row.strategy, enforcer.at)
                        /\ Enforced(row) # row
<1>1. PICK used : used = IF Due(row) THEN 0 ELSE row.used
  OBVIOUS
<1>2. PICK next : next = IF Due(row) \/ Repair(row)
                          THEN calculateNextResetAt(row.strategy, enforcer.at) ELSE row.next
  OBVIOUS
<1>3. PICK st : st = evaluateEnforcedStatus([row EXCEPT !.used = used], enforcer.devices, enforcer.at)
  OBVIOUS
<1>4. PICK hold : hold = nextHold(st, enforcer.devices > row.seats, enforcer.at, row.hold)
  OBVIOUS
<1>5. PICK flag \in BOOLEAN : flag = (row.needsApply \/ St(row.status, row.reason) # st)
  BY DEF Rows
<1>6. Enforced(row) = [row EXCEPT !.used = used, !.next = next, !.hold = hold,
                        !.status = st.status, !.reason = st.reason, !.needsApply = flag]
  BY <1>1, <1>2, <1>3, <1>4, <1>5 DEF Enforced
<1>7. used \in Nat /\ next \in Dates /\ row.strategy \in Strategies
  BY <1>1, <1>2, NextReset DEF Rows
<1>8. st \in Verdicts /\ (row.status = "DISABLED" => st.status = "DISABLED")
  BY <1>3, EnforcedStatus DEF Rows
<1>9. hold \in Dates
  BY <1>4, UserConstants DEF nextHold, Dates, None, Rows
<1>10. /\ Enforced(row) \in Rows
       /\ Enforced(row).next = next /\ Enforced(row).status = st.status
  BY <1>6, <1>7, <1>8, <1>9 DEF Rows, Verdicts
<1>11. Due(row) => row.strategy # "NO_RESET" /\ row.next <= enforcer.at
  BY DEF Due
<1> QED
  BY <1>2, <1>7, <1>8, <1>10, <1>11, NextReset DEF Rows, Dates, None

\* A step that leaves the next reset of the row, the edits and the resets alone.
LEMMA Kept ==
  ASSUME UserInv, now \in Nat, now' \in Nat, now <= now', UNCHANGED <<edit, resets, stale>>,
         user'.next = user.next,
         enforcer'.step = "evaluate" =>
           enforcer'.at = now \/ (enforcer.step = "evaluate" /\ enforcer'.at = enforcer.at)
  PROVE  ~stale' => ResetsPast'
<1> SUFFICES ASSUME ~stale', NEW i \in DOMAIN resets, resets[i] # 0
             PROVE  /\ resets[i] = 1 /\ i <= now' \div ResetEvery
                    /\ enforcer'.step = "evaluate" => i <= enforcer'.at \div ResetEvery
                    /\ Past(user, i)'
                    /\ \A a \in Admins: edit[a].on /\ ~edit[a].odd /\ "next" \in edit[a].cols =>
                         Past(edit[a].row, i)
  BY DEF ResetsPast, Past
<1>1. /\ resets[i] = 1 /\ i <= now \div ResetEvery
      /\ enforcer.step = "evaluate" => i <= enforcer.at \div ResetEvery
      /\ Past(user, i)
      /\ \A a \in Admins: edit[a].on /\ ~edit[a].odd /\ "next" \in edit[a].cols =>
           Past(edit[a].row, i)
  BY DEF UserInv, ResetsPast
<1>2. now \div ResetEvery \in Nat /\ now' \div ResetEvery \in Nat /\ now \div ResetEvery <= now' \div ResetEvery
  <2>1. ResetEvery \in Nat \ {0}
    BY UserConstants
  <2>2. PICK t \in Nat, u \in Nat : t = now /\ u = now'
    OBVIOUS
  <2>3. t \div ResetEvery \in Nat /\ u \div ResetEvery \in Nat /\ t \div ResetEvery <= u \div ResetEvery
    BY <2>1, <2>2, Periods
  <2> QED
    BY <2>2, <2>3
<1>3. i \in Int
  BY DEF UserInv, UserTypeOK
<1> QED
  BY <1>1, <1>2, <1>3 DEF Past

LEMMA AdminReadsKeeps ==
  ASSUME UserInv, NEW a \in Admins, AdminReads(a)
  PROVE  UserInv'
<1>1. PICK input \in Inputs :
        edit' = [edit EXCEPT ![a] =
                  [on |-> TRUE, row |-> [Edited(user, input) EXCEPT !.needsApply = TRUE],
                   cols |-> Columns(input, [Edited(user, input) EXCEPT !.needsApply = TRUE]),
                   odd |-> Given(input, "next")]]
  BY DEF AdminReads
<1>2. PICK new : new = [Edited(user, input) EXCEPT !.needsApply = TRUE]
  OBVIOUS
<1>3. PICK e : e = [on |-> TRUE, row |-> new, cols |-> Columns(input, new), odd |-> Given(input, "next")]
  OBVIOUS
<1>4. /\ UserTypeOK /\ edit' = [edit EXCEPT ![a] = e]
      /\ UNCHANGED <<now, devices, user, enforcer, resets, stale>>
  BY <1>1, <1>2, <1>3 DEF UserInv, AdminReads
<1>5. /\ new \in Rows
      /\ new.next = user.next \/ Given(input, "next")
           \/ \E s \in Strategies: new.next = calculateNextResetAt(s, now)
  BY <1>2, <1>4, EditedRow DEF Rows
<1>6. e \in EditRows
  <2>1. Columns(input, new) \in SUBSET Fields
    BY DEF Columns, Fields
  <2>2. Given(input, "next") \in BOOLEAN
    BY DEF Given
  <2> QED
    BY <1>3, <1>5, <2>1, <2>2 DEF EditRows
<1>7. UserTypeOK'
  BY <1>4, <1>6 DEF UserTypeOK
<1>8. ASSUME ~stale' PROVE ResetsPast'
  <2> SUFFICES ASSUME NEW i \in DOMAIN resets, resets[i] # 0, ~e.odd
               PROVE  Past(new, i)
    BY <1>3, <1>4, <1>8 DEF UserInv, UserTypeOK, ResetsPast, Past
  <2>1. Past(user, i) /\ i <= now \div ResetEvery /\ i \in Nat
    BY <1>4, <1>8 DEF UserInv, UserTypeOK, ResetsPast
  <2>2. now \in Nat /\ now \div ResetEvery \in Nat
    <3>1. now \in Nat /\ ResetEvery \in Nat \ {0}
      BY <1>4, UserConstants DEF UserTypeOK
    <3> QED
      BY <3>1, Periods
  <2>3. i \in 0..(now \div ResetEvery) /\ ~Given(input, "next")
    BY <1>3, <2>1, <2>2
  <2> QED
    BY <1>5, <2>1, <2>2, <2>3, NextReset DEF Past
<1> QED
  BY <1>7, <1>8 DEF UserInv

LEMMA AdminWritesKeeps ==
  ASSUME UserInv, NEW a \in Admins, AdminWrites(a)
  PROVE  UserInv'
<1>1. /\ UserTypeOK /\ edit' = [edit EXCEPT ![a] = NoEdit]
      /\ user' = Written(edit[a].cols, edit[a].row, user)
      /\ stale' = (stale \/ (edit[a].odd /\ "next" \in edit[a].cols))
      /\ UNCHANGED <<now, devices, enforcer, resets>>
  BY DEF UserInv, AdminWrites
<1>2. edit[a] \in EditRows
  BY DEF AdminWrites, UserInv, UserTypeOK, NoEdit
<1>3. /\ user' \in Rows
      /\ user'.next = IF "next" \in edit[a].cols THEN edit[a].row.next ELSE user.next
  BY <1>1, <1>2, WrittenRow DEF UserTypeOK, EditRows
<1>4. UserTypeOK'
  BY <1>1, <1>2, <1>3 DEF UserTypeOK, EditRows
<1>5. ASSUME ~stale' PROVE ResetsPast'
  <2>1. ResetsPast /\ ("next" \in edit[a].cols => ~edit[a].odd)
    BY <1>1, <1>5 DEF UserInv
  <2>2. \A i \in DOMAIN resets: resets[i] # 0 => Past(user, i)'
    BY <1>1, <1>2, <1>3, <2>1 DEF ResetsPast, Past, EditRows
  <2>3. \A b \in Admins: edit'[b].on => b # a /\ edit'[b] = edit[b]
    BY <1>1 DEF UserTypeOK, NoEdit
  <2> QED
    BY <1>1, <2>1, <2>2, <2>3 DEF ResetsPast, Past
<1> QED
  BY <1>4, <1>5 DEF UserInv

LEMMA EnforcerWritesKeeps ==
  ASSUME UserInv, EnforcerWrites
  PROVE  UserInv'
<1>1. PICK row \in Rows : row = enforcer.row
  BY DEF UserInv, UserTypeOK, EnforcerWrites
<1>2. PICK at \in Nat : at = enforcer.at
  BY DEF UserInv, UserTypeOK, EnforcerWrites
<1>3. PICK new \in Rows : new = IF row.deleted THEN row ELSE Enforced(row)
  BY <1>1, <1>2, EnforcedRow DEF UserInv, UserTypeOK, EnforcerWrites
<1>4. /\ UserTypeOK /\ enforcer.step = "evaluate" /\ at <= now
      /\ UNCHANGED <<now, devices, stale>>
      /\ enforcer'.step # "evaluate"
  BY <1>2 DEF UserInv, UserTypeOK, EnforcerWrites, NoRun
<1>5. CASE UNCHANGED <<user, edit, resets>>
  BY <1>4, <1>5, Kept, UserConstants DEF UserInv, UserTypeOK
<1>6. CASE /\ ~(new # row /\ Conflict(row))
           /\ user' = IF new # row THEN new ELSE user
           /\ ~(~row.deleted /\ Due(row)) /\ UNCHANGED <<edit, resets>>
  <2>1. user' \in Rows
    BY <1>4, <1>6 DEF UserTypeOK
  <2>2. UserTypeOK'
    BY <1>4, <1>6, <2>1 DEF UserTypeOK
  <2>3. ASSUME ~stale', NEW i \in DOMAIN resets, resets[i] # 0 PROVE Past(user, i)'
    <3>1. Past(user, i) /\ i \in Nat /\ i <= at \div ResetEvery
      BY <1>2, <1>4, <2>3 DEF UserInv, UserTypeOK, ResetsPast
    <3>2. CASE new = row
      BY <1>6, <3>1, <3>2 DEF Past
    <3>3. CASE new # row
      <4>1. user' = new /\ user = row
        BY <1>6, <3>3 DEF Conflict
      <4>2. new.next = row.next \/ new.next = calculateNextResetAt(row.strategy, at)
        BY <1>1, <1>2, <1>3, <1>4, EnforcedRow DEF UserTypeOK
      <4>3. CASE new.next = row.next
        BY <3>1, <4>1, <4>3 DEF Past
      <4>4. CASE new.next = calculateNextResetAt(row.strategy, at)
        <5>1. i \in 0..(at \div ResetEvery)
          <6>1. at \div ResetEvery \in Nat
            BY Periods, UserConstants
          <6> QED
            BY <3>1, <6>1
        <5>2. row.strategy \in Strategies
          BY DEF Rows
        <5> QED
          BY <4>1, <4>4, <5>1, <5>2, NextReset DEF Past
      <4> QED
        BY <4>2, <4>3, <4>4
    <3> QED
      BY <3>2, <3>3
  <2>4. ~stale' => ResetsPast'
    BY <1>4, <1>6, <2>3 DEF UserInv, ResetsPast, Past
  <2> QED
    BY <2>2, <2>4 DEF UserInv
<1>7. CASE /\ ~(new # row /\ Conflict(row))
           /\ user' = IF new # row THEN new ELSE user
           /\ ~row.deleted /\ Due(row)
           /\ resets' = [resets EXCEPT ![at \div ResetEvery] = @ + 1] /\ edit' = Passed
  <2>1. /\ user = row /\ user' = new
        /\ new.next = calculateNextResetAt(row.strategy, at)
        /\ row.strategy \in Strategies /\ row.next \in Nat /\ row.next <= at
    <3>1. new # row /\ new.next = calculateNextResetAt(row.strategy, at)
      BY <1>1, <1>2, <1>3, <1>4, <1>7, EnforcedRow DEF UserTypeOK
    <3>2. row.next # None /\ row.next <= at
      BY <1>2, <1>7 DEF Due
    <3> QED
      BY <1>7, <3>1, <3>2 DEF Conflict, Rows, Dates
  <2>2. /\ now \in Nat /\ MaxNow \in Nat /\ now <= MaxNow /\ ResetEvery \in Nat \ {0}
    BY <1>4, UserConstants DEF UserTypeOK
  <2>3. PICK t \in Nat : t = now
    BY <2>2
  <2>4. /\ at \div ResetEvery \in Nat /\ t \div ResetEvery \in Nat /\ at \div ResetEvery <= t \div ResetEvery
        /\ at < (at \div ResetEvery + 1) * ResetEvery /\ (at \div ResetEvery + 1) * ResetEvery \in Nat
    BY <1>4, <2>2, <2>3, Periods
  <2>5. at \div ResetEvery <= MaxNow \div ResetEvery /\ MaxNow \div ResetEvery \in Nat
    BY <1>4, <2>2, Periods
  <2>6. PICK here \in DOMAIN resets : here = at \div ResetEvery /\ here \in Nat
    BY <1>4, <2>4, <2>5 DEF UserTypeOK
  <2>7. \A a \in Admins: edit[a] = NoEdit \/ edit[a] \in EditRows
    BY <1>4 DEF UserTypeOK
  <2>8. \A a \in Admins: edit'[a] = NoEdit \/ (edit'[a] \in EditRows /\ edit'[a].odd)
    <3>1. \A a \in Admins: edit'[a] = IF edit[a].on THEN [edit[a] EXCEPT !.odd = TRUE] ELSE edit[a]
      BY <1>7 DEF Passed
    <3> QED
      BY <2>7, <3>1 DEF EditRows, NoEdit
  <2>9. UserTypeOK'
    <3>1. edit' \in [Admins -> {NoEdit} \cup EditRows]
      BY <1>7, <2>8 DEF Passed
    <3>2. resets' \in [0..(MaxNow \div ResetEvery) -> Nat]
      BY <1>4, <1>7, <2>6 DEF UserTypeOK
    <3> QED
      BY <1>4, <2>1, <3>1, <3>2 DEF UserTypeOK
  <2>10. ASSUME ~stale' PROVE ResetsPast'
    <3>1. ResetsPast
      BY <1>4, <2>10 DEF UserInv
    <3>2. resets[here] = 0
      <4> SUFFICES ASSUME resets[here] # 0 PROVE FALSE
        OBVIOUS
      <4>1. row.next >= (here + 1) * ResetEvery
        BY <2>1, <3>1 DEF ResetsPast, Past, None
      <4> QED
        BY <2>1, <2>4, <2>6, <4>1
    <3>3. resets'[here] = 1 /\ DOMAIN resets' = DOMAIN resets
          /\ \A i \in DOMAIN resets: i # here => resets'[i] = resets[i]
      BY <1>4, <1>7, <2>6, <3>2 DEF UserTypeOK
    <3> SUFFICES ASSUME NEW i \in DOMAIN resets, resets'[i] # 0
                 PROVE  resets'[i] = 1 /\ i <= now \div ResetEvery /\ Past(user, i)'
      BY <1>4, <2>8, <3>3 DEF ResetsPast, Past, NoEdit
    <3>4. i \in Nat /\ i <= here /\ resets'[i] = 1
      BY <1>2, <1>4, <2>6, <3>1, <3>3 DEF ResetsPast, UserTypeOK
    <3>5. i \in 0..(at \div ResetEvery)
      BY <2>4, <2>6, <3>4
    <3>6. Past(user, i)'
      BY <2>1, <3>5, NextReset DEF Past
    <3> QED
      BY <2>3, <2>4, <2>6, <3>4, <3>6
  <2> QED
    BY <2>9, <2>10 DEF UserInv
<1> QED
  BY <1>1, <1>2, <1>3, <1>5, <1>6, <1>7 DEF EnforcerWrites

LEMMA UserStep ==
  ASSUME UserInv, UserNext \/ UNCHANGED userVars
  PROVE  UserInv'
<1>1. UserTypeOK /\ now \in Nat
  BY UserConstants DEF UserInv, UserTypeOK
<1>2. CASE TimePasses
  <2>1. /\ now' = now + 1 /\ now < MaxNow
        /\ UNCHANGED <<user, devices, edit, enforcer, resets, stale>>
    BY <1>2 DEF TimePasses
  <2>2. UserTypeOK'
    BY <1>1, <2>1, UserConstants DEF UserTypeOK
  <2> QED
    BY <1>1, <2>1, <2>2, Kept DEF UserInv
<1>3. CASE Move
  <2>1. /\ devices' \in Counts
        /\ UNCHANGED <<now, user, edit, enforcer, resets, stale>>
    BY <1>3 DEF Move
  <2>2. UserTypeOK'
    BY <1>1, <2>1, UserConstants DEF UserTypeOK
  <2> QED
    BY <1>1, <2>1, <2>2, Kept DEF UserInv
<1>4. CASE Traffic \/ EnforcerApplies
  <2>1. PICK used \in Nat, flag \in BOOLEAN :
          /\ user' = [user EXCEPT !.used = used, !.needsApply = flag]
          /\ UNCHANGED <<now, devices, edit, resets, stale>>
          /\ enforcer' = enforcer \/ enforcer'.step # "evaluate"
    <3>1. user.used \in Nat /\ user.used + 1 \in Nat /\ user.needsApply \in BOOLEAN
          /\ user = [user EXCEPT !.used = user.used, !.needsApply = user.needsApply]
          /\ [user EXCEPT !.used = @ + 1] = [user EXCEPT !.used = user.used + 1, !.needsApply = user.needsApply]
          /\ [user EXCEPT !.needsApply = FALSE] = [user EXCEPT !.used = user.used, !.needsApply = FALSE]
      <4>1. PICK r \in Rows : r = user
        BY <1>1 DEF UserTypeOK
      <4>2. r.used \in Nat /\ r.used + 1 \in Nat /\ r.needsApply \in BOOLEAN
        BY DEF Rows
      <4>3. r = [r EXCEPT !.used = r.used, !.needsApply = r.needsApply]
        BY DEF Rows
      <4>4. [r EXCEPT !.used = @ + 1] = [r EXCEPT !.used = r.used + 1, !.needsApply = r.needsApply]
        BY DEF Rows
      <4>5. [r EXCEPT !.needsApply = FALSE] = [r EXCEPT !.used = r.used, !.needsApply = FALSE]
        BY DEF Rows
      <4> QED
        BY <4>1, <4>2, <4>3, <4>4, <4>5
    <3>2. CASE Traffic
      BY <3>1, <3>2 DEF Traffic
    <3>3. CASE EnforcerApplies
      BY <3>1, <3>3 DEF EnforcerApplies, NoRun
    <3> QED
      BY <1>4, <3>2, <3>3
  <2>2. user' \in Rows /\ user'.next = user.next
    BY <1>1, <2>1 DEF UserTypeOK, Rows
  <2>3. UserTypeOK'
    BY <1>1, <2>1, <2>2 DEF UserTypeOK
  <2> QED
    BY <1>1, <2>1, <2>2, <2>3, Kept DEF UserInv
<1>5. CASE EnforcerReads
  <2>1. /\ enforcer'.at = now /\ enforcer'.row = user /\ enforcer'.devices = devices
        /\ UNCHANGED <<now, user, devices, edit, resets, stale>>
    BY <1>5 DEF EnforcerReads
  <2>2. UserTypeOK'
    BY <1>1, <2>1 DEF UserTypeOK
  <2> QED
    BY <1>1, <2>1, <2>2, Kept DEF UserInv
<1>6. CASE UNCHANGED userVars
  BY <1>1, <1>6, Kept DEF UserInv, UserTypeOK, userVars
<1> QED
  BY <1>2, <1>3, <1>4, <1>5, <1>6, AdminReadsKeeps, AdminWritesKeeps, EnforcerWritesKeeps
     DEF UserNext, Enforce

LEMMA UserStart == ASSUME UserInit PROVE UserInv
<1>1. PICK p \in Profiles : /\ now = 0 /\ devices = 0 /\ user = Created(p)
                            /\ edit = [a \in Admins |-> NoEdit] /\ enforcer = NoRun
                            /\ resets = [i \in 0..(MaxNow \div ResetEvery) |-> 0] /\ stale = FALSE
  BY DEF UserInit
<1>2. p \in [expire: Dates, limit: Dates, strategy: Strategies, seats: Nat, events: Nat] /\ MaxNow \in Nat
  BY UserConstants
<1>3. PICK st \in Verdicts : st = normalizeUserStatus([expire |-> p.expire, limit |-> p.limit, used |-> 0],
                                "ACTIVE", "none", 0)
  BY Normalized DEF Statuses
<1>4. Created(p) \in Rows
  <2>1. calculateNextResetAt(p.strategy, 0) \in Dates
    BY <1>2, NextReset
  <2> QED
    BY <1>2, <1>3, <2>1 DEF Created, Rows, Dates, None, Verdicts
<1>5. UserTypeOK
  <2>1. now \in 0..MaxNow /\ devices \in Nat /\ user \in Rows /\ stale \in BOOLEAN
    <3>1. 0 \in 0..MaxNow /\ 0 \in Nat
      BY <1>2
    <3> QED
      BY <1>1, <1>4, <3>1
  <2>2. resets \in [0..(MaxNow \div ResetEvery) -> Nat]
    BY <1>1
  <2>3. edit \in [Admins -> {NoEdit} \cup EditRows]
    BY <1>1
  <2> QED
    BY <1>1, <2>1, <2>2, <2>3 DEF UserTypeOK, NoRun
<1>6. ResetsPast
  BY <1>1 DEF ResetsPast
<1> QED
  BY <1>5, <1>6 DEF UserInv

(***************************************************************************)
(* Usage is reset by the schedule once per period at most, however long    *)
(* the periods and however requests of administrators, runs of the         *)
(* enforcer and the clock interleave, unless an administrator has written  *)
(* a next reset of its own or one that it had read before a reset.         *)
(***************************************************************************)
THEOREM ResetsOnce == UserSpec => []ResetOnce
<1>1. UserInit => UserInv
  BY UserStart
<1>2. UserInv /\ [UserNext]_userVars => UserInv'
  BY UserStep
<1>3. UserInv => ResetOnce
  <2> SUFFICES ASSUME UserInv, ~stale, NEW i \in DOMAIN resets PROVE resets[i] <= 1
    BY DEF ResetOnce
  <2>1. resets[i] = 0 \/ resets[i] = 1
    BY DEF UserInv, ResetsPast
  <2> QED
    BY <2>1
<1> QED
  BY <1>1, <1>2, <1>3, PTL DEF UserSpec

(***************************************************************************)
(* A user that was disabled by hand is enabled by nothing but a request of *)
(* an administrator that ends there: a run of the enforcer that had read   *)
(* the row before is refused, one that reads it after leaves it disabled.  *)
(***************************************************************************)
THEOREM StaysDisabled == UserSpec => DisabledByHand
<1>1. UserInit => UserInv
  BY UserStart
<1>2. UserInv /\ [UserNext]_userVars => UserInv'
  BY UserStep
<1>3. ASSUME UserInv, UserNext, user.status = "DISABLED", user'.status # "DISABLED"
      PROVE  \E a \in Admins: edit[a].on /\ ~edit'[a].on
  <2>1. CASE \E a \in Admins: AdminWrites(a)
    BY <1>3, <2>1 DEF AdminWrites, UserInv, UserTypeOK, NoEdit
  <2>2. CASE EnforcerWrites
    <3>1. CASE user' = user
      BY <1>3, <3>1
    <3>2. CASE user' # user
      <4>1. /\ user = enforcer.row /\ user' = Enforced(enforcer.row)
            /\ enforcer.step = "evaluate"
        BY <2>2, <3>2 DEF EnforcerWrites, Conflict
      <4>2. enforcer.row \in Rows /\ enforcer.at \in Nat /\ enforcer.devices \in Nat
        BY <1>3, <4>1 DEF UserInv, UserTypeOK
      <4>3. Enforced(enforcer.row).status = "DISABLED"
        BY <1>3, <4>1, <4>2, EnforcedRow
      <4> QED
        BY <1>3, <4>1, <4>3
    <3> QED
      BY <3>1, <3>2
  <2>3. CASE Traffic \/ EnforcerApplies
    BY <1>3, <2>3 DEF Traffic, EnforcerApplies, UserInv, UserTypeOK, Rows
  <2>4. CASE TimePasses \/ Move \/ EnforcerReads \/ \E a \in Admins: AdminReads(a)
    BY <1>3, <2>4 DEF TimePasses, Move, EnforcerReads, AdminReads
  <2> QED
    BY <1>3, <2>1, <2>2, <2>3, <2>4 DEF UserNext, Enforce
<1>4. UserInv /\ [UserNext]_userVars =>
        [user.status = "DISABLED" /\ user'.status # "DISABLED" =>
           \E a \in Admins: edit[a].on /\ ~edit'[a].on]_userVars
  BY <1>3
<1> QED
  BY <1>1, <1>2, <1>4, PTL DEF UserSpec, DisabledByHand

-----------------------------------------------------------------------------
(***************************************************************************)
(* OnlineSessions.  Whatever was asked of the cores, and however long ago: *)
(* a snapshot that lacks a core closes nothing, and the sweeper closes a   *)
(* session before it may prune it (online-session-collector.service.ts     *)
(* 199, online-session-sweeper.service.ts 50).                             *)
(***************************************************************************)
SessionRows == [known: BOOLEAN, seen: Times, closed: Times \cup {Never}]

SessionTypeOK ==
  /\ clock \in Times /\ online \in SUBSET Devices /\ shaken \in SUBSET Devices
  /\ sessions \in [Devices -> SessionRows]
  /\ snap \in [taken: BOOLEAN, at: Times, clients: SUBSET Devices, partial: BOOLEAN]

\* What the sweeper makes of a row: an open one stays so until its timeout.
LEMMA SweptRow ==
  ASSUME NEW s \in SessionRows, clock \in Times
  PROVE  /\ Swept(s) \in SessionRows
         /\ s.known /\ s.closed = Never /\ ~(s.seen + Timeout < clock) => Swept(s) = s
<1>1. Never \notin Times /\ NoSession \in SessionRows
  BY SessionConstants DEF Never, Times, NoSession, SessionRows
<1> QED
  BY <1>1, SessionConstants DEF Swept, SessionRows, Times

LEMMA SessionStart == SessionInit => SessionTypeOK
  BY SessionConstants DEF SessionInit, SessionTypeOK, SessionRows, NoSession, NoSnapshot, Times

LEMMA SessionStep ==
  ASSUME SessionTypeOK, [SessionNext]_sessionVars
  PROVE  SessionTypeOK'
<1>1. CASE ClockTicks
  BY <1>1, SessionConstants DEF ClockTicks, SessionTypeOK, Times
<1>2. CASE Delete \/ InterfaceRestarts \/ \E d \in Devices: ComeOrGo(d)
  BY <1>2, SessionConstants DEF Delete, InterfaceRestarts, ComeOrGo, SessionTypeOK
<1>3. CASE Capture
  <2>1. clock \in Times /\ Listed \in SUBSET Devices
    BY DEF SessionTypeOK, Listed, Connected, Handshaken
  <2>2. snap' \in [taken: BOOLEAN, at: Times, clients: SUBSET Devices, partial: BOOLEAN]
    <3>1. /\ TRUE \in BOOLEAN /\ FALSE \in BOOLEAN
          /\ \A C \in SUBSET Listed: C \in SUBSET Devices
      BY <2>1
    <3>2. CASE snap' = [taken |-> TRUE, at |-> clock, clients |-> Listed, partial |-> FALSE]
      BY <2>1, <3>1, <3>2
    <3>3. CASE \E C \in SUBSET Listed:
                 snap' = [taken |-> TRUE, at |-> clock, clients |-> C, partial |-> TRUE]
      BY <2>1, <3>1, <3>3
    <3> QED
      BY <1>3, <3>2, <3>3 DEF Capture, Answers
  <2> QED
    BY <1>3, <2>2 DEF Capture, SessionTypeOK
<1>4. CASE Collect
  <2>1. Seen \in SessionRows /\ snap.at \in Times
    BY DEF Seen, SessionTypeOK, SessionRows
  <2>2. \A s \in SessionRows: [s EXCEPT !.closed = snap.at] \in SessionRows
    BY <2>1 DEF SessionRows
  <2>3. 0 \in Times
    BY SessionConstants DEF Times
  <2>4. sessions' \in [Devices -> SessionRows]
    BY <1>4, <2>1, <2>2 DEF Collect, SessionTypeOK
  <2>5. snap' \in [taken: BOOLEAN, at: Times, clients: SUBSET Devices, partial: BOOLEAN]
    BY <1>4, <2>3 DEF Collect, NoSnapshot
  <2> QED
    BY <1>4, <2>4, <2>5 DEF Collect, SessionTypeOK
<1>5. CASE Sweep
  BY <1>5, SweptRow DEF Sweep, SessionTypeOK
<1>6. CASE UNCHANGED sessionVars
  BY <1>6 DEF sessionVars, SessionTypeOK
<1> QED
  BY <1>1, <1>2, <1>3, <1>4, <1>5, <1>6 DEF SessionNext

\* A session is closed only by a snapshot of all cores that lacks it, or after its timeout
\* (online-session-collector.service.ts 199-211, online-session-sweeper.service.ts 50-75).
THEOREM NotClosedUnseen == SessionSpec => ClosedForCause
<1>1. SessionTypeOK /\ [SessionNext]_sessionVars =>
        [\A d \in Devices: IsOpen(d) /\ ~IsOpen(d)' =>
           \/ snap.taken /\ ~snap.partial /\ d \notin snap.clients
           \/ sessions[d].seen + Timeout < clock]_sessionVars
  <2> SUFFICES ASSUME SessionTypeOK, SessionNext, NEW d \in Devices, IsOpen(d), ~IsOpen(d)'
               PROVE  \/ snap.taken /\ ~snap.partial /\ d \notin snap.clients
                      \/ sessions[d].seen + Timeout < clock
    OBVIOUS
  <2>1. CASE Sweep
    BY <2>1, SweptRow DEF Sweep, SessionTypeOK, IsOpen
  <2>2. CASE Collect
    <3>1. CASE d \in snap.clients /\ ~deleted
      <4>1. sessions'[d] = Seen
        <5>1. sessions'[d] = CASE d \in snap.clients /\ ~deleted -> Seen
                               [] Closes(d) -> [sessions[d] EXCEPT !.closed = snap.at]
                               [] OTHER -> sessions[d]
          BY <2>2, Zenon DEF Collect
        <5> QED
          BY <3>1, <5>1 DEF Closes
      <4> QED
        BY <4>1 DEF Seen, IsOpen, Never
    <3>2. CASE ~(d \in snap.clients /\ ~deleted) /\ Closes(d)
      BY <2>2, <3>2 DEF Collect, Closes
    <3>3. CASE ~(d \in snap.clients /\ ~deleted) /\ ~Closes(d)
      BY <2>2, <3>3 DEF Collect, IsOpen
    <3> QED
      BY <3>1, <3>2, <3>3
  <2>3. CASE ClockTicks \/ Delete \/ InterfaceRestarts \/ Capture \/ \E e \in Devices: ComeOrGo(e)
    BY <2>3 DEF ClockTicks, Delete, InterfaceRestarts, Capture, ComeOrGo, IsOpen
  <2> QED
    BY <2>1, <2>2, <2>3 DEF SessionNext
<1> QED
  BY <1>1, SessionStart, SessionStep, PTL DEF SessionSpec, ClosedForCause
=============================================================================
