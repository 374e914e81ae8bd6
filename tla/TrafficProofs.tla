---------------------------- MODULE TrafficProofs ----------------------------
(***************************************************************************)
(* Every byte is charged once (TrafficAccounting), for any runs of the     *)
(* collector, any engines, and any number of restarts and resets.          *)
(*                                                                         *)
(* None is charged twice because the readings of a core have an order      *)
(* (Precedes) and the clock of the captures agrees with it for the samples *)
(* that may still be charged (Ordered): a capture waits for the lock, so   *)
(* nobody captures while another run reads with it (LastCapture).  None is *)
(* lost because what CommitTx adds is, engine by engine, what its cursor   *)
(* moves; a transaction that sees an old accounting epoch has nothing to   *)
(* charge (Epochs).  The sums are MapThenSumSet's; that they add up is     *)
(* shown on a smallest set of engines for which they would not.            *)
(***************************************************************************)
EXTENDS TrafficAccounting, FiniteSetTheorems, TLAPS

-----------------------------------------------------------------------------
(* Sums over a finite set.                                                 *)

Pick(s) == CHOOSE x \in s : TRUE
Summing(f, g, S) == g = [s \in SUBSET S |-> IF s = {} THEN 0 ELSE f[Pick(s)] + g[s \ {Pick(s)}]]

\* The sum is what the recursion in MapThenFoldSet chooses; Summing is its step.
LEMMA TotalDef == ASSUME NEW f, NEW S
  PROVE  Total(f, S) = (CHOOSE g : Summing(f, g, S))[S]
BY DEF Total, MapThenSumSet, MapThenFoldSet, Summing, Pick

LEMMA Picked == ASSUME NEW s, s # {} PROVE Pick(s) \in s
BY DEF Pick

\* Of the subsets of a finite set that are bad, one is minimal.
LEMMA LeastSubset ==
  ASSUME NEW S, IsFiniteSet(S), NEW bad \in SUBSET SUBSET S, bad # {}
  PROVE  \E s \in bad : \A t \in SUBSET s : t # s => t \notin bad
<1>1. IsWellFoundedOn(StrictSubsetOrdering(S), FiniteSubsetsOf(S))
  BY FS_StrictSubsetOrderingWellFounded
<1>2. FiniteSubsetsOf(S) = SUBSET S
  BY FS_FiniteSubsetsOfFinite
<1> DEFINE R == StrictSubsetOrdering(S)
<1>3. \E s \in bad : \A t \in bad : <<t, s>> \notin R
  <2> HIDE DEF R
  <2> QED
    BY <1>1, <1>2, WFMin DEF R
<1>4. PICK s \in bad : \A t \in bad : <<t, s>> \notin R
  BY <1>3
<1>5. ASSUME NEW t \in SUBSET s, t # s, t \in bad PROVE FALSE
  <2>1. <<t, s>> \in (SUBSET S) \X (SUBSET S) /\ <<t, s>>[1] = t /\ <<t, s>>[2] = s
    OBVIOUS
  <2>2. <<t, s>> \in R
    BY <2>1, <1>5 DEF StrictSubsetOrdering
  <2> QED
    BY <1>4, <1>5, <2>2
<1> QED
  BY <1>5

\* Two functions of the recursion agree where both are defined.
LEMMA SummingOnce ==
  ASSUME NEW f, NEW S, IsFiniteSet(S), NEW A \in SUBSET S, NEW B \in SUBSET S,
         NEW g, NEW h, Summing(f, g, A), Summing(f, h, B)
  PROVE  \A s \in SUBSET (A \cap B) : g[s] = h[s]
<1> DEFINE bad == {s \in SUBSET (A \cap B) : g[s] # h[s]}
<1> SUFFICES ASSUME bad # {} PROVE FALSE
  OBVIOUS
<1>1. PICK s \in bad : \A t \in SUBSET s : t # s => t \notin bad
  <2>1. bad \in SUBSET SUBSET S
    OBVIOUS
  <2> HIDE DEF bad
  <2> QED
    BY <2>1, LeastSubset
<1>2. /\ g[s] = IF s = {} THEN 0 ELSE f[Pick(s)] + g[s \ {Pick(s)}]
      /\ h[s] = IF s = {} THEN 0 ELSE f[Pick(s)] + h[s \ {Pick(s)}]
  BY DEF Summing
<1>3. s # {}
  BY <1>2
<1>4. s \ {Pick(s)} \in SUBSET s /\ s \ {Pick(s)} # s
  BY <1>3, Picked
<1>5. s \ {Pick(s)} \in SUBSET (A \cap B)
  BY <1>4
<1>6. g[s \ {Pick(s)}] = h[s \ {Pick(s)}]
  BY <1>1, <1>4, <1>5
<1> QED
  BY <1>2, <1>6

LEMMA SummingExists ==
  ASSUME NEW f, NEW S, IsFiniteSet(S)
  PROVE  \E g : Summing(f, g, S)
<1> DEFINE bad == {T \in SUBSET S : ~\E g : Summing(f, g, T)}
<1> SUFFICES ASSUME bad # {} PROVE FALSE
  OBVIOUS
<1>1. PICK T \in bad : \A U \in SUBSET T : U # T => U \notin bad
  <2>1. bad \in SUBSET SUBSET S
    OBVIOUS
  <2> HIDE DEF bad
  <2> QED
    BY <2>1, LeastSubset
<1> DEFINE G(U) == CHOOSE g : Summing(f, g, U)
           rest(s) == s \ {Pick(s)}
           h == [s \in SUBSET T |-> IF s = {} THEN 0 ELSE f[Pick(s)] + G(rest(s))[rest(s)]]
<1>2. \A U \in SUBSET T : U # T => Summing(f, G(U), U)
  BY <1>1
<1>3. \A s \in SUBSET T : s # {} => rest(s) \in SUBSET T /\ rest(s) # T /\ rest(s) \in SUBSET S
  BY Picked
<1> HIDE DEF G
<1>4. ASSUME NEW s \in SUBSET T, s # T PROVE h[s] = G(s)[s]
  <2>1. G(s)[s] = IF s = {} THEN 0 ELSE f[Pick(s)] + G(s)[rest(s)]
    BY <1>2, <1>4 DEF Summing
  <2>2. CASE s = {}
    BY <2>1, <2>2
  <2>3. CASE s # {}
    <3>1. /\ Summing(f, G(s), s) /\ Summing(f, G(rest(s)), rest(s))
          /\ rest(s) \in SUBSET (s \cap rest(s))
      BY <1>2, <1>3, <1>4, <2>3
    <3>2. G(s)[rest(s)] = G(rest(s))[rest(s)]
      <4> DEFINE r == rest(s)
      <4>1. s \in SUBSET S /\ r \in SUBSET S /\ r \in SUBSET (s \cap r)
        BY <1>3, <2>3
      <4> HIDE DEF r
      <4>2. Summing(f, G(s), s) /\ Summing(f, G(r), r)
        BY <3>1 DEF r
      <4> HIDE DEF bad, h
      <4>3. \A t \in SUBSET (s \cap r) : G(s)[t] = G(r)[t]
        BY <4>1, <4>2, SummingOnce
      <4>4. G(s)[r] = G(r)[r]
        BY <4>1, <4>3
      <4> QED
        BY <4>4 DEF r
    <3> QED
      BY <2>1, <2>3, <3>2
  <2> QED
    BY <2>2, <2>3
<1>5. \A s \in SUBSET T : s # {} => h[rest(s)] = G(rest(s))[rest(s)]
  BY <1>3, <1>4
<1>6. Summing(f, h, T)
  <2>1. \A s \in SUBSET T : h[s] = IF s = {} THEN 0 ELSE f[Pick(s)] + h[rest(s)]
    BY <1>5
  <2>2. h = [s \in SUBSET T |-> h[s]]
    OBVIOUS
  <2> HIDE DEF h
  <2> QED
    BY <2>1, <2>2 DEF Summing
<1> QED
  BY <1>1, <1>6

LEMMA TotalUnfolds ==
  ASSUME NEW f, NEW S, IsFiniteSet(S)
  PROVE  /\ Total(f, {}) = 0
         /\ S # {} => Total(f, S) = f[Pick(S)] + Total(f, S \ {Pick(S)})
<1> DEFINE G(T) == CHOOSE g : Summing(f, g, T)
<1>1. \A T : IsFiniteSet(T) => Summing(f, G(T), T)
  BY SummingExists
<1>2. \A T : Total(f, T) = G(T)[T]
  BY TotalDef
<1> HIDE DEF G
<1>3. Total(f, {}) = 0
  <2>1. Summing(f, G({}), {})
    BY <1>1, FS_EmptySet
  <2> QED
    BY <1>2, <2>1 DEF Summing
<1>4. ASSUME S # {} PROVE Total(f, S) = f[Pick(S)] + Total(f, S \ {Pick(S)})
  <2> DEFINE r == S \ {Pick(S)}
  <2>1. r \in SUBSET S /\ S \in SUBSET S /\ IsFiniteSet(r) /\ r \in SUBSET (S \cap r)
    BY FS_RemoveElement
  <2>2. Summing(f, G(S), S) /\ Summing(f, G(r), r)
    BY <1>1, <2>1
  <2>3. G(S)[S] = f[Pick(S)] + G(S)[r]
    BY <1>4, <2>2 DEF Summing
  <2> HIDE DEF r
  <2>4. \A t \in SUBSET (S \cap r) : G(S)[t] = G(r)[t]
    BY <2>1, <2>2, SummingOnce
  <2>5. G(S)[r] = G(r)[r]
    BY <2>1, <2>4
  <2> QED
    BY <1>2, <2>3, <2>5 DEF r
<1> QED
  BY <1>3, <1>4

\* A sum of integers is one.
LEMMA TotalType ==
  ASSUME NEW S, IsFiniteSet(S), NEW f, \A x \in S : f[x] \in Int
  PROVE  Total(f, S) \in Int
<1> DEFINE bad == {s \in SUBSET S : Total(f, s) \notin Int}
<1> SUFFICES ASSUME bad # {} PROVE FALSE
  OBVIOUS
<1>1. PICK s \in bad : \A t \in SUBSET s : t # s => t \notin bad
  <2>1. bad \in SUBSET SUBSET S
    OBVIOUS
  <2> HIDE DEF bad
  <2> QED
    BY <2>1, LeastSubset
<1>2. IsFiniteSet(s)
  BY FS_Subset
<1>3. s # {}
  <2>1. Total(f, {}) = 0
    BY <1>2, TotalUnfolds
  <2>2. Total(f, s) \notin Int
    OBVIOUS
  <2> QED
    BY <2>1, <2>2
<1>4. Total(f, s \ {Pick(s)}) \in Int /\ f[Pick(s)] \in Int
  BY <1>1, <1>3, Picked
<1> QED
  BY <1>2, <1>3, <1>4, TotalUnfolds

\* A sum of natural numbers is one.
LEMMA TotalNat ==
  ASSUME NEW S, IsFiniteSet(S), NEW f, \A x \in S : f[x] \in Nat
  PROVE  Total(f, S) \in Nat
<1> DEFINE bad == {s \in SUBSET S : Total(f, s) \notin Nat}
<1> SUFFICES ASSUME bad # {} PROVE FALSE
  OBVIOUS
<1>1. PICK s \in bad : \A t \in SUBSET s : t # s => t \notin bad
  <2>1. bad \in SUBSET SUBSET S
    OBVIOUS
  <2> HIDE DEF bad
  <2> QED
    BY <2>1, LeastSubset
<1>2. IsFiniteSet(s)
  BY FS_Subset
<1>3. s # {}
  <2>1. Total(f, {}) = 0
    BY <1>2, TotalUnfolds
  <2>2. Total(f, s) \notin Nat
    OBVIOUS
  <2> QED
    BY <2>1, <2>2
<1>4. Total(f, s \ {Pick(s)}) \in Nat /\ f[Pick(s)] \in Nat
  BY <1>1, <1>3, Picked
<1> QED
  BY <1>2, <1>3, <1>4, TotalUnfolds

\* The order does not matter.
LEMMA TotalSplits ==
  ASSUME NEW S, IsFiniteSet(S), NEW f, \A x \in S : f[x] \in Int, NEW y \in S
  PROVE  Total(f, S) = f[y] + Total(f, S \ {y})
<1> DEFINE bad == {s \in SUBSET S : \E x \in s : Total(f, s) # f[x] + Total(f, s \ {x})}
<1> SUFFICES ASSUME bad # {} PROVE FALSE
  OBVIOUS
<1>1. PICK s \in bad : \A t \in SUBSET s : t # s => t \notin bad
  <2>1. bad \in SUBSET SUBSET S
    OBVIOUS
  <2> HIDE DEF bad
  <2> QED
    BY <2>1, LeastSubset
<1>2. PICK x \in s : Total(f, s) # f[x] + Total(f, s \ {x})
  OBVIOUS
<1> DEFINE p == Pick(s)
<1>3. p \in s /\ IsFiniteSet(s) /\ Total(f, s) = f[p] + Total(f, s \ {p})
  BY <1>2, Picked, FS_Subset, TotalUnfolds
<1>4. x # p
  BY <1>2, <1>3
<1> HIDE DEF p
<1>5. s \ {x} \notin bad /\ s \ {p} \notin bad
  BY <1>1, <1>2, <1>3
<1>6. Total(f, s \ {x}) = f[p] + Total(f, (s \ {x}) \ {p})
  BY <1>3, <1>4, <1>5
<1>7. Total(f, s \ {p}) = f[x] + Total(f, (s \ {p}) \ {x})
  BY <1>2, <1>4, <1>5
<1>8. (s \ {x}) \ {p} = (s \ {p}) \ {x}
  OBVIOUS
<1>9. Total(f, (s \ {p}) \ {x}) \in Int
  <2> DEFINE t == (s \ {p}) \ {x}
  <2>1. IsFiniteSet(t) /\ \A z \in t : f[z] \in Int
    BY <1>3, FS_Subset
  <2> HIDE DEF t
  <2>2. Total(f, t) \in Int
    BY <2>1, TotalType
  <2> QED
    BY <2>2 DEF t
<1>10. f[x] \in Int /\ f[p] \in Int
  BY <1>2, <1>3
<1> QED
  BY <1>2, <1>3, <1>6, <1>7, <1>8, <1>9, <1>10

LEMMA TotalSame ==
  ASSUME NEW S, IsFiniteSet(S), NEW f, NEW g, \A x \in S : f[x] = g[x]
  PROVE  Total(f, S) = Total(g, S)
<1> DEFINE bad == {s \in SUBSET S : Total(f, s) # Total(g, s)}
<1> SUFFICES ASSUME bad # {} PROVE FALSE
  OBVIOUS
<1>1. PICK s \in bad : \A t \in SUBSET s : t # s => t \notin bad
  <2>1. bad \in SUBSET SUBSET S
    OBVIOUS
  <2> HIDE DEF bad
  <2> QED
    BY <2>1, LeastSubset
<1>2. IsFiniteSet(s) /\ Total(f, s) # Total(g, s)
  BY FS_Subset
<1>3. s # {}
  <2>1. Total(f, {}) = 0 /\ Total(g, {}) = 0
    BY <1>2, TotalUnfolds
  <2> QED
    BY <1>2, <2>1
<1>4. Total(f, s \ {Pick(s)}) = Total(g, s \ {Pick(s)}) /\ f[Pick(s)] = g[Pick(s)]
  BY <1>1, <1>3, Picked
<1> QED
  BY <1>2, <1>3, <1>4, TotalUnfolds

\* A sum of sums.
LEMMA TotalAdds ==
  ASSUME NEW S, IsFiniteSet(S), NEW f, NEW g, NEW h,
         \A x \in S : f[x] \in Int /\ g[x] \in Int /\ h[x] = f[x] + g[x]
  PROVE  Total(h, S) = Total(f, S) + Total(g, S)
<1> DEFINE bad == {s \in SUBSET S : Total(h, s) # Total(f, s) + Total(g, s)}
<1> SUFFICES ASSUME bad # {} PROVE FALSE
  OBVIOUS
<1>1. PICK s \in bad : \A t \in SUBSET s : t # s => t \notin bad
  <2>1. bad \in SUBSET SUBSET S
    OBVIOUS
  <2> HIDE DEF bad
  <2> QED
    BY <2>1, LeastSubset
<1>2. IsFiniteSet(s) /\ s \in SUBSET S /\ Total(h, s) # Total(f, s) + Total(g, s)
  BY FS_Subset
<1>3. s # {}
  <2>1. Total(f, {}) = 0 /\ Total(g, {}) = 0 /\ Total(h, {}) = 0
    BY <1>2, TotalUnfolds
  <2>2. Total(h, {}) = Total(f, {}) + Total(g, {})
    BY <2>1
  <2> HIDE DEF bad
  <2> QED
    BY <1>2, <2>2
<1> DEFINE p == Pick(s)
           r == s \ {p}
<1>4. p \in S /\ r \in SUBSET s /\ r \in SUBSET S /\ r # s
  BY <1>2, <1>3, Picked
<1>5. Total(h, r) = Total(f, r) + Total(g, r)
  BY <1>1, <1>4
<1>6. /\ Total(f, s) = f[p] + Total(f, r)
      /\ Total(g, s) = g[p] + Total(g, r)
      /\ Total(h, s) = h[p] + Total(h, r)
  BY <1>2, <1>3, TotalUnfolds
<1>7. f[p] \in Int /\ g[p] \in Int /\ h[p] = f[p] + g[p]
  BY <1>4
<1> HIDE DEF p, r, bad
<1>8. Total(f, r) \in Int /\ Total(g, r) \in Int
  <2>1. IsFiniteSet(r) /\ (\A x \in r : f[x] \in Int) /\ (\A x \in r : g[x] \in Int)
    BY <1>4, FS_Subset
  <2> QED
    BY <2>1, TotalType
<1> QED
  BY <1>2, <1>5, <1>6, <1>7, <1>8

\* What is zero does not count.
LEMMA TotalWithin ==
  ASSUME NEW S, IsFiniteSet(S), NEW T \in SUBSET S, NEW f,
         \A x \in S : f[x] \in Int, \A x \in S \ T : f[x] = 0
  PROVE  Total(f, S) = Total(f, T)
<1> DEFINE bad == {s \in SUBSET S : Total(f, s) # Total(f, s \cap T)}
<1> SUFFICES bad = {}
  <2>1. S \cap T = T
    OBVIOUS
  <2> QED
    BY <2>1
<1> SUFFICES ASSUME bad # {} PROVE FALSE
  OBVIOUS
<1>1. PICK s \in bad : \A t \in SUBSET s : t # s => t \notin bad
  <2>1. bad \in SUBSET SUBSET S
    OBVIOUS
  <2> HIDE DEF bad
  <2> QED
    BY <2>1, LeastSubset
<1>2. IsFiniteSet(s) /\ s \in SUBSET S /\ Total(f, s) # Total(f, s \cap T)
  BY FS_Subset
<1>3. s # {}
  <2>1. {} \cap T = {}
    OBVIOUS
  <2> QED
    BY <1>2, <2>1
<1> DEFINE p == Pick(s)
           r == s \ {p}
           w == s \cap T
<1>4. p \in s /\ p \in S /\ r \in SUBSET s /\ r \in SUBSET S /\ r # s
  BY <1>2, <1>3, Picked
<1>5. Total(f, r) = Total(f, r \cap T)
  BY <1>1, <1>4
<1>6. Total(f, s) = f[p] + Total(f, r)
  BY <1>2, <1>3, TotalUnfolds
<1>7. CASE p \in T
  <2>1. p \in w /\ w \ {p} = r \cap T /\ IsFiniteSet(w) /\ \A x \in w : f[x] \in Int
    BY <1>2, <1>4, <1>7, FS_Subset
  <2> HIDE DEF w
  <2>2. Total(f, w) = f[p] + Total(f, w \ {p})
    BY <2>1, TotalSplits
  <2> QED
    BY <1>2, <1>5, <1>6, <2>1, <2>2 DEF w
<1>8. CASE p \notin T
  <2>1. r \cap T = w /\ f[p] = 0
    BY <1>4, <1>8
  <2>2. Total(f, r) \in Int
    <3>1. IsFiniteSet(r) /\ \A x \in r : f[x] \in Int
      BY <1>2, <1>4, FS_Subset
    <3> HIDE DEF r
    <3> QED
      BY <3>1, TotalType
  <2>3. Total(f, r) = Total(f, w)
    BY <1>5, <2>1
  <2> HIDE DEF bad, p, r, w
  <2>4. Total(f, s) = Total(f, w)
    BY <1>6, <2>1, <2>2, <2>3
  <2> QED
    BY <1>2, <2>4 DEF w
<1> QED
  BY <1>7, <1>8

-----------------------------------------------------------------------------
(* The invariant.                                                          *)

TrafficTypeOK ==
  /\ carried \in [Engines -> Bytes] /\ start \in [Engines -> Bytes]
  /\ user \in Users
  /\ cursor \in [Engines -> Cursors \cup {None}]
  /\ upTo \in [Engines -> Bytes] /\ base \in [Engines -> Bytes]
  /\ clock \in Nat
  /\ place \in [Collectors -> Labels]
  /\ capturedAt \in [Collectors -> Nat]
  /\ sample \in [Collectors -> [Engines -> Samples \cup {None}]]
  /\ snap \in [Collectors -> [user: Users, cursor: [Engines -> Cursors \cup {None}]]]

(***************************************************************************)
(* A reading of a core: what it had carried, and the part of it from       *)
(* before its last start.  A later one has carried more, and either the    *)
(* core has not started since or all of the earlier one is before its      *)
(* start.                                                                  *)
(***************************************************************************)
Reading(at, counter) == [at |-> at, start |-> [d \in Dirs |-> at[d] - counter[d]]]

Proper(x) == \A d \in Dirs: 0 <= x.start[d] /\ x.start[d] <= x.at[d]

Precedes(x, y) ==
  /\ \A d \in Dirs: x.at[d] <= y.at[d]
  /\ x.start = y.start \/ \A d \in Dirs: x.at[d] <= y.start[d]

Now(e) == [at |-> carried[e], start |-> start[e]]
LastRead(e) == Reading(upTo[e], cursor[e].last)
Sampled(c, e) == Reading(sample[c][e].at, sample[c][e].counter)

\* A run whose samples may be charged: one that reads after it lost the lock is over.
Viable(c) == place[c] \in {"begin", "charge", "commit"} \/ (place[c] = "read" /\ holder = c)

Past ==
  /\ \A e \in Engines: Proper(Now(e))
  /\ \A e \in Engines: cursor[e] # None => Proper(LastRead(e)) /\ Precedes(LastRead(e), Now(e))
  /\ \A c \in Collectors, e \in Engines:
       HasSample(c, e) => Proper(Sampled(c, e)) /\ Precedes(Sampled(c, e), Now(e))

\* The clock of the captures orders the samples.
Ordered ==
  \A c \in Collectors, e \in Engines: Viable(c) /\ HasSample(c, e) =>
    /\ cursor[e] # None /\ cursor[e].observedAt < capturedAt[c] =>
         Precedes(LastRead(e), Sampled(c, e))
    /\ \A b \in Collectors: Viable(b) /\ HasSample(b, e) /\ capturedAt[b] < capturedAt[c] =>
         Precedes(Sampled(b, e), Sampled(c, e))

\* Nobody captures while another run reads with the lock.
LastCapture ==
  /\ \A c \in Collectors: capturedAt[c] <= clock
  /\ \A c \in Collectors: place[c] = "idle" => \A e \in Engines: ~HasSample(c, e)
  /\ \A b, c \in Collectors: place[b] = "read" /\ holder = b => capturedAt[c] <= capturedAt[b]

Epochs ==
  /\ \A e \in Engines: cursor[e] # None => cursor[e].epoch <= user.epoch
  /\ \A c \in Collectors: place[c] \in {"charge", "commit"} =>
       /\ snap[c].user.epoch <= user.epoch
       /\ \A e \in Engines: snap[c].cursor[e] # None =>
            snap[c].cursor[e].epoch <= snap[c].user.epoch

TrafficInv == TrafficTypeOK /\ Past /\ Ordered /\ LastCapture /\ Epochs /\ NothingLost

-----------------------------------------------------------------------------
(* Readings.                                                               *)

Readings == [at: [Dirs -> Int], start: [Dirs -> Int]]

LEMMA ReadingType ==
  ASSUME NEW at \in Bytes, NEW counter \in Bytes
  PROVE  Reading(at, counter) \in Readings
BY DEF Reading, Readings, Bytes

LEMMA PrecedesTrans ==
  ASSUME NEW x \in Readings, NEW y \in Readings, NEW z \in Readings, Proper(y),
         Precedes(x, y), Precedes(y, z)
  PROVE  Precedes(x, z)
<1>1. \A d \in Dirs : /\ x.at[d] \in Int /\ y.at[d] \in Int /\ z.at[d] \in Int
                      /\ y.start[d] \in Int /\ z.start[d] \in Int
  BY DEF Readings
<1>2. \A d \in Dirs : x.at[d] <= y.at[d] /\ y.at[d] <= z.at[d] /\ y.start[d] <= y.at[d]
  BY DEF Precedes, Proper
<1>3. \A d \in Dirs : x.at[d] <= z.at[d]
  BY <1>1, <1>2
<1>4. CASE x.start = y.start /\ y.start = z.start
  BY <1>3, <1>4 DEF Precedes
<1>5. CASE (\A d \in Dirs : x.at[d] <= y.start[d]) /\ y.start = z.start
  BY <1>3, <1>5 DEF Precedes
<1>6. CASE \A d \in Dirs : y.at[d] <= z.start[d]
  <2>1. \A d \in Dirs : x.at[d] <= z.start[d]
    BY <1>1, <1>2, <1>6
  <2> QED
    BY <1>3, <2>1 DEF Precedes
<1> QED
  BY <1>4, <1>5, <1>6 DEF Precedes

LEMMA NowType ==
  ASSUME TrafficTypeOK, NEW e \in Engines
  PROVE  Now(e) \in Readings
<1>1. carried[e] \in Bytes /\ start[e] \in Bytes
  BY DEF TrafficTypeOK
<1> QED
  BY <1>1 DEF Now, Readings, Bytes

LEMMA SampledType ==
  ASSUME TrafficTypeOK, NEW c \in Collectors, NEW e \in Engines, HasSample(c, e)
  PROVE  sample[c][e] \in Samples /\ Sampled(c, e) \in Readings
<1>1. sample[c][e] \in Samples
  BY DEF TrafficTypeOK, HasSample
<1> QED
  BY <1>1, ReadingType DEF Sampled, Samples

LEMMA LastReadType ==
  ASSUME TrafficTypeOK, NEW e \in Engines, cursor[e] # None
  PROVE  cursor[e] \in Cursors /\ LastRead(e) \in Readings
<1>1. cursor[e] \in Cursors /\ upTo[e] \in Bytes
  BY DEF TrafficTypeOK
<1> QED
  BY <1>1, ReadingType DEF LastRead, Cursors

-----------------------------------------------------------------------------
(* Types.                                                                  *)

LEMMA CounterNat ==
  ASSUME TrafficTypeOK, Past, NEW e \in Engines
  PROVE  Counter(e) \in Bytes
<1>1. carried[e] \in Bytes /\ start[e] \in Bytes /\ \A d \in Dirs : start[e][d] <= carried[e][d]
  BY DEF TrafficTypeOK, Past, Proper, Now
<1> QED
  BY <1>1 DEF Counter, Bytes

LEMMA ZeroType == Zero \in Bytes
BY DEF Zero, Bytes

\* What a run is about to write.
LEMMA WriteTypes ==
  ASSUME TrafficTypeOK, NEW c \in Collectors
  PROVE  /\ \A e \in Written(c) : /\ NewCursor(c, e) \in Cursors /\ sample[c][e] \in Samples
                                  /\ Delta(c, e) \in Bytes
         /\ IsFiniteSet(Written(c))
         /\ \A d \in Dirs : Charge(c)[d] \in Nat
<1>1. ASSUME NEW e \in Written(c)
      PROVE  /\ NewCursor(c, e) \in Cursors /\ sample[c][e] \in Samples
             /\ Delta(c, e) \in Bytes
  <2>1. e \in Engines /\ HasSample(c, e)
    BY <1>1 DEF Written
  <2>2. sample[c][e] \in Samples /\ sample[c][e].counter \in Bytes
    BY <2>1, SampledType DEF Samples
  <2>3. /\ snap[c].user.epoch \in Nat /\ capturedAt[c] \in Nat
        /\ snap[c].cursor[e] # None => snap[c].cursor[e] \in Cursors
    BY <2>1 DEF TrafficTypeOK, Users
  <2>4. Generation(c, e) \in Nat
    BY <2>3 DEF Generation, Cursors
  <2>5. NewCursor(c, e) \in Cursors
    BY <2>2, <2>3, <2>4 DEF NewCursor, Cursors
  <2>6. CASE Baseline(c, e)
    BY <2>2, <2>5, <2>6, ZeroType DEF Delta
  <2>7. CASE ~Baseline(c, e) /\ CounterReset(c, e)
    BY <2>2, <2>5, <2>7 DEF Delta, Bytes
  <2>8. CASE ~Baseline(c, e) /\ ~CounterReset(c, e)
    <3>1. snap[c].cursor[e].last \in Bytes
      BY <2>3, <2>8 DEF Baseline, Cursors
    <3>2. \A d \in Dirs : snap[c].cursor[e].last[d] <= sample[c][e].counter[d]
      BY <2>2, <2>8, <3>1 DEF CounterReset, Bytes
    <3> QED
      BY <2>2, <2>5, <2>8, <3>1, <3>2 DEF Delta, Bytes
  <2> QED
    BY <2>6, <2>7, <2>8
<1>2. IsFiniteSet(Written(c))
  BY FS_Subset, TrafficAssumption DEF Written
<1>3. ASSUME NEW d \in Dirs PROVE Charge(c)[d] \in Nat
  <2> DEFINE W == Written(c)
             w == [e \in W |-> Delta(c, e)[d]]
  <2>1. Charge(c)[d] = Total(w, W)
    BY DEF Charge
  <2>2. \A e \in W : w[e] \in Nat
    BY <1>1 DEF Bytes
  <2> HIDE DEF w
  <2>3. Total(w, W) \in Nat
    BY <1>2, <2>2, TotalNat
  <2> QED
    BY <2>1, <2>3
<1> QED
  BY <1>1, <1>2, <1>3

\* The types hold with the order of readings, which keeps counters positive.
LEMMA TypeStep ==
  ASSUME TrafficTypeOK, Past, [TrafficNext]_trafficVars
  PROVE  TrafficTypeOK'
<1> USE ZeroType
<1> DEFINE Blanks == [e \in Engines |-> None]
<1>0. Blank \in [user: Users, cursor: [Engines -> Cursors \cup {None}]]
  BY DEF Blank, Users, Zero
<1>1. ASSUME NEW e \in Engines, NEW d \in Dirs, Carry(e, d) PROVE TrafficTypeOK'
  <2>1. [carried[e] EXCEPT ![d] = @ + 1] \in Bytes
    BY DEF TrafficTypeOK, Bytes
  <2>2. carried' \in [Engines -> Bytes]
    BY <1>1, <2>1 DEF Carry, TrafficTypeOK
  <2> QED
    BY <1>1, <2>2 DEF Carry, TrafficTypeOK, dbVars, runVars, lockVars
<1>2. ASSUME NEW e \in Engines, Restart(e) PROVE TrafficTypeOK'
  BY <1>2 DEF Restart, TrafficTypeOK, dbVars, runVars, lockVars
<1>3. CASE Reset
  <2>1. user' \in Users
    BY <1>3 DEF Reset, TrafficTypeOK, Users, Zero
  <2> QED
    BY <1>3, <2>1 DEF Reset, TrafficTypeOK, coreVars, runVars, lockVars
<1>4. CASE Lose
  BY <1>4 DEF Lose, TrafficTypeOK, coreVars, dbVars
<1>5. ASSUME NEW c \in Collectors, Capture(c) PROVE TrafficTypeOK'
  BY <1>5 DEF Capture, Goto, Labels, TrafficTypeOK, coreVars, dbVars
<1>6. ASSUME NEW c \in Collectors, Forget(c), UNCHANGED <<coreVars, clock>>,
             user' \in Users, cursor' \in [Engines -> Cursors \cup {None}],
             upTo' \in [Engines -> Bytes], base' \in [Engines -> Bytes]
      PROVE  TrafficTypeOK'
  <2>1. place' \in [Collectors -> Labels] /\ capturedAt' \in [Collectors -> Nat]
    BY <1>6 DEF Forget, Goto, Labels, TrafficTypeOK
  <2>2. sample' \in [Collectors -> [Engines -> Samples \cup {None}]]
    BY <1>6 DEF Forget, TrafficTypeOK
  <2>3. snap' \in [Collectors -> [user: Users, cursor: [Engines -> Cursors \cup {None}]]]
    BY <1>0, <1>6 DEF Forget, TrafficTypeOK
  <2> QED
    BY <1>6, <2>1, <2>2, <2>3 DEF TrafficTypeOK, coreVars
<1>7. ASSUME NEW c \in Collectors, Forget(c), UNCHANGED <<coreVars, clock, dbVars>>
      PROVE  TrafficTypeOK'
  BY <1>6, <1>7 DEF TrafficTypeOK, dbVars
<1>8. ASSUME NEW c \in Collectors, Answered(c) PROVE TrafficTypeOK'
  <2>1. CASE Goto(c, "begin") /\ UNCHANGED <<capturedAt, sample, snap>>
    BY <1>8, <2>1 DEF Answered, Goto, Labels, TrafficTypeOK, coreVars, dbVars
  <2>2. CASE Return(c)
    BY <1>7, <1>8, <2>2 DEF Answered, Return
  <2> QED
    BY <1>8, <2>1, <2>2 DEF Answered
<1>9. ASSUME NEW c \in Collectors, BeginTx(c) PROVE TrafficTypeOK'
  <2>1. [user |-> user, cursor |-> cursor]
          \in [user: Users, cursor: [Engines -> Cursors \cup {None}]]
    BY DEF TrafficTypeOK
  <2>2. snap' \in [Collectors -> [user: Users, cursor: [Engines -> Cursors \cup {None}]]]
    BY <1>9, <2>1 DEF BeginTx, TrafficTypeOK
  <2> QED
    BY <1>9, <2>2 DEF BeginTx, Goto, Labels, TrafficTypeOK, coreVars, dbVars
<1>10. ASSUME NEW c \in Collectors, VerifyOwned(c) PROVE TrafficTypeOK'
  BY <1>10 DEF VerifyOwned, Goto, Labels, TrafficTypeOK, coreVars, dbVars
<1>11. ASSUME NEW c \in Collectors, Abort(c) PROVE TrafficTypeOK'
  BY <1>7, <1>11 DEF Abort, Return
<1>12. ASSUME NEW c \in Collectors, PanelDies(c) PROVE TrafficTypeOK'
  BY <1>7, <1>12 DEF PanelDies
<1>13. ASSUME NEW c \in Collectors, CommitTx(c) PROVE TrafficTypeOK'
  <2>1. user' \in Users
    <3>1. \A d \in Dirs : user.used[d] + Charge(c)[d] \in Nat
      BY WriteTypes DEF TrafficTypeOK, Users, Bytes
    <3>2. user' = [user EXCEPT !.used = [d \in Dirs |-> user.used[d] + Charge(c)[d]]]
      BY <1>13 DEF CommitTx, Write
    <3> QED
      BY <3>1, <3>2 DEF TrafficTypeOK, Users, Bytes
  <2>2. cursor' \in [Engines -> Cursors \cup {None}]
    BY <1>13, WriteTypes DEF CommitTx, Write, TrafficTypeOK
  <2>3. upTo' \in [Engines -> Bytes]
    BY <1>13, WriteTypes DEF CommitTx, Write, TrafficTypeOK, Samples
  <2>4. base' \in [Engines -> Bytes]
    BY <1>13, WriteTypes DEF CommitTx, Write, TrafficTypeOK, Samples
  <2> QED
    BY <1>6, <1>13, <2>1, <2>2, <2>3, <2>4 DEF CommitTx, Return
<1>14. ASSUME NEW c \in Collectors, NEW e \in Engines, Read(c, e) PROVE TrafficTypeOK'
  <2>1. [counter |-> Counter(e), at |-> carried[e]] \in Samples
    BY CounterNat DEF TrafficTypeOK, Samples
  <2> DEFINE s == [counter |-> Counter(e), at |-> carried[e]]
  <2> HIDE DEF s
  <2>2. sample' = [sample EXCEPT ![c][e] = s]
    BY <1>14 DEF Read, s
  <2>3. s \in Samples
    BY <2>1 DEF s
  <2>4. sample' \in [Collectors -> [Engines -> Samples \cup {None}]]
    BY <2>2, <2>3 DEF TrafficTypeOK
  <2> QED
    BY <1>14, <2>4 DEF Read, TrafficTypeOK, coreVars, dbVars, lockVars
<1>15. CASE UNCHANGED trafficVars
  BY <1>15 DEF TrafficTypeOK, trafficVars, coreVars, dbVars, runVars, lockVars
<1> QED
  BY <1>1, <1>2, <1>3, <1>4, <1>5, <1>8, <1>9, <1>10, <1>11, <1>12, <1>13, <1>14, <1>15
     DEF TrafficNext, Step

-----------------------------------------------------------------------------
(* What a step changes, and what it leaves.                                *)

\* But for a Read, a step brings no sample, and makes none chargeable.
LEMMA SamplesKept ==
  ASSUME TrafficTypeOK, LastCapture, [TrafficNext]_trafficVars,
         ~\E c \in Collectors, e \in Engines : Read(c, e),
         NEW c \in Collectors, NEW e \in Engines, HasSample(c, e)'
  PROVE  /\ HasSample(c, e) /\ sample'[c][e] = sample[c][e]
         /\ Viable(c)' => Viable(c) /\ capturedAt'[c] = capturedAt[c]
<1> USE DEF TrafficTypeOK, HasSample, Viable
<1>1. CASE UNCHANGED runVars
  BY <1>1 DEF runVars, lockVars
<1>2. CASE Lose
  BY <1>2, TrafficAssumption DEF Lose
<1>3. ASSUME NEW b \in Collectors, Capture(b)
      PROVE  /\ HasSample(c, e) /\ sample'[c][e] = sample[c][e]
             /\ Viable(c)' => Viable(c) /\ capturedAt'[c] = capturedAt[c]
  <2>1. HasSample(c, e) /\ sample'[c][e] = sample[c][e]
    BY <1>3 DEF Capture
  <2>2. b # c
    BY <1>3, <2>1 DEF Capture, LastCapture
  <2> QED
    BY <1>3, <2>1, <2>2 DEF Capture, Goto
<1>4. ASSUME NEW b \in Collectors, Forget(b), holder' = holder \/ holder' = Free
      PROVE  /\ HasSample(c, e) /\ sample'[c][e] = sample[c][e]
             /\ Viable(c)' => Viable(c) /\ capturedAt'[c] = capturedAt[c]
  <2>1. b # c
    BY <1>4 DEF Forget
  <2> QED
    BY <1>4, <2>1, TrafficAssumption DEF Forget, Goto
<1>5. ASSUME NEW b \in Collectors, Return(b)
      PROVE  /\ HasSample(c, e) /\ sample'[c][e] = sample[c][e]
             /\ Viable(c)' => Viable(c) /\ capturedAt'[c] = capturedAt[c]
  BY <1>4, <1>5 DEF Return
<1>6. ASSUME NEW b \in Collectors, Answered(b)
      PROVE  /\ HasSample(c, e) /\ sample'[c][e] = sample[c][e]
             /\ Viable(c)' => Viable(c) /\ capturedAt'[c] = capturedAt[c]
  <2>1. CASE holder = b /\ Goto(b, "begin") /\ UNCHANGED <<holder, capturedAt, sample, snap>>
    BY <1>6, <2>1 DEF Answered, Goto
  <2> QED
    BY <1>5, <1>6, <2>1 DEF Answered
<1>7. ASSUME NEW b \in Collectors, BeginTx(b)
      PROVE  /\ HasSample(c, e) /\ sample'[c][e] = sample[c][e]
             /\ Viable(c)' => Viable(c) /\ capturedAt'[c] = capturedAt[c]
  BY <1>7 DEF BeginTx, Goto, lockVars
<1>8. ASSUME NEW b \in Collectors, VerifyOwned(b)
      PROVE  /\ HasSample(c, e) /\ sample'[c][e] = sample[c][e]
             /\ Viable(c)' => Viable(c) /\ capturedAt'[c] = capturedAt[c]
  BY <1>8 DEF VerifyOwned, Goto, lockVars
<1> QED
  BY <1>1, <1>2, <1>3, <1>4, <1>5, <1>6, <1>7, <1>8
     DEF TrafficNext, Step, Carry, Restart, Reset, CommitTx, Abort, PanelDies, trafficVars, lockVars

\* Only CommitTx writes cursors.
LEMMA CursorsKept ==
  ASSUME [TrafficNext]_trafficVars, ~\E c \in Collectors : CommitTx(c)
  PROVE  UNCHANGED <<cursor, deltas, upTo, base>> /\ (UNCHANGED user \/ Reset)
BY DEF TrafficNext, Step, Carry, Restart, Reset, Lose, Capture, Read, Answered, BeginTx,
       VerifyOwned, Abort, PanelDies, trafficVars, dbVars

LEMMA CoresKept ==
  ASSUME [TrafficNext]_trafficVars
  PROVE  \/ UNCHANGED coreVars
         \/ \E e \in Engines : Restart(e) \/ \E d \in Dirs : Carry(e, d)
BY DEF TrafficNext, Step, Reset, Lose, Capture, Read, Answered, BeginTx, VerifyOwned, CommitTx,
       Abort, PanelDies, trafficVars

\* What a core carries now is what it carried before, and perhaps more.
LEMMA Later ==
  ASSUME TrafficTypeOK, Past, [TrafficNext]_trafficVars, NEW e \in Engines
  PROVE  Proper(Now(e))' /\ Precedes(Now(e), [at |-> carried'[e], start |-> start'[e]])
<1>1. /\ carried[e] \in [Dirs -> Nat] /\ start[e] \in [Dirs -> Nat]
      /\ \A d \in Dirs : 0 <= start[e][d] /\ start[e][d] <= carried[e][d]
  BY DEF TrafficTypeOK, Past, Bytes, Proper, Now
<1>2. CASE UNCHANGED coreVars
  BY <1>1, <1>2 DEF coreVars, Proper, Precedes, Now
<1>3. ASSUME NEW f \in Engines, Restart(f)
      PROVE  Proper(Now(e))' /\ Precedes(Now(e), [at |-> carried'[e], start |-> start'[e]])
  <2>1. carried'[e] = carried[e] /\ (start'[e] = start[e] \/ start'[e] = carried[e])
    BY <1>3 DEF Restart, TrafficTypeOK
  <2> QED
    BY <1>1, <2>1 DEF Proper, Precedes, Now
<1>4. ASSUME NEW f \in Engines, NEW b \in Dirs, Carry(f, b)
      PROVE  Proper(Now(e))' /\ Precedes(Now(e), [at |-> carried'[e], start |-> start'[e]])
  <2>1. start'[e] = start[e]
    BY <1>4 DEF Carry
  <2>2. \A d \in Dirs : carried'[e][d] \in Nat /\ carried[e][d] <= carried'[e][d]
    BY <1>1, <1>4 DEF Carry, TrafficTypeOK, Bytes
  <2> QED
    BY <1>1, <2>1, <2>2 DEF Proper, Precedes, Now
<1> QED
  BY <1>2, <1>3, <1>4, CoresKept

\* A sample is a reading of the core as it is.
LEMMA Fresh ==
  ASSUME TrafficTypeOK, NEW c \in Collectors, NEW e \in Engines, Read(c, e)
  PROVE  /\ sample'[c][e] = [counter |-> Counter(e), at |-> carried[e]]
         /\ Sampled(c, e)' = Now(e)
<1> DEFINE s == [counter |-> Counter(e), at |-> carried[e]]
<1>1. s.counter = Counter(e) /\ s.at = carried[e]
  OBVIOUS
<1>2. carried[e] \in [Dirs -> Nat] /\ start[e] \in [Dirs -> Nat]
  BY DEF TrafficTypeOK, Bytes
<1>3. Reading(carried[e], Counter(e)) = Now(e)
  <2>1. \A d \in Dirs : carried[e][d] - Counter(e)[d] = start[e][d]
    BY <1>2 DEF Counter
  <2>2. start[e] = [d \in Dirs |-> carried[e][d] - Counter(e)[d]]
    BY <1>2, <2>1
  <2> QED
    BY <2>2 DEF Reading, Now
<1> HIDE DEF s
<1>4. sample' = [sample EXCEPT ![c][e] = s]
  BY DEF Read, s
<1>5. sample'[c][e] = s
  BY <1>4 DEF TrafficTypeOK
<1> QED
  BY <1>1, <1>3, <1>5 DEF Sampled, s

LEMMA OthersKept ==
  ASSUME TrafficTypeOK, NEW c \in Collectors, NEW e \in Engines, Read(c, e),
         NEW b \in Collectors, NEW f \in Engines, b # c \/ f # e
  PROVE  sample'[b][f] = sample[b][f]
<1> DEFINE s == [counter |-> Counter(e), at |-> carried[e]]
<1> HIDE DEF s
<1>1. sample' = [sample EXCEPT ![c][e] = s]
  BY DEF Read, s
<1> QED
  BY <1>1 DEF TrafficTypeOK

-----------------------------------------------------------------------------
(* The steps.                                                              *)

\* CommitTx makes the samples it charges the last ones read.
LEMMA Committed ==
  ASSUME TrafficTypeOK, NEW c \in Collectors, CommitTx(c), NEW e \in Engines
  PROVE  /\ e \in Written(c) => /\ LastRead(e)' = Sampled(c, e)
                                /\ cursor'[e].observedAt = capturedAt[c]
                                /\ cursor'[e].epoch = snap[c].user.epoch
                                /\ cursor[e] = snap[c].cursor[e]
                                /\ HasSample(c, e) /\ Viable(c)
                                /\ cursor[e] # None => cursor[e].observedAt < capturedAt[c]
         /\ e \notin Written(c) => /\ LastRead(e)' = LastRead(e) /\ cursor'[e] = cursor[e]
                                   /\ base'[e] = base[e] /\ upTo'[e] = upTo[e]
<1>1. /\ cursor'[e] = IF e \in Written(c) THEN NewCursor(c, e) ELSE cursor[e]
      /\ upTo'[e] = IF e \in Written(c) THEN sample[c][e].at ELSE upTo[e]
      /\ e \notin Written(c) => base'[e] = base[e]
  BY DEF CommitTx, Write
<1>2. CASE e \in Written(c)
  <2>1. cursor[e] = snap[c].cursor[e] /\ HasSample(c, e) /\ Viable(c)
    BY <1>2 DEF CommitTx, Conflict, Written, Viable
  <2>2. cursor[e] # None => cursor[e].observedAt < capturedAt[c]
    <3>1. cursor[e] # None => cursor[e].observedAt \in Nat
      BY DEF TrafficTypeOK, Cursors
    <3> QED
      BY <1>2, <2>1, <3>1 DEF Written, Stale, TrafficTypeOK
  <2>3. /\ cursor'[e].last = sample[c][e].counter /\ cursor'[e].observedAt = capturedAt[c]
        /\ cursor'[e].epoch = snap[c].user.epoch
    BY <1>1, <1>2 DEF NewCursor
  <2> QED
    BY <1>1, <1>2, <2>1, <2>2, <2>3 DEF LastRead, Sampled
<1>3. CASE e \notin Written(c)
  BY <1>1, <1>3 DEF LastRead
<1> QED
  BY <1>2, <1>3

\* A reading is one of the past, whatever happens.
LEMMA PastStep ==
  ASSUME TrafficTypeOK, Past, LastCapture, [TrafficNext]_trafficVars, TrafficTypeOK'
  PROVE  Past'
<1> DEFINE now(e) == [at |-> carried'[e], start |-> start'[e]]
<1>1. \A e \in Engines : Proper(Now(e))' /\ Precedes(Now(e), now(e)) /\ now(e) \in Readings
  <2>1. ASSUME NEW e \in Engines PROVE now(e) \in Readings
    BY DEF TrafficTypeOK, Readings, Bytes
  <2> QED
    BY <2>1, Later
<1> HIDE DEF now
<1>2. \A e \in Engines, x \in Readings : Precedes(x, Now(e)) => Precedes(x, now(e))
  BY <1>1, NowType, PrecedesTrans DEF Past
<1>3. \A c \in Collectors, e \in Engines : HasSample(c, e) =>
        Proper(Sampled(c, e)) /\ Precedes(Sampled(c, e), now(e))
  BY <1>2, SampledType DEF Past
<1>4. ASSUME NEW e \in Engines, cursor'[e] # None
      PROVE  Proper(LastRead(e))' /\ Precedes(LastRead(e)', now(e))
  <2>1. CASE LastRead(e)' = LastRead(e) /\ cursor[e] # None
    <3>1. Proper(LastRead(e)) /\ Precedes(LastRead(e), now(e))
      BY <1>2, <2>1, LastReadType DEF Past
    <3> QED
      BY <2>1, <3>1 DEF Proper
  <2>2. ASSUME NEW c \in Collectors, CommitTx(c)
        PROVE  Proper(LastRead(e))' /\ Precedes(LastRead(e)', now(e))
    <3>1. CASE e \in Written(c)
      <4>1. LastRead(e)' = Sampled(c, e) /\ HasSample(c, e)
        BY <2>2, <3>1, Committed
      <4>2. Proper(Sampled(c, e)) /\ Precedes(Sampled(c, e), now(e))
        BY <1>3, <4>1
      <4> QED
        BY <4>1, <4>2 DEF Proper
    <3>2. CASE e \notin Written(c)
      BY <1>4, <2>1, <2>2, <3>2, Committed
    <3> QED
      BY <3>1, <3>2
  <2>3. CASE UNCHANGED <<cursor, upTo>>
    BY <1>4, <2>1, <2>3 DEF LastRead
  <2> QED
    BY <2>2, <2>3, CursorsKept
<1>5. ASSUME NEW c \in Collectors, NEW e \in Engines, HasSample(c, e)'
      PROVE  Proper(Sampled(c, e))' /\ Precedes(Sampled(c, e)', now(e))
  <2>1. CASE HasSample(c, e) /\ sample'[c][e] = sample[c][e]
    <3>1. Sampled(c, e)' = Sampled(c, e)
      BY <2>1 DEF Sampled
    <3>2. Proper(Sampled(c, e)) /\ Precedes(Sampled(c, e), now(e))
      BY <1>3, <2>1
    <3> QED
      BY <3>1, <3>2 DEF Proper
  <2>2. ASSUME NEW b \in Collectors, NEW f \in Engines, Read(b, f)
        PROVE  Proper(Sampled(c, e))' /\ Precedes(Sampled(c, e)', now(e))
    <3>1. CASE b = c /\ f = e
      <4>1. Sampled(c, e)' = Now(e)
        BY <2>2, <3>1, Fresh
      <4>2. Proper(Now(e)) /\ Precedes(Now(e), now(e))
        BY <1>1 DEF Past
      <4> QED
        BY <4>1, <4>2 DEF Proper
    <3>2. CASE b # c \/ f # e
      <4>1. sample'[c][e] = sample[c][e]
        BY <2>2, <3>2, OthersKept
      <4> QED
        BY <1>5, <2>1, <4>1 DEF HasSample
    <3> QED
      BY <3>1, <3>2
  <2> QED
    BY <1>5, <2>1, <2>2, SamplesKept
<1> QED
  BY <1>1, <1>4, <1>5 DEF Past, now, Now

\* Samples that may be charged are in the order of their captures.
LEMMA OrderedStep ==
  ASSUME TrafficTypeOK, Past, Ordered, LastCapture, [TrafficNext]_trafficVars
  PROVE  Ordered'
<1> SUFFICES ASSUME NEW c \in Collectors, NEW e \in Engines, Viable(c)', HasSample(c, e)'
             PROVE  /\ cursor'[e] # None /\ cursor'[e].observedAt < capturedAt'[c] =>
                         Precedes(LastRead(e)', Sampled(c, e)')
                    /\ \A b \in Collectors :
                         Viable(b)' /\ HasSample(b, e)' /\ capturedAt'[b] < capturedAt'[c] =>
                           Precedes(Sampled(b, e)', Sampled(c, e)')
  BY DEF Ordered, Precedes
<1>1. ASSUME NEW r \in Collectors, NEW f \in Engines, Read(r, f)
      PROVE  /\ cursor'[e] # None /\ cursor'[e].observedAt < capturedAt'[c] =>
                         Precedes(LastRead(e)', Sampled(c, e)')
             /\ \A b \in Collectors :
                         Viable(b)' /\ HasSample(b, e)' /\ capturedAt'[b] < capturedAt'[c] =>
                           Precedes(Sampled(b, e)', Sampled(c, e)')
  <2>1. /\ UNCHANGED <<cursor, upTo, capturedAt, holder, place>> /\ LastRead(e)' = LastRead(e)
        /\ \A b \in Collectors : Viable(b)' = Viable(b)
    BY <1>1 DEF Read, dbVars, lockVars, LastRead, Viable
  <2>2. \A b \in Collectors : b # r \/ e # f =>
          /\ sample'[b][e] = sample[b][e] /\ HasSample(b, e)' = HasSample(b, e)
          /\ Sampled(b, e)' = Sampled(b, e)
    BY <1>1, OthersKept DEF HasSample, Sampled
  <2>3. \A b \in Collectors : HasSample(b, e) => Precedes(Sampled(b, e), Now(e))
    BY DEF Past
  <2>4. CASE c = r /\ e = f
    <3>1. Sampled(c, e)' = Now(e)
      BY <1>1, <2>4, Fresh
    <3>2. cursor[e] # None => Precedes(LastRead(e), Now(e))
      BY DEF Past
    <3>3. \A b \in Collectors : HasSample(b, e)' /\ capturedAt'[b] < capturedAt'[c] =>
            Precedes(Sampled(b, e)', Sampled(c, e)')
      <4>1. \A b \in Collectors : capturedAt'[b] < capturedAt'[c] => b # c
        BY <2>1 DEF TrafficTypeOK
      <4> QED
        BY <2>2, <2>3, <2>4, <3>1, <4>1
    <3> QED
      BY <2>1, <3>1, <3>2, <3>3
  <2>5. CASE c # r \/ e # f
    <3>1. HasSample(c, e) /\ Sampled(c, e)' = Sampled(c, e) /\ Viable(c)
      BY <2>1, <2>2, <2>5
    <3>2. ASSUME NEW b \in Collectors, Viable(b)', HasSample(b, e)', capturedAt'[b] < capturedAt'[c]
          PROVE  b # r \/ e # f
      <4>1. ASSUME b = r PROVE FALSE
        <5>1. place[r] = "read" /\ Viable(r)
          BY <1>1, <2>1, <3>2, <4>1 DEF Read
        <5>2. place[r] = "read" /\ holder = r
          BY <5>1 DEF Viable
        <5>3. capturedAt[c] <= capturedAt[r]
          BY <5>2 DEF LastCapture
        <5> QED
          BY <2>1, <3>2, <4>1, <5>3 DEF TrafficTypeOK
      <4> QED
        BY <4>1
    <3>3. cursor'[e] # None /\ cursor'[e].observedAt < capturedAt'[c] =>
             Precedes(LastRead(e)', Sampled(c, e)')
      BY <2>1, <3>1 DEF Ordered
    <3>4. ASSUME NEW b \in Collectors, Viable(b)', HasSample(b, e)', capturedAt'[b] < capturedAt'[c]
          PROVE  Precedes(Sampled(b, e)', Sampled(c, e)')
      <4>1. HasSample(b, e) /\ Sampled(b, e)' = Sampled(b, e) /\ Viable(b)
        BY <2>1, <2>2, <3>2, <3>4
      <4>2. Precedes(Sampled(b, e), Sampled(c, e))
        BY <2>1, <3>1, <3>4, <4>1 DEF Ordered
      <4> QED
        BY <3>1, <4>1, <4>2
    <3> QED
      BY <3>3, <3>4
  <2> QED
    BY <2>4, <2>5
<1>2. CASE ~\E r \in Collectors, f \in Engines : Read(r, f)
  <2>1. \A b \in Collectors : Viable(b)' /\ HasSample(b, e)' =>
          /\ Viable(b) /\ HasSample(b, e) /\ capturedAt'[b] = capturedAt[b]
          /\ Sampled(b, e)' = Sampled(b, e)
    BY <1>2, SamplesKept DEF Sampled
  <2>2. ASSUME NEW b \in Collectors, Viable(b)', HasSample(b, e)', capturedAt'[b] < capturedAt'[c]
        PROVE  Precedes(Sampled(b, e)', Sampled(c, e)')
    <3>1. Precedes(Sampled(b, e), Sampled(c, e))
      BY <2>1, <2>2 DEF Ordered
    <3> QED
      BY <2>1, <2>2, <3>1
  <2>3. ASSUME cursor'[e] # None, cursor'[e].observedAt < capturedAt'[c]
        PROVE  Precedes(LastRead(e)', Sampled(c, e)')
    <3>1. CASE cursor'[e] = cursor[e] /\ LastRead(e)' = LastRead(e)
      <4>1. Precedes(LastRead(e), Sampled(c, e))
        BY <2>1, <2>3, <3>1 DEF Ordered
      <4> QED
        BY <2>1, <3>1, <4>1
    <3>2. ASSUME NEW b \in Collectors, CommitTx(b), e \in Written(b)
          PROVE  Precedes(LastRead(e)', Sampled(c, e)')
      <4>1. /\ LastRead(e)' = Sampled(b, e) /\ cursor'[e].observedAt = capturedAt[b]
            /\ HasSample(b, e) /\ Viable(b)
        BY <3>2, Committed
      <4>2. Precedes(Sampled(b, e), Sampled(c, e))
        BY <2>1, <2>3, <4>1 DEF Ordered
      <4> QED
        BY <2>1, <4>1, <4>2
    <3>3. CASE \E b \in Collectors : CommitTx(b)
      BY <3>1, <3>2, <3>3, Committed
    <3>4. CASE UNCHANGED <<cursor, upTo>>
      BY <3>1, <3>4 DEF LastRead
    <3> QED
      BY <3>3, <3>4, CursorsKept
  <2> QED
    BY <2>2, <2>3
<1> QED
  BY <1>1, <1>2

\* The run that reads with the lock was the last to capture.
LEMMA LastCaptureStep ==
  ASSUME TrafficTypeOK, LastCapture, [TrafficNext]_trafficVars
  PROVE  LastCapture'
<1> USE DEF TrafficTypeOK, HasSample, LastCapture
<1>1. CASE UNCHANGED runVars
  BY <1>1 DEF runVars, lockVars
<1>2. CASE Lose
  BY <1>2, TrafficAssumption DEF Lose
<1>3. ASSUME NEW b \in Collectors, Capture(b) PROVE LastCapture'
  <2>1. PICK t \in {clock, clock + 1} : capturedAt' = [capturedAt EXCEPT ![b] = t]
    BY <1>3 DEF Capture
  <2>2. \A c \in Collectors : capturedAt'[c] <= t /\ t <= clock' /\ capturedAt'[b] = t
    BY <1>3, <2>1 DEF Capture
  <2>3. \A c \in Collectors : capturedAt'[c] <= clock'
    BY <1>3, <2>1 DEF Capture
  <2>4. \A c \in Collectors : place'[c] = "idle" => \A e \in Engines: ~HasSample(c, e)'
    BY <1>3 DEF Capture, Goto
  <2>5. \A c \in Collectors : holder' = c => c = b
    BY <1>3 DEF Capture
  <2> QED
    BY <2>2, <2>3, <2>4, <2>5
<1>4. ASSUME NEW b \in Collectors, Forget(b), UNCHANGED clock, holder' = holder \/ holder' = Free
      PROVE  LastCapture'
  <2>1. \A c \in Collectors : capturedAt'[c] <= capturedAt[c] /\ capturedAt'[c] \in Nat
    BY <1>4 DEF Forget
  <2>2. \A c \in Collectors : /\ c # b => place'[c] = place[c] /\ sample'[c] = sample[c]
                                           /\ capturedAt'[c] = capturedAt[c]
                              /\ c = b => /\ place'[c] = "idle"
                                          /\ \A e \in Engines : sample'[c][e] = None
    BY <1>4 DEF Forget, Goto
  <2>3. \A c \in Collectors : place'[c] = "idle" => \A e \in Engines: ~HasSample(c, e)'
    BY <2>2
  <2>4. \A c \in Collectors : capturedAt'[c] <= clock'
    BY <1>4, <2>1
  <2>5. ASSUME NEW c \in Collectors, place'[c] = "read", holder' = c, NEW a \in Collectors
        PROVE  capturedAt'[a] <= capturedAt'[c]
    <3>1. c # b /\ holder = c /\ place[c] = "read" /\ capturedAt'[c] = capturedAt[c]
      BY <1>4, <2>2, <2>5, TrafficAssumption
    <3>2. capturedAt[a] <= capturedAt[c]
      BY <3>1
    <3> QED
      BY <2>1, <3>1, <3>2
  <2> QED
    BY <2>3, <2>4, <2>5
<1>5. ASSUME NEW b \in Collectors, Return(b), UNCHANGED clock PROVE LastCapture'
  BY <1>4, <1>5 DEF Return
<1>6. ASSUME NEW b \in Collectors, UNCHANGED <<capturedAt, clock, holder, sample>>,
             Goto(b, "begin") \/ Goto(b, "charge") \/ Goto(b, "commit")
      PROVE  LastCapture'
  BY <1>6 DEF Goto
<1>7. ASSUME NEW b \in Collectors, Answered(b) PROVE LastCapture'
  BY <1>5, <1>6, <1>7 DEF Answered
<1>8. ASSUME NEW b \in Collectors, NEW f \in Engines, Read(b, f) PROVE LastCapture'
  <2>1. \A c \in Collectors : place[c] = "idle" => c # b
    BY <1>8 DEF Read
  <2>2. \A c \in Collectors, e \in Engines : c # b => sample'[c][e] = sample[c][e]
    BY <1>8, OthersKept
  <2>3. UNCHANGED <<capturedAt, clock, holder, place>>
    BY <1>8 DEF Read, lockVars
  <2> QED
    BY <2>1, <2>2, <2>3
<1> QED
  BY <1>1, <1>2, <1>3, <1>4, <1>5, <1>6, <1>7, <1>8
     DEF TrafficNext, Step, Carry, Restart, Reset, BeginTx, VerifyOwned, CommitTx, Abort, PanelDies,
         trafficVars, lockVars

\* No cursor and no transaction is ahead of the accounting epoch.
LEMMA EpochsStep ==
  ASSUME TrafficTypeOK, Epochs, [TrafficNext]_trafficVars
  PROVE  Epochs'
<1> USE DEF TrafficTypeOK, Epochs, Users, Cursors
<1>0. \A e \in Engines : cursor[e] # None => cursor[e].epoch \in Nat
  OBVIOUS
<1>1. user'.epoch \in Nat /\ user.epoch <= user'.epoch
  <2>1. CASE \E c \in Collectors : CommitTx(c)
    BY <2>1 DEF CommitTx, Write
  <2>2. CASE Reset
    BY <2>2 DEF Reset
  <2>3. CASE UNCHANGED user
    BY <2>3
  <2> QED
    BY <2>1, <2>2, <2>3, CursorsKept
<1>2. \A e \in Engines : cursor'[e] # None => cursor'[e].epoch <= user'.epoch
  <2>1. ASSUME NEW c \in Collectors, CommitTx(c), NEW e \in Engines, cursor'[e] # None
        PROVE  cursor'[e].epoch <= user'.epoch
    <3>1. snap[c].user.epoch \in Nat /\ snap[c].user.epoch <= user.epoch
      BY <2>1 DEF CommitTx
    <3>2. e \in Written(c) => cursor'[e].epoch = snap[c].user.epoch
      BY <2>1, Committed
    <3>3. e \notin Written(c) => cursor'[e] = cursor[e]
      BY <2>1, Committed
    <3> QED
      BY <1>0, <1>1, <2>1, <3>1, <3>2, <3>3
  <2>2. CASE UNCHANGED cursor
    BY <1>0, <1>1, <2>2
  <2> QED
    BY <2>1, <2>2, CursorsKept
<1>3. ASSUME NEW c \in Collectors, place'[c] \in {"charge", "commit"}
      PROVE  /\ snap'[c].user.epoch <= user'.epoch
             /\ \A e \in Engines: snap'[c].cursor[e] # None =>
                  snap'[c].cursor[e].epoch <= snap'[c].user.epoch
  <2>1. CASE place[c] \in {"charge", "commit"} /\ snap'[c] = snap[c]
    <3>1. snap[c].user.epoch \in Nat /\ snap[c].user.epoch <= user.epoch
      BY <2>1
    <3> QED
      BY <1>1, <2>1, <3>1
  <2>2. CASE UNCHANGED <<place, snap>>
    BY <1>3, <2>1, <2>2
  <2>3. ASSUME NEW b \in Collectors, BeginTx(b)
        PROVE  \/ place[c] \in {"charge", "commit"} /\ snap'[c] = snap[c]
               \/ snap'[c] = [user |-> user, cursor |-> cursor]
    BY <1>3, <2>3 DEF BeginTx, Goto
  <2>4. CASE snap'[c] = [user |-> user, cursor |-> cursor]
    BY <1>0, <1>1, <2>4
  <2>5. ASSUME NEW b \in Collectors, Forget(b)
        PROVE  place[c] \in {"charge", "commit"} /\ snap'[c] = snap[c]
    BY <1>3, <2>5 DEF Forget, Goto
  <2>6. ASSUME NEW b \in Collectors,
               Capture(b) \/ VerifyOwned(b) \/ (Goto(b, "begin") /\ UNCHANGED snap)
        PROVE  place[c] \in {"charge", "commit"} /\ snap'[c] = snap[c]
    BY <1>3, <2>6 DEF Capture, VerifyOwned, Goto
  <2> QED
    BY <2>1, <2>2, <2>3, <2>4, <2>5, <2>6
       DEF TrafficNext, Step, Carry, Restart, Reset, Lose, Read, Answered, CommitTx, Abort,
           PanelDies, Return, trafficVars, runVars
<1> QED
  BY <1>2, <1>3

-----------------------------------------------------------------------------
(* No byte twice.                                                          *)

LEMMA LastReadBytes ==
  ASSUME TrafficTypeOK, NEW e \in Engines, cursor[e] # None, NEW d \in Dirs
  PROVE  /\ cursor[e].last[d] \in Nat /\ upTo[e][d] \in Nat
         /\ LastRead(e).at[d] = upTo[e][d] /\ LastRead(e).start[d] = upTo[e][d] - cursor[e].last[d]
BY LastReadType DEF TrafficTypeOK, LastRead, Reading, Cursors, Bytes

LEMMA SampledBytes ==
  ASSUME TrafficTypeOK, NEW c \in Collectors, NEW e \in Engines,
         HasSample(c, e), NEW d \in Dirs
  PROVE  /\ sample[c][e].at[d] \in Nat /\ sample[c][e].counter[d] \in Nat
         /\ Sampled(c, e).at[d] = sample[c][e].at[d]
         /\ Sampled(c, e).start[d] = sample[c][e].at[d] - sample[c][e].counter[d]
BY SampledType DEF Sampled, Reading, Samples, Bytes

\* What CommitTx charges is no more than was carried since the last reading.
LEMMA NotTwice ==
  ASSUME TrafficTypeOK, Past, Ordered, [TrafficNext]_trafficVars
  PROVE  NothingTwice
<1>1. ASSUME NEW c \in Collectors, CommitTx(c), NEW e \in Written(c), Delta(c, e) # Zero,
             NEW d \in Dirs
      PROVE  Delta(c, e)[d] <= upTo'[e][d] - upTo[e][d]
  <2>1. e \in Engines /\ HasSample(c, e) /\ Viable(c) /\ cursor[e] = snap[c].cursor[e]
    BY <1>1, Committed DEF Written
  <2>2. ~Baseline(c, e) /\ cursor[e] # None /\ cursor[e].observedAt < capturedAt[c]
    BY <1>1, <2>1, Committed DEF Delta, Baseline
  <2>3. upTo'[e] = sample[c][e].at
    BY <1>1, <2>1 DEF CommitTx, Write
  <2> DEFINE last(b) == cursor[e].last[b]
             counter(b) == sample[c][e].counter[b]
             before(b) == upTo[e][b]
             at(b) == sample[c][e].at[b]
  <2>4. \A b \in Dirs :
          /\ last(b) \in Nat /\ counter(b) \in Nat /\ before(b) \in Nat /\ at(b) \in Nat
          /\ LastRead(e).at[b] = before(b) /\ LastRead(e).start[b] = before(b) - last(b)
          /\ Sampled(c, e).at[b] = at(b) /\ Sampled(c, e).start[b] = at(b) - counter(b)
    BY <2>1, <2>2, LastReadBytes, SampledBytes
  <2>5. Precedes(LastRead(e), Sampled(c, e))
    BY <2>1, <2>2 DEF Ordered
  <2>6. \A b \in Dirs : before(b) <= at(b)
    BY <2>4, <2>5 DEF Precedes
  <2>7. \/ \A b \in Dirs : before(b) - last(b) = at(b) - counter(b)
        \/ \A b \in Dirs : before(b) <= at(b) - counter(b)
    BY <2>4, <2>5 DEF Precedes
  <2>8. Delta(c, e)[d] = IF CounterReset(c, e) THEN counter(d) ELSE counter(d) - last(d)
    BY <2>1, <2>2 DEF Delta
  <2>9. CounterReset(c, e) => \E b \in Dirs : counter(b) < last(b)
    BY <2>1 DEF CounterReset
  <2> HIDE DEF last, counter, before, at
  <2>10. CASE \A b \in Dirs : before(b) - last(b) = at(b) - counter(b)
    <3>1. \A b \in Dirs : counter(b) - last(b) = at(b) - before(b)
      BY <2>4, <2>10
    <3>2. ~CounterReset(c, e)
      BY <2>4, <2>6, <2>9, <3>1
    <3>3. Delta(c, e)[d] = at(d) - before(d)
      BY <2>8, <3>1, <3>2
    <3> QED
      BY <2>3, <2>4, <3>3 DEF at, before
  <2>11. CASE \A b \in Dirs : before(b) <= at(b) - counter(b)
    <3>1. Delta(c, e)[d] <= counter(d) /\ Delta(c, e)[d] \in Int
      BY <2>4, <2>8
    <3>2. Delta(c, e)[d] <= at(d) - before(d)
      BY <2>4, <2>11, <3>1
    <3> QED
      BY <2>3, <3>2 DEF at, before
  <2> QED
    BY <2>7, <2>10, <2>11
<1>2. ASSUME NEW c \in Collectors, CommitTx(c) PROVE NothingTwice
  <2>1. ASSUME NEW r \in deltas' \ deltas, NEW d \in Dirs
        PROVE  r.delta[d] <= upTo'[r.engine][d] - upTo[r.engine][d]
    <3>1. r \in NewRows(c)
      BY <1>2, <2>1 DEF CommitTx, Write
    <3>2. PICK e \in {f \in Written(c): Delta(c, f) # Zero} :
             r.engine = e /\ r.delta = Delta(c, e)
      BY <3>1 DEF NewRows
    <3> QED
      BY <1>1, <1>2, <2>1, <3>2
  <2> QED
    BY <2>1 DEF NothingTwice
<1>3. CASE UNCHANGED deltas
  BY <1>3 DEF NothingTwice
<1> QED
  BY <1>2, <1>3, CursorsKept

-----------------------------------------------------------------------------
(* What is measured, as a sum over all engines.                            *)

Measured(cur, epoch) == {e \in Engines : cur[e] # None /\ cur[e].epoch = epoch}
Measures(cur, bas, epoch, d) ==
  [e \in Engines |-> IF e \in Measured(cur, epoch) THEN cur[e].last[d] - bas[e][d] ELSE 0]

\* The sum over the measured engines is one over all of them, padded with zeros.
LEMMA Padding ==
  ASSUME NEW cur \in [Engines -> Cursors \cup {None}], NEW bas \in [Engines -> Bytes],
         NEW epoch, NEW d \in Dirs
  PROVE  /\ Total([e \in Measured(cur, epoch) |-> cur[e].last[d] - bas[e][d]], Measured(cur, epoch))
              = Total(Measures(cur, bas, epoch, d), Engines)
         /\ \A e \in Engines : Measures(cur, bas, epoch, d)[e] \in Int
<1> DEFINE M == Measured(cur, epoch)
           f == [e \in M |-> cur[e].last[d] - bas[e][d]]
           g == Measures(cur, bas, epoch, d)
<1>1. M \in SUBSET Engines /\ IsFiniteSet(Engines) /\ IsFiniteSet(M)
  BY FS_Subset, TrafficAssumption DEF Measured
<1>2. \A e \in M : cur[e].last[d] - bas[e][d] \in Int
  BY DEF Cursors, Bytes, Measured
<1>3. \A e \in Engines : g[e] \in Int
  BY <1>2 DEF Measures
<1>4. \A e \in Engines \ M : g[e] = 0
  BY DEF Measures
<1>5. \A e \in M : f[e] = g[e]
  BY <1>1 DEF Measures
<1> HIDE DEF M, f, g
<1>6. Total(f, M) = Total(g, M)
  BY <1>1, <1>5, TotalSame
<1>7. Total(g, Engines) = Total(g, M)
  BY <1>1, <1>3, <1>4, TotalWithin
<1>8. Total(f, M) = Total(g, Engines)
  BY <1>6, <1>7
<1> QED
  BY <1>3, <1>8 DEF M, f, g

\* NothingLost in these terms, now and in the next state.
LEMMA LostMeans ==
  ASSUME TrafficTypeOK
  PROVE  NothingLost <=>
           ((\A e \in Engines : start[e] = Zero) =>
              \A d \in Dirs :
                user.used[d] = Total(Measures(cursor, base, user.epoch, d), Engines))
<1>1. NothingLost <=>
        ((\A e \in Engines : start[e] = Zero) =>
           \A d \in Dirs :
             user.used[d] =
               Total([e \in Measured(cursor, user.epoch) |-> cursor[e].last[d] - base[e][d]],
                   Measured(cursor, user.epoch)))
  BY DEF NothingLost, Measured
<1>2. \A d \in Dirs :
        Total([e \in Measured(cursor, user.epoch) |-> cursor[e].last[d] - base[e][d]],
                   Measured(cursor, user.epoch))
          = Total(Measures(cursor, base, user.epoch, d), Engines)
  <2>1. cursor \in [Engines -> Cursors \cup {None}] /\ base \in [Engines -> Bytes]
    BY DEF TrafficTypeOK
  <2> QED
    BY <2>1, Padding
<1> QED
  BY <1>1, <1>2

LEMMA LostMeansNext ==
  ASSUME TrafficTypeOK'
  PROVE  NothingLost' <=>
           ((\A e \in Engines : start'[e] = Zero) =>
              \A d \in Dirs :
                user'.used[d] = Total(Measures(cursor', base', user'.epoch, d), Engines))
<1>1. NothingLost' <=>
        ((\A e \in Engines : start'[e] = Zero) =>
           \A d \in Dirs :
             user'.used[d] =
               Total([e \in Measured(cursor', user'.epoch) |-> cursor'[e].last[d] - base'[e][d]],
                   Measured(cursor', user'.epoch)))
  BY DEF NothingLost, Measured
<1>2. \A d \in Dirs :
        Total([e \in Measured(cursor', user'.epoch) |-> cursor'[e].last[d] - base'[e][d]],
                   Measured(cursor', user'.epoch))
          = Total(Measures(cursor', base', user'.epoch, d), Engines)
  <2>1. cursor' \in [Engines -> Cursors \cup {None}] /\ base' \in [Engines -> Bytes]
    BY DEF TrafficTypeOK
  <2> QED
    BY <2>1, Padding
<1> QED
  BY <1>1, <1>2

LEMMA TotalZero ==
  ASSUME NEW S, IsFiniteSet(S), NEW f, \A x \in S : f[x] = 0
  PROVE  Total(f, S) = 0
<1>1. Total(f, {}) = 0
  BY TotalUnfolds
<1>2. {} \in SUBSET S /\ (\A x \in S : f[x] \in Int) /\ \A x \in S \ {} : f[x] = 0
  OBVIOUS
<1>3. Total(f, S) = Total(f, {})
  BY <1>2, TotalWithin
<1> QED
  BY <1>1, <1>3

\* Without a restart a counter is all the core has carried.
LEMMA NoRestart ==
  ASSUME TrafficTypeOK, Past, Ordered, NEW c \in Collectors, NEW e \in Engines,
         start[e] = Zero, HasSample(c, e), Viable(c), cursor[e] = snap[c].cursor[e],
         cursor[e] # None => cursor[e].observedAt < capturedAt[c]
  PROVE  ~CounterReset(c, e)
<1> SUFFICES ASSUME cursor[e] # None
             PROVE  \A d \in Dirs : cursor[e].last[d] <= sample[c][e].counter[d]
  BY SampledBytes, LastReadBytes DEF CounterReset, Baseline
<1> TAKE d \in Dirs
<1>1. /\ cursor[e].last[d] \in Nat /\ upTo[e][d] \in Nat
      /\ LastRead(e).at[d] = upTo[e][d] /\ LastRead(e).start[d] = upTo[e][d] - cursor[e].last[d]
  BY LastReadBytes
<1>2. /\ sample[c][e].at[d] \in Nat /\ sample[c][e].counter[d] \in Nat
      /\ Sampled(c, e).at[d] = sample[c][e].at[d]
      /\ Sampled(c, e).start[d] = sample[c][e].at[d] - sample[c][e].counter[d]
  BY SampledBytes
<1>3. Now(e).start[d] = 0
  BY DEF Now, Zero
<1>4. Sampled(c, e).start[d] = 0
  <2>1. Precedes(Sampled(c, e), Now(e)) /\ Proper(Sampled(c, e))
    BY DEF Past
  <2>2. Sampled(c, e).start[d] = Now(e).start[d] \/ Sampled(c, e).at[d] <= Now(e).start[d]
    BY <2>1 DEF Precedes
  <2>3. 0 <= Sampled(c, e).start[d] /\ Sampled(c, e).start[d] <= Sampled(c, e).at[d]
    BY <2>1 DEF Proper
  <2> QED
    BY <1>2, <1>3, <2>2, <2>3
<1>5. 0 <= LastRead(e).start[d]
  BY DEF Past, Proper
<1>6. LastRead(e).at[d] <= Sampled(c, e).at[d]
  BY DEF Ordered, Precedes
<1> QED
  BY <1>1, <1>2, <1>4, <1>5, <1>6

\* CommitTx adds to the sum what it adds to the usage.
LEMMA NotLost ==
  ASSUME TrafficInv, [TrafficNext]_trafficVars, TrafficTypeOK'
  PROVE  NothingLost'
<1> USE DEF TrafficInv
<1> SUFFICES ASSUME \A e \in Engines : start'[e] = Zero, NEW d \in Dirs
             PROVE  user'.used[d] = Total(Measures(cursor', base', user'.epoch, d), Engines)
  BY LostMeansNext
<1> DEFINE old == Measures(cursor, base, user.epoch, d)
           new == Measures(cursor', base', user'.epoch, d)
<1>1. \A e \in Engines : start[e] = Zero
  <2>1. ASSUME NEW f \in Engines, Restart(f) PROVE FALSE
    <3>1. carried[f] = Zero
      BY <2>1 DEF Restart, TrafficTypeOK
    <3>2. /\ start[f] # Zero /\ start[f] \in Bytes
          /\ \A b \in Dirs : start[f][b] <= 0 /\ 0 <= start[f][b]
      BY <2>1, <3>1 DEF Restart, TrafficTypeOK, Past, Proper, Now, Zero
    <3>3. \A b \in Dirs : start[f][b] = 0
      BY <3>2 DEF Bytes
    <3> QED
      BY <3>2, <3>3 DEF Zero, Bytes
  <2>2. start' = start
    BY <2>1, CoresKept DEF Carry, coreVars
  <2> QED
    BY <2>2
<1>2. user.used[d] = Total(old, Engines)
  BY <1>1, LostMeans
<1>3. IsFiniteSet(Engines)
  BY TrafficAssumption
<1>4. \A e \in Engines : old[e] \in Int /\ new[e] \in Int
  BY Padding DEF TrafficTypeOK
<1>5. CASE Reset
  <2>1. user'.epoch = user.epoch + 1 /\ user'.used = Zero /\ cursor' = cursor
    BY <1>5 DEF Reset
  <2>2. ASSUME NEW e \in Engines PROVE e \notin Measured(cursor', user'.epoch)
    BY <2>1 DEF Measured, Epochs, TrafficTypeOK, Users, Cursors
  <2>3. \A e \in Engines : new[e] = 0
    BY <2>2 DEF Measures
  <2> HIDE DEF new
  <2>4. Total(new, Engines) = 0
    BY <1>3, <2>3, TotalZero
  <2> QED
    BY <2>1, <2>4 DEF Zero, new
<1>6. CASE UNCHANGED <<user, cursor, base>>
  BY <1>2, <1>6
<1>7. ASSUME NEW c \in Collectors, CommitTx(c)
      PROVE  user'.used[d] = Total(new, Engines)
  <2> DEFINE W == Written(c)
             w == [e \in W |-> Delta(c, e)[d]]
             more == [e \in Engines |-> IF e \in W THEN Delta(c, e)[d] ELSE 0]
  <2>1. IsFiniteSet(W) /\ W \in SUBSET Engines /\ \A e \in W : w[e] \in Int
    <3>1. \A e \in W : Delta(c, e)[d] \in Int
      BY WriteTypes DEF Bytes
    <3> QED
      BY <3>1, WriteTypes DEF Written
  <2>2. \A e \in Engines : more[e] \in Int
    BY <2>1
  <2>3. user'.epoch = user.epoch /\ user'.used[d] = user.used[d] + Total(w, W)
    BY <1>7 DEF CommitTx, Write, Charge, TrafficTypeOK, Users
  <2>4. Total(w, W) = Total(more, Engines)
    <3>1. (\A e \in W : w[e] = more[e]) /\ \A e \in Engines \ W : more[e] = 0
      BY <2>1
    <3> HIDE DEF w, more, W
    <3>2. Total(w, W) = Total(more, W)
      BY <2>1, <3>1, TotalSame
    <3>3. Total(more, Engines) = Total(more, W)
      BY <1>3, <2>1, <2>2, <3>1, TotalWithin
    <3> QED
      BY <3>2, <3>3
  <2>5. ASSUME NEW e \in Engines PROVE new[e] = old[e] + more[e]
    <3>1. CASE e \notin W
      <4>1. new[e] = old[e] /\ more[e] = 0
        BY <1>7, <2>3, <3>1, Committed DEF Measures, Measured
      <4> QED
        BY <1>4, <4>1
    <3>2. CASE e \in W
      <4>1. /\ cursor'[e].epoch = snap[c].user.epoch /\ cursor[e] = snap[c].cursor[e]
            /\ HasSample(c, e) /\ Viable(c)
            /\ cursor[e] # None => cursor[e].observedAt < capturedAt[c]
        BY <1>7, <3>2, Committed
      <4>2. cursor'[e].last = sample[c][e].counter
        BY <1>7, <3>2 DEF CommitTx, Write, NewCursor
      <4>3. base'[e] = IF Baseline(c, e) THEN sample[c][e].counter ELSE base[e]
        BY <1>7, <3>2 DEF CommitTx, Write
      <4>4. ~CounterReset(c, e)
        BY <1>1, <4>1, NoRestart
      <4>5. more[e] = IF Baseline(c, e) THEN 0 ELSE sample[c][e].counter[d] - cursor[e].last[d]
        BY <3>2, <4>1, <4>4 DEF Delta, Zero
      <4>6. /\ sample[c][e].counter[d] \in Int /\ base[e][d] \in Int
            /\ cursor[e] # None => cursor[e].last[d] \in Int
        BY <4>1, SampledBytes, LastReadBytes DEF TrafficTypeOK, Bytes
      <4>7. cursor'[e] # None
        <5>1. cursor'[e] = NewCursor(c, e) /\ NewCursor(c, e) \in Cursors
          BY <1>7, <3>2, WriteTypes DEF CommitTx, Write
        <5> QED
          BY <5>1, TrafficAssumption
      <4>8. CASE snap[c].user.epoch = user.epoch
        <5>1. new[e] = sample[c][e].counter[d] - base'[e][d]
          BY <2>3, <4>1, <4>2, <4>7, <4>8 DEF Measures, Measured
        <5>2. CASE Baseline(c, e)
          <6>1. old[e] = 0
            BY <4>1, <4>8, <5>2 DEF Measures, Measured, Baseline, EpochChanged
          <6> QED
            BY <4>3, <4>5, <4>6, <5>1, <5>2, <6>1
        <5>3. CASE ~Baseline(c, e)
          <6>1. old[e] = cursor[e].last[d] - base[e][d] /\ cursor[e] # None
            BY <4>1, <4>8, <5>3 DEF Measures, Measured, Baseline, EpochChanged
          <6> QED
            BY <4>3, <4>5, <4>6, <5>1, <5>3, <6>1
        <5> QED
          BY <5>2, <5>3
      <4>9. CASE snap[c].user.epoch # user.epoch
        <5>1. snap[c].user.epoch < user.epoch
          <6>1. snap[c].user.epoch \in Nat /\ user.epoch \in Nat
            BY DEF TrafficTypeOK, Users
          <6>2. snap[c].user.epoch <= user.epoch
            BY <1>7 DEF CommitTx, Epochs
          <6> QED
            BY <4>9, <6>1, <6>2
        <5>2. new[e] = 0
          BY <2>3, <4>1, <4>9 DEF Measures, Measured
        <5>3. old[e] = 0
          <6>1. cursor[e] # None => /\ cursor[e].epoch <= snap[c].user.epoch
                                    /\ cursor[e].epoch \in Nat
                                    /\ snap[c].user.epoch \in Nat
            BY <1>7, <4>1 DEF CommitTx, Epochs, TrafficTypeOK, Users, Cursors
          <6>2. e \notin Measured(cursor, user.epoch)
            BY <5>1, <6>1 DEF Measured, TrafficTypeOK, Users
          <6> QED
            BY <6>2 DEF Measures
        <5>4. NewRows(c) = {}
          BY <1>7, <4>9 DEF CommitTx, Conflict
        <5>5. Delta(c, e) = Zero
          BY <3>2, <5>4 DEF NewRows
        <5> QED
          BY <3>2, <5>2, <5>3, <5>5 DEF Zero
      <4> QED
        BY <4>8, <4>9
    <3> QED
      BY <3>1, <3>2
  <2> HIDE DEF old, new, more, w
  <2>6. Total(new, Engines) = Total(old, Engines) + Total(more, Engines)
    BY <1>3, <1>4, <2>2, <2>5, TotalAdds
  <2> QED
    BY <1>2, <2>3, <2>4, <2>6
<1> QED
  BY <1>5, <1>6, <1>7, CursorsKept

-----------------------------------------------------------------------------
LEMMA InitInv == ASSUME TrafficInit PROVE TrafficInv
<1> USE ZeroType DEF TrafficInit
<1>1. Baselined \in Cursors
  BY DEF Baselined, Cursors
<1>2. Blank \in [user: Users, cursor: [Engines -> Cursors \cup {None}]]
  BY DEF Blank, Users, Zero
<1>3. TrafficTypeOK
  BY <1>1, <1>2 DEF TrafficTypeOK, Users, Labels, Zero
<1>4. \A e \in Engines, d \in Dirs : /\ Now(e).at[d] = 0 /\ Now(e).start[d] = 0
                                     /\ cursor[e] # None => cursor[e] = Baselined
  BY DEF Now, Zero
<1>5. \A e \in Engines : cursor[e] # None => LastRead(e).at = Zero /\ LastRead(e).start = Zero
  BY <1>4 DEF LastRead, Reading, Baselined, Zero
<1>6. Past
  BY <1>4, <1>5 DEF Past, Proper, Precedes, HasSample, Now, Zero
<1>7. Ordered /\ LastCapture
  BY DEF Ordered, LastCapture, HasSample, Viable
<1>8. Epochs
  BY <1>4 DEF Epochs, Baselined
<1>9. NothingLost
  <2>1. ASSUME NEW d \in Dirs
        PROVE  user.used[d] = Total(Measures(cursor, base, user.epoch, d), Engines)
    <3> DEFINE m == Measures(cursor, base, user.epoch, d)
    <3>1. \A e \in Engines : m[e] = 0
      BY <1>4 DEF Measures, Measured, Baselined, Zero
    <3> HIDE DEF m
    <3>2. Total(m, Engines) = 0
      BY <3>1, TotalZero, TrafficAssumption
    <3> QED
      BY <3>2 DEF m, Zero
  <2> QED
    BY <1>3, <2>1, LostMeans
<1> QED
  BY <1>3, <1>6, <1>7, <1>8, <1>9 DEF TrafficInv

LEMMA NextInv == ASSUME TrafficInv, [TrafficNext]_trafficVars PROVE TrafficInv'
<1> USE DEF TrafficInv
<1>1. TrafficTypeOK'
  BY TypeStep
<1>2. Past' /\ Ordered' /\ LastCapture' /\ Epochs'
  BY <1>1, PastStep, OrderedStep, LastCaptureStep, EpochsStep
<1> QED
  BY <1>1, <1>2, NotLost

(***************************************************************************)
(* Every byte a core carries is charged at most once, and without a        *)
(* restart exactly once: whatever runs of the collector overlap after the  *)
(* worker's lock was lost, and whenever usage is reset.                    *)
(***************************************************************************)
THEOREM BytesOnce == TrafficSpec => EachByteOnce
<1>1. TrafficInit => TrafficInv
  BY InitInv
<1>2. TrafficInv /\ [TrafficNext]_trafficVars => TrafficInv'
  BY NextInv
<1>3. TrafficInv /\ TrafficInv' /\ [TrafficNext]_trafficVars
        => [NothingTwice /\ NothingLost']_trafficVars
  BY NotTwice DEF TrafficInv
<1> QED
  BY <1>1, <1>2, <1>3, PTL DEF TrafficSpec, EachByteOnce
==============================================================================
