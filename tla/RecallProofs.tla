---------------------------- MODULE RecallProofs ----------------------------
(***************************************************************************)
(* Proofs about what is read: a recall accounts for every match and shows  *)
(* the best of them, following the cursor of a listing shows every row     *)
(* once, and the subjects found over relations are those within reach.     *)
(***************************************************************************)
EXTENDS ImportProofs

(* Orders, and the first rows of one *)

IsOrder(f) == f \in [Rows -> Nat] /\ \A i, j \in Rows : f[i] = f[j] => i = j

LEMMA AheadGrows ==
    ASSUME NEW f, IsOrder(f), NEW S \in SUBSET Rows, NEW i \in S, NEW j \in S, f[i] > f[j]
    PROVE  /\ Ahead(f, S, i) \subseteq Ahead(f, S, j) /\ i \in Ahead(f, S, j)
           /\ Cardinality(Ahead(f, S, i)) < Cardinality(Ahead(f, S, j))
<1>1. \A k \in Rows : f[k] \in Nat
  BY DEF IsOrder
<1>2. Ahead(f, S, i) \subseteq Ahead(f, S, j) /\ i \in Ahead(f, S, j) /\ i \notin Ahead(f, S, i)
  BY <1>1 DEF Ahead
<1>3. IsFiniteSet(Ahead(f, S, i)) /\ IsFiniteSet(Ahead(f, S, j))
  BY FS_Subset, RecallAssumption DEF Ahead
<1> QED
  BY <1>2, <1>3, FS_Subset, FS_CardinalityType

LEMMA AheadIsSmall ==
    ASSUME NEW f, IsOrder(f), NEW S \in SUBSET Rows, NEW i \in S
    PROVE  /\ IsFiniteSet(S) /\ IsFiniteSet(Ahead(f, S, i))
           /\ Cardinality(S) \in Nat /\ Cardinality(Ahead(f, S, i)) \in Nat
           /\ Cardinality(Ahead(f, S, i)) < Cardinality(S)
<1>1. Ahead(f, S, i) \subseteq S /\ i \notin Ahead(f, S, i)
  BY DEF Ahead, IsOrder
<1>2. IsFiniteSet(S) /\ IsFiniteSet(Ahead(f, S, i))
  BY <1>1, FS_Subset, RecallAssumption
<1> QED
  BY <1>1, <1>2, FS_Subset, FS_CardinalityType

LEMMA FirstIsInitial ==
    ASSUME NEW f, IsOrder(f), NEW S \in SUBSET Rows, NEW n \in Nat,
           NEW i \in FirstBy(f, S, n), NEW j \in S, f[j] >= f[i]
    PROVE  j \in FirstBy(f, S, n)
<1>1. i \in S /\ Cardinality(Ahead(f, S, i)) < n
  BY DEF FirstBy
<1>2. CASE i = j
  BY <1>2
<1>3. CASE i # j
  <2>1. f[j] > f[i]
    BY <1>1, <1>3 DEF IsOrder
  <2>2. Cardinality(Ahead(f, S, j)) < Cardinality(Ahead(f, S, i))
    BY <1>1, <2>1, AheadGrows
  <2>3. Cardinality(Ahead(f, S, j)) < n
    BY <1>1, <2>2, AheadIsSmall
  <2> QED
    BY <2>3 DEF FirstBy
<1> QED
  BY <1>2, <1>3

\* LIMIT n returns at most n rows.
LEMMA FirstHasRoom ==
    ASSUME NEW f, IsOrder(f), NEW S \in SUBSET Rows, NEW n \in Nat
    PROVE  /\ IsFiniteSet(FirstBy(f, S, n)) /\ Cardinality(FirstBy(f, S, n)) \in Nat
           /\ Cardinality(FirstBy(f, S, n)) <= n
<1> DEFINE P == FirstBy(f, S, n)
           g == [i \in P |-> Cardinality(Ahead(f, S, i))]
<1>1. P \subseteq S /\ P \subseteq Rows
  BY DEF FirstBy
<1>2. IsFiniteSet(P) /\ Cardinality(P) \in Nat
  BY <1>1, FS_Subset, FS_CardinalityType, RecallAssumption
<1>3. g \in [P -> 0 .. (n - 1)]
  <2>1. ASSUME NEW i \in P
        PROVE  Cardinality(Ahead(f, S, i)) \in 0 .. (n - 1)
    <3>1. Cardinality(Ahead(f, S, i)) \in Nat
      BY <1>1, AheadIsSmall
    <3>2. Cardinality(Ahead(f, S, i)) < n
      BY DEF FirstBy
    <3> QED
      BY <3>1, <3>2
  <2> QED
    BY <2>1
<1>4. ASSUME NEW i \in P, NEW j \in P, g[i] = g[j]
      PROVE  i = j
  <2> SUFFICES ASSUME i # j PROVE FALSE
    OBVIOUS
  <2>1. i \in S /\ j \in S /\ f[i] \in Nat /\ f[j] \in Nat /\ f[i] # f[j]
    BY <1>1 DEF IsOrder
  <2>2. Cardinality(Ahead(f, S, i)) = Cardinality(Ahead(f, S, j))
    BY <1>4
  <2>3. ASSUME NEW x \in S, NEW y \in S, f[x] > f[y],
               Cardinality(Ahead(f, S, x)) = Cardinality(Ahead(f, S, y))
        PROVE  FALSE
    <3>1. Cardinality(Ahead(f, S, x)) < Cardinality(Ahead(f, S, y)) /\ Cardinality(Ahead(f, S, x)) \in Nat
      BY <2>3, AheadGrows, AheadIsSmall
    <3> QED
      BY <3>1, <2>3
  <2>4. f[i] > f[j] \/ f[j] > f[i]
    BY <2>1
  <2> QED
    BY <2>1, <2>2, <2>3, <2>4
<1>5. g \in Injection(P, 0 .. (n - 1))
  BY <1>3, <1>4 DEF Injection, IsInjective
<1>6. IsFiniteSet(0 .. (n - 1)) /\ Cardinality(0 .. (n - 1)) = n
  BY FS_Interval
<1> HIDE DEF P, g
<1>7. Cardinality(P) <= n
  BY <1>5, <1>6, FS_Injection
<1> QED
  BY <1>2, <1>7 DEF P

\* The limit is no limit when there are no more rows.
LEMMA FewAreAll ==
    ASSUME NEW f, IsOrder(f), NEW S \in SUBSET Rows, NEW n \in Nat, Cardinality(S) <= n
    PROVE  FirstBy(f, S, n) = S
<1>1. ASSUME NEW i \in S PROVE Cardinality(Ahead(f, S, i)) < n
  BY AheadIsSmall
<1> QED
  BY <1>1 DEF FirstBy

\* A query with room left returns everything there is.
LEMMA FirstWithRoomIsAll ==
    ASSUME NEW f, IsOrder(f), NEW S \in SUBSET Rows, NEW n \in Nat, Cardinality(FirstBy(f, S, n)) < n
    PROVE  FirstBy(f, S, n) = S
<1> DEFINE Rest == S \ FirstBy(f, S, n)
           Size(i) == Cardinality(Ahead(f, S, i))
           T == {Size(i) : i \in Rest}
<1> SUFFICES ASSUME Rest # {} PROVE FALSE
  BY DEF FirstBy
<1>1. \A i \in S : Size(i) \in Nat
  BY AheadIsSmall
<1>2. T \subseteq Nat /\ T # {}
  BY <1>1
<1>3. PICK i \in Rest : Size(i) = Min(T)
  <2> HIDE DEF T
  <2>1. Min(T) \in T
    BY <1>2, SmallestNumber
  <2> QED
    BY <2>1 DEF T
<1>4. \A j \in Rest : Size(i) <= Size(j)
  <2>1. \A m \in T : Min(T) <= m
    <3> HIDE DEF T
    <3> QED
      BY <1>2, SmallestNumber
  <2> QED
    BY <1>3, <2>1
<1>5. Ahead(f, S, i) \subseteq FirstBy(f, S, n)
  <2> SUFFICES ASSUME NEW j \in Ahead(f, S, i), j \notin FirstBy(f, S, n) PROVE FALSE
    OBVIOUS
  <2>1. j \in Rest /\ f[j] > f[i]
    BY DEF Ahead
  <2>2. Size(j) < Size(i)
    BY <2>1, AheadGrows
  <2> QED
    BY <1>1, <1>4, <2>1, <2>2
<1>6. Size(i) <= Cardinality(FirstBy(f, S, n)) /\ Cardinality(FirstBy(f, S, n)) \in Nat
  BY <1>5, FirstHasRoom, FS_Subset
<1>7. ~(Size(i) < n)
  BY DEF FirstBy
<1> QED
  BY <1>1, <1>6, <1>7

\* The first n after the first m are what the first m + n adds.
Continues(f, S, m, n) ==
    FirstBy(f, S, m + n) = FirstBy(f, S, m) \cup FirstBy(f, S \ FirstBy(f, S, m), n)

LEMMA FirstContinues ==
    ASSUME NEW f, IsOrder(f), NEW S \in SUBSET Rows, NEW m \in Nat, NEW n \in Nat
    PROVE  Continues(f, S, m, n)
<1> DEFINE P == FirstBy(f, S, m)
           R == S \ P
<1>1. P \subseteq S /\ IsFiniteSet(P) /\ Cardinality(P) \in Nat /\ Cardinality(P) <= m
  BY FirstHasRoom DEF FirstBy
<1>2. ASSUME NEW i \in P PROVE Cardinality(Ahead(f, S, i)) < m + n
  <2>1. i \in S /\ Cardinality(Ahead(f, S, i)) < m
    BY DEF FirstBy
  <2>2. Cardinality(Ahead(f, S, i)) \in Nat
    BY <2>1, AheadIsSmall
  <2>3. Cardinality(Ahead(f, S, i)) < m + n
    BY <2>1, <2>2
  <2> QED
    BY <2>3
<1>3. ASSUME NEW i \in R
      PROVE  Cardinality(Ahead(f, S, i)) = m + Cardinality(Ahead(f, R, i)) /\ Cardinality(Ahead(f, R, i)) \in Nat
  <2>1. i \in S /\ f \in [Rows -> Nat]
    BY DEF IsOrder
  <2>2. ASSUME NEW j \in P PROVE f[j] > f[i]
    <3>1. j \in S
      BY <1>1
    <3>2. ~(f[i] >= f[j])
      BY <2>1, FirstIsInitial
    <3> QED
      BY <2>1, <3>1, <3>2
  <2>3. Ahead(f, S, i) = P \cup Ahead(f, R, i) /\ P \cap Ahead(f, R, i) = {}
    BY <1>1, <2>2 DEF Ahead
  <2>4. Cardinality(P) = m
    <3> SUFFICES ASSUME Cardinality(P) < m PROVE FALSE
      BY <1>1
    <3> QED
      BY FirstWithRoomIsAll
  <2>5. IsFiniteSet(Ahead(f, R, i)) /\ Cardinality(Ahead(f, R, i)) \in Nat
    BY AheadIsSmall
  <2>6. IsFiniteSet(P \cap Ahead(f, R, i)) /\ Cardinality(P \cap Ahead(f, R, i)) = 0
    BY <2>3, FS_EmptySet
  <2>7. Cardinality(P \cup Ahead(f, R, i)) = Cardinality(P) + Cardinality(Ahead(f, R, i)) - Cardinality(P \cap Ahead(f, R, i))
    BY <1>1, <2>5, FS_Union
  <2> QED
    BY <2>3, <2>4, <2>5, <2>6, <2>7
<1>4. ASSUME NEW i \in R PROVE Cardinality(Ahead(f, S, i)) < m + n <=> i \in FirstBy(f, R, n)
  BY <1>3 DEF FirstBy
<1>5. \A i \in S : Cardinality(Ahead(f, S, i)) < m + n <=> i \in P \cup FirstBy(f, R, n)
  BY <1>1, <1>2, <1>4
<1>6. FirstBy(f, R, n) \subseteq R
  BY DEF FirstBy
<1>7. FirstBy(f, S, m + n) = P \cup FirstBy(f, R, n)
  <2> HIDE DEF P
  <2> QED
    BY <1>1, <1>5, <1>6 DEF FirstBy
<1> QED
  BY <1>7 DEF Continues

LEMMA NoneAreFirst == \A f, S : S \subseteq Rows /\ IsOrder(f) => FirstBy(f, S, 0) = {}
<1> SUFFICES ASSUME NEW f, NEW S, S \subseteq Rows, IsOrder(f), NEW i \in FirstBy(f, S, 0) PROVE FALSE
  OBVIOUS
<1>1. i \in S /\ Cardinality(Ahead(f, S, i)) < 0
  BY DEF FirstBy
<1>2. Cardinality(Ahead(f, S, i)) \in Nat
  BY <1>1, AheadIsSmall
<1> QED
  BY <1>1, <1>2

LEMMA RelevanceIsOrder == IsOrder(Relevance)
BY RecallAssumption DEF IsOrder, Relevance, Kind
----------------------------------------------------------------------------
(* What is packed *)

LEMMA FirstOfAll ==
    ASSUME NEW f, IsOrder(f), NEW S \in SUBSET Rows, S # {}
    PROVE  \E i \in S : Ahead(f, S, i) = {}
<1> DEFINE Size(i) == Cardinality(Ahead(f, S, i))
           T == {Size(i) : i \in S}
<1>1. \A i \in S : Size(i) \in Nat
  BY AheadIsSmall
<1>2. T \subseteq Nat /\ T # {}
  BY <1>1
<1> HIDE DEF T
<1>3. Min(T) \in T /\ \A m \in T : Min(T) <= m
  BY <1>2, SmallestNumber
<1> USE DEF T
<1>4. PICK i \in S : Size(i) = Min(T)
  BY <1>3
<1>5. \A j \in S : Size(i) <= Size(j)
  BY <1>3, <1>4
<1>6. ASSUME NEW j \in Ahead(f, S, i) PROVE FALSE
  <2>1. j \in S /\ f[j] > f[i]
    BY DEF Ahead
  <2>2. Size(j) < Size(i)
    BY <2>1, AheadGrows
  <2> QED
    BY <1>1, <1>5, <2>1, <2>2
<1> QED
  BY <1>6

LEMMA LastOfAll ==
    ASSUME NEW f, IsOrder(f), NEW S \in SUBSET Rows, S # {}
    PROVE  \E i \in S : \A j \in S : f[j] >= f[i]
<1> DEFINE T == {f[i] : i \in S}
<1>1. f \in [Rows -> Nat]
  BY DEF IsOrder
<1>2. T \subseteq Nat /\ T # {}
  BY <1>1
<1> HIDE DEF T
<1>3. Min(T) \in T /\ \A m \in T : Min(T) <= m
  BY <1>2, SmallestNumber
<1> USE DEF T
<1>4. PICK i \in S : f[i] = Min(T)
  BY <1>3
<1>5. \A j \in S : f[i] <= f[j] /\ f[i] \in Nat /\ f[j] \in Nat
  BY <1>1, <1>3, <1>4
<1> QED
  BY <1>5

\* A fact comes with all that outrank it.
LEMMA PackedIsInitial ==
    ASSUME NEW S \in SUBSET Rows, NEW i \in Packed(S), NEW j \in S, Relevance[j] >= Relevance[i]
    PROVE  j \in Packed(S)
<1>1. i \in S /\ i \in FirstBy(Relevance, S, MostFacts) /\ \A k \in Ahead(Relevance, S, i) \cup {i} : Fits(S, k)
  BY DEF Packed, FirstBy
<1>2. j \in FirstBy(Relevance, S, MostFacts)
  BY <1>1, FirstIsInitial, RelevanceIsOrder, RecallAssumption
<1>3. CASE j = i
  BY <1>3
<1>4. CASE j # i
  <2>1. Relevance[j] > Relevance[i] /\ Relevance \in [Rows -> Nat]
    BY <1>1, <1>4, RelevanceIsOrder DEF IsOrder
  <2>2. Ahead(Relevance, S, j) \cup {j} \subseteq Ahead(Relevance, S, i)
    BY <1>1, <2>1, AheadGrows, RelevanceIsOrder
  <2> QED
    BY <1>1, <1>2, <2>2 DEF Packed
<1> QED
  BY <1>3, <1>4

LEMMA PackedIsBest ==
    ASSUME NEW S \in SUBSET Rows, NEW rest, rest = S \ Packed(S)
    PROVE  /\ Cardinality(Packed(S)) > 1 => ~(CostOf(Packed(S)) > Budget)
           /\ \A i \in Packed(S), j \in rest : KindOf[i].score > KindOf[j].score
           /\ rest # {} => Packed(S) # {}
           /\ \A j \in rest : Ahead(Relevance, rest, j) = {} =>
                 Cardinality(Packed(S)) = MostFacts \/ CostOf(Packed(S) \cup {j}) > Budget
<1> DEFINE F == Packed(S)
<1>1. Relevance \in [Rows -> Nat] /\ \A i \in Rows : Relevance[i] = KindOf[i].score
  BY RelevanceIsOrder DEF IsOrder, Relevance
<1>2. F \subseteq S /\ F \subseteq Rows
  BY DEF Packed, FirstBy
<1>3. ASSUME NEW i \in F, NEW j \in rest PROVE Relevance[i] > Relevance[j]
  <2>1. j \in S /\ j \notin F
    OBVIOUS
  <2>2. ~(Relevance[j] >= Relevance[i])
    BY <2>1, PackedIsInitial
  <2> QED
    BY <1>1, <1>2, <2>1, <2>2
<1>4. ASSUME Cardinality(F) > 1 PROVE ~(CostOf(F) > Budget)
  <2>1. F # {}
    BY <1>4, FS_EmptySet
  <2>2. PICK i \in F : \A j \in F : Relevance[j] >= Relevance[i]
    <3> HIDE DEF F
    <3> QED
      BY <1>2, <2>1, LastOfAll, RelevanceIsOrder
  <2>3. Ahead(Relevance, S, i) \cup {i} = F
    <3>1. ASSUME NEW j \in Ahead(Relevance, S, i) PROVE j \in F
      <4>1. j \in S /\ Relevance[j] > Relevance[i]
        BY DEF Ahead
      <4>2. Relevance[j] >= Relevance[i]
        BY <1>1, <1>2, <4>1
      <4> QED
        BY <4>1, <4>2, PackedIsInitial
    <3>2. ASSUME NEW j \in F, j # i PROVE j \in Ahead(Relevance, S, i)
      <4>1. Relevance[j] >= Relevance[i] /\ Relevance[j] # Relevance[i]
        BY <1>2, <2>2, <3>2, RelevanceIsOrder DEF IsOrder
      <4> QED
        BY <1>1, <1>2, <4>1 DEF Ahead
    <3> QED
      BY <3>1, <3>2
  <2>4. Fits(S, i)
    BY DEF Packed
  <2>5. Ahead(Relevance, S, i) # {}
    <3>1. Cardinality({i}) = 1
      BY FS_Singleton
    <3> QED
      BY <1>4, <2>3, <3>1
  <2> QED
    BY <2>3, <2>4, <2>5 DEF Fits
<1>5. ASSUME rest # {} PROVE F # {}
  <2>1. PICK i \in S : Ahead(Relevance, S, i) = {}
    BY <1>5, FirstOfAll, RelevanceIsOrder
  <2>2. Cardinality(Ahead(Relevance, S, i)) < MostFacts
    BY <2>1, FS_EmptySet, RecallAssumption
  <2>3. i \in F
    BY <2>1, <2>2 DEF Packed, FirstBy, Fits
  <2> QED
    BY <2>3
<1>6. ASSUME NEW j \in rest, Ahead(Relevance, rest, j) = {}
      PROVE  Cardinality(F) = MostFacts \/ CostOf(F \cup {j}) > Budget
  <2>1. Ahead(Relevance, S, j) = F
    BY <1>2, <1>3, <1>6 DEF Ahead
  <2>2. CASE j \notin FirstBy(Relevance, S, MostFacts)
    <3>1. ~(Cardinality(F) < MostFacts)
      BY <2>1, <2>2 DEF FirstBy
    <3>2. F \subseteq FirstBy(Relevance, S, MostFacts)
      BY DEF Packed
    <3>3. Cardinality(F) \in Nat /\ Cardinality(F) <= MostFacts
      <4> HIDE DEF F
      <4>1. /\ IsFiniteSet(FirstBy(Relevance, S, MostFacts)) /\ Cardinality(FirstBy(Relevance, S, MostFacts)) \in Nat
            /\ Cardinality(FirstBy(Relevance, S, MostFacts)) <= MostFacts
        BY FirstHasRoom, RelevanceIsOrder, RecallAssumption
      <4>2. IsFiniteSet(F) /\ Cardinality(F) <= Cardinality(FirstBy(Relevance, S, MostFacts))
        BY <3>2, <4>1, FS_Subset
      <4> QED
        BY <4>1, <4>2, FS_CardinalityType, RecallAssumption
    <3> QED
      BY <3>1, <3>3, RecallAssumption
  <2>3. CASE j \in FirstBy(Relevance, S, MostFacts)
    <3>1. PICK k \in Ahead(Relevance, S, j) \cup {j} : ~Fits(S, k)
      BY <2>3 DEF Packed
    <3>2. \A i \in F : Fits(S, i)
      BY DEF Packed
    <3>3. k = j
      BY <2>1, <3>1, <3>2
    <3> QED
      BY <2>1, <3>1, <3>3 DEF Fits
  <2> QED
    BY <2>2, <2>3
<1> QED
  BY <1>1, <1>2, <1>3, <1>4, <1>5, <1>6
----------------------------------------------------------------------------
(* Readers and writers *)

Readers == [pc: {"idle", "count", "search", "list", "pack", "done"}, mode: Modes, asks: BOOLEAN,
            counted: Seq(SUBSET Rows), pool: SUBSET Rows, facts: SUBSET Rows]
Pagers == [on: BOOLEAN, asks: BOOLEAN, offset: Nat, shown: Seq(SUBSET Rows)]
ShelfRows == [state: {"none", "active", "archived"}, trusted: BOOLEAN, stamp: Nat]

RecallTyped ==
    /\ shelf \in [Rows -> ShelfRows] /\ reader \in Readers /\ pager \in Pagers /\ moved \subseteq Rows
    /\ shifted \subseteq {"out", "front"}

\* How far a recall has counted.
CountedSoFar ==
    /\ reader.pc = "idle" => reader.counted = << >>
    /\ reader.pc = "count" => Len(reader.counted) < 3
    /\ reader.pc \in {"search", "list", "pack", "done"} => Len(reader.counted) = 3
    /\ Len(reader.counted) <= 3
    /\ reader.pc = "search" => reader.asks

\* What has been counted or taken is still so, for the rows that nobody has written.
CountsStand ==
    \A n \in DOMAIN reader.counted : \A i \in InStore \ moved :
        Asked(i, reader.asks) => (i \in reader.counted[n] <=> Counts(Order[n], i))
PoolStands ==
    reader.pc \in {"pack", "done"} /\ Cardinality(reader.pool) < Pool =>
        \A i \in InStore \ moved : Asked(i, reader.asks) => (i \in reader.pool <=> Shown(i))

Times(pages, i) == Cardinality({n \in DOMAIN pages : i \in pages[n]})

\* Of a listing in which the rows of M were written, and which they have shifted in the ways of W: what
\* comes before the cursor is on one of the pages so far, and what comes after it on none, ...
ShowsOnce(pages, offset, M, W) ==
    \A i \in Listed \ M :
        /\ "out" \notin W /\ i \in FirstBy(Recency, Listed, offset) => Times(pages, i) >= 1
        /\ "front" \notin W => /\ Times(pages, i) <= 1
                               /\ i \notin FirstBy(Recency, Listed, offset) => Times(pages, i) = 0
\* ... and in the end nothing comes after it.
ShowsAll(pages, M, W) ==
    \A i \in Listed \ M : /\ "out" \notin W => Times(pages, i) >= 1
                          /\ "front" \notin W => Times(pages, i) <= 1
PagesStand ==
    /\ pager.on => reader.pc = "idle"
    /\ ~pager.on => pager.offset = 0
    /\ pager.on /\ ~pager.asks => ShowsOnce(pager.shown, pager.offset, moved, shifted)

RecallInv ==
    /\ RecallTyped /\ IsOrder(Recency) /\ CountedSoFar /\ CountsStand /\ PoolStands /\ PagesStand
    /\ reader.pc = "done" => reader.facts = Packed(Scored(reader.pool, reader.mode))

LEMMA RecallInvStarts == RecallInit => RecallInv
<1> SUFFICES ASSUME RecallInit PROVE RecallInv
  OBVIOUS
<1>1. \A i \in Rows : KindOf[i].score \in Nat
  BY RecallAssumption DEF Kind
<1>2. shelf \in [Rows -> ShelfRows] /\ Recency = Relevance
  BY <1>1 DEF RecallInit, ShelfRows, Recency, Relevance
<1>3. reader \in Readers /\ pager \in Pagers /\ moved \subseteq Rows /\ shifted = {}
  <2>1. << >> \in Seq(SUBSET Rows) /\ "now" \in Modes
    BY DEF Modes
  <2> QED
    BY <2>1 DEF RecallInit, NoRecall, NoPages, Readers, Pagers
<1>4. CountedSoFar /\ CountsStand /\ PoolStands /\ PagesStand
  BY DEF RecallInit, NoRecall, NoPages, CountedSoFar, CountsStand, PoolStands, PagesStand
<1> QED
  BY <1>2, <1>3, <1>4, RelevanceIsOrder DEF RecallInv, RecallTyped, RecallInit, NoRecall

LEMMA ScoredIsFew == RecallTyped => Scored(reader.pool, reader.mode) \subseteq Rows
BY DEF RecallTyped, Readers, Scored

LEMMA RowsAreStored == Listed \subseteq InStore /\ InStore \subseteq Rows /\ Found \subseteq Listed
BY DEF Listed, InStore, Found

\* Of the sets of the code, a row is in one.
LEMMA CountsAreApart ==
    ASSUME RecallTyped, NEW i \in InStore
    PROVE  /\ Shown(i) => \A n \in 1 .. 3 : ~Counts(Order[n], i)
           /\ ~Shown(i) => \E n \in 1 .. 3 : \A m \in 1 .. 3 : Counts(Order[m], i) <=> m = n
<1>1. i \in Rows /\ shelf[i].state \in {"active", "archived"}
  BY DEF InStore, RecallTyped, ShelfRows
<1>2. Order[1] = "archived" /\ Order[2] = "secret_blocked" /\ Order[3] = "quarantined"
  BY DEF Order
<1>3. /\ Counts(Order[1], i) <=> shelf[i].state = "archived" /\ ~KindOf[i].secret /\ shelf[i].trusted
      /\ Counts(Order[2], i) <=> KindOf[i].secret
      /\ Counts(Order[3], i) <=> ~KindOf[i].secret /\ ~shelf[i].trusted
  BY <1>2 DEF Counts
<1>4. \A n \in 1 .. 3 : n = 1 \/ n = 2 \/ n = 3
  OBVIOUS
<1>5. CASE KindOf[i].secret
  <2>1. ~Shown(i) /\ Counts(Order[2], i) /\ ~Counts(Order[1], i) /\ ~Counts(Order[3], i)
    BY <1>3, <1>5 DEF Shown
  <2> QED
    BY <1>4, <2>1
<1>6. CASE ~KindOf[i].secret /\ ~shelf[i].trusted
  <2>1. ~Shown(i) /\ Counts(Order[3], i) /\ ~Counts(Order[1], i) /\ ~Counts(Order[2], i)
    BY <1>3, <1>6 DEF Shown
  <2> QED
    BY <1>4, <2>1
<1>7. CASE ~KindOf[i].secret /\ shelf[i].trusted /\ shelf[i].state = "archived"
  <2>1. ~Shown(i) /\ Counts(Order[1], i) /\ ~Counts(Order[2], i) /\ ~Counts(Order[3], i)
    BY <1>3, <1>7 DEF Shown
  <2> QED
    BY <1>4, <2>1
<1>8. CASE ~KindOf[i].secret /\ shelf[i].trusted /\ shelf[i].state = "active"
  <2>1. Shown(i) /\ ~Counts(Order[1], i) /\ ~Counts(Order[2], i) /\ ~Counts(Order[3], i)
    BY <1>3, <1>8 DEF Shown
  <2> QED
    BY <1>4, <2>1
<1> QED
  BY <1>1, <1>5, <1>6, <1>7, <1>8

LEMMA RecallInvHolds == RecallInv => RecallTypeOK /\ MatchesAreAccountedOnce /\ BestAreShown
<1> SUFFICES ASSUME RecallInv PROVE RecallTypeOK /\ MatchesAreAccountedOnce /\ BestAreShown
  OBVIOUS
<1>1. RecallTypeOK
  BY DEF RecallInv, RecallTyped, RecallTypeOK, Readers, ShelfRows
<1>2. ASSUME reader.pc = "done", Cardinality(reader.pool) < Pool, NEW i \in InStore \ moved, Asked(i, reader.asks)
      PROVE  Cardinality(CountedIn(i)) + (IF i \in reader.pool THEN 1 ELSE 0) = 1
  <2>1. DOMAIN reader.counted = 1 .. 3
    BY <1>2 DEF RecallInv, RecallTyped, Readers, CountedSoFar
  <2>2. i \in reader.pool <=> Shown(i)
    BY <1>2 DEF RecallInv, PoolStands
  <2>3. \A n \in 1 .. 3 : i \in reader.counted[n] <=> Counts(Order[n], i)
    BY <1>2, <2>1 DEF RecallInv, CountsStand
  <2>4. CASE Shown(i)
    <3>1. CountedIn(i) = {}
      BY <2>1, <2>3, <2>4, CountsAreApart DEF CountedIn, RecallInv
    <3> QED
      BY <2>2, <2>4, <3>1, FS_EmptySet
  <2>5. CASE ~Shown(i)
    <3>1. PICK n \in 1 .. 3 : \A m \in 1 .. 3 : Counts(Order[m], i) <=> m = n
      BY <2>5, CountsAreApart DEF RecallInv
    <3>2. CountedIn(i) = {n}
      BY <2>1, <2>3, <3>1 DEF CountedIn
    <3>3. Cardinality({n}) = 1
      BY FS_Singleton
    <3> QED
      BY <2>2, <2>5, <3>2, <3>3
  <2> QED
    BY <2>4, <2>5
<1>3. MatchesAreAccountedOnce
  BY <1>2 DEF MatchesAreAccountedOnce
<1>4. BestAreShown
  <2> SUFFICES ASSUME reader.pc = "done" PROVE BestAreShown
    BY DEF BestAreShown
  <2>1. PICK S \in SUBSET Rows : S = Scored(reader.pool, reader.mode)
    BY ScoredIsFew DEF RecallInv
  <2>2. reader.facts = Packed(S)
    BY <2>1 DEF RecallInv
  <2> QED
    BY <2>1, <2>2, PackedIsBest DEF BestAreShown
<1> QED
  BY <1>1, <1>3, <1>4

LEMMA SmallestSet ==
    ASSUME NEW S, IsFiniteSet(S), NEW C, C \subseteq SUBSET S, C # {}
    PROVE  \E s \in C : \A t \in C : t \subseteq s => t = s
<1>1. C \subseteq FiniteSubsetsOf(S)
  BY FS_Subset DEF FiniteSubsetsOf
<1>2. PICK s \in C : \A t \in C : ~(<<t, s>> \in StrictSubsetOrdering(S))
  BY <1>1, WFMin, FS_StrictSubsetOrderingWellFounded
<1> QED
  BY <1>2 DEF StrictSubsetOrdering

LEMMA LargestNumber ==
    ASSUME NEW S, IsFiniteSet(S)
    PROVE  S \subseteq Nat /\ S # {} => Max(S) \in S /\ \A k \in S : k <= Max(S)
<1>0. \A C \in SUBSET SUBSET S : C # {} => \E s \in C : \A t \in C : t \subseteq s => t = s
  BY SmallestSet
<1> SUFFICES ASSUME S \subseteq Nat, S # {} PROVE Max(S) \in S /\ \A k \in S : k <= Max(S)
  OBVIOUS
<1> DEFINE above == {s \in SUBSET S : ~\E n \in Nat : \A k \in s : k <= n}
<1>1. ASSUME above # {} PROVE FALSE
  <2>1. PICK s \in above : \A t \in above : t \subseteq s => t = s
    <3>1. above \in SUBSET SUBSET S
      OBVIOUS
    <3> HIDE DEF above
    <3> QED
      BY <1>0, <1>1, <3>1
  <2>2. PICK x \in s : TRUE
    <3>1. s = {} => \A k \in s : k <= 0
      OBVIOUS
    <3> QED
      BY <2>1, <3>1
  <2>3. PICK n \in Nat : \A k \in s \ {x} : k <= n
    <3>1. s \ {x} \notin above
      BY <2>1, <2>2
    <3> QED
      BY <2>1, <3>1
  <2>4. x \in Nat /\ n + x \in Nat
    BY <2>1, <2>2
  <2>5. \A k \in s : k \in Nat /\ k <= n + x
    BY <2>1, <2>3, <2>4
  <2> QED
    BY <2>1, <2>4, <2>5
<1> DEFINE bounds == {n \in Nat : \A k \in S : k <= n}
<1>2. bounds # {}
  BY <1>1
<1>3. PICK m \in bounds : \A n \in bounds : m <= n
  BY <1>2, SmallestNumber
<1>4. m \in S
  <2>1. SUFFICES ASSUME m \notin S PROVE FALSE
    OBVIOUS
  <2>2. PICK x \in S : x \in Nat /\ x <= m
    BY <1>3
  <2>3. m - 1 \in Nat
    BY <1>3, <2>1, <2>2
  <2>4. \A k \in S : k \in Nat /\ k <= m /\ k # m
    BY <1>3, <2>1
  <2>5. \A k \in S : k <= m - 1
    BY <1>3, <2>4
  <2>6. m <= m - 1
    BY <1>3, <2>3, <2>5
  <2> QED
    BY <1>3, <2>6
<1> QED
  BY <1>3, <1>4 DEF Max

LEMMA HighestIsAbove ==
    ASSUME RecallTyped
    PROVE  Highest + 1 \in Nat /\ \A i \in Rows : shelf[i].stamp < Highest + 1
<1> DEFINE stamps == {shelf[i].stamp : i \in Rows}
           S == {0} \cup stamps
<1>1. \A i \in Rows : shelf[i].stamp \in Nat
  BY DEF RecallTyped, ShelfRows
<1>2. IsFiniteSet(stamps)
  <2> DEFINE g == [i \in Rows |-> shelf[i].stamp]
  <2>1. stamps = {g[i] : i \in Rows}
    OBVIOUS
  <2>2. g \in Surjection(Rows, stamps)
    BY <2>1 DEF Surjection
  <2> HIDE DEF g, stamps
  <2> QED
    BY <2>2, FS_Surjection, RecallAssumption
<1>3. IsFiniteSet(S) /\ S \subseteq Nat /\ S # {}
  <2>1. S = stamps \cup {0} /\ S \subseteq Nat
    BY <1>1
  <2> HIDE DEF stamps
  <2> QED
    BY <1>2, <2>1, FS_AddElement
<1>4. \A i \in Rows : shelf[i].stamp \in S
  OBVIOUS
<1>5. Highest = Max(S)
  BY DEF Highest
<1> HIDE DEF S
<1>6. Max(S) \in S /\ \A k \in S : k <= Max(S)
  BY <1>3, LargestNumber
<1>7. Max(S) \in Nat /\ \A i \in Rows : shelf[i].stamp <= Max(S)
  BY <1>3, <1>4, <1>6
<1> QED
  BY <1>1, <1>5, <1>7

\* What every step of a recall leaves alone.
LEMMA SameRows ==
    ASSUME shelf' = shelf
    PROVE  /\ InStore' = InStore /\ Listed' = Listed /\ Found' = Found /\ Recency' = Recency
           /\ \A i : Shown(i)' <=> Shown(i)
           /\ \A i, r : Counts(r, i)' <=> Counts(r, i)
           /\ \A p, n, M, W : ShowsOnce(p, n, M, W)' <=> ShowsOnce(p, n, M, W)
BY DEF InStore, Listed, Found, Recency, Shown, Counts, ShowsOnce

LEMMA BeginKeepsRecall == RecallInv /\ BeginRecall => RecallInv'
<1> SUFFICES ASSUME RecallInv, BeginRecall PROVE RecallInv'
  OBVIOUS
<1>1. PICK m \in Modes, a \in BOOLEAN : reader' = [NoRecall EXCEPT !.pc = "count", !.mode = m, !.asks = a]
  BY DEF BeginRecall
<1>2. UNCHANGED <<shelf, pager, shifted>> /\ moved' = {} /\ ~pager.on
  BY DEF BeginRecall
<1>3. reader' = [pc |-> "count", mode |-> m, asks |-> a, counted |-> << >>, pool |-> {}, facts |-> {}]
  BY <1>1 DEF NoRecall
<1>4. << >> \in Seq(SUBSET Rows)
  OBVIOUS
<1>5. RecallTyped' /\ IsOrder(Recency)'
  <2>1. reader' \in Readers
    BY <1>3, <1>4 DEF Readers
  <2> QED
    BY <1>2, <2>1, SameRows DEF RecallInv, RecallTyped, IsOrder
<1>6. CountedSoFar' /\ CountsStand' /\ PoolStands'
  BY <1>3 DEF CountedSoFar, CountsStand, PoolStands
<1>7. PagesStand'
  BY <1>2 DEF RecallInv, PagesStand
<1>8. (reader.pc = "done" => reader.facts = Packed(Scored(reader.pool, reader.mode)))'
  BY <1>3
<1> QED
  BY <1>5, <1>6, <1>7, <1>8 DEF RecallInv

LEMMA CountKeepsRecall == RecallInv /\ CountOmitted => RecallInv'
<1> SUFFICES ASSUME RecallInv, CountOmitted PROVE RecallInv'
  OBVIOUS
<1>1. PICK n : n = Len(reader.counted) + 1
  OBVIOUS
<1>2. PICK r \in Readers : r = reader
  BY DEF RecallInv, RecallTyped
<1>3. PICK X : X = Omitted(Order[n], r.asks)
  OBVIOUS
<1>4. PICK pc : pc = IF n < 3 THEN "count" ELSE IF r.asks THEN "search" ELSE "list"
  OBVIOUS
<1>5. reader' = [r EXCEPT !.counted = Append(r.counted, X), !.pc = pc]
  BY <1>1, <1>2, <1>3, <1>4 DEF CountOmitted, Reads
<1>6. UNCHANGED <<shelf, pager, shifted, moved>> /\ r.pc = "count"
  BY <1>2 DEF CountOmitted, Reads
<1>7. X \subseteq Rows /\ r.counted \in Seq(SUBSET Rows) /\ n \in 1 .. 3 /\ r.asks \in BOOLEAN
  BY <1>1, <1>2, <1>3, <1>6 DEF Omitted, InStore, Readers, RecallInv, CountedSoFar
<1>8. Append(r.counted, X) \in Seq(SUBSET Rows) /\ Len(Append(r.counted, X)) = n
  BY <1>1, <1>2, <1>7
<1>9. /\ reader'.counted = Append(r.counted, X) /\ reader'.pc = pc /\ reader'.asks = r.asks /\ reader'.pool = r.pool
      /\ reader' \in Readers
  BY <1>4, <1>5, <1>8 DEF Readers
<1>10. RecallTyped' /\ IsOrder(Recency)'
  BY <1>6, <1>9, SameRows DEF RecallInv, RecallTyped, IsOrder
<1>11. CountedSoFar'
  BY <1>4, <1>7, <1>8, <1>9 DEF CountedSoFar
<1>12. CountsStand'
  <2> SUFFICES ASSUME NEW k \in DOMAIN Append(r.counted, X), NEW i \in InStore \ moved, Asked(i, r.asks)
               PROVE  i \in Append(r.counted, X)[k] <=> Counts(Order[k], i)
    BY <1>6, <1>9, SameRows DEF CountsStand
  <2>1. CASE k = n
    <3>1. Append(r.counted, X)[k] = X
      BY <1>1, <1>2, <1>7, <2>1
    <3> QED
      BY <1>3, <2>1, <3>1 DEF Omitted
  <2>2. CASE k # n
    <3>1. k \in DOMAIN r.counted /\ Append(r.counted, X)[k] = r.counted[k]
      BY <1>1, <1>2, <1>7, <2>2
    <3> QED
      BY <1>2, <3>1 DEF RecallInv, CountsStand
  <2> QED
    BY <2>1, <2>2
<1>13. PoolStands' /\ (reader.pc = "done" => reader.facts = Packed(Scored(reader.pool, reader.mode)))'
  BY <1>4, <1>9 DEF PoolStands
<1>14. PagesStand'
  <2>1. ~pager.on
    BY <1>2, <1>6 DEF RecallInv, PagesStand
  <2> QED
    BY <1>6, <2>1 DEF RecallInv, PagesStand
<1> QED
  BY <1>10, <1>11, <1>12, <1>13, <1>14 DEF RecallInv

\* The rest of a recall counts nothing more.
LEMMA TakingKeepsRecall ==
    ASSUME RecallInv, reader.pc \in {"search", "list", "pack"}, UNCHANGED <<shelf, pager, shifted, moved>>,
           NEW p \in {"list", "pack", "done"}, NEW X \in SUBSET Rows, NEW F \in SUBSET Rows,
           reader' = [reader EXCEPT !.pc = p, !.pool = X, !.facts = F],
           p \in {"pack", "done"} /\ Cardinality(X) < Pool =>
               \A i \in InStore \ moved : Asked(i, reader.asks) => (i \in X <=> Shown(i)),
           p = "done" => F = Packed(Scored(X, reader.mode))
    PROVE  RecallInv'
<1>1. PICK r \in Readers : r = reader
  BY DEF RecallInv, RecallTyped
<1>2. /\ reader'.counted = r.counted /\ reader'.pc = p /\ reader'.asks = r.asks /\ reader'.pool = X
      /\ reader'.facts = F /\ reader'.mode = r.mode /\ reader' \in Readers
  BY <1>1 DEF Readers
<1>3. RecallTyped' /\ IsOrder(Recency)'
  BY <1>2, SameRows DEF RecallInv, RecallTyped, IsOrder
<1>4. CountedSoFar'
  BY <1>1, <1>2 DEF RecallInv, CountedSoFar
<1>5. CountsStand'
  BY <1>1, <1>2, SameRows DEF RecallInv, CountsStand
<1>6. PoolStands'
  BY <1>1, <1>2, SameRows DEF PoolStands
<1>7. PagesStand'
  <2>1. ~pager.on
    BY DEF RecallInv, PagesStand
  <2> QED
    BY <2>1 DEF RecallInv, PagesStand
<1>8. (reader.pc = "done" => reader.facts = Packed(Scored(reader.pool, reader.mode)))'
  <2>1. Scored(reader.pool, reader.mode)' = Scored(X, r.mode)
    BY <1>2 DEF Scored
  <2>2. \A S : Packed(S)' = Packed(S)
    BY DEF Packed, Fits, FirstBy, Ahead, Relevance
  <2> QED
    BY <1>1, <1>2, <2>1, <2>2
<1> QED
  BY <1>3, <1>4, <1>5, <1>6, <1>7, <1>8 DEF RecallInv

LEMMA TakeKeepsRecall == RecallInv /\ (SearchPool \/ ListPool \/ PackFacts) => RecallInv'
<1> SUFFICES ASSUME RecallInv, SearchPool \/ ListPool \/ PackFacts PROVE RecallInv'
  OBVIOUS
<1>1. PICK r \in Readers : r = reader
  BY DEF RecallInv, RecallTyped
<1>2. UNCHANGED <<shelf, pager, shifted, moved>> /\ Listed \subseteq Rows /\ Found \subseteq Rows /\ IsOrder(Recency)
  BY RowsAreStored DEF SearchPool, ListPool, PackFacts, Reads, RecallInv
<1>3. \A f, S : FirstBy(f, S, Pool) \subseteq S
  BY DEF FirstBy
<1>4. CASE SearchPool
  <2>1. PICK X : X = FirstBy(Relevance, Found, Pool)
    OBVIOUS
  <2>2. PICK p : p = IF Found = {} THEN "list" ELSE "pack"
    OBVIOUS
  <2>3. reader' = [r EXCEPT !.pool = X, !.pc = p] /\ r.pc = "search" /\ r.asks
    BY <1>1, <1>4, <2>1, <2>2 DEF SearchPool, Reads, RecallInv, CountedSoFar
  <2>4. reader' = [reader EXCEPT !.pc = p, !.pool = X, !.facts = r.facts] /\ r.facts \in SUBSET Rows
    BY <1>1, <2>3 DEF Readers
  <2>5. X \in SUBSET Rows
    BY <1>2, <1>3, <2>1
  <2>6. ASSUME Cardinality(X) < Pool, NEW i \in InStore \ moved, Asked(i, r.asks)
        PROVE  i \in X <=> Shown(i)
    <3>1. X = Found
      BY <1>2, <2>1, <2>6, FirstWithRoomIsAll, RelevanceIsOrder, RecallAssumption
    <3>2. KindOf[i].hit
      BY <2>3, <2>6 DEF Asked
    <3> QED
      BY <3>1, <3>2 DEF Found, Listed
  <2>7. p \in {"list", "pack", "done"} /\ p # "done" /\ reader.pc \in {"search", "list", "pack"}
    BY <1>1, <2>2, <2>3
  <2>8. Cardinality(X) < Pool => \A i \in InStore \ moved : Asked(i, reader.asks) => (i \in X <=> Shown(i))
    BY <1>1, <2>6
  <2> QED
    BY <1>2, <2>4, <2>5, <2>7, <2>8, TakingKeepsRecall
<1>5. CASE ListPool
  <2>1. PICK X : X = FirstBy(Recency, Listed, Pool)
    OBVIOUS
  <2>2. reader' = [r EXCEPT !.pool = X, !.pc = "pack"] /\ r.pc = "list"
    BY <1>1, <1>5, <2>1 DEF ListPool, Reads
  <2>3. reader' = [reader EXCEPT !.pc = "pack", !.pool = X, !.facts = r.facts] /\ r.facts \in SUBSET Rows
    BY <1>1, <2>2 DEF Readers
  <2>4. X \in SUBSET Rows
    BY <1>2, <1>3, <2>1
  <2>5. ASSUME Cardinality(X) < Pool, NEW i \in InStore \ moved, Asked(i, r.asks)
        PROVE  i \in X <=> Shown(i)
    <3>1. X = Listed
      BY <1>2, <2>1, <2>5, FirstWithRoomIsAll, RecallAssumption
    <3> QED
      BY <3>1 DEF Listed
  <2> QED
    BY <1>1, <1>2, <2>2, <2>3, <2>4, <2>5, TakingKeepsRecall
<1>6. CASE PackFacts
  <2>1. PICK F : F = Packed(Scored(r.pool, r.mode))
    OBVIOUS
  <2>2. reader' = [r EXCEPT !.facts = F, !.pc = "done"] /\ r.pc = "pack"
    BY <1>1, <1>6, <2>1 DEF PackFacts, Reads
  <2>3. reader' = [reader EXCEPT !.pc = "done", !.pool = r.pool, !.facts = F] /\ r.pool \in SUBSET Rows
    BY <1>1, <2>2 DEF Readers
  <2>4. F \in SUBSET Rows
    <3>1. Scored(r.pool, r.mode) \subseteq Rows
      BY <1>1, ScoredIsFew DEF RecallInv
    <3> QED
      BY <2>1, <3>1 DEF Packed, FirstBy
  <2>5. Cardinality(r.pool) < Pool => \A i \in InStore \ moved : Asked(i, r.asks) => (i \in r.pool <=> Shown(i))
    BY <1>1, <2>2 DEF RecallInv, PoolStands
  <2>6. reader.pc \in {"search", "list", "pack"} /\ F = Packed(Scored(r.pool, reader.mode))
    BY <1>1, <2>1, <2>2
  <2>7. Cardinality(r.pool) < Pool => \A i \in InStore \ moved : Asked(i, reader.asks) => (i \in r.pool <=> Shown(i))
    BY <1>1, <2>5
  <2> QED
    BY <1>2, <2>3, <2>4, <2>6, <2>7, TakingKeepsRecall
<1> QED
  BY <1>4, <1>5, <1>6

LEMMA EndKeepsRecall == RecallInv /\ EndRecall => RecallInv'
<1> SUFFICES ASSUME RecallInv, EndRecall PROVE RecallInv'
  OBVIOUS
<1>1. UNCHANGED <<shelf, pager, shifted>> /\ moved' = {} /\ ~pager.on
  BY DEF EndRecall, RecallInv, PagesStand
<1>2. reader' = [pc |-> "idle", mode |-> "now", asks |-> FALSE, counted |-> << >>, pool |-> {}, facts |-> {}]
  BY DEF EndRecall, NoRecall
<1>3. << >> \in Seq(SUBSET Rows) /\ "now" \in Modes
  BY DEF Modes
<1>4. RecallTyped' /\ IsOrder(Recency)'
  <2>1. reader' \in Readers
    BY <1>2, <1>3 DEF Readers
  <2> QED
    BY <1>1, <2>1, SameRows DEF RecallInv, RecallTyped, IsOrder
<1>5. CountedSoFar' /\ CountsStand' /\ PoolStands'
  BY <1>2 DEF CountedSoFar, CountsStand, PoolStands
<1>6. PagesStand'
  BY <1>1 DEF RecallInv, PagesStand
<1>7. (reader.pc = "done" => reader.facts = Packed(Scored(reader.pool, reader.mode)))'
  BY <1>2
<1> QED
  BY <1>4, <1>5, <1>6, <1>7 DEF RecallInv

\* A row that is brought to the front pushes the others back, unless it is not listed; one that leaves
\* lets them come forward.
LEMMA OthersShift ==
    ASSUME NEW f, IsOrder(f), NEW g, IsOrder(g), NEW S \in SUBSET Rows, NEW T \in SUBSET Rows,
           NEW w \in Rows, NEW i \in S, i \in T, i # w, NEW n \in Nat,
           \A j \in Rows \ {w} : (j \in T <=> j \in S) /\ g[j] = f[j] /\ g[w] > g[j]
    PROVE  /\ (w \in S => w \in T) /\ i \in FirstBy(g, T, n) => i \in FirstBy(f, S, n)
           /\ w \notin T /\ i \in FirstBy(f, S, n) => i \in FirstBy(g, T, n)
<1>1. /\ IsFiniteSet(Ahead(f, S, i)) /\ IsFiniteSet(Ahead(g, T, i))
      /\ Cardinality(Ahead(f, S, i)) \in Nat /\ Cardinality(Ahead(g, T, i)) \in Nat
  BY AheadIsSmall
<1>2. ASSUME w \in S => w \in T, i \in FirstBy(g, T, n) PROVE i \in FirstBy(f, S, n)
  <2>1. Ahead(f, S, i) \subseteq Ahead(g, T, i)
    BY <1>2 DEF Ahead
  <2>2. Cardinality(Ahead(f, S, i)) <= Cardinality(Ahead(g, T, i))
    BY <1>1, <2>1, FS_Subset
  <2> QED
    BY <1>1, <1>2, <2>2 DEF FirstBy
<1>3. ASSUME w \notin T, i \in FirstBy(f, S, n) PROVE i \in FirstBy(g, T, n)
  <2>1. Ahead(g, T, i) \subseteq Ahead(f, S, i)
    BY <1>3 DEF Ahead
  <2>2. Cardinality(Ahead(g, T, i)) <= Cardinality(Ahead(f, S, i))
    BY <1>1, <2>1, FS_Subset
  <2> QED
    BY <1>1, <1>3, <2>2 DEF FirstBy
<1> QED
  BY <1>2, <1>3

LEMMA WriteKeepsRecall == ASSUME RecallInv, NEW w \in Rows, Write(w) PROVE RecallInv'
<1>1. PICK s \in {"none", "active", "archived"}, t \in BOOLEAN :
          shelf' = [shelf EXCEPT ![w] = [state |-> s, trusted |-> t, stamp |-> Highest + 1]]
  BY DEF Write
<1>2. /\ UNCHANGED <<reader, pager>> /\ moved' = moved \cup {w} /\ shifted' = shifted \cup Shifts(w)
      /\ Shifts(w) \subseteq {"out", "front"}
  BY DEF Write, Shifts
<1>3. Highest + 1 \in Nat /\ \A i \in Rows : shelf[i].stamp < Highest + 1
  BY HighestIsAbove DEF RecallInv
<1>4. RecallTyped'
  <2>1. [state |-> s, trusted |-> t, stamp |-> Highest + 1] \in ShelfRows
    BY <1>3 DEF ShelfRows
  <2> QED
    BY <1>1, <1>2, <2>1 DEF RecallInv, RecallTyped
<1>5. \A i \in Rows : i # w => shelf'[i] = shelf[i]
  BY <1>1
<1>6. shelf'[w].stamp = Highest + 1
  BY <1>1 DEF RecallInv, RecallTyped
<1>7. IsOrder(Recency)'
  <2>1. Recency' \in [Rows -> Nat] /\ \A i \in Rows : Recency'[i] = shelf'[i].stamp /\ Recency[i] = shelf[i].stamp
    BY <1>4 DEF Recency, RecallTyped, ShelfRows
  <2>2. ASSUME NEW i \in Rows, NEW j \in Rows, Recency'[i] = Recency'[j] PROVE i = j
    <3>1. shelf[i].stamp \in Nat /\ shelf[j].stamp \in Nat
      BY DEF RecallInv, RecallTyped, ShelfRows
    <3>2. CASE i # w /\ j # w
      BY <1>5, <2>1, <2>2, <3>2 DEF RecallInv, IsOrder
    <3>3. CASE i = w /\ j # w
      BY <1>3, <1>5, <1>6, <2>1, <2>2, <3>1, <3>3
    <3>4. CASE i # w /\ j = w
      BY <1>3, <1>5, <1>6, <2>1, <2>2, <3>1, <3>4
    <3> QED
      BY <3>2, <3>3, <3>4
  <2> QED
    BY <2>1, <2>2 DEF IsOrder
<1>8. \A i \in Rows \ {w} : /\ i \in InStore' <=> i \in InStore
                            /\ Shown(i)' <=> Shown(i)
                            /\ \A r : Counts(r, i)' <=> Counts(r, i)
  BY <1>5 DEF InStore, Shown, Counts
<1>9. (InStore \ moved)' \subseteq (InStore \ moved) /\ w \notin (InStore \ moved)' /\ (InStore \ moved)' \subseteq Rows
  BY <1>2, <1>8 DEF InStore
<1>10. CountedSoFar' /\ CountsStand' /\ PoolStands'
  <2>1. CountedSoFar'
    BY <1>2 DEF RecallInv, CountedSoFar
  <2>2. CountsStand'
    BY <1>2, <1>8, <1>9 DEF RecallInv, CountsStand
  <2>3. PoolStands'
    BY <1>2, <1>8, <1>9 DEF RecallInv, PoolStands
  <2> QED
    BY <2>1, <2>2, <2>3
<1>11. PagesStand'
  <2>1. ASSUME pager.on, ~pager.asks
        PROVE  ShowsOnce(pager.shown, pager.offset, moved, shifted)'
    <3>1. PICK g, T : g = Recency' /\ T = Listed'
      OBVIOUS
    <3>2. PICK o \in Nat : o = pager.offset
      BY DEF RecallInv, RecallTyped, Pagers
    <3>3. PICK pages : pages = pager.shown
      OBVIOUS
    <3>4. ShowsOnce(pages, o, moved, shifted)
      BY <2>1, <3>2, <3>3 DEF RecallInv, PagesStand
    <3>5. /\ Listed \subseteq Rows /\ T \subseteq Rows
          /\ \A j \in Rows \ {w} : j \in T <=> j \in Listed
      BY <1>8, <3>1 DEF Listed, InStore
    <3>6. \A j \in Rows \ {w} : g[j] = Recency[j] /\ g[w] > g[j]
      <4>1. ASSUME NEW j \in Rows \ {w} PROVE g[j] = Recency[j] /\ g[w] > g[j]
        <5>1. g[j] = shelf'[j].stamp /\ g[w] = shelf'[w].stamp /\ Recency[j] = shelf[j].stamp
          BY <3>1 DEF Recency
        <5>2. shelf[j].stamp \in Nat
          BY DEF RecallInv, RecallTyped, ShelfRows
        <5> QED
          BY <1>3, <1>5, <1>6, <5>1, <5>2
      <4> QED
        BY <4>1
    <3>7. ("out" \notin shifted' => "out" \notin shifted /\ (w \in Listed => w \in T))
      BY <1>2, <2>1, <3>1 DEF Shifts
    <3>8. "front" \notin shifted' => "front" \notin shifted /\ w \notin T
      BY <1>2, <2>1, <3>1 DEF Shifts
    <3>9. IsOrder(g) /\ IsOrder(Recency)
      BY <1>7, <3>1 DEF RecallInv, IsOrder
    <3>10. ASSUME NEW i \in T \ moved'
           PROVE  /\ "out" \notin shifted' /\ i \in FirstBy(g, T, o) => Times(pages, i) >= 1
                  /\ "front" \notin shifted' => /\ Times(pages, i) <= 1
                                                /\ i \notin FirstBy(g, T, o) => Times(pages, i) = 0
      <4>1. i \in Rows \ {w} /\ i \in Listed /\ i \notin moved
        BY <1>2, <3>5
      <4>2. /\ "out" \notin shifted /\ i \in FirstBy(Recency, Listed, o) => Times(pages, i) >= 1
            /\ "front" \notin shifted => /\ Times(pages, i) <= 1
                                         /\ i \notin FirstBy(Recency, Listed, o) => Times(pages, i) = 0
        BY <3>4, <4>1 DEF ShowsOnce
      <4>3. /\ (w \in Listed => w \in T) /\ i \in FirstBy(g, T, o) => i \in FirstBy(Recency, Listed, o)
            /\ w \notin T /\ i \in FirstBy(Recency, Listed, o) => i \in FirstBy(g, T, o)
        BY <3>5, <3>6, <3>9, <4>1, OthersShift
      <4> QED
        BY <3>7, <3>8, <4>2, <4>3
    <3>11. PICK M, W : M = moved' /\ W = shifted'
      OBVIOUS
    <3>12. ShowsOnce(pages, o, M, W)'
      BY <3>1, <3>10, <3>11 DEF ShowsOnce, Times, FirstBy, Ahead
    <3> QED
      BY <1>2, <3>2, <3>3, <3>11, <3>12
  <2> QED
    BY <1>2, <2>1 DEF RecallInv, PagesStand
<1>12. (reader.pc = "done" => reader.facts = Packed(Scored(reader.pool, reader.mode)))'
  <2>1. \A S : Packed(S)' = Packed(S)
    BY DEF Packed, Fits, FirstBy, Ahead, Relevance
  <2> QED
    BY <1>2, <2>1 DEF RecallInv, Scored
<1> QED
  BY <1>4, <1>7, <1>10, <1>11, <1>12 DEF RecallInv
----------------------------------------------------------------------------
(* Pages *)

LEMMA PageAppended ==
    ASSUME NEW pages \in Seq(SUBSET Rows), NEW X \in SUBSET Rows, NEW i \in Rows
    PROVE  Times(Append(pages, X), i) = Times(pages, i) + (IF i \in X THEN 1 ELSE 0)
<1> DEFINE D == {n \in DOMAIN pages : i \in pages[n]}
           E == {n \in DOMAIN Append(pages, X) : i \in Append(pages, X)[n]}
           m == Len(pages) + 1
<1>1. m \in Nat /\ DOMAIN pages = 1 .. Len(pages) /\ DOMAIN Append(pages, X) = 1 .. m
  OBVIOUS
<1>2. Append(pages, X)[m] = X /\ \A n \in 1 .. Len(pages) : Append(pages, X)[n] = pages[n]
  OBVIOUS
<1>3. E = IF i \in X THEN D \cup {m} ELSE D
  BY <1>1, <1>2
<1>4. IsFiniteSet(D) /\ m \notin D /\ Cardinality(D) \in Nat
  <2>1. IsFiniteSet(1 .. Len(pages))
    BY FS_Interval
  <2>2. D \subseteq 1 .. Len(pages)
    BY <1>1
  <2> QED
    BY <2>1, <2>2, FS_Subset, FS_CardinalityType
<1> HIDE DEF D, E, m
<1>5. Cardinality(D \cup {m}) = Cardinality(D) + 1
  BY <1>4, FS_AddElement
<1>6. Cardinality(E) = Cardinality(D) + (IF i \in X THEN 1 ELSE 0)
  BY <1>3, <1>4, <1>5
<1> QED
  BY <1>6 DEF D, E, Times

LEMMA TimesIsNat == ASSUME NEW pages \in Seq(SUBSET Rows), NEW i PROVE Times(pages, i) \in Nat
<1> DEFINE D == {n \in DOMAIN pages : i \in pages[n]}
<1>1. IsFiniteSet(1 .. Len(pages)) /\ D \subseteq 1 .. Len(pages)
  BY FS_Interval
<1> HIDE DEF D
<1>2. Cardinality(D) \in Nat
  BY <1>1, FS_Subset, FS_CardinalityType
<1> QED
  BY <1>2 DEF D, Times

\* A page continues the pages before it; the last one leaves nothing out.
LEMMA NextPage ==
    ASSUME RecallInv, NEW pages \in Seq(SUBSET Rows), NEW o \in Nat, NEW M, NEW W, ShowsOnce(pages, o, M, W),
           NEW R, R = Listed \ FirstBy(Recency, Listed, o)
    PROVE  /\ ShowsOnce(Append(pages, Page(Recency, R)), o + PageLimit, M, W)
           /\ ~HasMore(Recency, R) => ShowsAll(Append(pages, Page(Recency, R)), M, W)
<1>1. \A X \in SUBSET Rows, j \in Rows :
          Times(Append(pages, X), j) = Times(pages, j) + (IF j \in X THEN 1 ELSE 0)
  BY PageAppended
<1> DEFINE P == Page(Recency, R)
           F == FirstBy(Recency, Listed, o)
<1>2. IsOrder(Recency) /\ Listed \subseteq Rows /\ R \subseteq Rows /\ PageLimit \in Nat \ {0}
  BY RowsAreStored, RecallAssumption DEF RecallInv
<1>3. P = FirstBy(Recency, R, PageLimit) /\ P \subseteq R /\ P \subseteq Rows
  BY <1>2 DEF Page, FirstBy
<1> HIDE DEF P
<1>4. FirstBy(Recency, Listed, o + PageLimit) = F \cup P
  <2>1. PageLimit \in Nat
    BY <1>2
  <2>2. Continues(Recency, Listed, o, PageLimit)
    BY <1>2, <2>1, FirstContinues
  <2> QED
    BY <1>3, <2>2 DEF Continues
<1> HIDE DEF F
<1>5. ASSUME NEW i \in Listed \ M
      PROVE  /\ "out" \notin W /\ i \in F \cup P => Times(Append(pages, P), i) >= 1
             /\ "front" \notin W => /\ Times(Append(pages, P), i) <= 1
                                    /\ i \notin F \cup P => Times(Append(pages, P), i) = 0
  <2>1. PICK k : k = Times(pages, i)
    OBVIOUS
  <2>2. k \in Nat /\ Times(Append(pages, P), i) = k + (IF i \in P THEN 1 ELSE 0)
    <3>1. i \in Rows /\ P \in SUBSET Rows
      BY <1>2, <1>3
    <3>2. Times(Append(pages, P), i) = Times(pages, i) + (IF i \in P THEN 1 ELSE 0)
      BY <1>1, <3>1
    <3>3. Times(pages, i) \in Nat
      BY TimesIsNat
    <3> QED
      BY <2>1, <3>2, <3>3
  <2>3. /\ "out" \notin W /\ i \in F => k >= 1
        /\ "front" \notin W => k <= 1 /\ (i \notin F => k = 0)
    BY <2>1 DEF ShowsOnce, F
  <2>4. i \in P => i \notin F
    BY <1>3 DEF F
  <2> QED
    BY <2>2, <2>3, <2>4
<1>6. ShowsOnce(Append(pages, P), o + PageLimit, M, W)
  BY <1>4, <1>5 DEF ShowsOnce
<1>7. ASSUME ~HasMore(Recency, R) PROVE P = R
  <2>1. /\ Cardinality(FirstBy(Recency, R, PageLimit + 1)) \in Nat
        /\ ~(Cardinality(FirstBy(Recency, R, PageLimit + 1)) > PageLimit)
    BY <1>2, <1>7, FirstHasRoom DEF HasMore
  <2>2. FirstBy(Recency, R, PageLimit + 1) = R
    BY <1>2, <2>1, FirstWithRoomIsAll
  <2>3. Cardinality(R) \in Nat /\ ~(Cardinality(R) > PageLimit) /\ PageLimit \in Nat
    BY <1>2, <2>1, <2>2
  <2>4. Cardinality(R) <= PageLimit
    BY <2>3
  <2> QED
    BY <1>2, <1>3, <2>3, <2>4, FewAreAll
<1>8. ASSUME ~HasMore(Recency, R) PROVE ShowsAll(Append(pages, P), M, W)
  <2>1. Listed \subseteq F \cup P
    BY <1>7, <1>8 DEF F
  <2> QED
    BY <1>5, <2>1 DEF ShowsAll
<1> QED
  BY <1>6, <1>8 DEF P

LEMMA NoPageYet == ASSUME RecallInv, NEW M, NEW W PROVE ShowsOnce(<< >>, 0, M, W)
<1>1. FirstBy(Recency, Listed, 0) = {}
  BY NoneAreFirst, RowsAreStored DEF RecallInv
<1>2. ASSUME NEW i \in Listed PROVE Times(<< >>, i) = 0
  <2>1. {n \in DOMAIN << >> : i \in << >>[n]} = {}
    OBVIOUS
  <2> QED
    BY <2>1, FS_EmptySet DEF Times
<1> QED
  BY <1>1, <1>2 DEF ShowsOnce

SoFar(a) == IF pager.on THEN pager.shown ELSE << >>

LEMMA ReadIs ==
    ASSUME RecallInv, NEW a \in BOOLEAN, ReadPage(a)
    PROVE  \E S \in SUBSET Rows, o \in {Relevance, Recency} :
              /\ S = PageRows(a, pager.offset) /\ (~a => o = Recency)
              /\ pager' = [on |-> HasMore(o, S), asks |-> a,
                           offset |-> IF HasMore(o, S) THEN pager.offset + PageLimit ELSE 0,
                           shown |-> Append(SoFar(a), Page(o, S))]
              /\ Page(o, S) \in SUBSET Rows /\ SoFar(a) \in Seq(SUBSET Rows)
              /\ reader.pc = "idle" /\ UNCHANGED <<shelf, reader>>
              /\ moved' = IF pager.on THEN moved ELSE {}
              /\ shifted' = IF pager.on THEN shifted ELSE {}
<1>1. PICK S : S = PageRows(a, pager.offset)
  OBVIOUS
<1>2. S \subseteq Rows
  BY <1>1, RowsAreStored DEF PageRows
<1>3. PICK o \in {Relevance, Recency} : o = IF a THEN Relevance ELSE Recency
  OBVIOUS
<1>4. Page(o, S) \subseteq Rows
  BY <1>2 DEF Page, FirstBy
<1>5. SoFar(a) \in Seq(SUBSET Rows)
  BY DEF SoFar, RecallInv, RecallTyped, Pagers
<1> QED
  BY <1>1, <1>2, <1>3, <1>4, <1>5 DEF ReadPage, SoFar

\* What the pages before the next one have shown.
LEMMA PagesBefore ==
    ASSUME RecallInv, NEW a \in BOOLEAN, ~a, ReadPage(a)
    PROVE  ShowsOnce(SoFar(a), pager.offset, moved', shifted')
<1>1. CASE pager.on
  <2>1. pager.asks = a /\ moved' = moved /\ shifted' = shifted
    BY <1>1 DEF ReadPage
  <2> QED
    BY <1>1, <2>1 DEF RecallInv, PagesStand, SoFar
<1>2. CASE ~pager.on
  BY <1>2, NoPageYet DEF RecallInv, PagesStand, SoFar
<1> QED
  BY <1>1, <1>2

LEMMA ReadKeepsRecall == ASSUME RecallInv, NEW a \in BOOLEAN, ReadPage(a) PROVE RecallInv'
<1>1. PICK S \in SUBSET Rows, o \in {Relevance, Recency} :
              /\ S = PageRows(a, pager.offset) /\ (~a => o = Recency)
              /\ pager' = [on |-> HasMore(o, S), asks |-> a,
                           offset |-> IF HasMore(o, S) THEN pager.offset + PageLimit ELSE 0,
                           shown |-> Append(SoFar(a), Page(o, S))]
              /\ Page(o, S) \in SUBSET Rows /\ SoFar(a) \in Seq(SUBSET Rows)
              /\ reader.pc = "idle" /\ UNCHANGED <<shelf, reader>>
              /\ moved' = IF pager.on THEN moved ELSE {}
              /\ shifted' = IF pager.on THEN shifted ELSE {}
  BY ReadIs
<1>2. PICK q \in Pagers : q = pager
  BY DEF RecallInv, RecallTyped
<1>3. q.offset \in Nat /\ q.offset + PageLimit \in Nat
  BY RecallAssumption DEF Pagers
<1>4. Append(SoFar(a), Page(o, S)) \in Seq(SUBSET Rows)
  BY <1>1
<1>5. HasMore(o, S) \in BOOLEAN
  BY DEF HasMore
<1>6. pager' \in Pagers
  BY <1>1, <1>2, <1>3, <1>4, <1>5 DEF Pagers
<1>7. RecallTyped' /\ IsOrder(Recency)'
  BY <1>1, <1>6, SameRows DEF RecallInv, RecallTyped, IsOrder
<1>8. CountedSoFar' /\ PoolStands' /\ (reader.pc = "done" => reader.facts = Packed(Scored(reader.pool, reader.mode)))'
  BY <1>1 DEF RecallInv, CountedSoFar, PoolStands
<1>9. CountsStand'
  <2>1. reader'.counted = << >>
    BY <1>1 DEF RecallInv, CountedSoFar
  <2> QED
    BY <2>1 DEF CountsStand
<1>10. PagesStand'
  <2>1. ASSUME ~a PROVE ShowsOnce(Append(SoFar(a), Page(o, S)), q.offset + PageLimit, moved', shifted')
    <3>1. S = Listed \ FirstBy(Recency, Listed, q.offset) /\ o = Recency
      BY <1>1, <1>2, <2>1 DEF PageRows
    <3>2. ShowsOnce(SoFar(a), q.offset, moved', shifted')
      BY <1>2, <2>1, PagesBefore
    <3> QED
      BY <1>1, <1>3, <3>1, <3>2, NextPage
  <2>2. (pager.on => reader.pc = "idle")' /\ (~pager.on => pager.offset = 0)'
    BY <1>1
  <2>3. (pager.on /\ ~pager.asks => ShowsOnce(pager.shown, pager.offset, moved, shifted))'
    BY <1>1, <1>2, <2>1, SameRows
  <2> QED
    BY <2>2, <2>3 DEF PagesStand
<1> QED
  BY <1>7, <1>8, <1>9, <1>10 DEF RecallInv

LEMMA RecallInvStays == RecallInv /\ [RecallNext]_recallVars => RecallInv'
<1> SUFFICES ASSUME RecallInv, [RecallNext]_recallVars PROVE RecallInv'
  OBVIOUS
<1>1. CASE UNCHANGED recallVars
  <2>1. UNCHANGED <<shelf, reader, moved, pager, shifted>>
    BY <1>1 DEF recallVars
  <2>2. \A S : Packed(S)' = Packed(S)
    BY DEF Packed, Fits, FirstBy, Ahead, Relevance
  <2>3. RecallTyped' /\ IsOrder(Recency)' /\ CountedSoFar' /\ CountsStand' /\ PoolStands'
    BY <2>1, SameRows DEF RecallInv, RecallTyped, IsOrder, CountedSoFar, CountsStand, PoolStands
  <2>4. PagesStand'
    BY <2>1, SameRows DEF RecallInv, PagesStand
  <2>5. (reader.pc = "done" => reader.facts = Packed(Scored(reader.pool, reader.mode)))'
    BY <2>1, <2>2 DEF RecallInv, Scored
  <2> QED
    BY <2>3, <2>4, <2>5 DEF RecallInv
<1> QED
  BY <1>1, BeginKeepsRecall, CountKeepsRecall, TakeKeepsRecall, EndKeepsRecall, ReadKeepsRecall, WriteKeepsRecall
     DEF RecallNext

LEMMA LastPageShowsAll ==
    ASSUME RecallInv, ReadPage(FALSE), ~pager'.on, NEW i \in Listed \ moved'
    PROVE  /\ "out" \in shifted' \/ TimesShown(i)' >= 1
           /\ "front" \in shifted' \/ TimesShown(i)' <= 1
<1>1. PICK S \in SUBSET Rows, o \in {Relevance, Recency} :
              /\ S = PageRows(FALSE, pager.offset) /\ o = Recency
              /\ pager' = [on |-> HasMore(o, S), asks |-> FALSE,
                           offset |-> IF HasMore(o, S) THEN pager.offset + PageLimit ELSE 0,
                           shown |-> Append(SoFar(FALSE), Page(o, S))]
              /\ Page(o, S) \in SUBSET Rows /\ SoFar(FALSE) \in Seq(SUBSET Rows)
  BY ReadIs
<1>2. pager.offset \in Nat /\ ~HasMore(Recency, S)
  BY <1>1 DEF RecallInv, RecallTyped, Pagers
<1>3. ShowsOnce(SoFar(FALSE), pager.offset, moved', shifted')
  BY PagesBefore
<1>4. S = Listed \ FirstBy(Recency, Listed, pager.offset)
  BY <1>1 DEF PageRows
<1>5. ShowsAll(Append(SoFar(FALSE), Page(Recency, S)), moved', shifted')
  BY <1>1, <1>2, <1>3, <1>4, NextPage
<1>6. TimesShown(i)' = Times(Append(SoFar(FALSE), Page(Recency, S)), i)
  BY <1>1 DEF TimesShown, Times
<1> QED
  BY <1>5, <1>6 DEF ShowsAll

\* What PagesShowOnce says of a step.
PageShowsOnce ==
    recalls' # recalls /\ ~pager'.on /\ ReadPage(FALSE) =>
        \A i \in Listed \ moved' :
            /\ "out" \in shifted' \/ TimesShown(i)' >= 1
            /\ "front" \in shifted' \/ TimesShown(i)' <= 1

LEMMA RecallsStay == RecallSpec => [](RecallTypeOK /\ MatchesAreAccountedOnce /\ BestAreShown) /\ PagesShowOnce
<1>1. RecallInv /\ [RecallNext]_recallVars => [PageShowsOnce]_recallVars
  BY LastPageShowsAll DEF PageShowsOnce
<1> QED
  BY <1>1, RecallInvStarts, RecallInvStays, RecallInvHolds, PTL DEF RecallSpec, PagesShowOnce, PageShowsOnce
----------------------------------------------------------------------------
(* Subjects within reach *)

LEMMA SecondPart ==
    \A S, v, w : v \in Seq(S) /\ w \in Seq(S) => \A i \in 1 .. Len(w) : (v \o w)[Len(v) + i] = w[i]
OBVIOUS


\* A sequence of each element of a finite set, once.
Enumerates(f, S) ==
    /\ f \in Seq(S) /\ Len(f) = Cardinality(S) /\ \A i, j \in DOMAIN f : f[i] = f[j] => i = j
    /\ \A x \in S : \E i \in DOMAIN f : f[i] = x

LEMMA SetToSeqEnumerates ==
    ASSUME NEW S, IsFiniteSet(S)
    PROVE  Enumerates(SetToSeq(S), S)
<1>1. PICK n \in Nat : ExistsBijection(1 .. n, S)
  BY FS_NatBijection
<1>2. n = Cardinality(S)
  BY <1>1, FS_CountingElements
<1>3. PICK g \in Bijection(1 .. n, S) : TRUE
  BY <1>1 DEF ExistsBijection
<1>4. g \in [1 .. Cardinality(S) -> S] /\ IsInjective(g)
  BY <1>2, <1>3 DEF Bijection, Injection, IsInjective
<1>5. PICK f : f = SetToSeq(S)
  OBVIOUS
<1>6. f \in [1 .. Cardinality(S) -> S] /\ IsInjective(f)
  BY <1>4, <1>5 DEF SetToSeq
<1>7. f \in Injection(1 .. n, S)
  BY <1>2, <1>6 DEF Injection, IsInjective
<1>8. f \in Surjection(1 .. n, S)
  <2>1. IsFiniteSet(1 .. n) /\ Cardinality(1 .. n) = n
    BY FS_Interval
  <2> QED
    BY <1>2, <1>7, <2>1, FS_Injection
<1>9. f \in Seq(S)
  BY <1>2, <1>6
<1>10. \A x \in S : \E i \in DOMAIN f : f[i] = x
  BY <1>8 DEF Surjection
<1>11. \A i, j \in DOMAIN f : f[i] = f[j] => i = j
  BY <1>6 DEF IsInjective
<1>12. Len(f) = Cardinality(S)
  BY <1>2, <1>6
<1> QED
  BY <1>5, <1>9, <1>10, <1>11, <1>12 DEF Enumerates

Nodes(d) == [to: Beings, depth: 0 .. d]
Tos(w) == {w[k].to : k \in 1 .. Len(w)}

\* A step more.
GoesTo(realm, s, n, m) == Walks(realm, s)[m] = UNION {NextTo(realm, t) : t \in Walks(realm, s)[n]}

LEMMA WalksAre ==
    ASSUME NEW realm, NEW s
    PROVE  /\ Walks(realm, s)[0] = {s}
           /\ \A n, m \in 0 .. 3 : m = n + 1 => GoesTo(realm, s, n, m)
<1> DEFINE Onward(X) == UNION {NextTo(realm, t) : t \in X}
           IsIt(f) == f = [n \in 0 .. 3 |-> IF n = 0 THEN {s} ELSE Onward(f[n - 1])]
<1>1. PICK f : f = [n \in 0 .. 3 |-> IF n = 0 THEN {s} ELSE IF n = 1 THEN Onward({s})
                                     ELSE IF n = 2 THEN Onward(Onward({s})) ELSE Onward(Onward(Onward({s})))]
  OBVIOUS
<1> HIDE DEF Onward
<1>2. f[0] = {s} /\ f[1] = Onward(f[0]) /\ f[2] = Onward(f[1]) /\ f[3] = Onward(f[2])
  BY <1>1
<1>3. f = [n \in 0 .. 3 |-> IF n = 0 THEN {s} ELSE Onward(f[n - 1])]
  <2>1. f = [n \in 0 .. 3 |-> f[n]]
    BY <1>1
  <2>2. \A n \in 0 .. 3 : f[n] = IF n = 0 THEN {s} ELSE Onward(f[n - 1])
    <3>1. \A n \in 0 .. 3 : n = 0 \/ n = 1 \/ n = 2 \/ n = 3
      OBVIOUS
    <3> QED
      BY <1>2, <3>1
  <2> QED
    BY <2>1, <2>2
<1>4. IsIt(f)
  BY <1>3
<1>5. PICK g : g = Walks(realm, s)
  OBVIOUS
<1>6. IsIt(g)
  <2>1. g = CHOOSE h : IsIt(h)
    BY <1>5 DEF Walks, Onward
  <2> HIDE DEF IsIt
  <2> QED
    BY <1>4, <2>1
<1>7. g[0] = {s}
  BY <1>6
<1>8. ASSUME NEW n \in 0 .. 3, NEW m \in 0 .. 3, m = n + 1 PROVE g[m] = Onward(g[n])
  <2>1. m # 0 /\ m - 1 = n
    BY <1>8
  <2> QED
    BY <1>6, <2>1
<1> QED
  BY <1>5, <1>7, <1>8 DEF Onward, GoesTo

IsNear(realm, s, x) ==
    /\ x.to \in Walks(realm, s)[x.depth]
    /\ \A m \in 0 .. 3 : m < x.depth => x.to \notin Walks(realm, s)[m]

\* What has been walked, w, of which p subjects have been visited.  Until the limit is reached, what
\* follows a visited subject has been seen.
IsWalk(realm, s, d, w, p) ==
    /\ w \in Seq(Nodes(d)) /\ p \in 0 .. Len(w) /\ Len(w) > 0
    /\ w[1] = [to |-> s, depth |-> 0]
    /\ \A k \in 1 .. Len(w) : IsNear(realm, s, w[k]) /\ (k > 1 => w[k].depth > 0)
    /\ \A i, j \in 1 .. Len(w) : w[i].to = w[j].to => i = j
    /\ \A i, j \in 1 .. Len(w) : i <= j => w[i].depth <= w[j].depth
    /\ \A i \in 1 .. Len(w) : w[i].depth <= IF p = 0 THEN 0 ELSE w[p].depth + 1
    /\ Len(w) <= MostReached => \A k \in 1 .. p : w[k].depth < d => NextTo(realm, w[k].to) \subseteq Tos(w)

IsPassed(realm, s, w, m) == Walks(realm, s)[m] \subseteq Tos(w)

\* All that is nearer than what is to be visited has been seen.
LEMMA NearerIsSeen ==
    ASSUME NEW realm, NEW s, NEW d \in 1 .. 3, NEW w, NEW p, IsWalk(realm, s, d, w, p),
           Len(w) <= MostReached, NEW e \in 0 .. d,
           p < Len(w) => w[p + 1].depth = e, p = Len(w) => e = d,
           NEW m \in 0 .. e
    PROVE  IsPassed(realm, s, w, m)
<1> DEFINE unseen == {n \in 0 .. e : ~(Walks(realm, s)[n] \subseteq Tos(w))}
<1> SUFFICES ASSUME unseen # {} PROVE FALSE
  BY DEF IsPassed
<1>1. PICK n \in unseen : \A k \in unseen : n <= k
  <2>1. unseen \subseteq Nat
    OBVIOUS
  <2> HIDE DEF unseen
  <2> QED
    BY <2>1, SmallestNumber
<1>2. n # 0
  <2>1. Walks(realm, s)[0] = {s}
    BY WalksAre
  <2>2. s \in Tos(w)
    <3>1. 1 \in 1 .. Len(w) /\ w[1].to = s
      BY DEF IsWalk
    <3> QED
      BY <3>1 DEF Tos
  <2> QED
    BY <1>1, <2>1, <2>2
<1>3. PICK l \in 0 .. 2 : n = l + 1
  <2>1. n \in 1 .. 3 /\ n - 1 \in 0 .. 2 /\ n = (n - 1) + 1
    BY <1>1, <1>2
  <2> QED
    BY <2>1
<1>4. l \in 0 .. e /\ l < e /\ Walks(realm, s)[l] \subseteq Tos(w)
  BY <1>1, <1>3
<1>5. PICK x \in Walks(realm, s)[n] : x \notin Tos(w)
  BY <1>1
<1>6. PICK y \in Walks(realm, s)[l] : x \in NextTo(realm, y)
  <2>1. GoesTo(realm, s, l, n)
    BY <1>1, <1>3, WalksAre
  <2> QED
    BY <1>5, <2>1 DEF GoesTo
<1>7. PICK k \in 1 .. Len(w) : w[k].to = y
  BY <1>4, <1>6 DEF Tos
<1>8. w[k] \in Nodes(d) /\ w[k].depth \in 0 .. d
  <2>1. w[k] \in Nodes(d)
    BY <1>7 DEF IsWalk
  <2> QED
    BY <2>1 DEF Nodes
<1>9. w[k].depth <= l
  <2> SUFFICES ASSUME w[k].depth > l PROVE FALSE
    BY <1>8
  <2>1. l \in 0 .. 3 /\ l < w[k].depth
    BY <1>3, <1>8
  <2>2. IsNear(realm, s, w[k])
    BY <1>7 DEF IsWalk
  <2>3. w[k].to \notin Walks(realm, s)[l]
    BY <2>1, <2>2 DEF IsNear
  <2> QED
    BY <1>6, <1>7, <2>3
<1>10. k \in 1 .. p /\ w[k].depth < d
  <2>1. p \in 0 .. Len(w) /\ Len(w) \in Nat
    BY DEF IsWalk
  <2>2. w[k].depth < e /\ w[k].depth < d
    BY <1>4, <1>8, <1>9
  <2>3. CASE p = Len(w)
    BY <1>7, <2>1, <2>2, <2>3
  <2>4. CASE p < Len(w)
    <3>1. p + 1 \in 1 .. Len(w) /\ w[p + 1].depth = e
      BY <2>1, <2>4
    <3>2. p + 1 <= k => w[p + 1].depth <= w[k].depth
      BY <1>7, <3>1 DEF IsWalk
    <3>3. ~(p + 1 <= k)
      BY <1>8, <2>2, <3>1, <3>2
    <3> QED
      BY <2>1, <2>2, <3>3
  <2> QED
    BY <2>1, <2>3, <2>4
<1>11. NextTo(realm, w[k].to) \subseteq Tos(w)
  BY <1>10 DEF IsWalk
<1> QED
  BY <1>5, <1>6, <1>7, <1>11

\* What follows the subject after p, and has not been seen.
IsNext(realm, w, p, e, new) ==
    Enumerates(new, {[to |-> t, depth |-> e + 1] : t \in NextTo(realm, w[p + 1].to) \ Tos(w)})

HasGrown(realm, s, d, w, p, new, v) ==
    IsWalk(realm, s, d, v, p + 1) /\ Tos(v) = Tos(w) \cup {new[k].to : k \in DOMAIN new}

LEMMA WalkGrows ==
    ASSUME NEW realm, NEW s, NEW d \in 1 .. 3, NEW w, NEW p, IsWalk(realm, s, d, w, p), p < Len(w),
           beings \subseteq Beings,
           NEW e \in 0 .. d, e = w[p + 1].depth, e < d, Len(w) <= MostReached,
           NEW new, IsNext(realm, w, p, e, new), NEW v, v = w \o new
    PROVE  HasGrown(realm, s, d, w, p, new, v)
<1> DEFINE X == NextTo(realm, w[p + 1].to) \ Tos(w)
           N == {[to |-> t, depth |-> e + 1] : t \in X}
<1>1. w \in Seq(Nodes(d)) /\ p \in 0 .. Len(w) /\ Len(w) \in Nat /\ p + 1 \in 1 .. Len(w) /\ e + 1 \in 0 .. d /\ e + 1 \in 1 .. 3
  BY SMTT(20) DEF IsWalk
<1>2. X \subseteq Beings
  BY DEF NextTo, InScope
<1>3. N \subseteq Nodes(d)
  BY <1>1, <1>2 DEF Nodes
<1>4. /\ new \in Seq(N) /\ \A i, j \in DOMAIN new : new[i] = new[j] => i = j
      /\ \A x \in N : \E i \in DOMAIN new : new[i] = x
  BY DEF IsNext, Enumerates
<1>5. new \in Seq(Nodes(d)) /\ Len(new) \in Nat /\ DOMAIN new = 1 .. Len(new)
  <2> HIDE DEF N
  <2> QED
    BY <1>3, <1>4
<1>6. \A k \in 1 .. Len(new) : new[k] \in N
  <2> HIDE DEF N
  <2> QED
    BY <1>4
<1>7. \A k \in 1 .. Len(new) : new[k].to \in X /\ new[k].depth = e + 1 /\ new[k] = [to |-> new[k].to, depth |-> e + 1]
  BY <1>6
<1> HIDE DEF X, N
<1>8. v \in Seq(Nodes(d)) /\ Len(v) = Len(w) + Len(new)
  BY <1>1, <1>5
<1>9. \A k \in 1 .. Len(w) : v[k] = w[k]
  BY <1>1, <1>5
<1>10. \A k \in 1 .. Len(new) : v[Len(w) + k] = new[k]
  BY <1>1, <1>5
<1>11. ASSUME NEW k \in 1 .. Len(v)
       PROVE  (k \in 1 .. Len(w) /\ v[k] = w[k]) \/ (\E j \in 1 .. Len(new) : k = Len(w) + j /\ v[k] = new[j])
  <2>1. CASE k <= Len(w)
    BY <1>1, <1>9, <2>1
  <2>2. CASE k > Len(w)
    <3>1. k - Len(w) \in 1 .. Len(new) /\ k = Len(w) + (k - Len(w))
      BY <1>1, <1>5, <1>8, <2>2
    <3> QED
      BY <1>10, <3>1
  <2> QED
    BY <1>1, <2>1, <2>2
<1>12. Tos(v) = Tos(w) \cup {new[k].to : k \in DOMAIN new}
  <2>1. ASSUME NEW k \in 1 .. Len(v) PROVE v[k].to \in Tos(w) \cup {new[j].to : j \in DOMAIN new}
    BY <1>5, <1>11 DEF Tos
  <2>2. ASSUME NEW k \in 1 .. Len(w) PROVE w[k].to \in Tos(v)
    <3>1. k \in 1 .. Len(v) /\ v[k] = w[k]
      BY <1>1, <1>5, <1>8, <1>9
    <3> QED
      BY <3>1 DEF Tos
  <2>3. ASSUME NEW k \in DOMAIN new PROVE new[k].to \in Tos(v)
    <3>1. Len(w) + k \in 1 .. Len(v) /\ v[Len(w) + k] = new[k]
      BY SMTT(20), <1>1, <1>5, <1>8, <1>10
    <3> QED
      BY <3>1 DEF Tos
  <2> DEFINE all == Tos(w) \cup {new[k].to : k \in DOMAIN new}
  <2>4. Tos(v) \subseteq all
    <3> HIDE DEF all
    <3>1. \A k \in 1 .. Len(v) : v[k].to \in all
      BY <2>1 DEF all
    <3> QED
      BY <3>1 DEF Tos
  <2>5. all \subseteq Tos(v)
    <3> SUFFICES ASSUME NEW x \in all PROVE x \in Tos(v)
      OBVIOUS
    <3>1. CASE x \in Tos(w)
      BY <2>2, <3>1 DEF Tos
    <3>2. CASE x \in {new[k].to : k \in DOMAIN new}
      BY <2>3, <3>2
    <3> QED
      BY <3>1, <3>2
  <2> QED
    BY <2>4, <2>5
<1>13. v[1] = [to |-> s, depth |-> 0] /\ Len(v) > 0 /\ p + 1 \in 0 .. Len(v)
  BY <1>1, <1>5, <1>8, <1>9 DEF IsWalk
<1>14. \A k \in 1 .. Len(w) : w[k] \in Nodes(d) /\ w[k].depth \in 0 .. d /\ w[k].depth <= e + 1
  <2> SUFFICES ASSUME NEW k \in 1 .. Len(w) PROVE w[k] \in Nodes(d) /\ w[k].depth \in 0 .. d /\ w[k].depth <= e + 1
    OBVIOUS
  <2>1. w[k] \in Nodes(d) /\ w[k].depth \in 0 .. d
    <3>1. w[k] \in Nodes(d)
      BY <1>1
    <3> QED
      BY <3>1 DEF Nodes
  <2>2. w[k].depth <= IF p = 0 THEN 0 ELSE w[p].depth + 1
    BY DEF IsWalk
  <2>3. CASE p = 0
    BY <1>1, <2>1, <2>2, <2>3
  <2>4. CASE p # 0
    <3>1. p \in 1 .. Len(w) /\ w[p].depth <= w[p + 1].depth
      BY <1>1, <2>4 DEF IsWalk
    <3>2. w[p].depth \in 0 .. d
      <4>1. w[p] \in Nodes(d)
        BY <1>1, <3>1
      <4> QED
        BY <4>1 DEF Nodes
    <3> QED
      BY SMTT(20), <2>1, <2>2, <2>4, <3>1, <3>2
  <2> QED
    BY <2>1, <2>3, <2>4
<1>15. ASSUME NEW k \in 1 .. Len(new) PROVE IsNear(realm, s, new[k])
  <2>1. new[k].to \in NextTo(realm, w[p + 1].to) /\ new[k].to \notin Tos(w) /\ new[k].depth = e + 1
    BY <1>7 DEF X
  <2>2. w[p + 1].to \in Walks(realm, s)[e]
    BY <1>1 DEF IsWalk, IsNear
  <2>3. e \in 0 .. 2
    BY <1>1
  <2>4. new[k].to \in Walks(realm, s)[e + 1]
    <3>1. GoesTo(realm, s, e, e + 1)
      <4>1. e \in 0 .. 3 /\ e + 1 \in 0 .. 3
        BY <2>3
      <4>2. PICK m \in 0 .. 3 : m = e + 1
        BY <4>1
      <4>3. GoesTo(realm, s, e, m)
        BY <4>1, <4>2, WalksAre
      <4> QED
        BY <4>2, <4>3
    <3> QED
      BY <2>1, <2>2, <3>1 DEF GoesTo
  <2>5. ASSUME NEW m \in 0 .. 3, m < e + 1 PROVE new[k].to \notin Walks(realm, s)[m]
    <3>1. m \in 0 .. e
      BY <2>3, <2>5
    <3>2. p # Len(w)
      BY <1>1
    <3>3. IsPassed(realm, s, w, m)
      BY <3>1, <3>2, NearerIsSeen
    <3> QED
      BY <2>1, <3>3 DEF IsPassed
  <2> QED
    BY <2>1, <2>4, <2>5 DEF IsNear
<1>16. ASSUME NEW k \in 1 .. Len(v) PROVE IsNear(realm, s, v[k]) /\ (k > 1 => v[k].depth > 0)
  <2>1. CASE k \in 1 .. Len(w) /\ v[k] = w[k]
    BY <2>1 DEF IsWalk
  <2>2. ASSUME NEW j \in 1 .. Len(new), v[k] = new[j] PROVE IsNear(realm, s, v[k]) /\ v[k].depth > 0
    <3>1. IsNear(realm, s, new[j])
      BY <1>15
    <3>2. new[j].depth = e + 1
      BY <1>7
    <3>3. e + 1 > 0
      BY <1>1
    <3> QED
      BY <2>2, <3>1, <3>2, <3>3
  <2> QED
    BY <1>11, <2>1, <2>2
<1>17. ASSUME NEW i \in 1 .. Len(v), NEW j \in 1 .. Len(v), v[i].to = v[j].to PROVE i = j
  <2>1. CASE i \in 1 .. Len(w) /\ v[i] = w[i] /\ j \in 1 .. Len(w) /\ v[j] = w[j]
    BY <1>17, <2>1 DEF IsWalk
  <2>2. ASSUME NEW a \in 1 .. Len(w), NEW b \in 1 .. Len(new), w[a].to = new[b].to PROVE FALSE
    BY <1>7, <2>2 DEF X, Tos
  <2>3. ASSUME NEW a \in 1 .. Len(new), NEW b \in 1 .. Len(new), new[a].to = new[b].to PROVE a = b
    <3>1. new[a] = new[b]
      BY <1>7, <2>3
    <3> QED
      BY <1>4, <1>5, <3>1
  <2>4. CASE i \in 1 .. Len(w) /\ v[i] = w[i]
    <3>1. CASE j \in 1 .. Len(w) /\ v[j] = w[j]
      BY <2>1, <2>4, <3>1
    <3>2. CASE \E b \in 1 .. Len(new) : j = Len(w) + b /\ v[j] = new[b]
      BY <1>17, <2>2, <2>4, <3>2
    <3> QED
      BY <1>11, <3>1, <3>2
  <2>5. CASE \E a \in 1 .. Len(new) : i = Len(w) + a /\ v[i] = new[a]
    <3>1. PICK a \in 1 .. Len(new) : i = Len(w) + a /\ v[i] = new[a]
      BY <2>5
    <3>2. CASE j \in 1 .. Len(w) /\ v[j] = w[j]
      BY <1>17, <2>2, <3>1, <3>2
    <3>3. CASE \E b \in 1 .. Len(new) : j = Len(w) + b /\ v[j] = new[b]
      <4>1. PICK b \in 1 .. Len(new) : j = Len(w) + b /\ v[j] = new[b]
        BY <3>3
      <4>2. a = b
        BY <1>17, <2>3, <3>1, <4>1
      <4> QED
        BY <3>1, <4>1, <4>2
    <3> QED
      BY <1>11, <3>2, <3>3
  <2> QED
    BY <1>11, <2>4, <2>5
<1>18. ASSUME NEW i \in 1 .. Len(v), NEW j \in 1 .. Len(v), i <= j PROVE v[i].depth <= v[j].depth
  <2>1. CASE i \in 1 .. Len(w) /\ v[i] = w[i] /\ j \in 1 .. Len(w) /\ v[j] = w[j]
    BY <1>18, <2>1 DEF IsWalk
  <2>2. CASE i \in 1 .. Len(w) /\ v[i] = w[i] /\ \E b \in 1 .. Len(new) : j = Len(w) + b /\ v[j] = new[b]
    BY <1>7, <1>14, <2>2
  <2>3. CASE (\E a \in 1 .. Len(new) : i = Len(w) + a /\ v[i] = new[a]) /\ j \in 1 .. Len(w)
    BY <1>1, <1>5, <1>18, <2>3
  <2>4. CASE (\E a \in 1 .. Len(new) : v[i] = new[a]) /\ (\E b \in 1 .. Len(new) : v[j] = new[b])
    <3>1. v[i].depth = e + 1 /\ v[j].depth = e + 1
      BY <1>7, <2>4
    <3> QED
      BY <1>1, <3>1
  <2> QED
    BY <1>11, <2>1, <2>2, <2>3, <2>4
<1>19. ASSUME NEW i \in 1 .. Len(v) PROVE v[i].depth <= IF p + 1 = 0 THEN 0 ELSE v[p + 1].depth + 1
  <2>1. v[p + 1].depth = e /\ p + 1 # 0
    BY <1>1, <1>9
  <2>2. v[i].depth <= e + 1
    <3>1. CASE i \in 1 .. Len(w) /\ v[i] = w[i]
      BY <1>14, <3>1
    <3>2. CASE \E j \in 1 .. Len(new) : v[i] = new[j]
      <4>1. v[i].depth = e + 1
        BY <1>7, <3>2
      <4> QED
        BY <1>1, <4>1
    <3> QED
      BY <1>11, <3>1, <3>2
  <2> QED
    BY <2>1, <2>2
<1>20. ASSUME NEW k \in 1 .. p + 1, v[k].depth < d PROVE NextTo(realm, v[k].to) \subseteq Tos(v)
  <2>1. k \in 1 .. Len(w) /\ v[k] = w[k]
    BY <1>1, <1>9
  <2>2. CASE k \in 1 .. p
    <3>1. NextTo(realm, w[k].to) \subseteq Tos(w)
      BY <1>20, <2>1, <2>2 DEF IsWalk
    <3> QED
      BY <1>12, <2>1, <3>1
  <2>3. CASE k = p + 1
    <3>1. ASSUME NEW t \in X PROVE t \in Tos(v)
      <4>1. [to |-> t, depth |-> e + 1] \in N
        BY <3>1 DEF N
      <4>2. PICK i \in DOMAIN new : new[i] = [to |-> t, depth |-> e + 1]
        BY <1>4, <4>1
      <4> QED
        BY <1>12, <4>2
    <3>2. NextTo(realm, w[p + 1].to) \subseteq Tos(w) \cup X
      BY DEF X
    <3> QED
      BY <1>12, <2>1, <2>3, <3>1, <3>2
  <2> QED
    BY <1>1, <2>2, <2>3
<1>21. IsWalk(realm, s, d, v, p + 1)
  BY <1>8, <1>13, <1>16, <1>17, <1>18, <1>19, <1>20 DEF IsWalk
<1> QED
  BY <1>12, <1>21 DEF HasGrown
IsVisits(f, realm, seeds, d, m) ==
    f = [n \in 0 .. m |->
            IF n = 0 THEN [queue |-> SetToSeq({[to |-> s, depth |-> 0] : s \in seeds}), seen |-> seeds, reached |-> <<>>]
            ELSE IF f[n - 1].queue = <<>> THEN f[n - 1] ELSE Visit(f[n - 1], realm, d)]

LEMMA VisitsExist ==
    ASSUME NEW realm, NEW seeds, NEW d, NEW n \in Nat
    PROVE  \E f : IsVisits(f, realm, seeds, d, n)
<1> DEFINE bad == {k \in Nat : ~\E f : IsVisits(f, realm, seeds, d, k)}
           first == [queue |-> SetToSeq({[to |-> s, depth |-> 0] : s \in seeds}), seen |-> seeds, reached |-> <<>>]
           more(x) == IF x.queue = <<>> THEN x ELSE Visit(x, realm, d)
<1>1. ASSUME bad # {} PROVE FALSE
  <2>1. PICK m \in bad : \A k \in bad : m <= k
    BY <1>1, SmallestNumber
  <2>2. CASE m = 0
    <3>1. IsVisits([k \in 0 .. 0 |-> first], realm, seeds, d, 0)
      BY DEF IsVisits
    <3> QED
      BY <2>1, <2>2, <3>1
  <2>3. CASE m # 0
    <3>1. m - 1 \in Nat /\ m - 1 \notin bad
      BY <2>1, <2>3
    <3>2. PICK f : IsVisits(f, realm, seeds, d, m - 1)
      BY <3>1
    <3> DEFINE g == [k \in 0 .. m |-> IF k = 0 THEN first ELSE more(f[k - 1])]
    <3>3. \A k \in 0 .. m - 1 : g[k] = f[k]
      <4>1. f = [k \in 0 .. m - 1 |-> IF k = 0 THEN first ELSE more(f[k - 1])]
        BY <3>2 DEF IsVisits
      <4>2. \A k \in 0 .. m - 1 : k \in 0 .. m
        BY <2>1
      <4> HIDE DEF first, more
      <4>3. \A k \in 0 .. m - 1 : f[k] = IF k = 0 THEN first ELSE more(f[k - 1])
        BY <4>1
      <4> QED
        BY <4>2, <4>3
    <3>4. \A k \in 0 .. m : k # 0 => k - 1 \in 0 .. m - 1
      BY <2>1
    <3>5. g = [k \in 0 .. m |-> IF k = 0 THEN first ELSE more(g[k - 1])]
      <4> HIDE DEF first, more
      <4> QED
        BY <3>3, <3>4
    <3>6. IsVisits(g, realm, seeds, d, m)
      BY <3>5 DEF IsVisits
    <3> QED
      BY <2>1, <3>6
  <2> QED
    BY <2>2, <2>3
<1> QED
  BY <1>1

Root(s) == [to |-> s, depth |-> 0]

\* The visits so far have walked w and are at the place after p.
HasWalked(realm, s, d, st, w, p) ==
    /\ IsWalk(realm, s, d, w, p)
    /\ st.seen = Tos(w)
    /\ st.queue \in Seq(Nodes(d)) /\ Len(st.queue) = Len(w) - p
    /\ \A k \in 1 .. Len(st.queue) : st.queue[k] = w[p + k]
    /\ st.reached \in Seq(Nodes(d)) /\ Len(st.reached) = Len(w) - 1
    /\ \A k \in 1 .. Len(st.reached) : st.reached[k] = w[k + 1]

LEMMA WalkBegins ==
    ASSUME NEW realm, NEW s \in Beings, NEW d \in 1 .. 3, NEW st,
           st = [queue |-> SetToSeq({[to |-> t, depth |-> 0] : t \in {s}}), seen |-> {s}, reached |-> <<>>]
    PROVE  HasWalked(realm, s, d, st, <<Root(s)>>, 0)
<1>1. PICK r : r = Root(s)
  OBVIOUS
<1>2. r.to = s /\ r.depth = 0 /\ r = [to |-> s, depth |-> 0]
  BY <1>1 DEF Root
<1>3. {[to |-> t, depth |-> 0] : t \in {s}} = {r}
  BY <1>2
<1>4. PICK q : q = SetToSeq({r})
  OBVIOUS
<1>5. Enumerates(q, {r})
  BY <1>4, SetToSeqEnumerates, FS_Singleton
<1>6. q \in Seq({r}) /\ Len(q) \in Nat /\ DOMAIN q = 1 .. Len(q)
  BY <1>5 DEF Enumerates
<1>7. Len(q) = Cardinality({r})
  BY <1>5 DEF Enumerates
<1>8. Cardinality({r}) = 1
  BY FS_Singleton
<1>9. Len(q) = 1 /\ q[1] = r
  <2>1. Len(q) = 1
    BY <1>7, <1>8
  <2>2. \A i \in 1 .. Len(q) : q[i] \in {r}
    <3> DEFINE T == {r}
    <3>1. q \in Seq(T)
      BY <1>6
    <3> HIDE DEF T
    <3>2. \A i \in 1 .. Len(q) : q[i] \in T
      BY <3>1
    <3> QED
      BY <3>2 DEF T
  <2> QED
    BY <2>1, <2>2
<1>10. r \in Nodes(d)
  BY <1>2 DEF Nodes
<1>11. PICK w : w = <<r>>
  OBVIOUS
<1>12. w \in Seq(Nodes(d)) /\ Len(w) = 1 /\ w[1] = r
  BY <1>10, <1>11
<1>13. Tos(w) = {s}
  BY <1>2, <1>12 DEF Tos
<1>14. IsNear(realm, s, r)
  <2>1. Walks(realm, s)[0] = {s}
    BY WalksAre
  <2> QED
    BY <1>2, <2>1 DEF IsNear
<1>15. IsWalk(realm, s, d, w, 0)
  <2>1. \A k \in 1 .. Len(w) : k = 1 /\ w[k] = r
    BY <1>12
  <2> QED
    BY <1>2, <1>12, <1>14, <2>1 DEF IsWalk
<1>16. st.queue = q /\ st.seen = {s} /\ st.reached = <<>>
  BY <1>3, <1>4
<1>17. q \in Seq(Nodes(d)) /\ \A k \in 1 .. Len(q) : q[k] = w[0 + k]
  <2>1. q \in Seq(Nodes(d))
    BY <1>6, <1>10
  <2>2. \A k \in 1 .. Len(q) : k = 1 /\ 0 + k = 1
    BY <1>9
  <2> QED
    BY <1>9, <1>12, <2>1, <2>2
<1>18. HasWalked(realm, s, d, st, w, 0)
  <2>1. st.seen = Tos(w)
    BY <1>13, <1>16
  <2>2. st.queue \in Seq(Nodes(d)) /\ Len(st.queue) = Len(w) - 0 /\ \A k \in 1 .. Len(st.queue) : st.queue[k] = w[0 + k]
    <3>1. Len(w) - 0 = 1
      BY <1>12
    <3> QED
      BY <1>9, <1>16, <1>17, <3>1
  <2>3. st.reached \in Seq(Nodes(d)) /\ Len(st.reached) = Len(w) - 1 /\ Len(st.reached) = 0
    BY <1>12, <1>16
  <2>4. \A k \in 1 .. Len(st.reached) : st.reached[k] = w[k + 1]
    BY <2>3
  <2> QED
    BY <1>15, <2>1, <2>2, <2>3, <2>4 DEF HasWalked
<1> QED
  BY <1>1, <1>11, <1>18

LEMMA VisitWalks ==
    ASSUME NEW realm, NEW s, NEW d \in 1 .. 3, NEW st, NEW w, NEW p, HasWalked(realm, s, d, st, w, p),
           st.queue # <<>>, beings \subseteq Beings
    PROVE  \E v : HasWalked(realm, s, d, Visit(st, realm, d), v, p + 1)
<1>1. /\ IsWalk(realm, s, d, w, p) /\ w \in Seq(Nodes(d)) /\ Len(w) \in Nat /\ p \in 0 .. Len(w)
      /\ st.queue \in Seq(Nodes(d)) /\ Len(st.queue) \in Nat
      /\ st.reached \in Seq(Nodes(d)) /\ Len(st.reached) \in Nat
  BY DEF HasWalked, IsWalk
<1>2. Len(st.queue) # 0 /\ p < Len(w) /\ p + 1 \in 1 .. Len(w)
  BY <1>1 DEF HasWalked
<1>3. PICK h : h = Head(st.queue)
  OBVIOUS
<1>4. h = w[p + 1]
  <2>1. 1 \in 1 .. Len(st.queue) /\ h = st.queue[1]
    BY <1>1, <1>2, <1>3
  <2>2. st.queue[1] = w[p + 1]
    BY <2>1 DEF HasWalked
  <2> QED
    BY <2>1, <2>2
<1>5. h \in Nodes(d)
  BY <1>1, <1>2, <1>4
<1>6. PICK e \in 0 .. d : e = h.depth
  BY <1>5 DEF Nodes
<1> DEFINE N == {[to |-> t, depth |-> e + 1] : t \in NextTo(realm, h.to) \ st.seen}
<1>7. PICK new : new = IF e >= d \/ Len(st.reached) >= MostReached THEN <<>> ELSE SetToSeq(N)
  OBVIOUS
<1>8. PICK ns : ns = [queue |-> Tail(st.queue) \o new, seen |-> st.seen \cup {n.to : n \in ToSet(new)}, reached |-> st.reached \o new]
  OBVIOUS
<1>9. ns = Visit(st, realm, d)
  BY <1>3, <1>6, <1>7, <1>8 DEF Visit
<1>10. ns.queue = Tail(st.queue) \o new /\ ns.seen = st.seen \cup {n.to : n \in ToSet(new)} /\ ns.reached = st.reached \o new
  BY <1>8
<1>11. /\ Tail(st.queue) \in Seq(Nodes(d)) /\ Len(Tail(st.queue)) = Len(st.queue) - 1
       /\ \A k \in 1 .. Len(st.queue) - 1 : Tail(st.queue)[k] = st.queue[k + 1]
  BY <1>1, <1>2
<1>12. CASE e >= d \/ Len(st.reached) >= MostReached
  <2>1. new = <<>>
    BY <1>7, <1>12
  <2>2. ns.queue = Tail(st.queue) /\ ns.reached = st.reached
    BY <1>1, <1>10, <1>11, <2>1
  <2>3. ns.seen = st.seen
    <3>1. ToSet(new) = {}
      BY <2>1 DEF ToSet
    <3> QED
      BY <1>10, <3>1
  <2>4. IsWalk(realm, s, d, w, p + 1)
    <3>1. ASSUME NEW i \in 1 .. Len(w) PROVE w[i].depth <= e + 1
      <4>1. w[i].depth <= IF p = 0 THEN 0 ELSE w[p].depth + 1
        BY <1>1 DEF IsWalk
      <4>2. w[i] \in Nodes(d)
        BY <1>1
      <4>3. w[i].depth \in 0 .. d
        BY <4>2 DEF Nodes
      <4>4. CASE p = 0
        BY <4>1, <4>3, <4>4
      <4>5. CASE p # 0
        <5>1. p \in 1 .. Len(w) /\ p <= p + 1
          BY <1>1, <4>5
        <5>2. w[p].depth <= w[p + 1].depth
          BY <1>1, <1>2, <5>1 DEF IsWalk
        <5>3. w[p] \in Nodes(d)
          BY <1>1, <5>1
        <5>4. w[p].depth \in 0 .. d
          BY <5>3 DEF Nodes
        <5> QED
          BY SMTT(20), <1>4, <1>6, <4>1, <4>3, <4>5, <5>2, <5>4
      <4> QED
        BY <4>4, <4>5
    <3>2. ASSUME Len(w) <= MostReached, NEW k \in 1 .. p + 1, w[k].depth < d PROVE NextTo(realm, w[k].to) \subseteq Tos(w)
      <4>1. Len(st.reached) = Len(w) - 1
        BY DEF HasWalked
      <4>2. e >= d
        BY <1>1, <1>12, <3>2, <4>1, SemanticsAssumption
      <4>3. k # p + 1
        BY <1>4, <1>6, <3>2, <4>2
      <4>4. k \in 1 .. p
        BY <1>1, <4>3
      <4> QED
        BY <1>1, <3>2, <4>4 DEF IsWalk
    <3>3. \A i \in 1 .. Len(w) : w[i].depth <= IF p + 1 = 0 THEN 0 ELSE w[p + 1].depth + 1
      BY <1>1, <1>4, <1>6, <3>1
    <3> QED
      BY <1>1, <1>2, <3>2, <3>3 DEF IsWalk
  <2>5. HasWalked(realm, s, d, ns, w, p + 1)
    <3>1. ns.seen = Tos(w)
      BY <2>3 DEF HasWalked
    <3>2. ns.queue \in Seq(Nodes(d)) /\ Len(ns.queue) = Len(w) - (p + 1)
      BY <1>1, <1>11, <2>2 DEF HasWalked
    <3>3. ASSUME NEW k \in 1 .. Len(ns.queue) PROVE ns.queue[k] = w[(p + 1) + k]
      <4>1. k \in 1 .. Len(st.queue) - 1 /\ k + 1 \in 1 .. Len(st.queue) /\ p + (k + 1) = (p + 1) + k
        BY <1>1, <1>11, <2>2
      <4>2. st.queue[k + 1] = w[p + (k + 1)]
        BY <4>1 DEF HasWalked
      <4> QED
        BY <1>11, <2>2, <4>1, <4>2
    <3> QED
      BY <2>2, <2>4, <3>1, <3>2, <3>3 DEF HasWalked
  <2> QED
    BY <1>9, <2>5
<1>13. CASE ~(e >= d \/ Len(st.reached) >= MostReached)
  <2>1. new = SetToSeq(N)
    BY <1>7, <1>13
  <2>2. st.seen = Tos(w) /\ Len(st.reached) = Len(w) - 1 /\ Len(st.queue) = Len(w) - p
    BY DEF HasWalked
  <2>3. IsFiniteSet(N)
    <3>1. NextTo(realm, h.to) \ st.seen \subseteq Beings
      BY DEF NextTo, InScope
    <3>2. IsFiniteSet(NextTo(realm, h.to) \ st.seen)
      BY <3>1, FS_Subset, SemanticsAssumption
    <3> DEFINE X == NextTo(realm, h.to) \ st.seen
               f == [t \in X |-> [to |-> t, depth |-> e + 1]]
    <3>3. f \in Surjection(X, N)
      BY DEF Surjection
    <3> QED
      BY <3>2, <3>3, FS_Surjection
  <2>4. Enumerates(new, N)
    BY <2>1, <2>3, SetToSeqEnumerates
  <2>5. e < d /\ Len(w) <= MostReached
    BY <1>1, <1>13, <2>2, SemanticsAssumption
  <2>6. IsNext(realm, w, p, e, new)
    BY <1>4, <2>2, <2>4 DEF IsNext
  <2>7. PICK v : v = w \o new
    OBVIOUS
  <2>8. IsWalk(realm, s, d, v, p + 1) /\ Tos(v) = Tos(w) \cup {new[k].to : k \in DOMAIN new}
    <3>1. e = w[p + 1].depth
      BY <1>4, <1>6
    <3>2. HasGrown(realm, s, d, w, p, new, v)
      BY <1>1, <1>2, <1>6, <2>5, <2>6, <2>7, <3>1, WalkGrows
    <3> QED
      BY <3>2 DEF HasGrown
  <2>9. ns.seen = Tos(v)
    BY <1>10, <2>2, <2>8 DEF ToSet
  <2>10. new \in Seq(Nodes(d)) /\ Len(new) \in Nat
    <3>1. N \subseteq Nodes(d)
      <4>1. NextTo(realm, h.to) \subseteq Beings /\ e + 1 \in 0 .. d
        BY <2>5 DEF NextTo, InScope
      <4> QED
        BY <4>1 DEF Nodes
    <3>2. new \in Seq(N)
      BY <2>4 DEF Enumerates
    <3> HIDE DEF N
    <3> QED
      BY <3>1, <3>2
  <2>11. /\ ns.queue \in Seq(Nodes(d)) /\ Len(ns.queue) = Len(st.queue) - 1 + Len(new)
         /\ ns.reached \in Seq(Nodes(d)) /\ Len(ns.reached) = Len(st.reached) + Len(new)
         /\ Len(v) = Len(w) + Len(new)
    BY <1>1, <1>10, <1>11, <2>7, <2>10
  <2>12. \A i \in 1 .. Len(new) : v[Len(w) + i] = new[i]
    <3>1. w \in Seq(Nodes(d)) /\ new \in Seq(Nodes(d))
      BY <1>1, <2>10
    <3>2. \A i \in 1 .. Len(new) : (w \o new)[Len(w) + i] = new[i]
      BY <3>1, SecondPart
    <3> QED
      BY <2>7, <3>2
  <2>13. ASSUME NEW k \in 1 .. Len(ns.queue) PROVE ns.queue[k] = v[(p + 1) + k]
    <3>1. CASE k <= Len(st.queue) - 1
      <4>1. k \in 1 .. Len(st.queue) - 1 /\ k + 1 \in 1 .. Len(st.queue) /\ p + (k + 1) = (p + 1) + k
        BY <1>1, <1>2, <2>11, <3>1
      <4>2. st.queue[k + 1] = w[p + (k + 1)]
        BY <4>1 DEF HasWalked
      <4>3. ns.queue[k] = Tail(st.queue)[k]
        BY <1>1, <1>2, <1>10, <1>11, <2>10, <4>1
      <4>4. (p + 1) + k \in 1 .. Len(w)
        BY SMTT(20), <1>1, <2>2, <4>1
      <4>5. v[(p + 1) + k] = w[(p + 1) + k]
        BY <1>1, <2>7, <2>10, <4>4
      <4> QED
        BY <1>11, <4>1, <4>2, <4>3, <4>5
    <3>2. CASE k > Len(st.queue) - 1
      <4>1. PICK i \in 1 .. Len(new) : k = (Len(st.queue) - 1) + i
        <5>1. PICK l \in Nat : l = Len(st.queue) - 1
          <6>1. Len(st.queue) - 1 \in Nat
            BY <1>1, <1>2
          <6> QED
            BY <6>1
        <5>2. k \in 1 .. l + Len(new) /\ k > l
          BY <1>1, <2>10, <2>11, <3>2, <5>1
        <5>3. k - l \in 1 .. Len(new) /\ k = l + (k - l)
          BY <2>10, <5>2
        <5> QED
          BY <5>1, <5>3
      <4>2. ns.queue[k] = new[i]
        <5>1. PICK tail : tail = Tail(st.queue)
          OBVIOUS
        <5>2. tail \in Seq(Nodes(d)) /\ Len(tail) = Len(st.queue) - 1 /\ ns.queue = tail \o new
          BY <1>10, <1>11, <5>1
        <5>3. (tail \o new)[Len(tail) + i] = new[i]
          BY <2>10, <5>2
        <5> QED
          BY <4>1, <5>2, <5>3
      <4>3. (p + 1) + k = Len(w) + i
        BY <1>1, <2>2, <4>1
      <4>4. v[Len(w) + i] = new[i]
        BY <2>12
      <4> QED
        BY <4>2, <4>3, <4>4
    <3> QED
      BY <1>1, <1>2, <2>11, <3>1, <3>2
  <2>14. ASSUME NEW k \in 1 .. Len(ns.reached) PROVE ns.reached[k] = v[k + 1]
    <3>1. CASE k <= Len(st.reached)
      <4>1. k \in 1 .. Len(st.reached) /\ k + 1 \in 1 .. Len(w)
        BY <1>1, <2>2, <2>11, <3>1
      <4>2. ns.reached[k] = st.reached[k] /\ v[k + 1] = w[k + 1]
        BY <1>1, <1>10, <2>7, <2>10, <4>1
      <4>3. st.reached[k] = w[k + 1]
        BY <4>1 DEF HasWalked
      <4> QED
        BY <4>2, <4>3
    <3>2. CASE k > Len(st.reached)
      <4>1. PICK i \in 1 .. Len(new) : k = Len(st.reached) + i
        <5>1. k - Len(st.reached) \in 1 .. Len(new) /\ k = Len(st.reached) + (k - Len(st.reached))
          BY <1>1, <2>10, <2>11, <3>2
        <5> QED
          BY <5>1
      <4>2. ns.reached[k] = new[i]
        BY <1>1, <1>10, <2>10, <4>1
      <4>3. k + 1 = Len(w) + i
        BY <1>1, <2>2, <4>1
      <4>4. v[Len(w) + i] = new[i]
        BY <2>12
      <4> QED
        BY <4>2, <4>3, <4>4
    <3> QED
      BY <1>1, <2>11, <3>1, <3>2
  <2>15. Len(ns.queue) = Len(v) - (p + 1) /\ Len(ns.reached) = Len(v) - 1
    BY <1>1, <2>2, <2>10, <2>11
  <2>16. HasWalked(realm, s, d, ns, v, p + 1)
    BY <2>8, <2>9, <2>11, <2>13, <2>14, <2>15 DEF HasWalked
  <2> QED
    BY <1>9, <2>16
<1> QED
  BY <1>12, <1>13

LEMMA WalkIsShort ==
    ASSUME NEW realm, NEW s, NEW d \in 1 .. 3, NEW w, NEW p, IsWalk(realm, s, d, w, p)
    PROVE  Len(w) <= Cardinality(Beings)
<1>1. PICK n \in Nat : n = Len(w)
  BY DEF IsWalk
<1> DEFINE f == [k \in 1 .. n |-> w[k].to]
<1>2. \A k \in 1 .. n : w[k].to \in Beings
  <2>1. \A k \in 1 .. n : w[k] \in Nodes(d)
    BY <1>1 DEF IsWalk
  <2> QED
    BY <2>1 DEF Nodes
<1>3. f \in [1 .. n -> Beings]
  BY <1>2
<1>4. \A i, j \in 1 .. n : f[i] = f[j] => i = j
  BY <1>1 DEF IsWalk
<1>5. f \in Injection(1 .. n, Beings)
  <2> HIDE DEF f
  <2> QED
    BY <1>3, <1>4 DEF Injection, IsInjective
<1>6. Cardinality(1 .. n) = n
  BY FS_Interval
<1> HIDE DEF f
<1>7. Cardinality(1 .. n) <= Cardinality(Beings)
  BY <1>5, FS_Injection, SemanticsAssumption
<1> QED
  BY <1>1, <1>6, <1>7

LEMMA VisitsEnd ==
    ASSUME beings \subseteq Beings, NEW realm, NEW s \in Beings, NEW d \in 1 .. 3, NEW st,
           st = Visits(realm, {s}, d)[Cardinality(Beings)]
    PROVE  \E w : HasWalked(realm, s, d, st, w, Len(w))
<1>1. PICK size : size = Cardinality(Beings) /\ size \in Nat
  BY SemanticsAssumption, FS_CardinalityType
<1> DEFINE f == CHOOSE h : IsVisits(h, realm, {s}, d, size)
<1>2. IsVisits(f, realm, {s}, d, size)
  BY <1>1, VisitsExist
<1>3. st = f[size]
  BY <1>1 DEF Visits, IsVisits
<1> HIDE DEF f
<1>4. /\ f[0] = [queue |-> SetToSeq({[to |-> t, depth |-> 0] : t \in {s}}), seen |-> {s}, reached |-> <<>>]
      /\ \A n \in 0 .. size : n # 0 => f[n] = IF f[n - 1].queue = <<>> THEN f[n - 1] ELSE Visit(f[n - 1], realm, d)
  <2> DEFINE first == [queue |-> SetToSeq({[to |-> t, depth |-> 0] : t \in {s}}), seen |-> {s}, reached |-> <<>>]
             more(x) == IF x.queue = <<>> THEN x ELSE Visit(x, realm, d)
  <2>1. f = [n \in 0 .. size |-> IF n = 0 THEN first ELSE more(f[n - 1])]
    BY <1>2 DEF IsVisits
  <2> HIDE DEF first, more
  <2>2. f[0] = first /\ \A n \in 0 .. size : n # 0 => f[n] = more(f[n - 1])
    BY <1>1, <2>1
  <2> QED
    BY <2>2 DEF first, more
<1> DEFINE Good(n) == \E w : \E p \in Nat : HasWalked(realm, s, d, f[n], w, p) /\ (p = n \/ p = Len(w))
           bad == {n \in 0 .. size : ~Good(n)}
<1>5. Good(0)
  <2>1. HasWalked(realm, s, d, f[0], <<Root(s)>>, 0)
    BY <1>4, WalkBegins
  <2> QED
    BY <2>1
<1>6. ASSUME NEW n \in 0 .. size, n # 0, Good(n - 1) PROVE Good(n)
  <2>1. PICK w : \E p \in Nat : HasWalked(realm, s, d, f[n - 1], w, p) /\ (p = n - 1 \/ p = Len(w))
    BY <1>6
  <2>2. PICK p \in Nat : HasWalked(realm, s, d, f[n - 1], w, p) /\ (p = n - 1 \/ p = Len(w))
    BY <2>1
  <2>3. /\ Len(w) \in Nat /\ Len(f[n - 1].queue) = Len(w) - p
        /\ f[n - 1].queue \in Seq(Nodes(d))
    BY <2>2 DEF HasWalked, IsWalk
  <2>4. CASE f[n - 1].queue = <<>>
    <3>1. p = Len(w)
      BY <2>3, <2>4
    <3>2. f[n] = f[n - 1]
      BY <1>4, <1>6, <2>4
    <3> QED
      BY <2>2, <3>1, <3>2
  <2>5. CASE f[n - 1].queue # <<>>
    <3>1. p = n - 1
      BY <2>2, <2>3, <2>5
    <3>2. f[n] = Visit(f[n - 1], realm, d)
      BY <1>4, <1>6, <2>5
    <3>3. PICK v : HasWalked(realm, s, d, Visit(f[n - 1], realm, d), v, p + 1)
      BY <2>2, <2>5, VisitWalks
    <3>4. p + 1 = n /\ n \in Nat
      BY <1>6, <3>1
    <3> QED
      BY <3>2, <3>3, <3>4
  <2> QED
    BY <2>4, <2>5
<1> HIDE DEF Good
<1>7. ASSUME bad # {} PROVE FALSE
  <2>1. PICK m \in bad : \A k \in bad : m <= k
    <3>1. bad \subseteq Nat
      OBVIOUS
    <3> HIDE DEF bad
    <3> QED
      BY <1>7, <3>1, SmallestNumber
  <2>2. m # 0
    BY <1>5, <2>1
  <2>3. m - 1 \in 0 .. size /\ m - 1 \notin bad
    BY <1>1, <2>1, <2>2
  <2> QED
    BY <1>6, <2>1, <2>2, <2>3
<1>8. Good(size)
  BY <1>1, <1>7
<1>9. PICK w : \E p \in Nat : HasWalked(realm, s, d, f[size], w, p) /\ (p = size \/ p = Len(w))
  BY <1>8 DEF Good
<1>10. PICK p \in Nat : HasWalked(realm, s, d, f[size], w, p) /\ (p = size \/ p = Len(w))
  BY <1>9
<1>11. IsWalk(realm, s, d, w, p) /\ p <= Len(w) /\ Len(w) \in Nat
  BY <1>10 DEF HasWalked, IsWalk
<1>12. Len(w) <= size
  BY <1>1, <1>11, WalkIsShort
<1>13. p = Len(w)
  BY <1>1, <1>10, <1>11, <1>12
<1> QED
  BY <1>3, <1>10, <1>13

IsExact(realm, s, d, got) ==
    LET due == Within(realm, s, d)
    IN  /\ IsInjective(got) /\ ToSet(got) \subseteq due
        /\ Len(got) < MostReached => ToSet(got) = due

LEMMA WalkIsExact ==
    ASSUME NEW realm, NEW s, NEW d \in 1 .. 3, NEW st, NEW w, HasWalked(realm, s, d, st, w, Len(w)),
           NEW got, got = st.reached
    PROVE  IsExact(realm, s, d, got)
<1> DEFINE near == [to: Beings, depth: 1 .. d]
           due == {x \in near : x.to \in Near(realm, s)[x.depth]}
<1>1. \A x : x \in near <=> x \in [to: Beings, depth: 1 .. d]
  OBVIOUS
<1> HIDE DEF near
<1>2. /\ IsWalk(realm, s, d, w, Len(w)) /\ w \in Seq(Nodes(d)) /\ Len(w) \in Nat /\ Len(w) > 0
      /\ got \in Seq(Nodes(d)) /\ Len(got) = Len(w) - 1 /\ Len(got) \in Nat /\ DOMAIN got = 1 .. Len(got)
      /\ \A k \in 1 .. Len(got) : got[k] = w[k + 1]
  BY DEF HasWalked, IsWalk
<1>3. \A k \in 1 .. Len(got) : k + 1 \in 1 .. Len(w) /\ k + 1 > 1
  BY <1>2
<1>4. IsInjective(got)
  <2>1. ASSUME NEW i \in 1 .. Len(got), NEW j \in 1 .. Len(got), got[i] = got[j] PROVE i = j
    <3>1. w[i + 1].to = w[j + 1].to
      BY <1>2, <2>1
    <3>2. \A a, b \in 1 .. Len(w) : w[a].to = w[b].to => a = b
      BY <1>2 DEF IsWalk
    <3>3. i + 1 = j + 1
      BY <1>3, <3>1, <3>2
    <3> QED
      BY <3>3
  <2> QED
    BY <1>2, <2>1 DEF IsInjective
<1>5. ASSUME NEW x \in near
      PROVE  x.to \in Near(realm, s)[x.depth] <=> IsNear(realm, s, x)
  <2>1. x.depth \in 1 .. 3
    BY <1>1, <1>5
  <2>2. Near(realm, s)[x.depth] = Walks(realm, s)[x.depth] \ UNION {Walks(realm, s)[m] : m \in 0 .. x.depth - 1}
    BY <2>1 DEF Near
  <2>3. \A m : m \in 0 .. x.depth - 1 <=> m \in 0 .. 3 /\ m < x.depth
    BY <2>1
  <2> QED
    BY <2>2, <2>3 DEF IsNear
<1>6. ASSUME NEW k \in 1 .. Len(got) PROVE got[k] \in due
  <2>1. PICK x : x = got[k] /\ x = w[k + 1] /\ x \in Nodes(d)
    BY <1>2
  <2>2. IsNear(realm, s, x) /\ x.depth > 0
    BY <1>2, <1>3, <2>1 DEF IsWalk
  <2>3. x \in near
    <3>1. x.to \in Beings /\ x.depth \in 0 .. d /\ x = [to |-> x.to, depth |-> x.depth]
      BY <2>1 DEF Nodes
    <3>2. x.depth \in 1 .. d
      BY <2>2, <3>1
    <3> QED
      BY <1>1, <3>1, <3>2
  <2> QED
    BY <1>5, <2>1, <2>2, <2>3
<1>7. ToSet(got) \subseteq due
  BY <1>2, <1>6 DEF ToSet
<1>8. \A x \in due : x \in near /\ IsNear(realm, s, x)
  BY <1>5
<1> HIDE DEF due
<1>9. ASSUME Len(got) < MostReached, NEW x \in due PROVE x \in ToSet(got)
  <2>1. x \in near /\ IsNear(realm, s, x)
    BY <1>8
  <2>2. x.depth \in 1 .. d /\ x.to \in Beings /\ x = [to |-> x.to, depth |-> x.depth]
    BY <1>1, <2>1
  <2>3. Len(w) <= MostReached
    BY <1>2, <1>9, SemanticsAssumption
  <2>4. PICK e \in 0 .. d : e = d
    OBVIOUS
  <2>5. PICK m \in 0 .. e : m = x.depth
    BY <2>2, <2>4
  <2>6. ~(Len(w) < Len(w))
    BY <1>2
  <2>7. IsPassed(realm, s, w, m)
    BY <1>2, <2>3, <2>4, <2>6, NearerIsSeen
  <2>8. x.to \in Tos(w)
    BY <2>1, <2>5, <2>7 DEF IsPassed, IsNear
  <2>9. PICK k \in 1 .. Len(w) : w[k].to = x.to
    BY <2>8 DEF Tos
  <2>10. w[k] \in Nodes(d)
    BY <1>2
  <2>11. w[k].depth \in 0 .. d /\ w[k] = [to |-> w[k].to, depth |-> w[k].depth]
    BY <2>10 DEF Nodes
  <2>12. IsNear(realm, s, w[k])
    BY <1>2 DEF IsWalk
  <2>13. ~(x.depth < w[k].depth)
    BY <2>1, <2>2, <2>9, <2>12 DEF IsNear
  <2>14. ~(w[k].depth < x.depth)
    BY <2>1, <2>9, <2>11, <2>12 DEF IsNear
  <2>15. w[k].depth = x.depth
    BY <2>2, <2>11, <2>13, <2>14
  <2>16. w[k] = x
    BY <2>2, <2>9, <2>11, <2>15
  <2>17. k # 1
    <3>1. w[1] = [to |-> s, depth |-> 0]
      BY <1>2 DEF IsWalk
    <3> QED
      BY <2>2, <2>16, <3>1
  <2>18. k - 1 \in 1 .. Len(got) /\ (k - 1) + 1 = k
    BY <1>2, <2>17
  <2>19. got[k - 1] = x
    BY <1>2, <2>16, <2>18
  <2> QED
    BY <1>2, <2>18, <2>19 DEF ToSet
<1>10. Len(got) < MostReached => ToSet(got) = due
  BY <1>7, <1>9
<1> QED
  BY <1>4, <1>7, <1>10 DEF IsExact, Within, due, near

\* The reach of a subject follows from what is in the store, whatever it is.
LEMMA ReachIs == beings \subseteq Beings => ReachIsExact
<1> SUFFICES ASSUME beings \subseteq Beings, NEW s \in beings, NEW depth \in 1 .. 3
             PROVE  IsExact(RealmOf[s], s, depth, Reached(RealmOf[s], {s}, depth))
  BY DEF ReachIsExact, IsExact
<1>1. PICK st : st = Visits(RealmOf[s], {s}, depth)[Cardinality(Beings)]
  OBVIOUS
<1>2. Reached(RealmOf[s], {s}, depth) = st.reached
  <2>1. (IF depth < 1 THEN 1 ELSE IF depth > 3 THEN 3 ELSE depth) = depth
    OBVIOUS
  <2> QED
    BY <1>1, <2>1 DEF Reached
<1>3. s \in Beings
  OBVIOUS
<1>4. PICK w : HasWalked(RealmOf[s], s, depth, st, w, Len(w))
  BY <1>1, <1>3, VisitsEnd
<1> QED
  BY <1>2, <1>4, WalkIsExact
----------------------------------------------------------------------------
(* Together *)

\* Following the cursor of a listing, while rows are written, a row that nobody writes is shown unless a
\* write took another row out of the listing, and is not shown twice unless a write brought another row to
\* its front (search in src/src/recall.rs, query_records_with_end in src/src/store.rs), for any number of
\* rows and of writes, and any limit of a page.
THEOREM PagesShowAll == RecordsSpec => PagesShowOnce
<1> QED
  BY RecordsAreEachPart, RecallsStay, PTL
\* A recall accounts for every match once and shows the best of them (recall in src/src/recall.rs),
\* and the subjects found over relations are those within reach, at their distance, unless there
\* are too many (relation_expanded_subjects in src/src/store.rs): for any rows, subjects and
\* relations, and whatever is written in between.
THEOREM RecallStaysTrue == RecordsSpec => []RecallIsTrue
<1>1. MatchesAreAccountedOnce /\ BestAreShown /\ ReachIsExact => RecallIsTrue
  BY DEF RecallIsTrue
<1>2. SemanticsSpec => []ReachIsExact
  <2>1. CuratedInv => ReachIsExact
    BY ReachIs DEF CuratedInv
  <2> QED
    BY <2>1, CuratedBegins, CuratedStays, PTL DEF SemanticsSpec
<1> QED
  BY <1>1, <1>2, RecordsAreEachPart, RecallsStay, PTL
=============================================================================
