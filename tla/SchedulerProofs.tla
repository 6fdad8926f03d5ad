---------------------------- MODULE SchedulerProofs ----------------------------
(***************************************************************************)
(* Proofs about SchedulerScan.  First type correctness: that a run never   *)
(* takes more than its batch has room for rests on what a LIMIT over an    *)
(* ORDER BY returns, which needs the order to be total, that is, logical   *)
(* rowids to be distinct.                                                  *)
(*                                                                         *)
(* Then coverage: what a finished band claims was selected, or came late.  *)
(* The invariant follows a cursor through its life: what it has passed and *)
(* what lies behind it was taken; a run finds rows in order, so a position *)
(* may stand for all that is ahead of it; and a run with room left found   *)
(* all there is.  Writers cannot break this, because a row they touch      *)
(* leaves every band that was open before.                                 *)
(*                                                                         *)
(* The last part is the other side: what was selected lies behind the      *)
(* cursor, or was passed within its band, so that it is selected again     *)
(* only after it has changed.  It takes a run that was not overtaken.      *)
(***************************************************************************)
EXTENDS SchedulerProperties, FiniteSetTheorems, TLAPS

(* Minimal and maximal elements *)

LEMMA SmallestSet ==
    ASSUME NEW U, IsFiniteSet(U), NEW T, T \subseteq SUBSET U, T # {}
    PROVE  \E x \in T : \A y \in T : y \subseteq x => y = x
<1> DEFINE R == StrictSubsetOrdering(U)
<1>1. IsWellFoundedOn(R, SUBSET U)
  BY FS_StrictSubsetOrderingWellFounded, FS_FiniteSubsetsOfFinite
<1> HIDE DEF R
<1>2. PICK x \in T : \A y \in T : <<y, x>> \notin R
  BY <1>1, WFMin
<1> QED
  BY <1>2 DEF R, StrictSubsetOrdering

LEMMA LargestNumber ==
    ASSUME NEW n \in Nat, NEW S, S \subseteq 0 .. n, S # {}
    PROVE  \E m \in S : \A k \in S : k <= m
<1> DEFINE U == 0 .. n
           above == [m \in S |-> (m + 1) .. n]
           T == {above[m] : m \in S}
<1>1. IsFiniteSet(U)
  BY FS_Interval
<1>2. T \subseteq SUBSET U /\ T # {}
  <2>1. \A m \in S : above[m] \in SUBSET U
    OBVIOUS
  <2> HIDE DEF above, U
  <2> QED
    BY <2>1
<1>3. \A m \in S : above[m] = (m + 1) .. n
  OBVIOUS
<1>4. PICK x \in T : \A y \in T : y \subseteq x => y = x
  <2> HIDE DEF U, T
  <2> QED
    BY <1>1, <1>2, SmallestSet
<1>5. PICK m \in S : x = above[m]
  BY <1>4
<1> HIDE DEF above
<1>6. ASSUME NEW k \in S, k > m
      PROVE  FALSE
  <2>1. above[k] \subseteq above[m] /\ k \in above[m] /\ k \notin above[k]
    BY <1>3, <1>6
  <2> QED
    BY <2>1, <1>4, <1>5
<1> QED
  BY <1>6
----------------------------------------------------------------------------
(* A page is the beginning of an order *)

LEMMA AheadIsOrder ==
    ASSUME rows \in [Rows -> RowRecords], NEW i \in Rows, NEW j \in Rows, NEW k \in Rows
    PROVE  /\ ~Ahead(i, i)
           /\ Ahead(i, j) /\ Ahead(j, k) => Ahead(i, k)
           /\ rows[i].rowid # rows[j].rowid => Ahead(i, j) \/ Ahead(j, i)
<1>1. \A r \in Rows : rows[r].ts \in Nat /\ rows[r].rowid \in Nat
  BY DEF RowRecords
<1> QED
  BY <1>1 DEF Ahead

\* How many rows of S come before i.
Front(S, i) == {j \in S : Ahead(j, i)}

LEMMA FrontGrows ==
    ASSUME rows \in [Rows -> RowRecords], IsFiniteSet(Rows),
           NEW S \in SUBSET Rows, NEW i \in S, NEW j \in S, Ahead(i, j)
    PROVE  /\ Front(S, i) \subseteq Front(S, j) /\ Front(S, i) # Front(S, j)
           /\ Cardinality(Front(S, i)) \in Nat /\ Cardinality(Front(S, j)) \in Nat
           /\ Cardinality(Front(S, i)) < Cardinality(Front(S, j))
<1>1. Front(S, i) \subseteq Front(S, j) /\ i \in Front(S, j) /\ i \notin Front(S, i)
  BY AheadIsOrder DEF Front
<1>2. IsFiniteSet(Front(S, i)) /\ IsFiniteSet(Front(S, j))
  BY FS_Subset DEF Front
<1> QED
  BY <1>1, <1>2, FS_Subset, FS_CardinalityType

LEMMA PageIsInitial ==
    ASSUME rows \in [Rows -> RowRecords], IsFiniteSet(Rows),
           NEW S \in SUBSET Rows, NEW n \in Nat, NEW j \in Page(S, n), NEW i \in S,
           i = j \/ Ahead(i, j)
    PROVE  i \in Page(S, n)
<1>1. CASE i = j
  BY <1>1
<1>2. CASE Ahead(i, j)
  <2>1. j \in S /\ Cardinality(Front(S, j)) < n
    BY DEF Page, Front
  <2>2. Cardinality(Front(S, i)) < Cardinality(Front(S, j)) /\ Cardinality(Front(S, i)) \in Nat
        /\ Cardinality(Front(S, j)) \in Nat
    BY <1>2, <2>1, FrontGrows
  <2>3. Cardinality(Front(S, i)) < n
    BY <2>1, <2>2
  <2> QED
    BY <2>3 DEF Page, Front
<1> QED
  BY <1>1, <1>2

\* LIMIT n returns at most n rows.
LEMMA PageHasRoom ==
    ASSUME rows \in [Rows -> RowRecords], IsFiniteSet(Rows),
           NEW S \in SUBSET Rows, NEW n \in Nat,
           \A i, j \in S : i # j => rows[i].rowid # rows[j].rowid
    PROVE  /\ IsFiniteSet(Page(S, n)) /\ Cardinality(Page(S, n)) \in Nat
           /\ Cardinality(Page(S, n)) <= n
<1> DEFINE P == Page(S, n)
           f == [i \in P |-> Cardinality(Front(S, i))]
<1>1. P \subseteq S /\ P \subseteq Rows
  BY DEF Page
<1>2. IsFiniteSet(P) /\ Cardinality(P) \in Nat
  BY <1>1, FS_Subset, FS_CardinalityType
<1>3. f \in [P -> 0 .. (n - 1)]
  <2>1. ASSUME NEW i \in P
        PROVE  Cardinality(Front(S, i)) \in 0 .. (n - 1)
    <3>1. IsFiniteSet(Front(S, i))
      BY FS_Subset DEF Front
    <3>2. Cardinality(Front(S, i)) \in Nat
      BY <3>1, FS_CardinalityType
    <3>3. Cardinality(Front(S, i)) < n
      BY DEF Page, Front
    <3> QED
      BY <3>2, <3>3
  <2> QED
    BY <2>1
<1>4. ASSUME NEW i \in P, NEW j \in P, f[i] = f[j]
      PROVE  i = j
  <2> SUFFICES ASSUME i # j PROVE FALSE
    OBVIOUS
  <2>1. i \in S /\ j \in S /\ rows[i].rowid # rows[j].rowid
    BY <1>1
  <2>2. Ahead(i, j) \/ Ahead(j, i)
    BY <2>1, AheadIsOrder
  <2>3. Cardinality(Front(S, i)) = Cardinality(Front(S, j))
    BY <1>4
  <2>4. ASSUME NEW x \in S, NEW y \in S, Ahead(x, y),
               Cardinality(Front(S, x)) = Cardinality(Front(S, y))
        PROVE  FALSE
    <3>1. Cardinality(Front(S, x)) < Cardinality(Front(S, y)) /\ Cardinality(Front(S, x)) \in Nat
      BY <2>4, FrontGrows
    <3> QED
      BY <3>1, <2>4
  <2> QED
    BY <2>1, <2>2, <2>3, <2>4
<1>5. f \in Injection(P, 0 .. (n - 1))
  BY <1>3, <1>4 DEF Injection, IsInjective
<1>6. IsFiniteSet(0 .. (n - 1)) /\ Cardinality(0 .. (n - 1)) = n
  BY FS_Interval
<1> HIDE DEF P, f
<1>7. Cardinality(P) <= n
  BY <1>5, <1>6, FS_Injection
<1> QED
  BY <1>2, <1>7 DEF P

\* A page with room left is everything there is.
LEMMA PageWithRoomIsAll ==
    ASSUME rows \in [Rows -> RowRecords], IsFiniteSet(Rows),
           NEW S \in SUBSET Rows, NEW n \in Nat, Cardinality(Page(S, n)) < n
    PROVE  Page(S, n) = S
<1> DEFINE Rest == S \ Page(S, n)
           T == {Front(S, i) : i \in Rest}
<1> SUFFICES ASSUME Rest # {} PROVE FALSE
  BY DEF Page
<1>1. T \subseteq SUBSET Rows
  <2>1. \A i \in Rest : Front(S, i) \subseteq Rows
    BY DEF Front
  <2> QED
    BY <2>1
<1>2. T # {}
  <2>1. PICK i \in Rest : TRUE
    OBVIOUS
  <2>2. Front(S, i) \in T
    BY <2>1
  <2> QED
    BY <2>2
<1> HIDE DEF T
<1>3. \E x \in T : \A y \in T : y \subseteq x => y = x
  BY <1>1, <1>2, SmallestSet
<1> USE DEF T
<1>8. PICK i \in Rest : \A j \in Rest : Front(S, j) \subseteq Front(S, i)
                                           => Front(S, j) = Front(S, i)
  BY <1>3
<1>4. Front(S, i) \subseteq Page(S, n)
  <2> SUFFICES ASSUME NEW j \in Front(S, i), j \notin Page(S, n) PROVE FALSE
    OBVIOUS
  <2>1. j \in Rest /\ Ahead(j, i) /\ i \in S /\ j \in S
    BY DEF Front
  <2>2. Front(S, j) \subseteq Front(S, i) /\ Front(S, j) # Front(S, i)
    BY <2>1, FrontGrows
  <2> QED
    BY <2>1, <2>2, <1>8
<1>5. IsFiniteSet(Page(S, n))
  BY FS_Subset DEF Page
<1>6. /\ Cardinality(Front(S, i)) <= Cardinality(Page(S, n))
      /\ Cardinality(Front(S, i)) \in Nat /\ Cardinality(Page(S, n)) \in Nat
  BY <1>4, <1>5, FS_Subset, FS_CardinalityType
<1>7. ~ (Cardinality(Front(S, i)) < n)
  BY DEF Page, Front
<1> QED
  BY <1>6, <1>7
----------------------------------------------------------------------------
(* Cursors *)

\* Every row has a logical rowid of its own, given out by the counter.
Numbered ==
    /\ \A i \in Rows : rows[i].rowid <= rowseq /\ (Stored(i) => rows[i].rowid >= 1)
    /\ \A i, j \in Rows : Stored(i) /\ Stored(j) /\ i # j => rows[i].rowid # rows[j].rowid

\* A run begins with an empty window, and reads as long as it has stages left.
Paced(q) ==
    /\ q.pc \in {"idle", "pin"} => q.stage = 1 /\ q.left = MaxBatch /\ q.window = {}
    /\ q.pc = "read" => q.stage <= Len(Stages)
    /\ q.pc = "record" => q.stage = Len(Stages) + 1

Staged == \A r \in Runners : Paced(run[r])

LEMMA FrontierType ==
    ASSUME TypeOK, Numbered
    PROVE  Frontier \in [Tables -> Nat] /\ \A t \in Tables : Frontier[t] <= rowseq
<1> DEFINE ids(t) == {rows[i].rowid : i \in {j \in Rows : Stored(j) /\ TableOf[j] = t}} \cup {0}
           top(t) == CHOOSE n \in ids(t) : \A m \in ids(t) : m <= n
<1>1. ASSUME NEW t \in Tables
      PROVE  top(t) \in Nat /\ top(t) <= rowseq
  <2>1. ids(t) \subseteq 0 .. rowseq /\ ids(t) # {} /\ rowseq \in Nat
    BY DEF TypeOK, Numbered, RowRecords
  <2> HIDE DEF ids
  <2>2. \E n \in ids(t) : \A m \in ids(t) : m <= n
    BY <2>1, LargestNumber
  <2>3. top(t) \in ids(t)
    BY <2>2
  <2> QED
    BY <2>1, <2>3
<1>2. Frontier = [t \in Tables |-> top(t)]
  BY DEF Frontier
<1> HIDE DEF top
<1> QED
  BY <1>1, <1>2

LEMMA NotingType ==
    ASSUME TypeOK, NEW c \in Cursors
    PROVE  Noting(c) \in Cursors
<1> DEFINE V == {Version(i) : i \in {j \in Rows :
                    /\ Stored(j)
                    /\ rows[j].rowid \in (c.lowerIds[TableOf[j]] + 1) .. c.upperIds[TableOf[j]]
                    /\ rows[j].ts > c.upper
                    /\ TableOf[j] = Records => rows[j].mseq <= c.mlow}}
           l == c.late \cup V
<1>1. V \subseteq RowVersions
  BY DEF Version, RowVersions, TypeOK, RowRecords
<1>2. l \subseteq RowVersions
  BY <1>1 DEF Cursors
<1>3. Noting(c) = [c EXCEPT !.late = l]
  BY DEF Noting
<1> HIDE DEF l
<1> QED
  BY <1>2, <1>3 DEF Cursors

LEMMA OpeningType == Opening \in Cursors
<1>1. NoIds \in [Tables -> Nat] /\ NoPositions \in [Tables -> Positions \cup {NoPos}]
  BY DEF NoIds, NoPositions
<1> QED
  BY <1>1, ScanAssumption DEF Opening, Cursors, NoTime

LEMMA ForRunType ==
    ASSUME TypeOK, Numbered, NEW c \in Cursors, NEW now \in Nat
    PROVE  ForRun(c, now) \in Cursors
<1>1. Frontier \in [Tables -> Nat] /\ mutseq \in Nat
  BY FrontierType DEF TypeOK
<1>2. CASE c = Opening
  <2> DEFINE m == IF Base = NoTime THEN 0 ELSE mutseq
             d == [c EXCEPT !.upper = now, !.upperIds = Frontier, !.mup = mutseq, !.mlow = m]
  <2>1. m \in Nat
    BY <1>1
  <2>2. ForRun(c, now) = Noting(d)
    BY <1>2 DEF ForRun
  <2> HIDE DEF m
  <2>3. d \in Cursors
    BY <1>1, <2>1 DEF Cursors
  <2> QED
    BY <2>2, <2>3, NotingType
<1>3. CASE c # Opening /\ c.upper = NoTime
  <2> DEFINE u == Later(now, c.lower)
             d == [c EXCEPT !.upper = u, !.upperIds = Frontier, !.mup = mutseq, !.post = TRUE]
  <2>1. u \in Nat
    BY DEF Later, Cursors
  <2>2. ForRun(c, now) = Noting(d)
    BY <1>3 DEF ForRun
  <2> HIDE DEF u
  <2>3. d \in Cursors
    BY <1>1, <2>1 DEF Cursors
  <2> QED
    BY <2>2, <2>3, NotingType
<1> QED
  BY <1>2, <1>3 DEF ForRun

LEMMA AdvancedType ==
    ASSUME TypeOK, NEW c \in Cursors, NEW W \in SUBSET Entries, NEW d \in Advanced(c, W)
    PROVE  d \in Cursors
<1>1. PICK f \in [Tables -> {NoPos} \cup UNION {{c.pos[t] : t \in Tables},
                                              {Position(e) : e \in W}}] :
          d = [c EXCEPT !.pos = f]
  BY DEF Advanced
<1>2. \A e \in W : Position(e) \in Positions
  BY DEF Position, Positions, Entries, TypeOK, RowRecords
<1>3. \A t \in Tables : c.pos[t] \in Positions \cup {NoPos}
  BY DEF Cursors
<1>4. f \in [Tables -> Positions \cup {NoPos}]
  BY <1>2, <1>3
<1> QED
  BY <1>1, <1>4 DEF Cursors

LEMMA AfterType ==
    ASSUME TypeOK, Numbered, NEW c \in Cursors, NEW W \in SUBSET Entries, NEW now \in Nat,
           NEW full, NEW d \in After(c, W, now, full)
    PROVE  d \in Cursors
<1>1. Frontier \in [Tables -> Nat] /\ mutseq \in Nat /\ NoIds \in [Tables -> Nat]
      /\ NoPositions \in [Tables -> Positions \cup {NoPos}]
  BY FrontierType DEF TypeOK, NoIds, NoPositions
<1>2. Restarted(c) \in Cursors
  <2>1. [c EXCEPT !.pos = NoPositions, !.upperIds = Frontier, !.mup = mutseq] \in Cursors
    BY <1>1 DEF Cursors
  <2> QED
    BY <2>1, NotingType DEF Restarted
<1>3. Following(c, now) \in Cursors
  <2>1. [c EXCEPT !.lower = c.upper, !.upper = now, !.lowerIds = c.upperIds,
                  !.upperIds = Frontier, !.mlow = c.mup, !.mup = mutseq, !.post = TRUE,
                  !.pos = NoPositions] \in Cursors
    BY <1>1 DEF Cursors
  <2> QED
    BY <2>1, NotingType DEF Following
<1>4. Completed(c) \in Cursors
  BY <1>1 DEF Completed, Cursors, NoTime
<1> QED
  BY <1>2, <1>3, <1>4, AdvancedType DEF After
----------------------------------------------------------------------------
(* Runs and writers *)

Typed == TypeOK /\ Numbered /\ Staged

LEMMA InitTyped == Init => Typed
<1> SUFFICES ASSUME Init PROVE Typed
  OBVIOUS
<1>1. Idle \in Runs
  BY OpeningType, ScanAssumption DEF Idle, Runs, NoTime
<1>2. clock \in Nat
  BY ScanAssumption DEF Init, NoTime
<1>3. \A i \in Rows : rows[i] = Free
  BY DEF Init
<1>4. TypeOK
  BY <1>1, <1>2, OpeningType DEF Init, TypeOK, Free, RowRecords, NoTime
<1>5. Numbered
  BY <1>3 DEF Init, Numbered, Stored, Free
<1>6. Staged
  BY DEF Init, Staged, Paced, Idle
<1> QED
  BY <1>4, <1>5, <1>6 DEF Typed

\* What one query returns, and what its run has left.
LEMMA SelectedType ==
    ASSUME Typed, NEW r \in Runners, run[r].pc = "read",
           NEW S, S = Selected(run[r].cursor, Stages[run[r].stage], run[r].left)
    PROVE  /\ S \subseteq Rows /\ IsFiniteSet(S)
           /\ \A i \in S : Stored(i)
           /\ Cardinality(S) \in 0 .. run[r].left
<1> DEFINE c == run[r].cursor
           stage == Stages[run[r].stage]
           A == {i \in Rows : TableOf[i] = Table(stage) /\ Admitted(View(c), i)}
           B == Page(A, MaxBatch) \cap Chats
           n == run[r].left
<1>1. n \in Nat /\ rows \in [Rows -> RowRecords]
  BY DEF Typed, TypeOK, Runs
<1>2. \A i \in A : Stored(i)
  BY DEF Admitted
<1>3. A \subseteq Rows /\ B \subseteq A
  BY DEF Page
<1>4. \A D \in SUBSET A : /\ IsFiniteSet(Page(D, n)) /\ Cardinality(Page(D, n)) \in Nat
                          /\ Cardinality(Page(D, n)) <= n
  <2> SUFFICES ASSUME NEW D \in SUBSET A
               PROVE  /\ IsFiniteSet(Page(D, n)) /\ Cardinality(Page(D, n)) \in Nat
                      /\ Cardinality(Page(D, n)) <= n
    OBVIOUS
  <2>1. D \in SUBSET Rows /\ \A i, j \in D : i # j => rows[i].rowid # rows[j].rowid
    BY <1>2, <1>3 DEF Typed, Numbered
  <2> HIDE DEF A, n
  <2> QED
    BY <1>1, <2>1, PageHasRoom, ScanAssumption
<1>5. S = Page(A, n) \/ S = Page(B, n)
  BY DEF Selected
<1>6. Page(A, n) \subseteq A /\ Page(B, n) \subseteq B
  BY DEF Page
<1> HIDE DEF A, B, n
<1>7. IsFiniteSet(S) /\ Cardinality(S) \in 0 .. n
  BY <1>1, <1>3, <1>4, <1>5
<1>8. S \subseteq A
  BY <1>3, <1>5, <1>6
<1> QED
  BY <1>2, <1>3, <1>7, <1>8 DEF n

LEMMA StagesType == Len(Stages) \in Nat /\ Len(Stages) >= 1
<1>1. Stages \in Seq(STRING) /\ DOMAIN Stages # {}
  BY ScanAssumption DEF Tables
<1> QED
  BY <1>1

\* A step of one run, which writes no table but dream_runs.
LEMMA RunStepTyped ==
    ASSUME Typed, NEW r \in Runners, NEW new \in Runs, Paced(new),
           run' = [run EXCEPT ![r] = new], UNCHANGED <<clock, rows, rowseq, mutseq>>,
           saved' \in [at: Nat, cursor: Cursors], seen' \in SUBSET RowVersions
    PROVE  Typed'
<1>1. TypeOK'
  BY DEF Typed, TypeOK
<1>2. Numbered'
  BY DEF Typed, Numbered, Stored
<1>3. Staged'
  BY DEF Typed, TypeOK, Staged, Paced
<1> QED
  BY <1>1, <1>2, <1>3 DEF Typed

LEMMA ReadTyped ==
    ASSUME Typed, NEW r \in Runners, Read(r)
    PROVE  Typed'
<1> DEFINE q == run[r]
           S == Selected(q.cursor, Stages[q.stage], q.left)
           w == q.window \cup {[id |-> i, ts |-> rows[i].ts, mseq |-> rows[i].mseq] : i \in S}
           l == q.left - Cardinality(S)
           p == IF q.stage = Len(Stages) THEN "record" ELSE "read"
           new == [q EXCEPT !.window = w, !.left = l, !.stage = q.stage + 1, !.pc = p]
<1>1. q \in Runs /\ q.pc = "read" /\ q.stage <= Len(Stages)
  BY DEF Read, Typed, TypeOK, Staged, Paced
<1>2. S \subseteq Rows /\ Cardinality(S) \in 0 .. q.left
  BY <1>1, SelectedType
<1>3. run' = [run EXCEPT ![r] = new]
  BY DEF Read
<1> HIDE DEF S
<1>4. w \in SUBSET Entries
  BY <1>1, <1>2 DEF Runs, Entries, Typed, TypeOK, RowRecords
<1>5. l \in 0 .. MaxBatch
  BY <1>1, <1>2, ScanAssumption DEF Runs
<1> HIDE DEF w, l
<1>6. q.stage + 1 \in 1 .. Len(Stages) + 1
  BY <1>1, StagesType DEF Runs
<1>7. new \in Runs /\ new.stage = q.stage + 1 /\ new.pc = p
  BY <1>1, <1>4, <1>5, <1>6 DEF Runs
<1>8. Paced(new)
  BY <1>1, <1>7, StagesType DEF Paced, Runs
<1> HIDE DEF new
<1> QED
  BY <1>3, <1>7, <1>8, RunStepTyped DEF Read, Typed, TypeOK

LEMMA RunTyped ==
    ASSUME Typed, NEW r \in Runners, Begin(r) \/ Pin(r) \/ Read(r) \/ Record(r) \/ Abandon(r)
    PROVE  Typed'
<1>1. Idle \in Runs /\ Paced(Idle) /\ run[r] \in Runs /\ Paced(run[r])
  BY OpeningType, ScanAssumption, StagesType
     DEF Idle, Runs, NoTime, Typed, TypeOK, Paced, Staged
<1>2. CASE Begin(r)
  <2> DEFINE new == [Idle EXCEPT !.pc = "pin", !.now = clock, !.cursor = saved.cursor]
  <2>1. new \in Runs /\ Paced(new)
    BY <1>1 DEF Runs, Typed, TypeOK, Paced, Idle
  <2>2. run' = [run EXCEPT ![r] = new]
    BY <1>2 DEF Begin
  <2> HIDE DEF new
  <2> QED
    BY <1>2, <2>1, <2>2, RunStepTyped DEF Begin, Typed, TypeOK
<1>3. CASE Pin(r)
  <2> DEFINE c == ForRun(run[r].cursor, run[r].now)
             new == [run[r] EXCEPT !.pc = "read", !.cursor = c]
  <2>1. c \in Cursors
    BY <1>1, ForRunType DEF Typed, Runs
  <2>2. run' = [run EXCEPT ![r] = new]
    BY <1>3 DEF Pin
  <2> HIDE DEF c
  <2>3. new \in Runs /\ Paced(new)
    BY <1>1, <1>3, <2>1, StagesType DEF Pin, Runs, Paced
  <2> HIDE DEF new
  <2> QED
    BY <1>3, <2>2, <2>3, RunStepTyped DEF Pin, Typed, TypeOK
<1>4. CASE Record(r)
  <2>1. PICK c \in After(run[r].cursor, run[r].window, run[r].now, run[r].left = 0) :
           saved' = IF run[r].now >= saved.at THEN [at |-> run[r].now, cursor |-> c] ELSE saved
    BY <1>4 DEF Record
  <2>2. c \in Cursors
    BY <1>1, AfterType DEF Typed, Runs
  <2>3. saved' \in [at: Nat, cursor: Cursors]
    BY <1>1, <2>1, <2>2 DEF Runs, Typed, TypeOK
  <2>4. seen' \in SUBSET RowVersions
    BY <1>1, <1>4 DEF Record, Runs, Entries, RowVersions, Typed, TypeOK
  <2> QED
    BY <1>1, <1>4, <2>3, <2>4, RunStepTyped DEF Record
<1>5. CASE Abandon(r)
  BY <1>1, <1>5, RunStepTyped DEF Abandon, Typed, TypeOK
<1> QED
  BY <1>2, <1>3, <1>4, <1>5, ReadTyped

LEMMA WritersTyped ==
    ASSUME Typed,
           Tick \/ (\E i \in Rows, t \in 1 .. MaxTime : Insert(i, t))
                \/ (\E i \in Rows : Change(i) \/ Retire(i) \/ Delete(i))
    PROVE  Typed'
<1>1. rows \in [Rows -> RowRecords] /\ clock \in Nat /\ rowseq \in Nat /\ mutseq \in Nat
  BY DEF Typed, TypeOK
<1>2. CASE Tick
  BY <1>2, <1>1 DEF Tick, Typed, TypeOK, Numbered, Staged, Stored
<1>3. ASSUME NEW i \in Rows, NEW t \in 1 .. MaxTime, Insert(i, t)
      PROVE  Typed'
  <2> DEFINE new == [life |-> "stored", ts |-> t, rowid |-> rowseq + 1, mseq |-> 0,
                     eligible |-> TRUE]
  <2>1. new \in RowRecords /\ rowseq' = rowseq + 1 /\ rows' = [rows EXCEPT ![i] = new]
    BY <1>1, <1>3, ScanAssumption DEF Insert, RowRecords
  <2>2. TypeOK'
    BY <1>3, <2>1, <1>1 DEF Insert, Typed, TypeOK
  <2>3. Numbered'
    BY <1>1, <2>1 DEF Typed, Numbered, Stored, RowRecords
  <2> QED
    BY <1>3, <2>2, <2>3 DEF Insert, Typed, Staged
<1>4. ASSUME NEW i \in Rows, Change(i) \/ Retire(i) \/ Delete(i)
      PROVE  Typed'
  <2> DEFINE Kept(new) == /\ rows' = [rows EXCEPT ![i] = new]
                          /\ new.life = "stored" => Stored(i) /\ new.rowid = rows[i].rowid
                          /\ new.rowid <= rowseq
  <2>0. rows[i] \in RowRecords /\ (Stored(i) => rows[i].rowid <= rowseq)
    BY <1>1 DEF Typed, Numbered
  <2>1. PICK new \in RowRecords : Kept(new)
    <3>1. CASE Change(i)
      <4> DEFINE new == [rows[i] EXCEPT !.ts = clock, !.mseq = mutseq + 1, !.eligible = TRUE]
      <4>1. new.rowid = rows[i].rowid
        BY <2>0 DEF RowRecords
      <4>2. new \in RowRecords
        <5> DEFINE stamped == [rows[i] EXCEPT !.ts = clock]
        <5>1. stamped \in RowRecords
          BY <1>1, <2>0 DEF RowRecords
        <5>2. mutseq + 1 \in Nat
          BY <1>1
        <5>3. new = [stamped EXCEPT !.mseq = mutseq + 1, !.eligible = TRUE]
          BY <2>0 DEF RowRecords
        <5> HIDE DEF new, stamped
        <5> QED
          BY <5>1, <5>2, <5>3 DEF RowRecords
      <4>3. rows' = [rows EXCEPT ![i] = new] /\ Stored(i)
        BY <3>1 DEF Change
      <4> HIDE DEF new
      <4> QED
        BY <2>0, <4>1, <4>2, <4>3
    <3>2. CASE Retire(i)
      <4> DEFINE new == [rows[i] EXCEPT !.ts = clock, !.eligible = FALSE]
      <4>1. new \in RowRecords /\ new.rowid = rows[i].rowid
        BY <1>1, <2>0 DEF RowRecords
      <4>2. rows' = [rows EXCEPT ![i] = new] /\ Stored(i)
        BY <3>2 DEF Retire
      <4> HIDE DEF new
      <4> QED
        BY <2>0, <4>1, <4>2
    <3>3. CASE Delete(i)
      <4> DEFINE new == [Free EXCEPT !.life = "deleted"]
      <4>1. new \in RowRecords /\ new.rowid = 0 /\ new.life = "deleted"
        BY DEF Free, NoTime, RowRecords
      <4>2. rows' = [rows EXCEPT ![i] = new]
        BY <3>3 DEF Delete
      <4>3. 0 <= rowseq
        BY <1>1
      <4> HIDE DEF new
      <4>4. Kept(new)
        BY <4>1, <4>2, <4>3
      <4> QED
        BY <4>1, <4>4
    <3> QED
      BY <1>4, <3>1, <3>2, <3>3
  <2>2. UNCHANGED <<clock, rowseq, saved, run, seen>> /\ mutseq' \in Nat
    <3>1. CASE Change(i)
      <4>1. UNCHANGED <<clock, rowseq, saved, run, seen>> /\ mutseq' = mutseq + 1
        BY <3>1 DEF Change
      <4> QED
        BY <1>1, <4>1
    <3>2. CASE Retire(i)
      BY <1>1, <3>2 DEF Retire
    <3>3. CASE Delete(i)
      BY <1>1, <3>3 DEF Delete
    <3> QED
      BY <1>4, <3>1, <3>2, <3>3
  <2>3. TypeOK'
    BY <2>1, <2>2 DEF Typed, TypeOK
  <2>4. Numbered'
    BY <1>1, <2>1, <2>2 DEF Typed, Numbered, Stored
  <2> QED
    BY <2>2, <2>3, <2>4 DEF Typed, Staged
<1> QED
  BY <1>2, <1>3, <1>4

LEMMA TypedAlways == Spec => []Typed
<1>1. Typed /\ [Next]_vars => Typed'
  <2> SUFFICES ASSUME Typed, [Next]_vars PROVE Typed'
    OBVIOUS
  <2>1. CASE UNCHANGED vars
    BY <2>1 DEF vars, Typed, TypeOK, Numbered, Staged, Stored
  <2>2. CASE Next
    BY <2>2, RunTyped, WritersTyped DEF Next
  <2> QED
    BY <2>1, <2>2
<1> QED
  BY <1>1, InitTyped, PTL DEF Spec

\* The cursor, every run and every row keep their types; above all a run never selects
\* more rows than its batch has room for, whatever the batch and the stages.
THEOREM TypeCorrect == Spec => []TypeOK
<1>1. Typed => TypeOK
  BY DEF Typed
<1> QED
  BY <1>1, TypedAlways, PTL
----------------------------------------------------------------------------
(* Coverage *)

\* The row as it stands is one of the selected versions S, or came late for a band of c.
Taken(c, S, i) == Version(i) \in S \cup c.late

\* What a cursor has read of the counters.
Bounded(c) ==
    /\ c.mlow <= mutseq /\ c.mup <= mutseq
    /\ \A t \in Tables : c.lowerIds[t] <= rowseq /\ c.upperIds[t] <= rowseq

\* Only the first band begins at the watermark, and a band without an end has no position.
Founded(c) ==
    /\ ~c.post => c.lower = Base
    /\ c.upper = NoTime => c.pos = NoPositions

\* Rows the band takes in by their rowid and leaves out by their time were noted.
LateNoted(c, S) ==
    \A i \in Rows :
        /\ Stored(i) /\ rows[i].eligible
        /\ c.lowerIds[TableOf[i]] < rows[i].rowid /\ rows[i].rowid <= c.upperIds[TableOf[i]]
        /\ rows[i].ts > c.upper
        /\ TableOf[i] = Records => rows[i].mseq <= c.mlow
        => Taken(c, S, i)

\* Rows behind the cursor were taken.
BehindTaken(c, S) ==
    \A i \in Rows :
        /\ Stored(i) /\ rows[i].eligible
        /\ rows[i].rowid <= c.lowerIds[TableOf[i]]
        /\ TableOf[i] = Records => rows[i].mseq <= c.mlow
        /\ rows[i].ts >= Base
        => Taken(c, S, i)

\* Admitted, apart from the position.
Sought(c, i) ==
    /\ Stored(i)
    /\ IF TableOf[i] = Records
       THEN /\ rows[i].eligible /\ rows[i].mseq <= c.mup
            /\ InBand(c, i) \/ c.mlow < rows[i].mseq
       ELSE InBand(c, i)

\* Rows of the band that the position has passed were taken.
PassedTaken(c, S) ==
    ~Legacy(c) => \A i \in Rows : Sought(c, i) /\ ~Remaining(c, i) => Taken(c, S, i)

Sound(c, S) ==
    Bounded(c) /\ Founded(c) /\ LateNoted(c, S) /\ BehindTaken(c, S) /\ PassedTaken(c, S)

\* The row as it stands is in the window.
Within(W, i) == \E w \in W : w.id = i /\ w.mseq = rows[i].mseq

\* Whatever is ahead of a row of the window is in the window.
Ordered(c, W) ==
    \A w \in W, i \in Rows :
        /\ Stored(w.id) /\ TableOf[w.id] = TableOf[i] /\ Admitted(c, i)
        /\ \/ rows[i].ts > w.ts
           \/ rows[i].ts = w.ts /\ rows[i].rowid <= rows[w.id].rowid
        => Within(W, i)

\* A run with room left has found all there is in the tables it has read.
Exhaustive(q) ==
    q.left > 0 =>
        \A i \in Rows, k \in 1 .. q.stage - 1 :
            Stages[k] = TableOf[i] /\ Admitted(q.cursor, i) => Within(q.window, i)

Timed(q) ==
    /\ q.pc # "idle" => q.now >= 1
    /\ q.pc \in {"read", "record"} => q.cursor.upper >= 1

Reliable(q, S) ==
    /\ Sound(q.cursor, S) /\ Timed(q)
    /\ \A w \in q.window : rows[w.id].life # "free"
    /\ ~Legacy(q.cursor) => Ordered(q.cursor, q.window) /\ Exhaustive(q)

Covered ==
    /\ clock >= 1
    /\ Sound(saved.cursor, seen)
    /\ \A r \in Runners : Reliable(run[r], seen)

LEMMA AdmittedIsSought ==
    ASSUME NEW c, NEW i
    PROVE  Admitted(c, i) <=> Sought(c, i) /\ Remaining(c, i)
BY DEF Admitted, Sought

LEMMA SoundGrows ==
    ASSUME NEW c, NEW S, NEW T, S \subseteq T, Sound(c, S)
    PROVE  Sound(c, T)
BY DEF Sound, LateNoted, BehindTaken, PassedTaken, Taken
----------------------------------------------------------------------------
(* What writers do to what was read *)

\* A row that changes leaves every band that was read before, and rows keep their rowid.
Steady ==
    /\ rowseq <= rowseq' /\ mutseq <= mutseq'
    /\ \A i \in Rows :
        /\ rows[i].life # "free" =>
               /\ rows'[i].life # "free"
               /\ rows'[i].life = "stored" => Stored(i) /\ rows'[i].rowid = rows[i].rowid
        /\ \/ rows'[i] = rows[i]
           \/ rows'[i].life # "stored"
           \/ TableOf[i] = Records /\ (~rows'[i].eligible \/ rows'[i].mseq > mutseq)
           \/ rows'[i].mseq = 0 /\ rows'[i].rowid > rowseq

LEMMA Untouched ==
    ASSUME Typed, Typed', Steady, NEW i \in Rows, rows'[i].life = "stored",
           TableOf[i] = Records => rows'[i].eligible /\ rows'[i].mseq <= mutseq,
           rows'[i].rowid <= rowseq \/ rows'[i].mseq > 0
    PROVE  rows'[i] = rows[i]
<1>1. rows'[i].rowid \in Nat /\ rows'[i].mseq \in Nat /\ rowseq \in Nat /\ mutseq \in Nat
  BY DEF Typed, TypeOK, RowRecords
<1> QED
  BY <1>1 DEF Steady

LEMMA SoughtKept ==
    ASSUME Typed, Typed', Steady, NEW c \in Cursors, Bounded(c), NEW i \in Rows, Sought(c, i)'
    PROVE  rows'[i] = rows[i]
<1>1. rows'[i].rowid \in Nat /\ rows'[i].mseq \in Nat /\ rowseq \in Nat /\ mutseq \in Nat
  BY DEF Typed, TypeOK, RowRecords
<1>2. c.mlow \in Nat /\ c.mup \in Nat /\ c.upperIds[TableOf[i]] \in Nat /\ TableOf[i] \in Tables
  BY ScanAssumption DEF Cursors
<1>3. c.mup <= mutseq /\ c.upperIds[TableOf[i]] <= rowseq
  BY <1>2 DEF Bounded
<1>4. rows'[i].life = "stored"
  BY DEF Sought, Stored
<1>5. TableOf[i] = Records => rows'[i].eligible /\ rows'[i].mseq <= mutseq
  BY <1>1, <1>2, <1>3 DEF Sought
<1>6. rows'[i].rowid <= rowseq \/ rows'[i].mseq > 0
  BY <1>1, <1>2, <1>3 DEF Sought, InBand
<1> QED
  BY <1>4, <1>5, <1>6, Untouched

LEMMA SoundKept ==
    ASSUME Typed, Typed', Steady, NEW c \in Cursors, NEW S, Sound(c, S)
    PROVE  Sound(c, S)'
<1>1. rowseq \in Nat /\ mutseq \in Nat /\ rowseq' \in Nat /\ mutseq' \in Nat
      /\ rows' \in [Rows -> RowRecords]
  BY DEF Typed, TypeOK
<1>2. c.mlow \in Nat /\ c.mup \in Nat /\ c.upperIds \in [Tables -> Nat]
      /\ c.lowerIds \in [Tables -> Nat]
  BY DEF Cursors
<1>3. Bounded(c)'
  BY <1>1, <1>2 DEF Sound, Bounded, Steady
<1>4. Founded(c)'
  BY DEF Sound, Founded
<1>5. ASSUME NEW i \in Rows, rows'[i].life = "stored", rows'[i].eligible,
             rows'[i].rowid <= c.lowerIds[TableOf[i]] \/ rows'[i].rowid <= c.upperIds[TableOf[i]],
             TableOf[i] = Records => rows'[i].mseq <= c.mlow
      PROVE  rows'[i] = rows[i]
  <2>1. TableOf[i] \in Tables
    BY ScanAssumption
  <2>2. rows'[i].rowid \in Nat /\ rows'[i].mseq \in Nat
    BY <1>1 DEF RowRecords
  <2>3. rows'[i].rowid <= rowseq
    BY <1>1, <1>2, <1>5, <2>1, <2>2 DEF Sound, Bounded
  <2>4. TableOf[i] = Records => rows'[i].mseq <= mutseq
    BY <1>1, <1>2, <1>5, <2>2 DEF Sound, Bounded
  <2> QED
    BY <1>5, <2>3, <2>4, Untouched
<1>6. LateNoted(c, S)'
  <2> SUFFICES ASSUME NEW i \in Rows,
                      rows'[i].life = "stored", rows'[i].eligible,
                      c.lowerIds[TableOf[i]] < rows'[i].rowid,
                      rows'[i].rowid <= c.upperIds[TableOf[i]],
                      rows'[i].ts > c.upper,
                      TableOf[i] = Records => rows'[i].mseq <= c.mlow
               PROVE  Taken(c, S, i)'
    BY DEF LateNoted, Stored
  <2>1. rows'[i] = rows[i]
    BY <1>5
  <2>2. Taken(c, S, i)
    BY <2>1 DEF Sound, LateNoted, Stored
  <2> QED
    BY <2>1, <2>2 DEF Taken, Version
<1>7. BehindTaken(c, S)'
  <2> SUFFICES ASSUME NEW i \in Rows,
                      rows'[i].life = "stored", rows'[i].eligible,
                      rows'[i].rowid <= c.lowerIds[TableOf[i]],
                      TableOf[i] = Records => rows'[i].mseq <= c.mlow,
                      rows'[i].ts >= Base
               PROVE  Taken(c, S, i)'
    BY DEF BehindTaken, Stored
  <2>1. rows'[i] = rows[i]
    BY <1>5
  <2>2. Taken(c, S, i)
    BY <2>1 DEF Sound, BehindTaken, Stored
  <2> QED
    BY <2>1, <2>2 DEF Taken, Version
<1>8. PassedTaken(c, S)'
  <2> SUFFICES ASSUME ~Legacy(c), NEW i \in Rows, Sought(c, i)', ~Remaining(c, i)'
               PROVE  Taken(c, S, i)'
    BY DEF PassedTaken, Legacy
  <2>1. rows'[i] = rows[i]
    BY SoughtKept DEF Sound
  <2>2. Sought(c, i) /\ ~Remaining(c, i)
    BY <2>1 DEF Sought, Remaining, InBand, Stored
  <2>3. Taken(c, S, i)
    BY <2>2 DEF Sound, PassedTaken
  <2> QED
    BY <2>1, <2>3 DEF Taken, Version
<1> QED
  BY <1>3, <1>4, <1>6, <1>7, <1>8 DEF Sound

LEMMA AdmittedKept ==
    ASSUME Typed, Typed', Steady, NEW c \in Cursors, Bounded(c), NEW i \in Rows,
           Admitted(c, i)'
    PROVE  rows'[i] = rows[i] /\ Admitted(c, i)
<1>1. Sought(c, i)'
  BY DEF Admitted, Sought
<1>2. rows'[i] = rows[i]
  BY <1>1, SoughtKept
<1> QED
  BY <1>2 DEF Admitted, Remaining, InBand, Stored

LEMMA ReliableKept ==
    ASSUME Typed, Typed', Steady, NEW q \in Runs, NEW S, Reliable(q, S)
    PROVE  Reliable(q, S)'
<1> DEFINE c == q.cursor
           W == q.window
<1>1. c \in Cursors /\ Bounded(c) /\ W \subseteq Entries
  BY DEF Runs, Reliable, Sound
<1>2. Sound(c, S)' /\ Timed(q)'
  BY <1>1, SoundKept DEF Reliable, Timed
<1>3. \A w \in W : rows[w.id].life # "free" /\ rows'[w.id].life # "free" /\ w.id \in Rows
  BY <1>1 DEF Reliable, Steady, Entries
<1>4. ASSUME NEW i \in Rows, Admitted(c, i)'
      PROVE  rows'[i] = rows[i] /\ Admitted(c, i)
  BY <1>1, <1>4, AdmittedKept
<1>5. ASSUME ~Legacy(c) PROVE Ordered(c, W)'
  <2> SUFFICES ASSUME NEW w \in W, NEW i \in Rows,
                      rows'[w.id].life = "stored", TableOf[w.id] = TableOf[i], Admitted(c, i)',
                      \/ rows'[i].ts > w.ts
                      \/ rows'[i].ts = w.ts /\ rows'[i].rowid <= rows'[w.id].rowid
               PROVE  Within(W, i)'
    BY DEF Ordered, Stored
  <2>1. rows'[i] = rows[i] /\ Admitted(c, i)
    BY <1>4
  <2>2. Stored(w.id) /\ rows'[w.id].rowid = rows[w.id].rowid
    BY <1>3 DEF Steady
  <2>3. Within(W, i)
    BY <1>5, <2>1, <2>2 DEF Reliable, Ordered
  <2> QED
    BY <2>1, <2>3 DEF Within
<1>6. ASSUME ~Legacy(c) PROVE Exhaustive(q)'
  <2> SUFFICES ASSUME q.left > 0, NEW i \in Rows, NEW k \in 1 .. q.stage - 1,
                      Stages[k] = TableOf[i], Admitted(c, i)'
               PROVE  Within(W, i)'
    BY DEF Exhaustive
  <2>1. rows'[i] = rows[i] /\ Admitted(c, i)
    BY <1>4
  <2>2. Within(W, i)
    BY <1>6, <2>1 DEF Reliable, Exhaustive
  <2> QED
    BY <2>1, <2>2 DEF Within
<1> QED
  BY <1>2, <1>3, <1>5, <1>6 DEF Reliable, Legacy

LEMMA RunsAreSteady ==
    ASSUME Typed, UNCHANGED <<rows, rowseq, mutseq>>
    PROVE  Steady
BY DEF Steady, Stored, Typed, TypeOK

LEMMA WritersAreSteady ==
    ASSUME Typed,
           Tick \/ (\E i \in Rows, t \in 1 .. MaxTime : Insert(i, t))
                \/ (\E i \in Rows : Change(i) \/ Retire(i) \/ Delete(i))
    PROVE  Steady
<1>1. rows \in [Rows -> RowRecords] /\ rowseq \in Nat /\ mutseq \in Nat
  BY DEF Typed, TypeOK
<1>2. CASE Tick
  BY <1>2, RunsAreSteady DEF Tick
<1>3. ASSUME NEW i \in Rows, NEW t \in 1 .. MaxTime, Insert(i, t)
      PROVE  Steady
  <2>1. /\ rows[i].life = "free" /\ rowseq' = rowseq + 1 /\ mutseq' = mutseq
        /\ rows'[i].mseq = 0 /\ rows'[i].rowid = rowseq + 1
        /\ \A j \in Rows \ {i} : rows'[j] = rows[j]
    BY <1>1, <1>3 DEF Insert
  <2> QED
    BY <1>1, <2>1 DEF Steady, Stored
<1>4. ASSUME NEW i \in Rows, Change(i)
      PROVE  Steady
  <2>1. /\ Stored(i) /\ TableOf[i] = Records /\ rowseq' = rowseq /\ mutseq' = mutseq + 1
        /\ rows' = [rows EXCEPT ![i] = [rows[i] EXCEPT !.ts = clock, !.mseq = mutseq + 1,
                                                       !.eligible = TRUE]]
    BY <1>4 DEF Change
  <2>2. /\ rows'[i] = [rows[i] EXCEPT !.ts = clock, !.mseq = mutseq + 1, !.eligible = TRUE]
        /\ \A j \in Rows \ {i} : rows'[j] = rows[j]
    BY <1>1, <2>1
  <2>3. rows'[i].mseq = mutseq + 1 /\ rows'[i].life = rows[i].life
        /\ rows'[i].rowid = rows[i].rowid
    BY <1>1, <2>2 DEF RowRecords
  <2> QED
    BY <1>1, <2>1, <2>2, <2>3 DEF Steady, Stored
<1>5. ASSUME NEW i \in Rows, Retire(i)
      PROVE  Steady
  <2>1. /\ Stored(i) /\ TableOf[i] = Records /\ rowseq' = rowseq /\ mutseq' = mutseq
        /\ rows' = [rows EXCEPT ![i] = [rows[i] EXCEPT !.ts = clock, !.eligible = FALSE]]
    BY <1>5 DEF Retire
  <2>2. /\ rows'[i] = [rows[i] EXCEPT !.ts = clock, !.eligible = FALSE]
        /\ \A j \in Rows \ {i} : rows'[j] = rows[j]
    BY <1>1, <2>1
  <2>3. ~rows'[i].eligible /\ rows'[i].life = rows[i].life /\ rows'[i].rowid = rows[i].rowid
    BY <1>1, <2>2 DEF RowRecords
  <2> QED
    BY <1>1, <2>1, <2>2, <2>3 DEF Steady, Stored
<1>6. ASSUME NEW i \in Rows, Delete(i)
      PROVE  Steady
  <2>1. /\ rowseq' = rowseq /\ mutseq' = mutseq /\ rows'[i].life = "deleted"
        /\ \A j \in Rows \ {i} : rows'[j] = rows[j]
    BY <1>1, <1>6 DEF Delete, Free
  <2> QED
    BY <1>1, <2>1 DEF Steady, Stored
<1> QED
  BY <1>2, <1>3, <1>4, <1>5, <1>6
----------------------------------------------------------------------------
(* How cursors move *)

LEMMA NotingNotes ==
    ASSUME TypeOK, NEW c \in Cursors, NEW d, d = Noting(c)
    PROVE  /\ d.lower = c.lower /\ d.upper = c.upper /\ d.lowerIds = c.lowerIds
           /\ d.upperIds = c.upperIds /\ d.mlow = c.mlow /\ d.mup = c.mup /\ d.post = c.post
           /\ d.pos = c.pos /\ c.late \subseteq d.late
           /\ \A i \in Rows :
                 /\ Stored(i)
                 /\ c.lowerIds[TableOf[i]] < rows[i].rowid
                 /\ rows[i].rowid <= c.upperIds[TableOf[i]]
                 /\ rows[i].ts > c.upper
                 /\ TableOf[i] = Records => rows[i].mseq <= c.mlow
                 => Version(i) \in d.late
<1> DEFINE J == {j \in Rows :
                    /\ Stored(j)
                    /\ rows[j].rowid \in (c.lowerIds[TableOf[j]] + 1) .. c.upperIds[TableOf[j]]
                    /\ rows[j].ts > c.upper
                    /\ TableOf[j] = Records => rows[j].mseq <= c.mlow}
           l == c.late \cup {Version(i) : i \in J}
<1>1. d = [c EXCEPT !.late = l]
  BY DEF Noting
<1>2. \A i \in Rows :
         /\ Stored(i)
         /\ c.lowerIds[TableOf[i]] < rows[i].rowid
         /\ rows[i].rowid <= c.upperIds[TableOf[i]]
         /\ rows[i].ts > c.upper
         /\ TableOf[i] = Records => rows[i].mseq <= c.mlow
         => i \in J
  <2>1. \A i \in Rows : /\ rows[i].rowid \in Nat /\ c.lowerIds[TableOf[i]] \in Nat
                        /\ c.upperIds[TableOf[i]] \in Nat
    BY ScanAssumption DEF Cursors, TypeOK, RowRecords
  <2> QED
    BY <2>1
<1> HIDE DEF J
<1>3. c.late \subseteq l /\ \A i \in J : Version(i) \in l
  OBVIOUS
<1> HIDE DEF l
<1>4. d.late = l
  BY <1>1 DEF Cursors
<1>5. /\ d.lower = c.lower /\ d.upper = c.upper /\ d.lowerIds = c.lowerIds
      /\ d.upperIds = c.upperIds /\ d.mlow = c.mlow /\ d.mup = c.mup /\ d.post = c.post
      /\ d.pos = c.pos
  BY <1>1 DEF Cursors
<1> QED
  BY <1>2, <1>3, <1>4, <1>5

LEMMA NotingSound ==
    ASSUME TypeOK, NEW c \in Cursors, NEW S,
           Bounded(c), Founded(c), BehindTaken(c, S), PassedTaken(c, S)
    PROVE  Sound(Noting(c), S)
<1> DEFINE d == Noting(c)
<1>1. /\ d.lower = c.lower /\ d.upper = c.upper /\ d.lowerIds = c.lowerIds
      /\ d.upperIds = c.upperIds /\ d.mlow = c.mlow /\ d.mup = c.mup /\ d.post = c.post
      /\ d.pos = c.pos /\ c.late \subseteq d.late
      /\ \A i \in Rows :
            /\ Stored(i)
            /\ c.lowerIds[TableOf[i]] < rows[i].rowid
            /\ rows[i].rowid <= c.upperIds[TableOf[i]]
            /\ rows[i].ts > c.upper
            /\ TableOf[i] = Records => rows[i].mseq <= c.mlow
            => Version(i) \in d.late
  BY NotingNotes
<1> HIDE DEF d
<1>2. Bounded(d) /\ Founded(d)
  BY <1>1 DEF Bounded, Founded
<1>3. LateNoted(d, S)
  BY <1>1 DEF LateNoted, Taken
<1>4. BehindTaken(d, S)
  BY <1>1 DEF BehindTaken, Taken
<1>5. PassedTaken(d, S)
  <2>1. Legacy(d) <=> Legacy(c)
    BY <1>1 DEF Legacy
  <2>2. \A i \in Rows : (Sought(d, i) <=> Sought(c, i)) /\ (Remaining(d, i) <=> Remaining(c, i))
    BY <1>1 DEF Sought, Remaining, InBand
  <2> QED
    BY <1>1, <2>1, <2>2 DEF PassedTaken, Taken
<1> QED
  BY <1>2, <1>3, <1>4, <1>5 DEF Sound, d

\* A cursor without positions has passed nothing.
LEMMA NothingPassed ==
    ASSUME NEW c, NEW S, c.pos = NoPositions
    PROVE  PassedTaken(c, S)
<1>1. \A i \in Rows : Remaining(c, i)
  BY ScanAssumption DEF Remaining, NoPositions
<1> QED
  BY <1>1 DEF PassedTaken

LEMMA NothingBehind ==
    ASSUME Typed, NEW c, NEW S, c.lowerIds = NoIds
    PROVE  BehindTaken(c, S)
<1>1. \A i \in Rows : Stored(i) => rows[i].rowid >= 1 /\ rows[i].rowid \in Nat
  BY DEF Typed, Numbered, TypeOK, RowRecords
<1>2. \A i \in Rows : c.lowerIds[TableOf[i]] = 0
  BY ScanAssumption DEF NoIds
<1> QED
  BY <1>1, <1>2 DEF BehindTaken

LEMMA OpeningSound ==
    ASSUME Typed, NEW S
    PROVE  Sound(Opening, S)
<1> DEFINE c == Opening
<1>1. /\ c.lower = Base /\ c.upper = NoTime /\ c.lowerIds = NoIds /\ c.upperIds = NoIds
      /\ c.mlow = 0 /\ c.mup = 0 /\ c.pos = NoPositions
  BY DEF Opening
<1> HIDE DEF c
<1>2. Bounded(c) /\ Founded(c)
  BY <1>1 DEF Bounded, Founded, NoIds, Typed, TypeOK
<1>3. LateNoted(c, S)
  <2>1. \A i \in Rows : c.lowerIds[TableOf[i]] = 0 /\ c.upperIds[TableOf[i]] = 0
    BY <1>1, ScanAssumption DEF NoIds
  <2>2. \A i \in Rows : rows[i].rowid \in Nat
    BY DEF Typed, TypeOK, RowRecords
  <2> QED
    BY <2>1, <2>2 DEF LateNoted
<1>4. BehindTaken(c, S) /\ PassedTaken(c, S)
  BY <1>1, NothingBehind, NothingPassed
<1> QED
  BY <1>2, <1>3, <1>4 DEF Sound, c

LEMMA ForRunSound ==
    ASSUME Typed, NEW c \in Cursors, NEW S, Sound(c, S), NEW now \in Nat, now >= 1
    PROVE  Sound(ForRun(c, now), S) /\ ForRun(c, now).upper >= 1
<1>1. /\ Frontier \in [Tables -> Nat] /\ \A t \in Tables : Frontier[t] <= rowseq
      /\ mutseq \in Nat /\ rowseq \in Nat
  BY FrontierType DEF Typed, TypeOK
<1>2. CASE c = Opening
  <2> DEFINE m == IF Base = NoTime THEN 0 ELSE mutseq
             d == [c EXCEPT !.upper = now, !.upperIds = Frontier, !.mup = mutseq, !.mlow = m]
  <2>1. m \in Nat /\ m <= mutseq
    BY <1>1
  <2>2. ForRun(c, now) = Noting(d)
    BY <1>2 DEF ForRun
  <2> HIDE DEF m
  <2>3. d \in Cursors
    BY <1>1, <2>1 DEF Cursors
  <2>4. /\ d.upper = now /\ d.lower = Base /\ d.lowerIds = NoIds /\ d.upperIds = Frontier
        /\ d.mup = mutseq /\ d.mlow = m /\ d.pos = NoPositions
    BY <1>2 DEF Opening
  <2> HIDE DEF d
  <2>5. Bounded(d) /\ Founded(d)
    BY <1>1, <2>1, <2>4 DEF Bounded, Founded, NoIds, NoTime
  <2>6. BehindTaken(d, S) /\ PassedTaken(d, S)
    BY <2>4, NothingBehind, NothingPassed
  <2> QED
    BY <2>2, <2>3, <2>4, <2>5, <2>6, NotingSound, NotingNotes DEF Typed
<1>3. CASE c # Opening /\ c.upper = NoTime
  <2> DEFINE u == Later(now, c.lower)
             d == [c EXCEPT !.upper = u, !.upperIds = Frontier, !.mup = mutseq, !.post = TRUE]
  <2>1. u \in Nat /\ u >= 1
    BY DEF Later, Cursors
  <2>2. ForRun(c, now) = Noting(d)
    BY <1>3 DEF ForRun
  <2> HIDE DEF u
  <2>3. d \in Cursors
    BY <1>1, <2>1 DEF Cursors
  <2>4. /\ d.upper = u /\ d.post /\ d.lowerIds = c.lowerIds /\ d.upperIds = Frontier
        /\ d.mup = mutseq /\ d.mlow = c.mlow /\ d.pos = c.pos /\ d.late = c.late
    BY DEF Cursors
  <2>5. d.pos = NoPositions
    BY <1>3, <2>4 DEF Sound, Founded
  <2> HIDE DEF d
  <2>6. Bounded(d) /\ Founded(d)
    BY <1>1, <2>1, <2>4, <2>5 DEF Bounded, Founded, Sound, NoTime
  <2>7. BehindTaken(d, S)
    BY <2>4 DEF BehindTaken, Sound, Taken
  <2>8. PassedTaken(d, S)
    BY <2>5, NothingPassed
  <2> QED
    BY <2>1, <2>2, <2>3, <2>4, <2>6, <2>7, <2>8, NotingSound, NotingNotes DEF Typed
<1>4. CASE c # Opening /\ c.upper # NoTime
  BY <1>4 DEF ForRun, Cursors, NoTime
<1> QED
  BY <1>2, <1>3, <1>4

\* A run that found all there was leaves nothing of its band to the next one.
LEMMA BandIsTaken ==
    ASSUME Typed, NEW c \in Cursors, NEW S, Sound(c, S), ~Legacy(c),
           \A i \in Rows : Admitted(c, i) => Version(i) \in S,
           NEW i \in Rows, Stored(i), rows[i].eligible,
           rows[i].rowid <= c.upperIds[TableOf[i]],
           TableOf[i] = Records => rows[i].mseq <= c.mup,
           rows[i].ts >= Base
    PROVE  Taken(c, S, i)
<1>1. TableOf[i] \in Tables /\ Base \in Nat
  BY ScanAssumption
<1>2. /\ rows[i].rowid \in Nat /\ rows[i].mseq \in Nat /\ rows[i].ts \in Nat
      /\ c.lowerIds[TableOf[i]] \in Nat /\ c.upperIds[TableOf[i]] \in Nat
      /\ c.mlow \in Nat /\ c.mup \in Nat /\ c.lower \in Nat /\ c.upper \in Nat
  BY <1>1 DEF Typed, TypeOK, RowRecords, Cursors
<1>3. CASE Sought(c, i)
  BY <1>3, AdmittedIsSought DEF Sound, PassedTaken, Taken
<1>4. CASE ~Sought(c, i)
  <2>1. TableOf[i] = Records => rows[i].mseq <= c.mlow
    BY <1>2, <1>4 DEF Sought
  <2>2. ~InBand(c, i)
    BY <1>4 DEF Sought
  <2>3. rows[i].ts <= c.upper => c.lower <= rows[i].ts \/ c.post
    BY <1>1, <1>2 DEF Sound, Founded
  <2>4. rows[i].rowid <= c.lowerIds[TableOf[i]] \/ rows[i].ts > c.upper
    BY <1>2, <2>2, <2>3 DEF InBand
  <2>5. CASE rows[i].rowid <= c.lowerIds[TableOf[i]]
    BY <2>1, <2>5 DEF Sound, BehindTaken
  <2>6. CASE c.lowerIds[TableOf[i]] < rows[i].rowid /\ rows[i].ts > c.upper
    BY <2>1, <2>6 DEF Sound, LateNoted
  <2> QED
    BY <1>2, <2>4, <2>5, <2>6
<1> QED
  BY <1>3, <1>4

\* What lies behind the band that follows is what lies in c and behind it.
LEMMA NextBandIsTaken ==
    ASSUME Typed, NEW c \in Cursors, NEW S, Sound(c, S), ~Legacy(c),
           \A i \in Rows : Admitted(c, i) => Version(i) \in S,
           NEW d, d.lowerIds = c.upperIds, d.mlow = c.mup, c.late \subseteq d.late
    PROVE  BehindTaken(d, S)
<1> SUFFICES ASSUME NEW i \in Rows, Stored(i), rows[i].eligible,
                    rows[i].rowid <= d.lowerIds[TableOf[i]],
                    TableOf[i] = Records => rows[i].mseq <= d.mlow, rows[i].ts >= Base
             PROVE  Taken(d, S, i)
  BY DEF BehindTaken
<1>1. Taken(c, S, i)
  BY BandIsTaken
<1> QED
  BY <1>1 DEF Taken

LEMMA RestartedSound ==
    ASSUME Typed, NEW c \in Cursors, NEW S, Sound(c, S)
    PROVE  Sound(Restarted(c), S)
<1> DEFINE d == [c EXCEPT !.pos = NoPositions, !.upperIds = Frontier, !.mup = mutseq]
<1>1. /\ Frontier \in [Tables -> Nat] /\ \A t \in Tables : Frontier[t] <= rowseq
      /\ mutseq \in Nat /\ NoPositions \in [Tables -> Positions \cup {NoPos}]
  BY FrontierType DEF Typed, TypeOK, NoPositions
<1>2. d \in Cursors
  BY <1>1 DEF Cursors
<1>3. /\ d.pos = NoPositions /\ d.upperIds = Frontier /\ d.mup = mutseq /\ d.mlow = c.mlow
      /\ d.lowerIds = c.lowerIds /\ d.lower = c.lower /\ d.post = c.post /\ d.late = c.late
  BY DEF Cursors
<1>4. Restarted(c) = Noting(d)
  BY DEF Restarted
<1> HIDE DEF d
<1>5. Bounded(d) /\ Founded(d)
  BY <1>1, <1>3 DEF Bounded, Founded, Sound
<1>6. BehindTaken(d, S)
  BY <1>3 DEF BehindTaken, Sound, Taken
<1>7. PassedTaken(d, S)
  BY <1>3, NothingPassed
<1> QED
  BY <1>2, <1>4, <1>5, <1>6, <1>7, NotingSound DEF Typed

LEMMA FollowingSound ==
    ASSUME Typed, NEW c \in Cursors, NEW S, Sound(c, S), ~Legacy(c),
           \A i \in Rows : Admitted(c, i) => Version(i) \in S,
           NEW now \in Nat
    PROVE  Sound(Following(c, now), S)
<1> DEFINE d == [c EXCEPT !.lower = c.upper, !.upper = now, !.lowerIds = c.upperIds,
                          !.upperIds = Frontier, !.mlow = c.mup, !.mup = mutseq,
                          !.post = TRUE, !.pos = NoPositions]
<1>1. /\ Frontier \in [Tables -> Nat] /\ \A t \in Tables : Frontier[t] <= rowseq
      /\ mutseq \in Nat /\ NoPositions \in [Tables -> Positions \cup {NoPos}]
  BY FrontierType DEF Typed, TypeOK, NoPositions
<1>2. d \in Cursors
  BY <1>1 DEF Cursors
<1>3. /\ d.pos = NoPositions /\ d.upperIds = Frontier /\ d.mup = mutseq /\ d.mlow = c.mup
      /\ d.lowerIds = c.upperIds /\ d.post /\ d.late = c.late
  BY DEF Cursors
<1>4. Following(c, now) = Noting(d)
  BY DEF Following
<1> HIDE DEF d
<1>5. Bounded(d) /\ Founded(d)
  BY <1>1, <1>3 DEF Bounded, Founded, Sound
<1>6. BehindTaken(d, S) /\ PassedTaken(d, S)
  BY <1>3, NextBandIsTaken, NothingPassed
<1> QED
  BY <1>2, <1>4, <1>5, <1>6, NotingSound DEF Typed

LEMMA CompletedSound ==
    ASSUME Typed, NEW c \in Cursors, NEW S, Sound(c, S), ~Legacy(c),
           \A i \in Rows : Admitted(c, i) => Version(i) \in S
    PROVE  Sound(Completed(c), S)
<1> DEFINE d == Completed(c)
<1>1. /\ d.pos = NoPositions /\ d.upperIds = NoIds /\ d.mup = c.mup /\ d.mlow = c.mup
      /\ d.lowerIds = c.upperIds /\ d.post /\ d.late = c.late
  BY DEF Completed, Cursors
<1> HIDE DEF d
<1>2. Bounded(d) /\ Founded(d)
  BY <1>1 DEF Bounded, Founded, Sound, NoIds, Typed, TypeOK
<1>3. LateNoted(d, S)
  <2>1. \A i \in Rows : d.upperIds[TableOf[i]] = 0 /\ d.lowerIds[TableOf[i]] \in Nat
    BY <1>1, ScanAssumption DEF NoIds, Cursors
  <2>2. \A i \in Rows : rows[i].rowid \in Nat
    BY DEF Typed, TypeOK, RowRecords
  <2> QED
    BY <2>1, <2>2 DEF LateNoted
<1>4. BehindTaken(d, S) /\ PassedTaken(d, S)
  BY <1>1, NextBandIsTaken, NothingPassed
<1> QED
  BY <1>2, <1>3, <1>4 DEF Sound, d

LEMMA AdvancedSound ==
    ASSUME Typed, NEW c \in Cursors, NEW S, Sound(c, S), c.upper >= 1, ~Legacy(c),
           NEW W \in SUBSET Entries, Ordered(c, W),
           \A w \in W : <<w.id, w.mseq>> \in S,
           NEW d \in Advanced(c, W)
    PROVE  Sound(d, S)
<1>1. PICK f \in [Tables -> {NoPos} \cup UNION {{c.pos[t] : t \in Tables},
                                              {Position(e) : e \in W}}] :
          /\ d = [c EXCEPT !.pos = f]
          /\ \A t \in Tables :
                f[t] \in Moves(c.pos[t], {Position(e) : e \in {w \in W : TableOf[w.id] = t}})
  BY DEF Advanced
<1>2. /\ d.lower = c.lower /\ d.upper = c.upper /\ d.lowerIds = c.lowerIds
      /\ d.upperIds = c.upperIds /\ d.mlow = c.mlow /\ d.mup = c.mup /\ d.post = c.post
      /\ d.late = c.late /\ d.pos = f
  BY <1>1 DEF Cursors
<1>3. Bounded(d)
  BY <1>2 DEF Sound, Bounded
<1>4. Founded(d)
  BY <1>2 DEF Sound, Founded, NoTime
<1>5. LateNoted(d, S)
  BY <1>2 DEF Sound, LateNoted, Taken
<1>6. BehindTaken(d, S)
  BY <1>2 DEF Sound, BehindTaken, Taken
<1>7. PassedTaken(d, S)
  <2> SUFFICES ASSUME ~Legacy(d), NEW i \in Rows, Sought(d, i), ~Remaining(d, i)
               PROVE  Taken(d, S, i)
    BY DEF PassedTaken
  <2> DEFINE t == TableOf[i]
             M == {w \in W : TableOf[w.id] = t}
  <2>1. t \in Tables
    BY ScanAssumption
  <2>2. Sought(c, i)
    BY <1>2 DEF Sought, InBand
  <2>3. CASE ~Remaining(c, i)
    BY <1>2, <2>2, <2>3 DEF Sound, PassedTaken, Taken
  <2>4. CASE Remaining(c, i)
    <3>1. Admitted(c, i)
      BY <2>2, <2>4, AdmittedIsSought
    <3>2. f[t] # NoPos /\ f[t] # c.pos[t]
      BY <1>2, <2>4 DEF Remaining
    <3>3. f[t] \in {Position(e) : e \in M}
      BY <1>1, <2>1, <3>2 DEF Moves
    <3>4. PICK e \in M : f[t] = Position(e)
      BY <3>3
    <3>5. f[t].rowid # NoId
      BY <1>2, <2>1, <3>2 DEF Legacy
    <3>6. Stored(e.id) /\ f[t].rowid = rows[e.id].rowid /\ f[t].ts = e.ts
      BY <3>4, <3>5 DEF Position
    <3>7. /\ e.id \in Rows /\ e.ts \in Nat
          /\ rows[i].ts \in Nat /\ rows[i].rowid \in Nat /\ rows[e.id].rowid \in Nat
      BY DEF Entries, Typed, TypeOK, RowRecords
    <3>8. \/ rows[i].ts > e.ts
          \/ rows[i].ts = e.ts /\ rows[i].rowid <= rows[e.id].rowid
      BY <1>2, <3>2, <3>6, <3>7 DEF Remaining
    <3>9. Within(W, i)
      BY <3>1, <3>6, <3>8 DEF Ordered
    <3> QED
      BY <3>9 DEF Within, Taken, Version
  <2> QED
    BY <2>3, <2>4
<1> QED
  BY <1>3, <1>4, <1>5, <1>6, <1>7 DEF Sound

LEMMA AfterSound ==
    ASSUME Typed, NEW q \in Runs, q.pc = "record", q.stage = Len(Stages) + 1,
           NEW S, Reliable(q, S), \A w \in q.window : <<w.id, w.mseq>> \in S,
           NEW d \in After(q.cursor, q.window, q.now, q.left = 0)
    PROVE  Sound(d, S)
<1> DEFINE c == q.cursor
           W == q.window
<1>1. c \in Cursors /\ W \in SUBSET Entries /\ q.now \in Nat /\ q.left \in Nat
  BY DEF Runs
<1>2. Sound(c, S) /\ c.upper >= 1
  BY DEF Reliable, Timed
<1>3. CASE Legacy(c)
  BY <1>1, <1>2, <1>3, RestartedSound DEF After
<1>4. CASE ~Legacy(c) /\ q.left = 0
  <2>1. Ordered(c, W)
    BY <1>4 DEF Reliable
  <2>2. d \in Advanced(c, W)
    BY <1>4 DEF After
  <2> QED
    BY <1>1, <1>2, <1>4, <2>1, <2>2, AdvancedSound
<1>5. CASE ~Legacy(c) /\ q.left # 0
  <2>1. Exhaustive(q) /\ q.left > 0
    BY <1>1, <1>5 DEF Reliable
  <2>2. \A i \in Rows : \E k \in 1 .. q.stage - 1 : Stages[k] = TableOf[i]
    BY StagesType, ScanAssumption DEF Tables
  <2>3. \A i \in Rows : Admitted(c, i) => Version(i) \in S
    BY <2>1, <2>2 DEF Exhaustive, Within, Version
  <2>4. Sound(Completed(c), S) /\ Sound(Following(c, q.now), S)
    BY <1>1, <1>2, <1>5, <2>3, CompletedSound, FollowingSound
  <2>5. d = Completed(c) \/ d = Following(c, q.now)
    BY <1>5 DEF After
  <2> QED
    BY <2>4, <2>5
<1> QED
  BY <1>3, <1>4, <1>5
----------------------------------------------------------------------------
(* How runs move *)

LEMMA FreshIsReliable ==
    ASSUME NEW q \in Runs, NEW S, Sound(q.cursor, S), Timed(q), q.window = {}, q.stage = 1
    PROVE  Reliable(q, S)
<1>1. Ordered(q.cursor, q.window)
  BY DEF Ordered
<1>2. Exhaustive(q)
  BY DEF Exhaustive
<1> QED
  BY <1>1, <1>2 DEF Reliable

LEMMA ReadIsReliable ==
    ASSUME Chats = {}, Typed, NEW r \in Runners, Read(r), NEW T, Reliable(run[r], T)
    PROVE  Reliable(run'[r], T)
<1> DEFINE q == run[r]
           c == q.cursor
           W == q.window
           stage == Stages[q.stage]
           S == Selected(c, stage, q.left)
           E == {[id |-> i, ts |-> rows[i].ts, mseq |-> rows[i].mseq] : i \in S}
           A == {i \in Rows : TableOf[i] = Table(stage) /\ Admitted(View(c), i)}
           l == q.left - Cardinality(S)
           p == IF q.stage = Len(Stages) THEN "record" ELSE "read"
           new == [q EXCEPT !.window = W \cup E, !.left = l, !.stage = q.stage + 1, !.pc = p]
<1>1. q \in Runs /\ q.pc = "read" /\ q.stage <= Len(Stages)
  BY DEF Read, Typed, TypeOK, Staged, Paced
<1>2. S \subseteq Rows /\ (\A i \in S : Stored(i)) /\ Cardinality(S) \in 0 .. q.left
  BY <1>1, SelectedType
<1>3. run'[r] = new
  BY DEF Read, Typed, TypeOK
<1>4. /\ rows \in [Rows -> RowRecords] /\ IsFiniteSet(Rows) /\ q.left \in Nat
      /\ q.stage \in Nat /\ q.stage >= 1 /\ A \in SUBSET Rows
  BY <1>1, ScanAssumption DEF Typed, TypeOK, Runs
<1>5. \A i \in Rows : TableOf[i] # "chatgpt_export"
  BY SMTT(20), ScanAssumption DEF Tables, Table
<1>6. stage # "chatgpt_export" => S = Page(A, q.left)
  BY DEF Selected
<1>7. stage = "chatgpt_export" => S = {}
  BY DEF Selected, Page
<1>8. ~Legacy(c) => View(c) = c
  BY DEF View
<1> HIDE DEF S
<1>9. ASSUME NEW i \in S PROVE Within(E, i)
  <2> DEFINE e == [id |-> i, ts |-> rows[i].ts, mseq |-> rows[i].mseq]
  <2>1. e \in E /\ e.id = i /\ e.mseq = rows[i].mseq
    OBVIOUS
  <2> QED
    BY <2>1 DEF Within
<1> HIDE DEF E
<1>10. \A i \in Rows : Within(W, i) \/ Within(E, i) => Within(W \cup E, i)
  BY DEF Within
<1>11. /\ new.cursor = c /\ new.window = W \cup E /\ new.left = l /\ new.stage = q.stage + 1
       /\ new.pc = p /\ new.now = q.now
  BY <1>1 DEF Runs
<1> HIDE DEF new
<1>12. Sound(new.cursor, T) /\ Timed(new)
  BY <1>1, <1>11 DEF Reliable, Timed
<1>13. \A w \in new.window : rows[w.id].life # "free"
  BY <1>2, <1>11 DEF Reliable, E, Stored
<1>14. ASSUME ~Legacy(c) PROVE Ordered(c, W \cup E)
  <2> SUFFICES ASSUME NEW w \in W \cup E, NEW i \in Rows,
                      Stored(w.id), TableOf[w.id] = TableOf[i], Admitted(c, i),
                      \/ rows[i].ts > w.ts
                      \/ rows[i].ts = w.ts /\ rows[i].rowid <= rows[w.id].rowid
               PROVE  Within(W \cup E, i)
    BY DEF Ordered
  <2>1. CASE w \in W
    BY <1>10, <1>14, <2>1 DEF Reliable, Ordered
  <2>2. CASE w \in E
    <3>1. PICK j \in S : w.id = j /\ w.ts = rows[j].ts
      BY <2>2 DEF E
    <3>2. S = Page(A, q.left)
      BY <1>6, <1>7, <3>1
    <3>3. j \in A /\ i \in A
      BY <1>8, <1>14, <3>1, <3>2 DEF Page
    <3>4. i = j \/ Ahead(i, j)
      <4>1. /\ rows[i].rowid \in Nat /\ rows[j].rowid \in Nat
            /\ Stored(i) /\ Stored(j) /\ j \in Rows
        BY <1>2, <1>4, <3>1 DEF RowRecords, Admitted
      <4>2. rows[i].rowid = rows[j].rowid => i = j
        BY <4>1 DEF Typed, Numbered
      <4> QED
        BY <3>1, <4>1, <4>2 DEF Ahead
    <3>5. i \in S
      BY <1>4, <3>1, <3>2, <3>3, <3>4, PageIsInitial
    <3> QED
      BY <1>9, <1>10, <3>5
  <2> QED
    BY <2>1, <2>2
<1>15. 1 .. new.stage - 1 = 1 .. q.stage
  BY <1>4, <1>11
<1>16. ASSUME ~Legacy(c) PROVE Exhaustive(new)
  <2> SUFFICES ASSUME l > 0, NEW i \in Rows, NEW k \in 1 .. q.stage,
                      Stages[k] = TableOf[i], Admitted(c, i)
               PROVE  Within(W \cup E, i)
    BY <1>11, <1>15 DEF Exhaustive
  <2>1. q.left > 0 /\ Cardinality(S) < q.left
    BY <1>2, <1>4
  <2>2. CASE k # q.stage
    <3>1. k \in 1 .. q.stage - 1
      BY <1>4, <2>2
    <3>2. Exhaustive(q)
      BY <1>16 DEF Reliable
    <3>3. Within(W, i)
      BY <2>1, <3>1, <3>2 DEF Exhaustive
    <3> QED
      BY <1>10, <3>3
  <2>3. CASE k = q.stage
    <3>1. stage # "chatgpt_export" /\ Table(stage) = TableOf[i]
      BY <1>5, <2>3 DEF Table
    <3>2. S = A
      BY <1>4, <1>6, <2>1, <3>1, PageWithRoomIsAll
    <3>3. i \in S
      BY <1>8, <1>16, <3>1, <3>2
    <3> QED
      BY <1>9, <1>10, <3>3
  <2> QED
    BY <2>2, <2>3
<1> QED
  BY <1>3, <1>11, <1>12, <1>13, <1>14, <1>16 DEF Reliable

\* A run moves on, and with it perhaps the saved cursor and what was selected.
LEMMA RunStepCovered ==
    ASSUME Typed, Typed', Covered, NEW r \in Runners, NEW new \in Runs,
           run' = [run EXCEPT ![r] = new], UNCHANGED <<clock, rows, rowseq, mutseq>>,
           NEW c \in Cursors, saved'.cursor = c, NEW T, seen' = T, seen \subseteq T,
           Sound(c, T), Reliable(new, T)
    PROVE  Covered'
<1>1. Steady
  BY RunsAreSteady
<1>2. Sound(c, T)' /\ Reliable(new, T)'
  BY <1>1, SoundKept, ReliableKept
<1>3. ASSUME NEW x \in Runners PROVE Reliable(run[x], seen)'
  <2>1. CASE x = r
    <3>1. run'[x] = new
      BY <2>1 DEF Typed, TypeOK
    <3> QED
      BY <1>2, <3>1
  <2>2. CASE x # r
    <3>1. PICK q \in Runs : q = run[x]
      BY DEF Typed, TypeOK
    <3>2. run'[x] = q
      BY <2>2, <3>1 DEF Typed, TypeOK
    <3>3. Reliable(q, seen)
      BY <3>1 DEF Covered
    <3>4. Reliable(q, T)
      BY <3>3, SoundGrows DEF Reliable
    <3>5. Reliable(q, T)'
      BY <1>1, <3>4, ReliableKept
    <3> QED
      BY <3>2, <3>5
  <2> QED
    BY <2>1, <2>2
<1>4. Sound(saved.cursor, seen)'
  BY <1>2
<1> QED
  BY <1>3, <1>4 DEF Covered

LEMMA RunCovered ==
    ASSUME Chats = {}, Typed, Typed', Covered, NEW r \in Runners,
           Begin(r) \/ Pin(r) \/ Read(r) \/ Record(r) \/ Abandon(r)
    PROVE  Covered'
<1> DEFINE q == run[r]
<1>1. /\ q \in Runs /\ q.cursor \in Cursors /\ saved.cursor \in Cursors /\ Paced(q)
      /\ q.now \in Nat /\ q.window \subseteq Entries /\ run'[r] \in Runs /\ clock \in Nat
  BY DEF Typed, TypeOK, Runs, Staged
<1>2. Reliable(q, seen) /\ Sound(saved.cursor, seen) /\ clock >= 1
  BY DEF Covered
<1>3. Idle \in Runs /\ Reliable(Idle, seen \cup {<<e.id, e.mseq>> : e \in q.window})
      /\ Reliable(Idle, seen)
  <2>1. /\ Idle.pc = "idle" /\ Idle.window = {} /\ Idle.stage = 1 /\ Idle.cursor = Opening
    BY DEF Idle
  <2>2. Idle \in Runs
    BY OpeningType, ScanAssumption, StagesType DEF Idle, Runs, NoTime
  <2>3. Timed(Idle)
    BY <2>1 DEF Timed
  <2> QED
    BY <2>1, <2>2, <2>3, OpeningSound, FreshIsReliable
<1>4. CASE Begin(r)
  <2> DEFINE new == [Idle EXCEPT !.pc = "pin", !.now = clock, !.cursor = saved.cursor]
  <2>1. run' = [run EXCEPT ![r] = new]
    BY <1>4 DEF Begin
  <2>2. /\ new.pc = "pin" /\ new.now = clock /\ new.cursor = saved.cursor
        /\ new.window = {} /\ new.stage = 1
    BY DEF Idle
  <2>3. new = run'[r]
    BY <2>1 DEF Typed, TypeOK
  <2> HIDE DEF new
  <2>4. Timed(new)
    BY <1>2, <2>2 DEF Timed
  <2>5. Reliable(new, seen)
    BY <1>1, <1>2, <2>2, <2>3, <2>4, FreshIsReliable
  <2> QED
    BY <1>1, <1>2, <1>4, <2>1, <2>3, <2>5, RunStepCovered DEF Begin
<1>5. CASE Pin(r)
  <2> DEFINE c == ForRun(q.cursor, q.now)
             new == [q EXCEPT !.pc = "read", !.cursor = c]
  <2>1. run' = [run EXCEPT ![r] = new]
    BY <1>5 DEF Pin
  <2>2. q.pc = "pin" /\ q.now >= 1 /\ q.window = {} /\ q.stage = 1
    BY <1>1, <1>2, <1>5 DEF Pin, Reliable, Timed, Paced
  <2>3. Sound(c, seen) /\ c.upper >= 1
    BY <1>1, <1>2, <2>2, ForRunSound DEF Reliable
  <2> HIDE DEF c
  <2>4. /\ new.pc = "read" /\ new.now = q.now /\ new.cursor = c /\ new.window = {}
        /\ new.stage = 1
    BY <1>1, <2>2 DEF Runs
  <2>5. new = run'[r]
    BY <2>1 DEF Typed, TypeOK
  <2> HIDE DEF new
  <2>6. Timed(new)
    BY <2>2, <2>3, <2>4 DEF Timed
  <2>7. Reliable(new, seen)
    BY <1>1, <2>3, <2>4, <2>5, <2>6, FreshIsReliable
  <2> QED
    BY <1>1, <1>2, <1>5, <2>1, <2>5, <2>7, RunStepCovered DEF Pin
<1>6. CASE Read(r)
  <2> DEFINE S == Selected(q.cursor, Stages[q.stage], q.left)
             new == [q EXCEPT
               !.window = q.window \cup
                              {[id |-> i, ts |-> rows[i].ts, mseq |-> rows[i].mseq] : i \in S},
               !.left = q.left - Cardinality(S),
               !.stage = q.stage + 1,
               !.pc = IF q.stage = Len(Stages) THEN "record" ELSE "read"]
  <2>0. run' = [run EXCEPT ![r] = new]
    BY <1>6 DEF Read
  <2> HIDE DEF new
  <2>1. new \in Runs /\ new = run'[r]
    BY <1>1, <2>0 DEF Typed, TypeOK
  <2>2. Reliable(new, seen)
    BY <1>2, <1>6, <2>1, ReadIsReliable
  <2> QED
    BY <1>1, <1>2, <1>6, <2>0, <2>1, <2>2, RunStepCovered DEF Read
<1>7. CASE Record(r)
  <2> DEFINE T == seen \cup {<<e.id, e.mseq>> : e \in q.window}
  <2>1. PICK c \in After(q.cursor, q.window, q.now, q.left = 0) :
           saved' = IF q.now >= saved.at THEN [at |-> q.now, cursor |-> c] ELSE saved
    BY <1>7 DEF Record
  <2>2. /\ seen' = T /\ run' = [run EXCEPT ![r] = Idle]
        /\ UNCHANGED <<clock, rows, rowseq, mutseq>> /\ q.pc = "record"
    BY <1>7 DEF Record
  <2>3. seen \subseteq T /\ \A w \in q.window : <<w.id, w.mseq>> \in T
    OBVIOUS
  <2> HIDE DEF T
  <2>4. q.stage = Len(Stages) + 1
    BY <1>1, <2>2 DEF Paced
  <2>5. Reliable(q, T)
    BY <1>2, <2>3, SoundGrows DEF Reliable
  <2>6. c \in Cursors /\ Sound(c, T)
    BY <1>1, <2>1, <2>2, <2>3, <2>4, <2>5, AfterSound, AfterType DEF Typed
  <2>7. Sound(saved.cursor, T)
    BY <1>2, <2>3, SoundGrows
  <2>8. saved'.cursor = c \/ saved'.cursor = saved.cursor
    BY <2>1
  <2>9. Reliable(Idle, T)
    BY <1>3 DEF T
  <2>10. PICK d \in Cursors : saved'.cursor = d /\ Sound(d, T)
    BY <1>1, <2>6, <2>7, <2>8
  <2> QED
    BY <1>3, <2>2, <2>3, <2>9, <2>10, RunStepCovered
<1>8. CASE Abandon(r)
  BY <1>1, <1>2, <1>3, <1>8, RunStepCovered DEF Abandon
<1> QED
  BY <1>4, <1>5, <1>6, <1>7, <1>8

\* A step of something else.
LEMMA OtherStepCovered ==
    ASSUME Typed, Typed', Covered, Steady, UNCHANGED <<saved, run, seen>>, clock' >= clock
    PROVE  Covered'
<1>1. clock' >= 1
  BY DEF Covered, Typed, TypeOK
<1>2. Sound(saved.cursor, seen)'
  <2>1. PICK c \in Cursors : c = saved.cursor
    BY DEF Typed, TypeOK
  <2>2. PICK S : S = seen
    OBVIOUS
  <2>3. Sound(c, S)'
    BY <2>1, <2>2, SoundKept DEF Covered
  <2> QED
    BY <2>1, <2>2, <2>3
<1>3. ASSUME NEW x \in Runners PROVE Reliable(run[x], seen)'
  <2>1. PICK q \in Runs : q = run[x]
    BY DEF Typed, TypeOK
  <2>2. PICK S : S = seen
    OBVIOUS
  <2>3. Reliable(q, S)'
    BY <2>1, <2>2, ReliableKept DEF Covered
  <2> QED
    BY <2>1, <2>2, <2>3
<1> QED
  BY <1>1, <1>2, <1>3 DEF Covered

LEMMA WritersCovered ==
    ASSUME Typed, Typed', Covered,
           Tick \/ (\E i \in Rows, t \in 1 .. MaxTime : Insert(i, t))
                \/ (\E i \in Rows : Change(i) \/ Retire(i) \/ Delete(i))
    PROVE  Covered'
<1>1. UNCHANGED <<saved, run, seen>> /\ (clock' = clock \/ clock' = clock + 1)
  BY DEF Tick, Insert, Change, Retire, Delete
<1>2. clock' >= clock
  BY <1>1 DEF Typed, TypeOK
<1> QED
  BY <1>1, <1>2, WritersAreSteady, OtherStepCovered

LEMMA InitCovered ==
    ASSUME Init
    PROVE  Covered
<1>1. Typed
  BY InitTyped
<1>2. clock >= 1
  BY ScanAssumption DEF Init, NoTime
<1>3. Sound(Opening, seen)
  BY <1>1, OpeningSound
<1>4. /\ Idle \in Runs /\ Idle.pc = "idle" /\ Idle.window = {} /\ Idle.stage = 1
      /\ Idle.cursor = Opening
  BY OpeningType, ScanAssumption, StagesType DEF Idle, Runs, NoTime
<1>5. Reliable(Idle, seen)
  BY <1>3, <1>4, FreshIsReliable DEF Timed
<1>6. saved.cursor = Opening /\ \A r \in Runners : run[r] = Idle
  BY DEF Init
<1> QED
  BY <1>2, <1>3, <1>5, <1>6 DEF Covered

\* Unless imported chat turns compete for the batch, nothing a finished band claims was
\* missed but rows stamped past its end: whatever the batch, the stages and the number of
\* runners, and wherever writers, restarts and abandoned runs come in between.
THEOREM FinishedBandsAreCovered ==
    ASSUME Chats = {}
    PROVE  Spec => []OnlyLateRowsAreMissed
<1>1. Typed /\ Typed' /\ Covered /\ [Next]_vars => Covered'
  <2> SUFFICES ASSUME Typed, Typed', Covered, [Next]_vars PROVE Covered'
    OBVIOUS
  <2>1. CASE UNCHANGED vars
    <3>1. UNCHANGED <<clock, rows, rowseq, mutseq, saved, run, seen>> /\ clock' >= clock
      BY <2>1 DEF vars, Typed, TypeOK
    <3> QED
      BY <3>1, RunsAreSteady, OtherStepCovered
  <2>2. CASE Next
    BY <2>2, RunCovered, WritersCovered DEF Next
  <2> QED
    BY <2>1, <2>2
<1>2. Covered => OnlyLateRowsAreMissed
  BY DEF Covered, Sound, BehindTaken, Taken, OnlyLateRowsAreMissed, Behind
<1> QED
  BY <1>1, <1>2, InitCovered, TypedAlways, PTL DEF Spec
----------------------------------------------------------------------------
(* What was selected is not selected again *)

Undeleted == \A i \in Rows : rows[i].life # "deleted"

\* A run may still select the row.
Selectable(i) == Stored(i) /\ (TableOf[i] = Records => rows[i].eligible)

\* The band of c takes the row in, by what it has read of the counters.
Claims(c, i) ==
    /\ rows[i].rowid <= c.upperIds[TableOf[i]]
    /\ TableOf[i] = Records => rows[i].mseq <= c.mup

\* c has passed the row, in its band or before.
Spent(c, i) ==
    IF c.upper = NoTime
    THEN /\ c.post /\ rows[i].rowid <= c.lowerIds[TableOf[i]]
         /\ TableOf[i] = Records => rows[i].mseq <= c.mlow
    ELSE Claims(c, i) /\ ~Admitted(c, i)

SeenIsSpent(c, S) == \A i \in Rows : Selectable(i) /\ Version(i) \in S => Spent(c, i)

\* A record that was changed before the band began was there then.
ChangedAreClaimed(c) ==
    c.upper # NoTime =>
        \A i \in Rows :
            Selectable(i) /\ TableOf[i] = Records /\ rows[i].mseq > 0 /\ rows[i].mseq <= c.mup
            => rows[i].rowid <= c.upperIds[TableOf[i]]

\* A band that goes on from c leaves out all of S that is as it was.
Onward(c, S) ==
    /\ ~Legacy(c) /\ Bounded(c) /\ ChangedAreClaimed(c) /\ SeenIsSpent(c, S)
    /\ c.upper = NoTime => c.pos = NoPositions

\* What was selected was there and was numbered before.
Known(S) == \A v \in S : v[1] \in Rows /\ rows[v[1]].life # "free" /\ v[2] \in Nat /\ v[2] <= mutseq

\* What a run holds it has found in its band, and nobody has recorded it.
HeldOnce(q, S) ==
    \A w \in q.window :
        /\ rows[w.id].life # "free" /\ w.mseq <= mutseq /\ <<w.id, w.mseq>> \notin S
        /\ Selectable(w.id) /\ rows[w.id].mseq = w.mseq
               => rows[w.id].ts = w.ts /\ Claims(q.cursor, w.id)

\* Nothing was recorded since the run began, and it goes on from what was.
Forward(q, S) ==
    /\ q.pc # "idle" => q.now >= 1 /\ saved.at <= q.now /\ q.now <= clock /\ Onward(q.cursor, S)
    /\ q.pc \in {"read", "record"} => q.cursor.upper # NoTime
    /\ HeldOnce(q, S)

Once ==
    /\ clock >= 1 /\ saved.at <= clock /\ Onward(saved.cursor, seen) /\ Known(seen)
    /\ \A r \in Runners : Forward(run[r], seen)

\* Changes are numbered by their counter; the rest holds until a row is deleted.
Counted == \A i \in Rows : rows[i].mseq <= mutseq

OnceUntilDeleted == Counted /\ (Undeleted => Once)

LEMMA RowsAreNumbers ==
    ASSUME Typed, NEW i \in Rows
    PROVE  /\ TableOf[i] \in Tables /\ rows[i].rowid \in Nat /\ rows[i].mseq \in Nat /\ rows[i].ts \in Nat
           /\ rows[i].rowid <= rowseq /\ rowseq \in Nat /\ mutseq \in Nat /\ Version(i) = <<i, rows[i].mseq>>
BY ScanAssumption DEF Typed, TypeOK, Numbered, RowRecords, Version

LEMMA CursorsAreNumbers ==
    ASSUME NEW c \in Cursors, NEW t \in Tables
    PROVE  /\ c.lower \in Nat /\ c.upper \in Nat /\ c.mlow \in Nat /\ c.mup \in Nat
           /\ c.lowerIds[t] \in Nat /\ c.upperIds[t] \in Nat
BY DEF Cursors

LEMMA FrontierIsLargest ==
    ASSUME Typed, NEW i \in Rows, Stored(i)
    PROVE  rows[i].rowid <= Frontier[TableOf[i]]
<1> DEFINE ids(t) == {rows[k].rowid : k \in {j \in Rows : Stored(j) /\ TableOf[j] = t}} \cup {0}
           top(t) == CHOOSE n \in ids(t) : \A m \in ids(t) : m <= n
           t == TableOf[i]
<1>1. ids(t) \subseteq 0 .. rowseq /\ ids(t) # {} /\ rowseq \in Nat
  BY DEF Typed, TypeOK, Numbered, RowRecords
<1>2. rows[i].rowid \in ids(t)
  OBVIOUS
<1>3. Frontier[t] = top(t)
  BY ScanAssumption DEF Frontier
<1> HIDE DEF ids
<1>4. \E n \in ids(t) : \A m \in ids(t) : m <= n
  BY <1>1, LargestNumber
<1> QED
  BY <1>2, <1>3, <1>4

\* A row that was there and may still be selected has not been written.
LEMMA SelectableKept ==
    ASSUME Typed, Typed', Steady, NEW i \in Rows, Selectable(i)', rows[i].life # "free",
           rows'[i].mseq <= mutseq
    PROVE  rows'[i] = rows[i]
<1>1. rows'[i].life = "stored" /\ (TableOf[i] = Records => rows'[i].eligible)
  BY DEF Selectable, Stored
<1>2. rows'[i].rowid = rows[i].rowid /\ rows[i].rowid <= rowseq
  BY <1>1 DEF Steady, Typed, Numbered
<1>3. rows'[i].mseq \in Nat /\ rows[i].rowid \in Nat /\ rowseq \in Nat /\ mutseq \in Nat
  BY DEF Typed, TypeOK, RowRecords
<1> QED
  BY <1>1, <1>2, <1>3 DEF Steady

LEMMA OnwardKept ==
    ASSUME Typed, Typed', Steady, NEW c \in Cursors, NEW S, Known(S), Onward(c, S)
    PROVE  Onward(c, S)' /\ Known(S)'
<1>1. mutseq \in Nat /\ mutseq' \in Nat /\ rowseq \in Nat /\ rowseq' \in Nat /\ mutseq <= mutseq' /\ rowseq <= rowseq'
  BY DEF Typed, TypeOK, Steady
<1>2. Bounded(c)'
  <2>1. c.mlow \in Nat /\ c.mup \in Nat /\ \A t \in Tables : c.lowerIds[t] \in Nat /\ c.upperIds[t] \in Nat
    BY DEF Cursors
  <2> QED
    BY <1>1, <2>1 DEF Onward, Bounded
<1>3. Known(S)'
  BY <1>1 DEF Known, Steady
<1>4. ChangedAreClaimed(c)'
  <2> SUFFICES ASSUME c.upper # NoTime, NEW i \in Rows, Selectable(i)', TableOf[i] = Records, rows'[i].mseq > 0,
                      rows'[i].mseq <= c.mup
               PROVE  rows'[i].rowid <= c.upperIds[TableOf[i]]
    BY DEF ChangedAreClaimed
  <2>1. c.mup <= mutseq /\ c.mup \in Nat /\ rows'[i].mseq \in Nat
    BY DEF Onward, Bounded, Cursors, Typed, TypeOK, RowRecords
  <2>2. rows'[i] = rows[i]
    BY <1>1, <2>1 DEF Steady, Selectable, Stored
  <2>3. Selectable(i)
    BY <2>2 DEF Selectable, Stored
  <2> QED
    BY <2>2, <2>3 DEF Onward, ChangedAreClaimed
<1>5. SeenIsSpent(c, S)'
  <2> SUFFICES ASSUME NEW i \in Rows, Selectable(i)', Version(i)' \in S PROVE Spent(c, i)'
    BY DEF SeenIsSpent
  <2>1. <<i, rows'[i].mseq>> \in S
    BY DEF Version
  <2>2. rows[i].life # "free" /\ rows'[i].mseq <= mutseq
    BY <2>1 DEF Known
  <2>3. rows'[i] = rows[i]
    BY <2>2, SelectableKept
  <2>4. Selectable(i) /\ Version(i) \in S
    BY <2>1, <2>3 DEF Selectable, Stored, Version
  <2>5. Spent(c, i)
    BY <2>4 DEF Onward, SeenIsSpent
  <2> QED
    BY <2>3, <2>5 DEF Spent, Claims, Admitted, InBand, Remaining, Stored
<1> QED
  BY <1>2, <1>3, <1>4, <1>5 DEF Onward, Legacy

LEMMA ForwardKept ==
    ASSUME Typed, Typed', Steady, NEW q \in Runs, NEW S, Known(S), Forward(q, S),
           saved' = saved, clock' >= clock
    PROVE  Forward(q, S)'
<1>1. q.cursor \in Cursors /\ q.now \in Nat /\ clock \in Nat /\ clock' \in Nat /\ q.window \subseteq Entries
  BY DEF Runs, Typed, TypeOK
<1>2. q.pc # "idle" => /\ q.now >= 1 /\ saved'.at <= q.now /\ q.now <= clock' /\ Onward(q.cursor, S)'
  <2> SUFFICES ASSUME q.pc # "idle" PROVE q.now >= 1 /\ saved'.at <= q.now /\ q.now <= clock' /\ Onward(q.cursor, S)'
    OBVIOUS
  <2>1. PICK c \in Cursors : c = q.cursor
    BY <1>1
  <2>2. Onward(c, S)'
    BY <2>1, OnwardKept DEF Forward
  <2>3. q.now <= clock'
    BY <1>1 DEF Forward
  <2> QED
    BY <2>1, <2>2, <2>3 DEF Forward
<1>3. HeldOnce(q, S)'
  <2> SUFFICES ASSUME NEW w \in q.window
               PROVE  /\ rows'[w.id].life # "free" /\ w.mseq <= mutseq' /\ <<w.id, w.mseq>> \notin S
                      /\ Selectable(w.id)' /\ rows'[w.id].mseq = w.mseq =>
                            rows'[w.id].ts = w.ts /\ Claims(q.cursor, w.id)'
    BY DEF HeldOnce
  <2>1. w.id \in Rows /\ w.mseq \in Nat /\ rows[w.id].life # "free" /\ w.mseq <= mutseq /\ <<w.id, w.mseq>> \notin S
    BY <1>1 DEF Entries, Forward, HeldOnce
  <2>2. w.mseq <= mutseq' /\ rows'[w.id].life # "free"
    BY <2>1 DEF Steady, Typed, TypeOK
  <2>3. ASSUME Selectable(w.id)', rows'[w.id].mseq = w.mseq
        PROVE  rows'[w.id].ts = w.ts /\ Claims(q.cursor, w.id)'
    <3>1. rows'[w.id] = rows[w.id]
      BY <2>1, <2>3, SelectableKept
    <3>2. Selectable(w.id) /\ rows[w.id].mseq = w.mseq
      BY <2>3, <3>1 DEF Selectable, Stored
    <3>3. rows[w.id].ts = w.ts /\ Claims(q.cursor, w.id)
      BY <3>2 DEF Forward, HeldOnce
    <3> QED
      BY <3>1, <3>3 DEF Claims
  <2> QED
    BY <2>1, <2>2, <2>3
<1> QED
  BY <1>2, <1>3 DEF Forward

\* A cursor that begins a band behind all it has passed.
LEMMA BandIsOnward ==
    ASSUME Typed, NEW S, NEW d \in Cursors, d.pos = NoPositions, d.mlow <= mutseq,
           \A t \in Tables : d.lowerIds[t] <= rowseq,
           \/ d.upper = NoTime /\ d.upperIds = NoIds /\ d.mup <= mutseq /\ d.post
           \/ d.upper # NoTime /\ d.upperIds = Frontier /\ d.mup = mutseq,
           \A i \in Rows : Selectable(i) /\ Version(i) \in S =>
               rows[i].rowid <= d.lowerIds[TableOf[i]] /\ (TableOf[i] = Records => rows[i].mseq <= d.mlow)
    PROVE  Onward(d, S)
<1>1. ~Legacy(d)
  BY DEF Legacy, NoPositions
<1>2. mutseq \in Nat /\ rowseq \in Nat /\ \A t \in Tables : Frontier[t] <= rowseq /\ NoIds[t] = 0
  BY FrontierType DEF Typed, TypeOK, NoIds
<1>3. Bounded(d)
  BY <1>2 DEF Bounded
<1>4. ChangedAreClaimed(d)
  BY FrontierIsLargest DEF ChangedAreClaimed, Selectable
<1>5. ASSUME NEW i \in Rows, Selectable(i), Version(i) \in S PROVE Spent(d, i)
  <2>1. rows[i].rowid <= d.lowerIds[TableOf[i]] /\ (TableOf[i] = Records => rows[i].mseq <= d.mlow)
    BY <1>5
  <2>2. CASE d.upper = NoTime
    BY <2>1, <2>2 DEF Spent, NoTime
  <2>3. CASE d.upper # NoTime
    <3>1. d.upperIds = Frontier /\ d.mup = mutseq
      BY <2>3
    <3>2. TableOf[i] = Records => rows[i].mseq <= mutseq
      BY <1>2, <2>1, RowsAreNumbers, CursorsAreNumbers
    <3>3. Claims(d, i)
      BY <1>5, <3>1, <3>2, FrontierIsLargest DEF Claims, Selectable
    <3>4. ~(d.lowerIds[TableOf[i]] < rows[i].rowid) /\ (TableOf[i] = Records => ~(d.mlow < rows[i].mseq))
      BY <2>1, RowsAreNumbers, CursorsAreNumbers
    <3>5. ~Admitted(d, i)
      BY <3>4 DEF Admitted, InBand
    <3> QED
      BY <2>3, <3>3, <3>5 DEF Spent
  <2> QED
    BY <2>2, <2>3
<1> QED
  BY <1>1, <1>3, <1>4, <1>5 DEF Onward, SeenIsSpent

\* History does not matter.
LEMMA NotingIsOnward ==
    ASSUME Typed, NEW S, NEW c \in Cursors, Onward(c, S)
    PROVE  Onward(Noting(c), S) /\ Noting(c).upper = c.upper
<1> PICK d : d = Noting(c)
  OBVIOUS
<1>1. /\ d.lower = c.lower /\ d.upper = c.upper /\ d.lowerIds = c.lowerIds
      /\ d.upperIds = c.upperIds /\ d.mlow = c.mlow /\ d.mup = c.mup /\ d.post = c.post
      /\ d.pos = c.pos
  BY NotingNotes DEF Typed
<1>2. ~Legacy(d) /\ Bounded(d) /\ ChangedAreClaimed(d) /\ (d.upper = NoTime => d.pos = NoPositions)
  BY <1>1 DEF Onward, Legacy, Bounded, ChangedAreClaimed
<1>3. \A i \in Rows : Spent(c, i) => Spent(d, i)
  <2> TAKE i \in Rows
  <2>1. Admitted(d, i) <=> Admitted(c, i)
    BY <1>1 DEF Admitted, InBand, Remaining
  <2>2. CASE c.upper = NoTime
    BY <1>1, <2>2 DEF Spent
  <2>3. CASE c.upper # NoTime
    BY <1>1, <2>1, <2>3 DEF Spent, Claims
  <2> QED
    BY <2>2, <2>3
<1> QED
  BY <1>1, <1>2, <1>3 DEF Onward, SeenIsSpent

LEMMA ForRunIsOnward ==
    ASSUME Typed, NEW S, NEW c \in Cursors, Onward(c, S), NEW now \in Nat, now >= 1
    PROVE  Onward(ForRun(c, now), S) /\ ForRun(c, now).upper # NoTime
<1>1. Frontier \in [Tables -> Nat] /\ mutseq \in Nat /\ rowseq \in Nat
  BY FrontierType DEF Typed, TypeOK
<1>2. Opening \in Cursors /\ Opening.upper = NoTime /\ Opening.lowerIds = NoIds /\ Opening.pos = NoPositions
      /\ ~Opening.post
  BY OpeningType DEF Opening
<1>3. CASE c = Opening
  <2> PICK m : m = (IF Base = NoTime THEN 0 ELSE mutseq)
    OBVIOUS
  <2>1. m \in Nat /\ m <= mutseq
    BY <1>1
  <2> PICK d : d = [c EXCEPT !.upper = now, !.upperIds = Frontier, !.mup = mutseq, !.mlow = m]
    OBVIOUS
  <2>2. ForRun(c, now) = Noting(d)
    BY <1>3 DEF ForRun
  <2>3. /\ d \in Cursors /\ d.upper = now /\ d.upperIds = Frontier /\ d.mup = mutseq /\ d.mlow = m
        /\ d.pos = NoPositions /\ d.lowerIds = NoIds
    BY <1>1, <1>2, <1>3, <2>1 DEF Cursors
  <2>4. ASSUME NEW i \in Rows, Selectable(i), Version(i) \in S PROVE FALSE
    <3>1. Spent(c, i)
      BY <2>4 DEF Onward, SeenIsSpent
    <3> QED
      BY <1>2, <1>3, <3>1 DEF Spent
  <2>5. \A t \in Tables : d.lowerIds[t] <= rowseq
    BY <1>1, <2>3 DEF NoIds
  <2>6. d.upper # NoTime /\ d.upperIds = Frontier /\ d.mup = mutseq /\ d.mlow <= mutseq
    BY <2>1, <2>3 DEF NoTime
  <2>7. Onward(d, S)
    BY <2>3, <2>4, <2>5, <2>6, BandIsOnward
  <2>8. Onward(Noting(d), S) /\ Noting(d).upper = d.upper
    BY <2>3, <2>7, NotingIsOnward
  <2> QED
    BY <2>2, <2>6, <2>8
<1>4. CASE c # Opening /\ c.upper = NoTime
  <2> PICK u : u = Later(now, c.lower)
    OBVIOUS
  <2>1. u \in Nat /\ u >= 1
    BY DEF Later, Cursors
  <2> PICK d : d = [c EXCEPT !.upper = u, !.upperIds = Frontier, !.mup = mutseq, !.post = TRUE]
    OBVIOUS
  <2>2. ForRun(c, now) = Noting(d)
    BY <1>4 DEF ForRun
  <2>3. /\ d \in Cursors /\ d.upper = u /\ d.upperIds = Frontier /\ d.mup = mutseq /\ d.mlow = c.mlow
        /\ d.pos = NoPositions /\ d.lowerIds = c.lowerIds
    BY <1>1, <1>4, <2>1 DEF Cursors, Onward
  <2>4. ASSUME NEW i \in Rows, Selectable(i), Version(i) \in S
        PROVE  rows[i].rowid <= d.lowerIds[TableOf[i]] /\ (TableOf[i] = Records => rows[i].mseq <= d.mlow)
    <3>1. Spent(c, i)
      BY <2>4 DEF Onward, SeenIsSpent
    <3> QED
      BY <1>4, <2>3, <3>1 DEF Spent
  <2>5. d.mlow <= mutseq /\ \A t \in Tables : d.lowerIds[t] <= rowseq
    BY <2>3 DEF Onward, Bounded
  <2>6. d.upper # NoTime /\ d.upperIds = Frontier /\ d.mup = mutseq
    BY <2>1, <2>3 DEF NoTime
  <2>7. Onward(d, S)
    BY <2>3, <2>4, <2>5, <2>6, BandIsOnward
  <2>8. Onward(Noting(d), S) /\ Noting(d).upper = d.upper
    BY <2>3, <2>7, NotingIsOnward
  <2> QED
    BY <2>2, <2>6, <2>8
<1>5. CASE c.upper # NoTime
  BY <1>2, <1>5 DEF ForRun
<1> QED
  BY <1>3, <1>4, <1>5

\* A position moves past what it is given and what it has passed.
LEMMA MovesOnward ==
    ASSUME NEW p \in Positions \cup {NoPos}, NEW P \in SUBSET Positions,
           \A o \in P \cup ({p} \ {NoPos}) : o.rowid # NoId, NEW q \in Moves(p, P)
    PROVE  /\ q \in P \cup {p}
           /\ \A o \in P \cup ({p} \ {NoPos}) :
                 q # NoPos /\ (q.ts < o.ts \/ (q.ts = o.ts /\ o.rowid <= q.rowid))
<1> DEFINE all == P \cup ({p} \ {NoPos})
           low == {o \in all : \A x \in all : o.ts <= x.ts}
<1>0. \A o \in all : o \in Positions /\ o.ts \in Nat /\ o.rowid \in Nat /\ o # NoPos
  BY ScanAssumption DEF Positions
<1>1. CASE P = {}
  <2>1. q = p
    BY <1>1 DEF Moves
  <2> QED
    BY <1>0, <1>1, <2>1
<1>2. CASE P # {}
  <2>1. q \in {o \in low : \A x \in low : x.rowid <= o.rowid}
    BY <1>2 DEF Moves
  <2>2. q \in all /\ \A x \in all : q.ts <= x.ts
    BY <2>1
  <2>3. ASSUME NEW o \in all, ~(q.ts < o.ts) PROVE q.ts = o.ts /\ o.rowid <= q.rowid
    <3>1. q.ts = o.ts
      BY <1>0, <2>2, <2>3
    <3>2. o \in low
      BY <2>2, <3>1
    <3> QED
      BY <2>1, <3>1, <3>2
  <2> QED
    BY <1>0, <2>2, <2>3
<1> QED
  BY <1>1, <1>2

LEMMA AdvancedIsOnward ==
    ASSUME Typed, Undeleted, NEW S, NEW c \in Cursors, Onward(c, S), c.upper # NoTime, NEW W \in SUBSET Entries,
           NEW T, T = S \cup {<<w.id, w.mseq>> : w \in W},
           \A w \in W : /\ rows[w.id].life # "free"
                        /\ Selectable(w.id) /\ rows[w.id].mseq = w.mseq => rows[w.id].ts = w.ts /\ Claims(c, w.id),
           NEW d \in Advanced(c, W)
    PROVE  Onward(d, T)
<1> DEFINE P(t) == {Position(e) : e \in {w \in W : TableOf[w.id] = t}}
<1>1. PICK f \in [Tables -> {NoPos} \cup UNION {{c.pos[t] : t \in Tables}, {Position(e) : e \in W}}] :
          /\ d = [c EXCEPT !.pos = f]
          /\ \A t \in Tables : f[t] \in Moves(c.pos[t], P(t))
  BY DEF Advanced
<1>2. /\ d.lower = c.lower /\ d.upper = c.upper /\ d.lowerIds = c.lowerIds
      /\ d.upperIds = c.upperIds /\ d.mlow = c.mlow /\ d.mup = c.mup /\ d.post = c.post /\ d.pos = f
  BY <1>1 DEF Cursors
<1>3. \A w \in W : /\ Position(w) \in Positions /\ Position(w).ts = w.ts /\ w.id \in Rows
                   /\ Position(w).rowid = rows[w.id].rowid /\ Position(w).rowid # NoId
  <2> TAKE w \in W
  <2>1. w.id \in Rows /\ w.ts \in Nat
    BY DEF Entries
  <2>2. Stored(w.id) /\ rows[w.id].rowid \in Nat
    BY <2>1 DEF Undeleted, Stored, Typed, TypeOK, RowRecords
  <2> QED
    BY <2>1, <2>2, ScanAssumption DEF Position, Positions
<1>4. ASSUME NEW t \in Tables
      PROVE  /\ f[t] \in P(t) \cup {c.pos[t]}
             /\ \A o \in P(t) \cup ({c.pos[t]} \ {NoPos}) :
                   f[t] # NoPos /\ (f[t].ts < o.ts \/ (f[t].ts = o.ts /\ o.rowid <= f[t].rowid))
  <2>1. c.pos[t] \in Positions \cup {NoPos}
    BY DEF Cursors
  <2>2. P(t) \in SUBSET Positions /\ \A o \in P(t) : o.rowid # NoId
    BY <1>3
  <2>3. c.pos[t] # NoPos => c.pos[t].rowid # NoId
    BY DEF Onward, Legacy
  <2>4. f[t] \in Moves(c.pos[t], P(t))
    BY <1>1
  <2> PICK P0 : P0 = P(t)
    OBVIOUS
  <2> PICK p : p = c.pos[t]
    OBVIOUS
  <2>5. P0 \in SUBSET Positions /\ p \in Positions \cup {NoPos} /\ f[t] \in Moves(p, P0)
        /\ \A o \in P0 \cup ({p} \ {NoPos}) : o.rowid # NoId
    BY <2>1, <2>2, <2>3, <2>4
  <2> HIDE DEF P
  <2> PICK q : q = f[t]
    OBVIOUS
  <2>6. q \in Moves(p, P0)
    BY <2>5
  <2>7. /\ q \in P0 \cup {p}
        /\ \A o \in P0 \cup ({p} \ {NoPos}) :
              q # NoPos /\ (q.ts < o.ts \/ (q.ts = o.ts /\ o.rowid <= q.rowid))
    BY <2>5, <2>6, MovesOnward
  <2> QED
    BY <2>7
<1>5. ~Legacy(d)
  <2>1. ASSUME NEW t \in Tables, f[t] # NoPos PROVE f[t].rowid # NoId
    BY <1>3, <1>4, <2>1 DEF Onward, Legacy
  <2> QED
    BY <1>2, <2>1 DEF Legacy
<1>6. Bounded(d) /\ ChangedAreClaimed(d) /\ d.upper # NoTime
  BY <1>2 DEF Onward, Bounded, ChangedAreClaimed
<1>7. ASSUME NEW i \in Rows, Selectable(i), Version(i) \in T PROVE Spent(d, i)
  <2> DEFINE t == TableOf[i]
  <2>1. t \in Tables /\ rows[i].ts \in Nat /\ rows[i].rowid \in Nat
    BY RowsAreNumbers
  <2>2. CASE Version(i) \in S
    <3>1. Claims(c, i) /\ ~Admitted(c, i)
      BY <1>7, <2>2 DEF Onward, SeenIsSpent, Spent
    <3>2. Remaining(d, i) => Remaining(c, i)
      <4> SUFFICES ASSUME Remaining(d, i), c.pos[t] # NoPos PROVE Remaining(c, i)
        BY DEF Remaining
      <4> PICK p, q : p = c.pos[t] /\ q = f[t]
        OBVIOUS
      <4>1. p \in Positions /\ p.rowid # NoId
        BY <2>1 DEF Cursors, Onward, Legacy
      <4>2. q # NoPos /\ (q.ts < p.ts \/ (q.ts = p.ts /\ p.rowid <= q.rowid)) /\ q \in P(t) \cup {p}
        BY <1>4, <2>1
      <4>3. q \in Positions /\ q.rowid # NoId
        BY <1>3, <4>1, <4>2
      <4>4. rows[i].ts < q.ts \/ (rows[i].ts = q.ts /\ rows[i].rowid > q.rowid)
        BY <1>2, <4>2 DEF Remaining
      <4>5. p.ts \in Nat /\ q.ts \in Nat /\ p.rowid \in Nat /\ q.rowid \in Nat
        BY <4>1, <4>3 DEF Positions
      <4>6. rows[i].ts < p.ts \/ (rows[i].ts = p.ts /\ rows[i].rowid > p.rowid)
        BY <2>1, <4>2, <4>4, <4>5
      <4> QED
        BY <4>6 DEF Remaining
    <3>3. ~Admitted(d, i)
      BY <1>2, <3>1, <3>2 DEF Admitted, InBand
    <3> QED
      BY <1>2, <3>1, <3>3 DEF Spent, Claims
  <2>3. CASE Version(i) \notin S
    <3>1. PICK w \in W : w.id = i /\ w.mseq = rows[i].mseq
      BY <1>7, <2>3, RowsAreNumbers
    <3>2. rows[i].ts = w.ts /\ Claims(c, i)
      BY <1>7, <3>1
    <3>3. Position(w) \in P(t)
      BY <3>1
    <3> PICK q : q = f[t]
      OBVIOUS
    <3>4. q # NoPos /\ (q.ts < w.ts \/ (q.ts = w.ts /\ rows[i].rowid <= q.rowid)) /\ q \in P(t) \cup {c.pos[t]}
      BY <1>3, <1>4, <2>1, <3>1, <3>3
    <3>5. q.ts \in Nat /\ q.rowid \in Nat
      <4>1. q \in Positions
        BY <1>3, <2>1, <3>4 DEF Cursors
      <4>2. q.rowid # NoId
        BY <1>2, <1>5, <2>1, <3>4 DEF Legacy
      <4> QED
        BY <4>1, <4>2 DEF Positions
    <3>6. ~Remaining(d, i)
      BY <1>2, <2>1, <3>2, <3>4, <3>5 DEF Remaining
    <3> QED
      BY <1>2, <3>2, <3>6 DEF Spent, Claims, Admitted
  <2> QED
    BY <2>2, <2>3
<1> QED
  BY <1>5, <1>6, <1>7 DEF Onward, SeenIsSpent

LEMMA AfterIsOnward ==
    ASSUME Typed, Undeleted, NEW S, NEW c \in Cursors, Onward(c, S), c.upper # NoTime, NEW W \in SUBSET Entries,
           NEW T, T = S \cup {<<w.id, w.mseq>> : w \in W},
           \A w \in W : /\ rows[w.id].life # "free"
                        /\ Selectable(w.id) /\ rows[w.id].mseq = w.mseq => rows[w.id].ts = w.ts /\ Claims(c, w.id),
           NEW now \in Nat, NEW full, NEW d \in After(c, W, now, full)
    PROVE  Onward(d, T)
<1>1. ~Legacy(c) /\ c.mup <= mutseq /\ \A t \in Tables : c.upperIds[t] <= rowseq
  BY DEF Onward, Bounded
<1>2. CASE full
  BY <1>1, <1>2, AdvancedIsOnward DEF After
<1>3. ASSUME NEW i \in Rows, Selectable(i), Version(i) \in T
      PROVE  rows[i].rowid <= c.upperIds[TableOf[i]] /\ (TableOf[i] = Records => rows[i].mseq <= c.mup)
  <2>1. CASE Version(i) \in S
    BY <1>3, <2>1 DEF Onward, SeenIsSpent, Spent, Claims
  <2>2. CASE Version(i) \notin S
    <3>1. PICK w \in W : w.id = i /\ w.mseq = rows[i].mseq
      BY <1>3, <2>2, RowsAreNumbers
    <3> QED
      BY <1>3, <3>1 DEF Claims
  <2> QED
    BY <2>1, <2>2
<1>4. /\ Frontier \in [Tables -> Nat] /\ mutseq \in Nat
      /\ NoIds \in [Tables -> Nat] /\ NoPositions \in [Tables -> Positions \cup {NoPos}]
  BY FrontierType DEF Typed, TypeOK, NoIds, NoPositions
<1>5. CASE ~full /\ now > c.upper
  <2> PICK e : e = [c EXCEPT !.lower = c.upper, !.upper = now, !.lowerIds = c.upperIds,
                  !.upperIds = Frontier, !.mlow = c.mup, !.mup = mutseq, !.post = TRUE,
                  !.pos = NoPositions]
    OBVIOUS
  <2>1. /\ e \in Cursors /\ e.upper = now /\ e.upperIds = Frontier /\ e.mup = mutseq /\ e.mlow = c.mup
        /\ e.pos = NoPositions /\ e.lowerIds = c.upperIds
    BY <1>4 DEF Cursors
  <2>2. e.upper # NoTime
    BY <1>5, <2>1, CursorsAreNumbers DEF NoTime, Cursors
  <2>3. d = Noting(e)
    BY <1>1, <1>5 DEF After, Following
  <2>4. Onward(e, T)
    BY <1>1, <1>3, <2>1, <2>2, BandIsOnward
  <2> QED
    BY <2>1, <2>3, <2>4, NotingIsOnward
<1>6. CASE ~full /\ ~(now > c.upper)
  <2>1. d = Completed(c)
    BY <1>1, <1>6 DEF After
  <2>2. /\ d \in Cursors /\ d.upper = NoTime /\ d.upperIds = NoIds /\ d.mup = c.mup /\ d.mlow = c.mup
        /\ d.pos = NoPositions /\ d.lowerIds = c.upperIds /\ d.post
    BY <1>4, <2>1 DEF Cursors, Completed, NoTime
  <2> QED
    BY <1>1, <1>3, <2>2, BandIsOnward
<1> QED
  BY <1>2, <1>5, <1>6

LEMMA ReadIsHeldOnce ==
    ASSUME Typed, Counted, NEW r \in Runners, Read(r), NEW S,
           Onward(run[r].cursor, S), run[r].cursor.upper # NoTime, HeldOnce(run[r], S)
    PROVE  HeldOnce(run'[r], S) /\ run'[r].cursor = run[r].cursor /\ run'[r].now = run[r].now
<1> DEFINE q == run[r]
           stage == Stages[q.stage]
           A == {i \in Rows : TableOf[i] = Table(stage) /\ Admitted(View(q.cursor), i)}
           S0 == Selected(q.cursor, stage, q.left)
           E == {[id |-> i, ts |-> rows[i].ts, mseq |-> rows[i].mseq] : i \in S0}
<1> PICK c \in Cursors : c = q.cursor
  BY DEF Typed, TypeOK, Runs
<1>1. q \in Runs /\ ~Legacy(c) /\ View(c) = c
  BY DEF Typed, TypeOK, Onward, View
<1>2. S0 \subseteq A
  BY DEF Selected, Page
<1>3. \A i \in S0 : i \in Rows /\ Admitted(c, i)
  BY <1>1, <1>2
<1> PICK new : new = run'[r]
  OBVIOUS
<1>4. new.window = q.window \cup E /\ new.cursor = q.cursor /\ new.now = q.now
  <2>1. new = [q EXCEPT !.window = q.window \cup E, !.left = q.left - Cardinality(S0),
                        !.stage = q.stage + 1,
                        !.pc = IF q.stage = Len(Stages) THEN "record" ELSE "read"]
    BY DEF Read, Typed, TypeOK
  <2> HIDE DEF E, S0
  <2> QED
    BY <1>1, <2>1 DEF Runs
<1>5. ASSUME NEW w \in E
      PROVE  /\ rows[w.id].life # "free" /\ w.mseq <= mutseq /\ <<w.id, w.mseq>> \notin S
             /\ Selectable(w.id) /\ rows[w.id].mseq = w.mseq =>
                   rows[w.id].ts = w.ts /\ Claims(c, w.id)
  <2>1. PICK i \in S0 : w = [id |-> i, ts |-> rows[i].ts, mseq |-> rows[i].mseq]
    OBVIOUS
  <2>2. i \in Rows /\ Admitted(c, i) /\ w.id = i /\ w.ts = rows[i].ts /\ w.mseq = rows[i].mseq
    BY <1>3, <2>1
  <2> HIDE DEF E, S0
  <2>3. Stored(i) /\ Selectable(i)
    BY <2>2 DEF Admitted, Selectable
  <2>4. Version(i) \notin S
    BY <2>2, <2>3 DEF Onward, SeenIsSpent, Spent
  <2>5. Claims(c, i)
    <3>1. CASE InBand(c, i)
      BY <2>2, <3>1 DEF Claims, InBand, Admitted
    <3>2. CASE ~InBand(c, i)
      <4>1. TableOf[i] = Records /\ rows[i].mseq <= c.mup /\ c.mlow < rows[i].mseq
        BY <2>2, <3>2 DEF Admitted
      <4>2. rows[i].mseq > 0
        BY <2>2, <4>1, RowsAreNumbers, CursorsAreNumbers
      <4> QED
        BY <2>2, <2>3, <4>1, <4>2 DEF Claims, Onward, ChangedAreClaimed
    <3> QED
      BY <3>1, <3>2
  <2> QED
    BY <2>2, <2>3, <2>4, <2>5 DEF Stored, Version, Counted
<1> HIDE DEF E
<1>6. HeldOnce(new, S)
  BY <1>4, <1>5 DEF HeldOnce
<1> QED
  BY <1>4, <1>6
----------------------------------------------------------------------------
(* The only run moves on, and with it perhaps the saved cursor *)

LEMMA RunStepOnce ==
    ASSUME Typed, Typed', \A x, y \in Runners : x = y, NEW r \in Runners,
           UNCHANGED <<clock, rows, rowseq, mutseq>>, clock >= 1,
           NEW T, seen' = T, Known(T),
           NEW s \in [at: Nat, cursor: Cursors], saved' = s, s.at <= clock, Onward(s.cursor, T),
           NEW q \in Runs, run'[r] = q, HeldOnce(q, T),
           q.pc \in {"read", "record"} => q.cursor.upper # NoTime,
           q.pc # "idle" => q.now >= 1 /\ s.at <= q.now /\ q.now <= clock /\ Onward(q.cursor, T)
    PROVE  Once'
<1>1. Steady
  BY RunsAreSteady
<1> PICK c, d \in Cursors : c = s.cursor /\ d = q.cursor
  BY DEF Runs
<1>2. Onward(c, T)' /\ Known(T)'
  BY <1>1, OnwardKept
<1>3. Onward(d, T) => Onward(d, T)'
  BY <1>1, OnwardKept
<1>4. HeldOnce(q, T)'
  BY DEF HeldOnce, Selectable, Stored, Claims
<1>5. Forward(q, T)'
  BY <1>3, <1>4 DEF Forward
<1>6. \A x \in Runners : run'[x] = q
  OBVIOUS
<1> QED
  BY <1>2, <1>5, <1>6 DEF Once

LEMMA RunsOnce ==
    ASSUME Typed, Typed', Counted, Undeleted, Once, \A x, y \in Runners : x = y,
           NEW r \in Runners, Begin(r) \/ Pin(r) \/ Read(r) \/ Record(r) \/ Abandon(r)
    PROVE  Once'
<1> PICK q \in Runs, s \in [at: Nat, cursor: Cursors] : q = run[r] /\ s = saved
  BY DEF Typed, TypeOK
<1>1. /\ q.cursor \in Cursors /\ s.cursor \in Cursors /\ q.now \in Nat /\ q.window \in SUBSET Entries
      /\ clock \in Nat /\ s.at \in Nat /\ run \in [Runners -> Runs]
  BY DEF Typed, TypeOK, Runs
<1>2. /\ clock >= 1 /\ s.at <= clock /\ Onward(s.cursor, seen) /\ Known(seen) /\ Forward(q, seen)
  BY DEF Once
<1>3. /\ Idle \in Runs /\ Idle.pc = "idle" /\ Idle.window = {} /\ \A T : HeldOnce(Idle, T)
  BY OpeningType, ScanAssumption, StagesType DEF Idle, Runs, NoTime, HeldOnce
<1>4. CASE Begin(r)
  <2> PICK new : new = [Idle EXCEPT !.pc = "pin", !.now = clock, !.cursor = saved.cursor]
    OBVIOUS
  <2>1. new \in Runs /\ new.pc = "pin" /\ new.now = clock /\ new.cursor = s.cursor /\ new.window = {}
    BY <1>1, <1>3 DEF Idle, Runs
  <2>2. run'[r] = new /\ UNCHANGED <<clock, rows, rowseq, mutseq>> /\ saved' = s /\ seen' = seen
    BY <1>1, <1>4 DEF Begin
  <2>3. HeldOnce(new, seen)
    BY <2>1 DEF HeldOnce
  <2>4. new.now >= 1 /\ s.at <= new.now /\ new.now <= clock /\ Onward(new.cursor, seen)
    BY <1>1, <1>2, <2>1
  <2>5. new.pc \notin {"read", "record"}
    BY <2>1
  <2> QED
    BY <1>1, <1>2, <2>1, <2>2, <2>3, <2>4, <2>5, RunStepOnce
<1>5. CASE Pin(r)
  <2>1. q.pc = "pin" /\ q.window = {} /\ q.now >= 1 /\ s.at <= q.now /\ q.now <= clock /\ Onward(q.cursor, seen)
    BY <1>2, <1>5 DEF Pin, Forward, Typed, Staged, Paced
  <2> PICK d : d = ForRun(q.cursor, q.now)
    OBVIOUS
  <2>2. d \in Cursors /\ Onward(d, seen) /\ d.upper # NoTime
    BY <1>1, <2>1, ForRunIsOnward, ForRunType DEF Typed
  <2> PICK new : new = [q EXCEPT !.pc = "read", !.cursor = d]
    OBVIOUS
  <2>3. new \in Runs /\ new.pc = "read" /\ new.now = q.now /\ new.cursor = d /\ new.window = {}
    BY <2>1, <2>2 DEF Runs
  <2>4. run'[r] = new /\ UNCHANGED <<clock, rows, rowseq, mutseq>> /\ saved' = s /\ seen' = seen
    BY <1>1, <1>5 DEF Pin
  <2>5. HeldOnce(new, seen)
    BY <2>3 DEF HeldOnce
  <2>6. new.now >= 1 /\ s.at <= new.now /\ new.now <= clock /\ Onward(new.cursor, seen)
        /\ new.cursor.upper # NoTime
    BY <2>1, <2>2, <2>3
  <2> QED
    BY <1>1, <1>2, <2>3, <2>4, <2>5, <2>6, RunStepOnce
<1>6. CASE Read(r)
  <2>1. q.pc = "read" /\ UNCHANGED <<clock, rows, rowseq, mutseq>> /\ saved' = s /\ seen' = seen
    BY <1>6 DEF Read
  <2>2. q.now >= 1 /\ s.at <= q.now /\ q.now <= clock /\ Onward(q.cursor, seen) /\ q.cursor.upper # NoTime
        /\ HeldOnce(q, seen)
    BY <1>2, <2>1 DEF Forward
  <2> PICK new \in Runs : new = run'[r]
    BY DEF Typed, TypeOK
  <2>3. HeldOnce(new, seen) /\ new.cursor = q.cursor /\ new.now = q.now
    BY <1>6, <2>2, ReadIsHeldOnce
  <2> QED
    BY <1>1, <1>2, <2>1, <2>2, <2>3, RunStepOnce
<1>7. CASE Record(r)
  <2>1. q.pc = "record" /\ run'[r] = Idle /\ UNCHANGED <<clock, rows, rowseq, mutseq>>
    BY <1>1, <1>7 DEF Record
  <2>2. q.now >= 1 /\ s.at <= q.now /\ q.now <= clock /\ Onward(q.cursor, seen) /\ q.cursor.upper # NoTime
        /\ HeldOnce(q, seen)
    BY <1>2, <2>1 DEF Forward
  <2> PICK T : T = seen \cup {<<w.id, w.mseq>> : w \in q.window}
    OBVIOUS
  <2>3. PICK c \in After(q.cursor, q.window, q.now, q.left = 0) : saved' = [at |-> q.now, cursor |-> c]
    BY <1>1, <1>7, <2>2 DEF Record
  <2>4. c \in Cursors
    BY <1>1, <2>3, AfterType DEF Typed
  <2>5. Onward(c, T)
    BY <1>1, <2>2, AfterIsOnward DEF HeldOnce
  <2>6. Known(T)
    <3>1. \A w \in q.window : w.id \in Rows /\ w.mseq \in Nat
      BY <1>1 DEF Entries
    <3> QED
      BY <1>2, <2>2, <3>1 DEF Known, HeldOnce
  <2>7. seen' = T
    BY <1>7 DEF Record
  <2> PICK u : u = [at |-> q.now, cursor |-> c]
    OBVIOUS
  <2>8. u \in [at: Nat, cursor: Cursors] /\ u.at = q.now /\ u.cursor = c /\ saved' = u
    BY <1>1, <2>3, <2>4
  <2> QED
    BY <1>2, <1>3, <2>1, <2>2, <2>5, <2>6, <2>7, <2>8, RunStepOnce
<1>8. CASE Abandon(r)
  <2>1. run'[r] = Idle /\ UNCHANGED <<clock, rows, rowseq, mutseq>> /\ saved' = s /\ seen' = seen
    BY <1>1, <1>8 DEF Abandon
  <2> QED
    BY <1>1, <1>2, <1>3, <2>1, RunStepOnce
<1> QED
  BY <1>4, <1>5, <1>6, <1>7, <1>8

LEMMA OthersOnce ==
    ASSUME Typed, Typed', Once, Steady, UNCHANGED <<saved, run, seen>>, clock' >= clock
    PROVE  Once'
<1> PICK T : T = seen
  OBVIOUS
<1> PICK c \in Cursors : c = saved.cursor
  BY DEF Typed, TypeOK
<1>1. clock \in Nat /\ clock' \in Nat /\ saved.at \in Nat
  BY DEF Typed, TypeOK
<1>2. Onward(c, T)' /\ Known(T)'
  BY OnwardKept DEF Once
<1>3. ASSUME NEW x \in Runners PROVE Forward(run[x], seen)'
  <2> PICK q \in Runs : q = run[x]
    BY DEF Typed, TypeOK
  <2>1. Forward(q, T)'
    BY ForwardKept DEF Once
  <2> QED
    BY <2>1
<1> QED
  BY <1>1, <1>2, <1>3 DEF Once

LEMMA InitOnce ==
    ASSUME Init
    PROVE  OnceUntilDeleted
<1>1. /\ seen = {} /\ saved = [at |-> NoTime, cursor |-> Opening] /\ rowseq = 0 /\ mutseq = 0
      /\ (\A i \in Rows : rows[i] = Free) /\ \A r \in Runners : run[r] = Idle
  BY DEF Init
<1>2. clock >= 1 /\ saved.at <= clock
  BY ScanAssumption DEF Init, NoTime
<1>3. Counted
  BY <1>1 DEF Counted, Free
<1>4. \A i \in Rows : ~Stored(i)
  BY <1>1 DEF Stored, Free
<1>5. Onward(saved.cursor, seen)
  <2>1. \A i \in Rows : ~Selectable(i)
    BY <1>4 DEF Selectable
  <2>2. Opening.pos = NoPositions /\ Opening.upper = NoTime /\ Opening.mlow = 0 /\ Opening.mup = 0
        /\ Opening.lowerIds = NoIds /\ Opening.upperIds = NoIds
    BY DEF Opening
  <2> QED
    BY <1>1, <2>1, <2>2 DEF Onward, Legacy, Bounded, ChangedAreClaimed, SeenIsSpent, NoPositions, NoIds
<1>6. Known(seen) /\ \A r \in Runners : Forward(run[r], seen)
  BY <1>1 DEF Known, Forward, HeldOnce, Idle
<1> QED
  BY <1>2, <1>3, <1>5, <1>6 DEF OnceUntilDeleted, Once

LEMMA NextOnce ==
    ASSUME Typed, Typed', OnceUntilDeleted, \A x, y \in Runners : x = y, [Next]_vars
    PROVE  OnceUntilDeleted'
<1>1. rows \in [Rows -> RowRecords] /\ mutseq \in Nat /\ clock \in Nat /\ Counted
  BY DEF Typed, TypeOK, OnceUntilDeleted
<1>2. Steady
  <2>1. ASSUME NEW r \in Runners, Begin(r) \/ Pin(r) \/ Read(r) \/ Record(r) \/ Abandon(r)
        PROVE  UNCHANGED <<rows, rowseq, mutseq>>
    BY <2>1 DEF Begin, Pin, Read, Record, Abandon
  <2>2. CASE UNCHANGED vars
    BY <2>2, RunsAreSteady DEF vars
  <2> QED
    BY <2>1, <2>2, RunsAreSteady, WritersAreSteady DEF Next
<1>3. Undeleted' => Undeleted
  BY <1>2 DEF Undeleted, Steady, Stored, Typed, TypeOK, RowRecords
<1>4. Counted'
  <2>1. CASE rows' = rows /\ mutseq' = mutseq
    BY <1>1, <2>1 DEF Counted
  <2>2. ASSUME NEW i \in Rows, NEW t \in 1 .. MaxTime, Insert(i, t) PROVE Counted'
    <3>1. rows'[i].mseq = 0 /\ mutseq' = mutseq /\ \A j \in Rows \ {i} : rows'[j] = rows[j]
      BY <1>1, <2>2 DEF Insert
    <3> QED
      BY <1>1, <3>1 DEF Counted, RowRecords
  <2>3. ASSUME NEW i \in Rows, Change(i) PROVE Counted'
    <3>1. mutseq' = mutseq + 1 /\ \A j \in Rows \ {i} : rows'[j] = rows[j]
      BY <1>1, <2>3 DEF Change
    <3>2. rows'[i].mseq = mutseq + 1
      BY <1>1, <2>3 DEF Change, RowRecords
    <3> QED
      BY <1>1, <3>1, <3>2 DEF Counted, RowRecords
  <2>4. ASSUME NEW i \in Rows, Retire(i) \/ Delete(i) PROVE Counted'
    <3>1. mutseq' = mutseq /\ \A j \in Rows \ {i} : rows'[j] = rows[j]
      BY <1>1, <2>4 DEF Retire, Delete
    <3>2. rows'[i].mseq = rows[i].mseq \/ rows'[i].mseq = 0
      BY <1>1, <2>4 DEF Retire, Delete, Free, RowRecords
    <3> QED
      BY <1>1, <3>1, <3>2 DEF Counted, RowRecords
  <2>5. ASSUME NEW r \in Runners, Begin(r) \/ Pin(r) \/ Read(r) \/ Record(r) \/ Abandon(r)
        PROVE  rows' = rows /\ mutseq' = mutseq
    BY <2>5 DEF Begin, Pin, Read, Record, Abandon
  <2>6. CASE Tick \/ UNCHANGED vars
    BY <2>1, <2>6 DEF Tick, vars
  <2> QED
    BY <2>1, <2>2, <2>3, <2>4, <2>5, <2>6 DEF Next
<1>5. ASSUME Undeleted, Once PROVE Once'
  <2>1. CASE UNCHANGED vars
    BY <1>1, <1>2, <1>5, <2>1, OthersOnce DEF vars
  <2>2. ASSUME Tick \/ (\E i \in Rows, t \in 1 .. MaxTime : Insert(i, t))
                  \/ (\E i \in Rows : Change(i) \/ Retire(i) \/ Delete(i))
        PROVE  Once'
    <3>1. UNCHANGED <<saved, run, seen>> /\ (clock' = clock \/ clock' = clock + 1)
      BY <2>2 DEF Tick, Insert, Change, Retire, Delete
    <3>2. clock' >= clock
      BY <1>1, <3>1
    <3> QED
      BY <1>2, <1>5, <3>1, <3>2, OthersOnce
  <2>3. ASSUME NEW r \in Runners, Begin(r) \/ Pin(r) \/ Read(r) \/ Record(r) \/ Abandon(r) PROVE Once'
    BY <1>1, <1>5, <2>3, RunsOnce
  <2> QED
    BY <2>1, <2>2, <2>3 DEF Next
<1> QED
  BY <1>3, <1>4, <1>5 DEF OnceUntilDeleted

\* "Boundary evidence is not selected twice", whatever the batch, the stages and the
\* imported chat turns, and wherever writers, restarts and abandoned runs come in between:
\* as long as no row was deleted under a cursor, a single runner records no version of a
\* row a second time.
THEOREM BoundariesAreSelectedOnce ==
    ASSUME \A x, y \in Runners : x = y
    PROVE  Spec => NothingIsSelectedTwice
<1> DEFINE P == \A r \in Runners :
                  Record(r) /\ (\A i \in Rows : rows[i].life # "deleted")
                  => {<<e.id, e.mseq>> : e \in run[r].window} \cap seen = {}
<1>1. OnceUntilDeleted => P
  <2> SUFFICES ASSUME OnceUntilDeleted, NEW r \in Runners, Undeleted
               PROVE  {<<e.id, e.mseq>> : e \in run[r].window} \cap seen = {}
    BY DEF Undeleted
  <2> QED
    BY DEF OnceUntilDeleted, Once, Forward, HeldOnce
<1> HIDE DEF P
<1>2. Spec => []OnceUntilDeleted
  <2>1. Typed /\ Typed' /\ OnceUntilDeleted /\ [Next]_vars => OnceUntilDeleted'
    BY NextOnce
  <2> QED
    BY <2>1, InitOnce, TypedAlways, PTL DEF Spec
<1>3. Spec => [][P]_vars
  BY <1>1, <1>2, PTL DEF Spec
<1> QED
  BY <1>3 DEF P, NothingIsSelectedTwice
=============================================================================
