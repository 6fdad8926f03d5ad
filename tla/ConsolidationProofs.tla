------------------------- MODULE ConsolidationProofs -------------------------
(***************************************************************************)
(* Proofs, for every value of the constants, of the invariants stated in   *)
(* ConsolidationProperties.  The first part is type correctness; each row  *)
(* operator gets a lemma so that the actions need not open its record.     *)
(* The second part: no claim is stored three times, a withdrawal reaches   *)
(* every proposal persisted before it, and the proposals table implements  *)
(* ProposalLedger.  The third part: supersession.  The fourth: what steps  *)
(* may never do, which is apply over a row touched since the proposal,     *)
(* lose a claim they adopt, undo an edit, leave a row archived for a       *)
(* replacement they have retired, or bring a row back unseen.  All of that *)
(* rests on versions that only grow: a row that still has a revision       *)
(* somebody froze has not been touched since.                              *)
(***************************************************************************)
EXTENDS ConsolidationProperties, TLAPS

LEMMA FreshIsRow ==
    ASSUME NEW c \in Claims \cup {NoClaim}, NEW h \in Claims \cup {NoClaim},
           NEW S \in SUBSET Sources, NEW b \in Batches \cup {NoBatch}, NEW t \in TemporalStates
    PROVE  Fresh(c, h, S, b, t) \in Rows
<1>1. Metadata(b) \in MetaRows
  BY DEF Metadata, MetaRows, PrevRows, NoPrev, TemporalStates
<1> QED
  BY <1>1 DEF Fresh, Rows

LEMMA BlankIsRow ==
    ASSUME NEW l \in {"free", "stored", "deleted"}
    PROVE  Blank(l) \in Rows
<1>1. Fresh(NoClaim, NoClaim, {}, NoBatch, "current") \in Rows
  BY FreshIsRow DEF TemporalStates
<1> QED
  BY <1>1 DEF Blank, Rows

LEMMA AdoptedIsRow ==
    ASSUME NEW d \in Decision, NEW b \in Batches
    PROVE  Adopted(d, b) \in Rows
<1> DEFINE t == IF d.temporal = "unset" THEN "current" ELSE d.temporal
<1>1. d.claim \in Claims \cup {NoClaim} /\ d.sources \in SUBSET Sources /\ t \in TemporalStates
  BY DEF Decision, TemporalStates
<1>2. Adopted(d, b) = Fresh(d.claim, d.claim, d.sources, b, t)
  BY DEF Adopted
<1> HIDE DEF t
<1> QED
  BY <1>1, <1>2, FreshIsRow

LEMMA RevisionIsRevision ==
    ASSUME NEW r \in Rows
    PROVE  Revision(r) \in Revisions
BY DEF Revision, Revisions, RevisionRows, Rows

LEMMA ReusedIsRow ==
    ASSUME NEW r \in Rows, NEW d \in Decision, NEW s \in Nat
    PROVE  Reused(r, d, s) \in Rows
<1> DEFINE t == IF d.temporal = "unset" THEN r.temporal ELSE d.temporal
           S == r.sources \cup d.sources
           v == r.ver + 1
<1>1. t \in TemporalStates /\ S \in SUBSET Sources /\ v \in Nat
  BY DEF Rows, Decision
<1>2. Reused(r, d, s) = [r EXCEPT !.sources = S, !.archived = FALSE, !.ver = v, !.mseq = s,
                                  !.temporal = t]
  BY DEF Reused
<1> HIDE DEF t, S, v
<1>3. [r EXCEPT !.sources = S, !.archived = FALSE, !.ver = v, !.mseq = s, !.temporal = t] \in Rows
  BY <1>1 DEF Rows
<1> QED
  BY <1>2, <1>3

LEMMA SupersededIsRow ==
    ASSUME NEW r \in Rows, NEW n \in Ids, NEW b \in Batches
    PROVE  Superseded(r, n, b) \in Rows
<1> DEFINE p == [saved |-> TRUE, archived |-> r.archived, temporal |-> r.temporal,
                 by |-> r.by, batch |-> r.meta.batch, link |-> r.meta.link,
                 patch |-> r.meta.patch]
           m == [r.meta EXCEPT !.link = b, !.prev = p]
<1>1. r.meta \in MetaRows
  BY DEF Rows
<1>2. p \in PrevRows
  BY <1>1 DEF Rows, MetaRows, PrevRows
<1>3. m \in MetaRows
  BY <1>1, <1>2 DEF MetaRows
<1> DEFINE v == r.ver + 1
<1>4. Superseded(r, n, b) =
        [r EXCEPT !.archived = TRUE, !.temporal = "superseded", !.by = n, !.ver = v, !.meta = m]
  BY DEF Superseded, Rows
<1>5. v \in Nat /\ n \in Ids \cup {NoId} /\ "superseded" \in TemporalStates
  BY DEF Rows, TemporalStates
<1> HIDE DEF p, m, v
<1>6. [r EXCEPT !.archived = TRUE, !.temporal = "superseded", !.by = n, !.ver = v, !.meta = m]
        \in Rows
  BY <1>3, <1>5 DEF Rows
<1> QED
  BY <1>4, <1>6

LEMMA RestoredIsRow ==
    ASSUME NEW r \in Rows, NEW s \in Nat
    PROVE  Restored(r, s) \in Rows
<1>1. r.meta \in MetaRows /\ r.meta.prev \in PrevRows
  BY DEF Rows, MetaRows
<1> DEFINE m == [batch |-> r.meta.prev.batch, link |-> r.meta.prev.link,
                 patch |-> r.meta.prev.patch, prev |-> NoPrev]
<1>2. m \in MetaRows
  BY <1>1 DEF MetaRows, PrevRows, NoPrev, TemporalStates
<1> DEFINE a == r.meta.prev.archived
           t == r.meta.prev.temporal
           y == r.meta.prev.by
           v == r.ver + 1
           q == IF a THEN r.mseq ELSE s
<1>3. Restored(r, s) = [r EXCEPT !.archived = a, !.temporal = t, !.by = y, !.ver = v,
                                 !.mseq = q, !.meta = m]
  BY DEF Restored
<1>4. a \in BOOLEAN /\ t \in TemporalStates /\ y \in Ids \cup {NoId} /\ v \in Nat /\ q \in Nat
  BY <1>1 DEF Rows, PrevRows
<1> HIDE DEF m, a, t, y, v, q
<1>5. [r EXCEPT !.archived = a, !.temporal = t, !.by = y, !.ver = v, !.mseq = q, !.meta = m]
        \in Rows
  BY <1>2, <1>4 DEF Rows
<1> QED
  BY <1>3, <1>5

LEMMA ReplaceIsRows ==
    ASSUME NEW R \in [Ids -> Rows], NEW b \in Batches, NEW n \in Ids,
           NEW T \in SUBSET Ids
    PROVE  Replace(R, b, n, T) \in [Ids -> Rows]
<1> SUFFICES ASSUME NEW i \in Ids
             PROVE  (IF i \in T THEN Superseded(R[i], n, b)
                     ELSE IF i = n THEN [R[i] EXCEPT !.supersedes = @ \cup T]
                     ELSE R[i]) \in Rows
  BY DEF Replace
<1>1. R[i] \in Rows
  OBVIOUS
<1>2. Superseded(R[i], n, b) \in Rows
  BY <1>1, SupersededIsRow
<1>3. [R[i] EXCEPT !.supersedes = @ \cup T] \in Rows
  BY <1>1 DEF Rows
<1> QED
  BY <1>1, <1>2, <1>3

LEMMA EditsAreRows ==
    ASSUME NEW r \in Rows, NEW s \in Nat
    PROVE  /\ [r EXCEPT !.archived = TRUE, !.ver = @ + 1] \in Rows
           /\ [r EXCEPT !.archived = TRUE, !.ver = @ + 1, !.meta = [@ EXCEPT !.patch = TRUE]] \in Rows
           /\ [r EXCEPT !.archived = FALSE, !.ver = @ + 1, !.mseq = s] \in Rows
           /\ [r EXCEPT !.trust = "quarantined", !.ver = @ + 1] \in Rows
           /\ [r EXCEPT !.trust = "trusted", !.ver = @ + 1, !.mseq = s] \in Rows
           /\ [r EXCEPT !.archived = TRUE, !.temporal = "historical", !.ver = @ + 1] \in Rows
           /\ [r EXCEPT !.archived = TRUE, !.temporal = "invalidated", !.ver = @ + 1] \in Rows
<1> DEFINE v == r.ver + 1
           m == [r.meta EXCEPT !.patch = TRUE]
<1>0. v \in Nat /\ r.meta \in MetaRows
  BY DEF Rows
<1>1. v \in Nat /\ m \in MetaRows
  BY <1>0 DEF MetaRows
<1>2. "historical" \in TemporalStates /\ "invalidated" \in TemporalStates
  BY DEF TemporalStates
<1>10. [r EXCEPT !.archived = TRUE, !.ver = @ + 1, !.meta = [@ EXCEPT !.patch = TRUE]]
           = [r EXCEPT !.archived = TRUE, !.ver = v, !.meta = m]
  BY DEF Rows
<1> HIDE DEF v, m
<1>3. [r EXCEPT !.archived = TRUE, !.ver = v] \in Rows
  BY <1>1 DEF Rows
<1>4. [r EXCEPT !.archived = TRUE, !.ver = v, !.meta = m] \in Rows
  BY <1>1 DEF Rows
<1>5. [r EXCEPT !.archived = FALSE, !.ver = v, !.mseq = s] \in Rows
  BY <1>1 DEF Rows
<1>6. /\ [r EXCEPT !.trust = "quarantined", !.ver = v] \in Rows
      /\ [r EXCEPT !.trust = "trusted", !.ver = v, !.mseq = s] \in Rows
  BY <1>1 DEF Rows
<1>7. /\ [r EXCEPT !.archived = TRUE, !.temporal = "historical", !.ver = v] \in Rows
      /\ [r EXCEPT !.archived = TRUE, !.temporal = "invalidated", !.ver = v] \in Rows
  BY <1>1, <1>2 DEF Rows
<1>8. /\ [r EXCEPT !.archived = TRUE, !.ver = @ + 1] \in Rows
      /\ [r EXCEPT !.archived = FALSE, !.ver = @ + 1, !.mseq = s] \in Rows
      /\ [r EXCEPT !.trust = "quarantined", !.ver = @ + 1] \in Rows
      /\ [r EXCEPT !.trust = "trusted", !.ver = @ + 1, !.mseq = s] \in Rows
      /\ [r EXCEPT !.archived = TRUE, !.temporal = "historical", !.ver = @ + 1] \in Rows
      /\ [r EXCEPT !.archived = TRUE, !.temporal = "invalidated", !.ver = @ + 1] \in Rows
  BY <1>3, <1>5, <1>6, <1>7, Zenon DEF v
<1>9. [r EXCEPT !.archived = TRUE, !.ver = @ + 1, !.meta = [@ EXCEPT !.patch = TRUE]] \in Rows
  BY <1>4, <1>10, Zenon
<1> QED
  BY <1>8, <1>9, Zenon

LEMMA MergeIsRow ==
    ASSUME NEW r \in Rows, NEW S \in SUBSET Sources, NEW m \in MetaRows, NEW q \in Nat
    PROVE  [r EXCEPT !.sources = S, !.meta = m, !.ver = @ + 1, !.mseq = q] \in Rows
<1> DEFINE v == r.ver + 1
<1>1. v \in Nat
  BY DEF Rows
<1> HIDE DEF v
<1>2. [r EXCEPT !.sources = S, !.meta = m, !.ver = v, !.mseq = q] \in Rows
  BY <1>1 DEF Rows
<1> QED
  BY <1>2 DEF v
----------------------------------------------------------------------------
(* Type correctness *)

LEMMA IdleIsWriterRow == Idle \in WriterRows
<1>1. Metadata(NoBatch) \in MetaRows
  BY DEF Metadata, MetaRows, PrevRows, NoPrev, TemporalStates
<1> QED
  BY <1>1 DEF Idle, WriterRows

LEMMA NoWorkIsWorkRow == NoWork \in WorkRows
BY BlankIsRow DEF NoWork, WorkRows, NoRevisions, Revisions

LEMMA DecisionOfLock ==
    ASSUME TypeOK, lock # NoBatch, work.next \in DOMAIN Decisions(lock)
    PROVE  lock \in Batches /\ Decisions(lock)[work.next] \in Decision
<1>1. lock \in Batches /\ Decisions(lock) \in Payloads \cup {<< >>}
  BY DEF TypeOK, StoreOK, PropRows, Decisions
<1>2. CASE Decisions(lock) = << >>
  BY <1>2
<1>3. CASE Decisions(lock) \in Payloads
  <2>1. Decisions(lock) \in Seq(Decision)
    BY <1>3, PayloadsAssumption
  <2> QED
    BY <1>1, <2>1
<1> QED
  BY <1>1, <1>2, <1>3

LEMMA AdoptIntoType ==
    ASSUME TypeOK, lock \in Batches, NEW R \in [Ids -> Rows], NEW d \in Decision,
           NEW n \in Ids, NEW s \in Nat, NEW z \in BOOLEAN, AdoptInto(R, d, n, s, z)
    PROVE  work' \in WorkRows
<1> DEFINE T == d.supersedes \ {n}
           V == Replace(R, lock, n, T)
           A == [i \in Ids |-> IF i \in T THEN Revision(V[i]) ELSE work.applied[i]]
<1>1. T \in SUBSET Ids
  BY DEF Decision
<1>2. V \in [Ids -> Rows]
  BY <1>1, ReplaceIsRows
<1>3. work \in WorkRows
  BY DEF TypeOK, StoreOK
<1>4. A \in [Ids -> Revisions]
  <2> SUFFICES ASSUME NEW i \in Ids
               PROVE  (IF i \in T THEN Revision(V[i]) ELSE work.applied[i]) \in Revisions
    OBVIOUS
  <2>1. V[i] \in Rows /\ work.applied[i] \in Revisions
    BY <1>2, <1>3 DEF WorkRows
  <2> QED
    BY <2>1, RevisionIsRevision
<1>5. work' = [records |-> V, seq |-> s, bumped |-> z, applied |-> A,
               ids |-> work.ids \cup {n}, next |-> work.next + 1]
  BY DEF AdoptInto
<1> HIDE DEF V, A, T
<1> QED
  BY <1>2, <1>3, <1>4, <1>5 DEF WorkRows

\* Whichever lookup finds it, a reused row is stored and in the current state.
LEMMA ReusableIsCurrent ==
    ASSUME NEW R, NEW d, NEW i \in Reusable(R, d)
    PROVE  /\ i \in Ids /\ R[i].life = "stored" /\ R[i].temporal = "current"
BY DEF Reusable, Hashed, Stated, Current, Active

LEMMA AdoptNextType ==
    ASSUME TypeOK, AdoptNext
    PROVE  work' \in WorkRows
<1> DEFINE d == Decisions(lock)[work.next]
           s == IF work.bumped THEN work.seq ELSE work.seq + 1
<1>1. lock \in Batches /\ d \in Decision
  BY DecisionOfLock DEF AdoptNext
<1>2. work \in WorkRows
  BY DEF TypeOK, StoreOK
<1>3. s \in Nat
  BY <1>2 DEF WorkRows
<1>4. CASE ~d.adopt /\ work' = [work EXCEPT !.next = @ + 1]
  BY <1>2, <1>4 DEF WorkRows
<1>5. ASSUME NEW i \in Reusable(work.records, d),
             AdoptInto([work.records EXCEPT ![i] = Reused(@, d, s)], d, i, s, TRUE)
      PROVE  work' \in WorkRows
  <2>1. i \in Ids
    BY <1>5, ReusableIsCurrent
  <2>2. work.records \in [Ids -> Rows]
    BY <1>2 DEF WorkRows
  <2>3. Reused(work.records[i], d, s) \in Rows
    BY <1>1, <1>3, <2>1, <2>2, ReusedIsRow
  <2>4. [work.records EXCEPT ![i] = Reused(@, d, s)] \in [Ids -> Rows]
    BY <2>1, <2>2, <2>3
  <2> HIDE DEF d, s
  <2> QED
    BY <1>1, <1>3, <1>5, <2>1, <2>4, AdoptIntoType
<1>6. ASSUME NEW i \in Ids,
             AdoptInto([work.records EXCEPT ![i] = Adopted(d, lock)], d, i, work.seq, work.bumped)
      PROVE  work' \in WorkRows
  <2>1. work.records \in [Ids -> Rows] /\ work.seq \in Nat /\ work.bumped \in BOOLEAN
    BY <1>2 DEF WorkRows
  <2>2. [work.records EXCEPT ![i] = Adopted(d, lock)] \in [Ids -> Rows]
    BY <1>1, <2>1, AdoptedIsRow
  <2> HIDE DEF d
  <2> QED
    BY <1>1, <1>6, <2>1, <2>2, AdoptIntoType
<1> QED
  BY <1>4, <1>5, <1>6 DEF AdoptNext

LEMMA InitType == Init => TypeOK
<1> SUFFICES ASSUME Init PROVE TypeOK
  OBVIOUS
<1>1. \A i \in DOMAIN Seed :
        Fresh(Seed[i].claim, Norm[Seed[i].claim], Seed[i].sources, NoBatch, "current") \in Rows
  <2> SUFFICES ASSUME NEW i \in DOMAIN Seed
               PROVE  Fresh(Seed[i].claim, Norm[Seed[i].claim], Seed[i].sources, NoBatch, "current") \in Rows
    OBVIOUS
  <2>1. Seed[i].claim \in Claims /\ Norm[Seed[i].claim] \in Claims
        /\ Seed[i].sources \in SUBSET Sources
    BY SeedAssumption, NormAssumption
  <2> QED
    BY <2>1, FreshIsRow DEF TemporalStates
<1>2. Blank("free") \in Rows
  BY BlankIsRow
<1>3. records \in [Ids -> Rows]
  BY <1>1, <1>2 DEF Init
<1>4. NoRevisions \in [Ids -> Revisions]
  BY DEF NoRevisions, Revisions
<1>5. Absent \in PropRows
  BY DEF Absent, PropRows, Statuses
<1>6. proposals \in [Batches -> PropRows]
  BY <1>5 DEF Init
<1>7. proposed \in [Batches -> [Ids -> Revisions]] /\ applied \in [Batches -> [Ids -> Revisions]]
  BY <1>4 DEF Init
<1>8. writer \in [Writers -> WriterRows]
  BY IdleIsWriterRow DEF Init
<1>9. work \in WorkRows
  BY NoWorkIsWorkRow DEF Init
<1> QED
  BY <1>3, <1>6, <1>7, <1>8, <1>9 DEF Init, TypeOK, StoreOK

LEMMA PersistType ==
    ASSUME TypeOK, NEW b \in Batches, NEW p \in Payloads, Persist(b, p)
    PROVE  StoreOK'
<1>1. proposals' \in [Batches -> PropRows]
  <2>1. [status |-> "validated", payload |-> p, ids |-> {}] \in PropRows
    BY DEF PropRows, Statuses
  <2> QED
    BY <2>1 DEF Persist, TypeOK, StoreOK
<1>2. proposed' \in [Batches -> [Ids -> Revisions]]
  <2>1. [i \in Ids |-> IF i \in Targets(p) THEN Revision(records[i]) ELSE NoRev]
          \in [Ids -> Revisions]
    BY RevisionIsRevision DEF TypeOK, StoreOK, Revisions
  <2> QED
    BY <2>1 DEF Persist, TypeOK, StoreOK
<1> QED
  BY <1>1, <1>2 DEF Persist, TypeOK, StoreOK

LEMMA BeginApplyType ==
    ASSUME TypeOK, NEW b \in Batches, BeginApply(b)
    PROVE  StoreOK'
<1>1. work' \in WorkRows
  BY DEF BeginApply, TypeOK, StoreOK, WorkRows
<1> QED
  BY <1>1 DEF BeginApply, tables, TypeOK, StoreOK

LEMMA CommitApplyType ==
    ASSUME TypeOK, CommitApply
    PROVE  StoreOK'
<1>1. /\ work.records \in [Ids -> Rows] /\ work.seq \in Nat
      /\ work.applied \in [Ids -> Revisions] /\ work.ids \in SUBSET Ids
  BY DEF TypeOK, StoreOK, WorkRows
<1>2. proposals' \in [Batches -> PropRows]
  <2>1. \A q \in PropRows : [q EXCEPT !.status = "applied", !.ids = work.ids] \in PropRows
    BY <1>1 DEF PropRows, Statuses
  <2>2. proposals' = [proposals EXCEPT ![lock] = [@ EXCEPT !.status = "applied", !.ids = work.ids]]
    BY DEF CommitApply, TypeOK, StoreOK
  <2> QED
    BY <2>1, <2>2 DEF TypeOK, StoreOK
<1> QED
  BY <1>1, <1>2, NoWorkIsWorkRow DEF CommitApply, TypeOK, StoreOK

LEMMA UndoType ==
    ASSUME TypeOK, NEW b \in Batches, Undo(b)
    PROVE  StoreOK'
<1>1. proposals' \in [Batches -> PropRows]
  <2>1. \A q \in PropRows : [q EXCEPT !.status = "reverted"] \in PropRows
    BY DEF PropRows, Statuses
  <2>2. proposals' = [proposals EXCEPT ![b] = [@ EXCEPT !.status = "reverted"]]
    BY DEF Undo
  <2> QED
    BY <2>1, <2>2 DEF TypeOK, StoreOK
<1>2. seq' \in Nat /\ seq + 1 \in Nat
  <2>1. seq \in Nat
    BY DEF TypeOK, StoreOK
  <2>2. seq' = seq + 1 \/ seq' = seq
    BY Zenon DEF Undo
  <2> QED
    BY <2>1, <2>2
<1>3. records' \in [Ids -> Rows]
  <2> SUFFICES ASSUME NEW i \in Ids
               PROVE  records'[i] \in Rows
    BY DEF Undo
  <2>1. records[i] \in Rows
    BY DEF TypeOK, StoreOK
  <2>2. Restored(records[i], seq + 1) \in Rows
    BY <1>2, <2>1, RestoredIsRow
  <2>3. [records[i] EXCEPT !.archived = TRUE, !.temporal = "historical", !.ver = @ + 1] \in Rows
    BY <1>2, <2>1, EditsAreRows
  <2> QED
    BY <2>1, <2>2, <2>3 DEF Undo
<1> QED
  BY <1>1, <1>2, <1>3 DEF Undo, TypeOK, StoreOK

LEMMA WithdrawType ==
    ASSUME TypeOK, NEW s \in Sources, Withdraw(s)
    PROVE  StoreOK'
<1>1. proposals' \in [Batches -> PropRows]
  <2>1. \A q \in PropRows : [q EXCEPT !.status = "rejected"] \in PropRows
    BY DEF PropRows, Statuses
  <2> QED
    BY <2>1 DEF Withdraw, TypeOK, StoreOK
<1>2. records' \in [Ids -> Rows]
  <2> SUFFICES ASSUME NEW i \in Ids
               PROVE  records'[i] \in Rows
    BY DEF Withdraw
  <2>1. records[i] \in Rows /\ seq \in Nat
    BY DEF TypeOK, StoreOK
  <2>2. [records[i] EXCEPT !.archived = TRUE, !.temporal = "invalidated", !.ver = @ + 1] \in Rows
    BY <2>1, EditsAreRows
  <2> QED
    BY <2>1, <2>2 DEF Withdraw
<1> QED
  BY <1>1, <1>2 DEF Withdraw, TypeOK, StoreOK

LEMMA EditType ==
    ASSUME TypeOK, NEW i \in Ids, NEW r \in Rows, Edit(i, r), seq' \in {seq, seq + 1}
    PROVE  StoreOK'
<1>1. records' \in [Ids -> Rows] /\ seq' \in Nat
  BY DEF Edit, TypeOK, StoreOK
<1> QED
  BY <1>1 DEF Edit, TypeOK, StoreOK

LEMMA FoundIsRow ==
    ASSUME NEW c, NEW i \in Found(c)
    PROVE  i \in Ids /\ records[i].life = "stored"
BY DEF Found, Hashed, Stated, Current, Active

LEMMA UpsertType ==
    ASSUME TypeOK, NEW w \in Writers, Upsert(w)
    PROVE  StoreOK'
<1>1. /\ records \in [Ids -> Rows] /\ writer \in [Writers -> WriterRows]
      /\ writer[w] \in WriterRows /\ seq \in Nat
  BY DEF TypeOK, StoreOK
<1>2. ASSUME NEW c \in Claims, NEW S \in SUBSET Sources, UpsertRead(w, c, S)
      PROVE  StoreOK'
  <2>1. ASSUME NEW i \in Found(c)
        PROVE  [pc |-> "merge", id |-> i, claim |-> c, sources |-> records[i].sources \cup S,
                meta |-> records[i].meta] \in WriterRows
    <3>1. i \in Ids /\ records[i].sources \in SUBSET Sources /\ records[i].meta \in MetaRows
      BY <1>1, <2>1, FoundIsRow DEF Rows
    <3> QED
      BY <3>1 DEF WriterRows
  <2>2. [Idle EXCEPT !.pc = "insert", !.claim = c, !.sources = S] \in WriterRows
    BY IdleIsWriterRow DEF WriterRows
  <2>3. writer' \in [Writers -> WriterRows]
    BY <1>1, <1>2, <2>1, <2>2 DEF UpsertRead
  <2> QED
    BY <1>2, <2>3 DEF UpsertRead, tables, TypeOK, StoreOK
<1>3. CASE UpsertMerge(w)
  <2> DEFINE i == writer[w].id
             q == IF Eligible(records[i]) THEN seq + 1 ELSE records[i].mseq
  <2>1. writer' \in [Writers -> WriterRows]
    BY <1>1, <1>3, IdleIsWriterRow DEF UpsertMerge
  <2>2. seq' \in Nat
    BY <1>1, <1>3 DEF UpsertMerge
  <2>3. records' \in [Ids -> Rows]
    <3>1. CASE i \in Ids /\ records[i].life = "stored"
      <4>1. q \in Nat
        BY <1>1, <3>1 DEF Rows
      <4>2. writer[w].sources \in SUBSET Sources /\ writer[w].meta \in MetaRows
        BY <1>1 DEF WriterRows
      <4> DEFINE m == [records[i] EXCEPT !.sources = writer[w].sources, !.meta = writer[w].meta,
                                         !.ver = @ + 1,
                                         !.mseq = IF Eligible(records[i]) THEN seq + 1 ELSE @]
      <4>3. [records[i] EXCEPT !.sources = writer[w].sources, !.meta = writer[w].meta,
                               !.ver = @ + 1, !.mseq = q] \in Rows
        BY <1>1, <3>1, <4>1, <4>2, MergeIsRow
      <4>4. m = [records[i] EXCEPT !.sources = writer[w].sources, !.meta = writer[w].meta,
                                   !.ver = @ + 1, !.mseq = q]
        BY <1>1, <3>1 DEF Rows
      <4>5. records' = [records EXCEPT ![i] = m]
        BY <1>3, <3>1, Zenon DEF UpsertMerge
      <4> HIDE DEF m
      <4> QED
        BY <1>1, <4>3, <4>4, <4>5
    <3>2. CASE ~(i \in Ids /\ records[i].life = "stored")
      BY <1>1, <1>3, <3>2 DEF UpsertMerge
    <3> QED
      BY <3>1, <3>2
  <2> QED
    BY <1>3, <2>1, <2>2, <2>3 DEF UpsertMerge, TypeOK, StoreOK
<1>4. CASE UpsertInsert(w)
  <2>1. writer' \in [Writers -> WriterRows]
    BY <1>1, <1>4, IdleIsWriterRow DEF UpsertInsert
  <2> DEFINE c == writer[w].claim
             f == Fresh(c, Norm[c], writer[w].sources, NoBatch, "current")
  <2>2. c \in Claims => f \in Rows
    BY <1>1, FreshIsRow, NormAssumption DEF TemporalStates, WriterRows
  <2>3. c \in Claims
    BY <1>1, <1>4 DEF UpsertInsert, WriterRows
  <2>4. records' = records \/ \E i \in Ids : records' = [records EXCEPT ![i] = f]
    BY <1>4 DEF UpsertInsert
  <2> HIDE DEF f
  <2>5. records' \in [Ids -> Rows]
    BY <1>1, <2>2, <2>3, <2>4
  <2> QED
    BY <1>4, <2>1, <2>5 DEF UpsertInsert, TypeOK, StoreOK
<1> QED
  BY <1>2, <1>3, <1>4 DEF Upsert

LEMMA GovernType ==
    ASSUME TypeOK, Govern
    PROVE  StoreOK'
<1>1. ASSUME NEW b \in Batches, NEW p \in Payloads, Persist(b, p)
      PROVE  StoreOK'
  BY <1>1, PersistType
<1>2. ASSUME NEW b \in Batches, BeginApply(b)
      PROVE  StoreOK'
  BY <1>2, BeginApplyType
<1>3. CASE AdoptNext
  BY <1>3, AdoptNextType DEF AdoptNext, tables, TypeOK, StoreOK
<1>4. CASE CommitApply
  BY <1>4, CommitApplyType
<1>5. CASE AbortApply
  BY <1>5, NoWorkIsWorkRow DEF AbortApply, tables, TypeOK, StoreOK
<1>6. ASSUME NEW b \in Batches, Undo(b)
      PROVE  StoreOK'
  BY <1>6, UndoType
<1>7. ASSUME NEW s \in Sources, Withdraw(s)
      PROVE  StoreOK'
  BY <1>7, WithdrawType
<1> QED
  BY <1>1, <1>2, <1>3, <1>4, <1>5, <1>6, <1>7 DEF Govern

LEMMA OthersType ==
    ASSUME TypeOK, Others
    PROVE  StoreOK'
<1>1. \A i \in Ids : records[i] \in Rows
  BY DEF TypeOK, StoreOK
<1>2. seq + 1 \in Nat
  BY DEF TypeOK, StoreOK
<1>3. ASSUME NEW i \in Ids, Forget(i)
      PROVE  StoreOK'
  BY <1>1, <1>2, <1>3, EditsAreRows, EditType DEF Forget
<1>4. ASSUME NEW i \in Ids, Delete(i)
      PROVE  StoreOK'
  BY <1>4, BlankIsRow, EditType DEF Delete
<1>5. ASSUME NEW i \in Ids, PatchArchive(i)
      PROVE  StoreOK'
  BY <1>1, <1>2, <1>5, EditsAreRows, EditType DEF PatchArchive
<1>6. ASSUME NEW i \in Ids, PatchRestore(i)
      PROVE  StoreOK'
  BY <1>1, <1>2, <1>6, EditsAreRows, EditType DEF PatchRestore
<1>7. ASSUME NEW i \in Ids, Quarantine(i)
      PROVE  StoreOK'
  BY <1>1, <1>2, <1>7, EditsAreRows, EditType DEF Quarantine
<1>8. ASSUME NEW i \in Ids, Promote(i)
      PROVE  StoreOK'
  BY <1>1, <1>2, <1>8, EditsAreRows, EditType DEF Promote
<1>9. ASSUME NEW w \in Writers, Upsert(w)
      PROVE  StoreOK'
  BY <1>9, UpsertType
<1> QED
  BY <1>3, <1>4, <1>5, <1>6, <1>7, <1>8, <1>9 DEF Others

LEMMA NextType ==
    ASSUME TypeOK, Next
    PROVE  TypeOK'
<1>1. StoreOK'
  BY GovernType, OthersType DEF Next
<1>2. edited' \in [Batches -> SUBSET Ids]
  <2>1. \A b \in Batches : edited[b] \in SUBSET Ids
    BY DEF TypeOK
  <2> QED
    BY <2>1 DEF Next, Track
<1> QED
  BY <1>1, <1>2 DEF TypeOK

\* Every reachable state of the tables, of an open transaction and of an upsert in
\* flight has the types the schema of memory_records and consolidation_proposals
\* declares, whatever the rows, the payloads and the number of writers.
THEOREM TypeCorrect == Spec => []TypeOK
<1>1. Init => TypeOK
  BY InitType
<1>2. TypeOK /\ [Next]_vars => TypeOK'
  <2> SUFFICES ASSUME TypeOK, [Next]_vars PROVE TypeOK'
    OBVIOUS
  <2>1. CASE Next
    BY <2>1, NextType
  <2>2. CASE UNCHANGED vars
    BY <2>2 DEF vars, tables, TypeOK, StoreOK
  <2> QED
    BY <2>1, <2>2
<1> QED
  BY <1>1, <1>2, PTL DEF Spec

----------------------------------------------------------------------------
(***************************************************************************)
(* That no claim is stored three times, that a withdrawal reaches every    *)
(* proposal persisted before it, and that the proposals table implements   *)
(* ProposalLedger.  The first needs the uncommitted view of an apply to be *)
(* as well keyed as the tables; the other two that an open apply           *)
(* transaction belongs to a proposal that is still validated.              *)
(***************************************************************************)

\* The inductive form of ClaimsHaveTwoRowsAtMost.
RowsAreKeyed == Keyed(records) /\ Keyed(work.records)

\* r is row q, or has its claim and its hash.
SameKey(q, r) == r.life = q.life /\ r.claim = q.claim /\ r.hash = q.hash

\* R2 stores no row R1 did not, and every row it keeps has its key.
KeepsClaims(R1, R2) == \A i \in Ids : R2[i].life = "stored" => SameKey(R1[i], R2[i])

LEMMA KeyedKept ==
    ASSUME NEW R1, NEW R2, Keyed(R1), KeepsClaims(R1, R2)
    PROVE  Keyed(R2)
BY DEF Keyed, KeepsClaims, SameKey

LEMMA KeyedInsert ==
    ASSUME NEW R \in [Ids -> Rows], NEW i \in Ids, NEW r \in Rows, Keyed(R),
           Hashed(R, r.hash) = {}, r.hash \in {r.claim, Norm[r.claim]}
    PROVE  Keyed([R EXCEPT ![i] = r])
BY DEF Keyed, Hashed

LEMMA ReusedKeepsClaim ==
    ASSUME NEW r \in Rows, NEW d, NEW s
    PROVE  SameKey(r, Reused(r, d, s))
BY DEF Reused, SameKey, Rows

\* An edit of row q to row r leaves what identifies it and its supersession alone;
\* the metadata is its own or what some upsert had read.  It counts, and a row it
\* brings within the scheduler's reach is sequenced.
Touched(q, r) ==
    /\ q.life = "stored" /\ SameKey(q, r) /\ q.ver < r.ver
    /\ ~Eligible(q) /\ Eligible(r) => seq < r.mseq
    /\ r.temporal = q.temporal /\ r.by = q.by /\ r.supersedes = q.supersedes
    /\ \/ r.meta.prev = q.meta.prev
       \/ \E w \in Writers : r.meta = writer[w].meta

\* What the other writers do to the table, one row at most at a time.
OthersStep ==
    \/ records' = records
    \/ \E i \in Ids : \E r \in Rows :
          /\ records' = [records EXCEPT ![i] = r]
          /\ r = Blank("deleted") \/ Touched(records[i], r)
    \/ \E i \in Ids : \E c \in Claims : \E S \in SUBSET Sources :
          /\ records[i].life = "free" /\ Hashed(records, Norm[c]) = {}
          /\ records' = [records EXCEPT ![i] = Fresh(c, Norm[c], S, NoBatch, "current")]

LEMMA EditIsTouched ==
    ASSUME NEW q \in Rows, seq \in Nat, q.life = "stored"
    PROVE  /\ Touched(q, [q EXCEPT !.archived = TRUE, !.ver = @ + 1])
           /\ Touched(q, [q EXCEPT !.archived = FALSE, !.ver = @ + 1, !.mseq = seq + 1])
           /\ Touched(q, [q EXCEPT !.trust = "quarantined", !.ver = @ + 1])
           /\ Touched(q, [q EXCEPT !.trust = "trusted", !.ver = @ + 1, !.mseq = seq + 1])
BY DEF Touched, SameKey, Rows, Eligible, Active

LEMMA PatchIsTouched ==
    ASSUME NEW q \in Rows, q.life = "stored"
    PROVE  Touched(q, [q EXCEPT !.archived = TRUE, !.ver = @ + 1, !.meta = [@ EXCEPT !.patch = TRUE]])
<1> DEFINE m == [q.meta EXCEPT !.patch = TRUE]
<1>1. q.meta \in MetaRows
  BY DEF Rows
<1>2. m.prev = q.meta.prev
  BY <1>1 DEF MetaRows
<1> HIDE DEF m
<1>3. Touched(q, [q EXCEPT !.archived = TRUE, !.ver = @ + 1, !.meta = m])
  BY <1>2 DEF Touched, SameKey, Rows, Eligible, Active
<1> QED
  BY <1>3 DEF m

LEMMA OthersIsOthersStep ==
    ASSUME TypeOK, Others
    PROVE  OthersStep /\ work' = work /\ lock' = lock /\ proposals' = proposals
           /\ withdrawn' = withdrawn /\ known' = known
<1>1. /\ records \in [Ids -> Rows] /\ writer \in [Writers -> WriterRows]
      /\ seq \in Nat /\ seq + 1 \in Nat /\ \A i \in Ids : records[i] \in Rows
  BY DEF TypeOK, StoreOK
<1> DEFINE Same == work' = work /\ lock' = lock /\ proposals' = proposals
                   /\ withdrawn' = withdrawn /\ known' = known
<1>2. ASSUME NEW i \in Ids, NEW r \in Rows, Edit(i, r),
             r = Blank("deleted") \/ (records[i].life = "stored" => Touched(records[i], r))
      PROVE  OthersStep /\ Same
  <2>1. records' = [records EXCEPT ![i] = r] /\ records[i].life = "stored" /\ Same
    BY <1>2 DEF Edit
  <2> QED
    BY <1>2, <2>1 DEF OthersStep
<1>3. ASSUME NEW i \in Ids, Forget(i)
      PROVE  OthersStep /\ Same
  BY <1>1, <1>2, <1>3, EditsAreRows, EditIsTouched DEF Forget
<1>4. ASSUME NEW i \in Ids, Delete(i)
      PROVE  OthersStep /\ Same
  BY <1>2, <1>4, BlankIsRow DEF Delete
<1>5. ASSUME NEW i \in Ids, PatchArchive(i)
      PROVE  OthersStep /\ Same
  BY <1>1, <1>2, <1>5, EditsAreRows, PatchIsTouched DEF PatchArchive
<1>6. ASSUME NEW i \in Ids, PatchRestore(i)
      PROVE  OthersStep /\ Same
  BY <1>1, <1>2, <1>6, EditsAreRows, EditIsTouched DEF PatchRestore
<1>7. ASSUME NEW i \in Ids, Quarantine(i)
      PROVE  OthersStep /\ Same
  BY <1>1, <1>2, <1>7, EditsAreRows, EditIsTouched DEF Quarantine
<1>8. ASSUME NEW i \in Ids, Promote(i)
      PROVE  OthersStep /\ Same
  BY <1>1, <1>2, <1>8, EditsAreRows, EditIsTouched DEF Promote
<1>9. ASSUME NEW w \in Writers, Upsert(w)
      PROVE  OthersStep /\ Same
  <2>1. ASSUME NEW c \in Claims, NEW S \in SUBSET Sources, UpsertRead(w, c, S)
        PROVE  OthersStep /\ Same
    BY <2>1 DEF UpsertRead, OthersStep, tables
  <2>2. CASE UpsertMerge(w)
    <3> DEFINE i == writer[w].id
               q == IF Eligible(records[i]) THEN seq + 1 ELSE records[i].mseq
               m == [records[i] EXCEPT !.sources = writer[w].sources, !.meta = writer[w].meta,
                                       !.ver = @ + 1,
                                       !.mseq = IF Eligible(records[i]) THEN seq + 1 ELSE @]
    <3>1. CASE records[i].life = "stored" /\ i \in Ids
      <4>1. q \in Nat
        BY <1>1, <3>1 DEF Rows
      <4>2. writer[w].sources \in SUBSET Sources /\ writer[w].meta \in MetaRows
        BY <1>1 DEF WriterRows
      <4>3. m = [records[i] EXCEPT !.sources = writer[w].sources, !.meta = writer[w].meta,
                                   !.ver = @ + 1, !.mseq = q]
        BY <1>1, <3>1 DEF Rows
      <4>4. m \in Rows
        BY <1>1, <3>1, <4>1, <4>2, <4>3, MergeIsRow
      <4>5. Touched(records[i], m)
        BY <1>1, <3>1, <4>3 DEF Touched, SameKey, Rows, Eligible, Active
      <4>6. records' = [records EXCEPT ![i] = m]
        BY <2>2, <3>1, Zenon DEF UpsertMerge
      <4> HIDE DEF m
      <4>7. OthersStep
        BY <3>1, <4>4, <4>5, <4>6 DEF OthersStep
      <4> QED
        BY <2>2, <4>7 DEF UpsertMerge
    <3>2. CASE ~(records[i].life = "stored" /\ i \in Ids)
      <4>1. records' = records
        BY <1>1, <2>2, <3>2 DEF UpsertMerge
      <4> QED
        BY <2>2, <4>1 DEF UpsertMerge, OthersStep
    <3> QED
      BY <3>1, <3>2
  <2>3. CASE UpsertInsert(w)
    <3>1. writer[w].claim \in Claims /\ writer[w].sources \in SUBSET Sources
      BY <1>1, <2>3 DEF WriterRows, UpsertInsert
    <3> QED
      BY <2>3, <3>1 DEF UpsertInsert, OthersStep
  <2> QED
    BY <1>9, <2>1, <2>2, <2>3 DEF Upsert
<1> QED
  BY <1>3, <1>4, <1>5, <1>6, <1>7, <1>8, <1>9 DEF Others

LEMMA RestoredKeepsClaim ==
    ASSUME NEW r \in Rows, NEW s
    PROVE  SameKey(r, Restored(r, s))
BY DEF Restored, SameKey, Rows

LEMMA ReplaceKeepsClaims ==
    ASSUME NEW R \in [Ids -> Rows], NEW b, NEW n, NEW T
    PROVE  KeepsClaims(R, Replace(R, b, n, T))
<1> SUFFICES ASSUME NEW i \in Ids
             PROVE  SameKey(R[i], Replace(R, b, n, T)[i])
  BY DEF KeepsClaims
<1>1. R[i] \in Rows
  OBVIOUS
<1>2. SameKey(R[i], Superseded(R[i], n, b))
  BY <1>1 DEF Superseded, SameKey, Rows
<1>3. SameKey(R[i], [R[i] EXCEPT !.supersedes = @ \cup T])
  BY <1>1 DEF SameKey, Rows
<1>4. SameKey(R[i], R[i])
  BY DEF SameKey
<1> QED
  BY <1>2, <1>3, <1>4 DEF Replace

LEMMA AdoptIntoKeyed ==
    ASSUME NEW R \in [Ids -> Rows], NEW d, NEW n, NEW s, NEW z,
           Keyed(R), AdoptInto(R, d, n, s, z)
    PROVE  Keyed(work'.records)
<1>1. work'.records = Replace(R, lock, n, d.supersedes \ {n})
  BY DEF AdoptInto
<1> QED
  BY <1>1, ReplaceKeepsClaims, KeyedKept

LEMMA AdoptNextKeyed ==
    ASSUME TypeOK, AdoptNext, RowsAreKeyed
    PROVE  RowsAreKeyed'
<1> DEFINE d == Decisions(lock)[work.next]
           s == IF work.bumped THEN work.seq ELSE work.seq + 1
           R == work.records
<1>1. lock \in Batches /\ d \in Decision
  BY DecisionOfLock DEF AdoptNext
<1>2. R \in [Ids -> Rows] /\ s \in Nat /\ work \in WorkRows /\ Keyed(R)
  BY DEF TypeOK, StoreOK, WorkRows, RowsAreKeyed
<1>3. ASSUME work' = [work EXCEPT !.next = @ + 1]
      PROVE  Keyed(work'.records)
  <2>1. work'.records = R
    BY <1>2, <1>3 DEF WorkRows
  <2> QED
    BY <1>2, <2>1
<1>4. ASSUME NEW i \in Reusable(R, d), AdoptInto([R EXCEPT ![i] = Reused(@, d, s)], d, i, s, TRUE)
      PROVE  Keyed(work'.records)
  <2>1. i \in Ids
    BY <1>4, ReusableIsCurrent
  <2>2. Reused(R[i], d, s) \in Rows
    BY <1>1, <1>2, <2>1, ReusedIsRow
  <2>3. KeepsClaims(R, [R EXCEPT ![i] = Reused(@, d, s)])
    BY <1>2, <2>1, ReusedKeepsClaim DEF KeepsClaims, SameKey
  <2>4. [R EXCEPT ![i] = Reused(@, d, s)] \in [Ids -> Rows]
    BY <1>2, <2>1, <2>2
  <2> HIDE DEF R, d, s
  <2> QED
    BY <1>2, <1>4, <2>3, <2>4, KeyedKept, AdoptIntoKeyed
<1>5. ASSUME Hashed(R, d.claim) = {}, NEW i \in Ids,
             AdoptInto([R EXCEPT ![i] = Adopted(d, lock)], d, i, work.seq, work.bumped)
      PROVE  Keyed(work'.records)
  <2> DEFINE f == Adopted(d, lock)
  <2>1. f \in Rows
    BY <1>1, AdoptedIsRow
  <2>2. f.claim = d.claim /\ f.hash = d.claim
    BY DEF Adopted, Fresh
  <2> HIDE DEF f, d, R
  <2>3. Keyed([R EXCEPT ![i] = f])
    BY <1>2, <1>5, <2>1, <2>2, KeyedInsert
  <2>4. [R EXCEPT ![i] = f] \in [Ids -> Rows]
    BY <1>2, <2>1
  <2> QED
    BY <1>5, <2>3, <2>4, AdoptIntoKeyed DEF f
<1>6. Keyed(work'.records)
  BY <1>3, <1>4, <1>5, Zenon DEF AdoptNext
<1>7. records' = records
  BY DEF AdoptNext, tables
<1> QED
  BY <1>6, <1>7 DEF RowsAreKeyed, Keyed

LEMMA NextKeyed ==
    ASSUME TypeOK, RowsAreKeyed, Next
    PROVE  RowsAreKeyed'
<1>1. /\ records \in [Ids -> Rows] /\ work \in WorkRows /\ work.records \in [Ids -> Rows]
      /\ writer \in [Writers -> WriterRows] /\ Keyed(records) /\ Keyed(work.records)
      /\ \A i \in Ids : records[i] \in Rows
  BY DEF TypeOK, StoreOK, WorkRows, RowsAreKeyed
<1>2. Keyed(NoWork.records)
  BY DEF NoWork, Blank, Fresh, Keyed
<1> USE DEF RowsAreKeyed
<1>3. ASSUME NEW b \in Batches, NEW p \in Payloads, Persist(b, p)
      PROVE  RowsAreKeyed'
  BY <1>1, <1>3 DEF Persist, Keyed
<1>4. ASSUME NEW b \in Batches, BeginApply(b)
      PROVE  RowsAreKeyed'
  <2>1. records' = records /\ work'.records = records
    BY <1>4 DEF BeginApply, tables
  <2> QED
    BY <1>1, <2>1 DEF Keyed
<1>5. CASE AdoptNext
  BY <1>5, AdoptNextKeyed
<1>6. CASE CommitApply
  <2>1. records' = work.records /\ work' = NoWork
    BY <1>6 DEF CommitApply
  <2> QED
    BY <1>1, <1>2, <2>1 DEF Keyed
<1>7. CASE AbortApply
  <2>1. records' = records /\ work' = NoWork
    BY <1>7 DEF AbortApply, tables
  <2> QED
    BY <1>1, <1>2, <2>1 DEF Keyed
<1>8. ASSUME NEW R \in [Ids -> Rows], records' = R, KeepsClaims(records, R), work' = work
      PROVE  RowsAreKeyed'
  <2>1. Keyed(records') /\ Keyed(work'.records)
    BY <1>1, <1>8, KeyedKept
  <2> QED
    BY <2>1 DEF Keyed
<1>9. ASSUME NEW b \in Batches, Undo(b)
      PROVE  RowsAreKeyed'
  <2>1. KeepsClaims(records, records')
    <3> SUFFICES ASSUME NEW i \in Ids
                 PROVE  SameKey(records[i], records'[i])
      BY DEF KeepsClaims
    <3>1. SameKey(records[i], Restored(records[i], seq + 1))
      BY <1>1, RestoredKeepsClaim
    <3> DEFINE h == [records[i] EXCEPT !.archived = TRUE, !.temporal = "historical", !.ver = @ + 1]
    <3>2. SameKey(records[i], h) /\ SameKey(records[i], records[i])
      BY <1>1 DEF SameKey, Rows
    <3>3. records'[i] \in {records[i], h, Restored(records[i], seq + 1)}
      BY <1>9 DEF Undo
    <3> HIDE DEF h
    <3> QED
      BY <3>1, <3>2, <3>3
  <2>2. records' \in [Ids -> Rows] /\ work' = work
    BY <1>9, UndoType DEF Undo, StoreOK
  <2> QED
    BY <1>8, <2>1, <2>2
<1>10. ASSUME NEW s \in Sources, Withdraw(s)
       PROVE  RowsAreKeyed'
  <2>1. KeepsClaims(records, records')
    <3> SUFFICES ASSUME NEW i \in Ids
                 PROVE  SameKey(records[i], records'[i])
      BY DEF KeepsClaims
    <3> DEFINE h == [records[i] EXCEPT !.archived = TRUE, !.temporal = "invalidated", !.ver = @ + 1]
    <3>2. SameKey(records[i], h) /\ SameKey(records[i], records[i])
      BY <1>1 DEF SameKey, Rows
    <3>3. records'[i] \in {records[i], h}
      BY <1>10 DEF Withdraw
    <3> HIDE DEF h
    <3> QED
      BY <3>2, <3>3
  <2>2. records' \in [Ids -> Rows] /\ work' = work
    BY <1>10, WithdrawType DEF Withdraw, StoreOK
  <2> QED
    BY <1>8, <2>1, <2>2
<1>11. CASE Others
  <2>1. OthersStep /\ work' = work
    BY <1>11, OthersIsOthersStep
  <2>2. ASSUME NEW i \in Ids, NEW r \in Rows, records' = [records EXCEPT ![i] = r],
               r = Blank("deleted") \/ Touched(records[i], r)
        PROVE  RowsAreKeyed'
    <3>1. KeepsClaims(records, [records EXCEPT ![i] = r])
      BY <1>1, <2>2 DEF KeepsClaims, SameKey, Touched, Blank, Fresh
    <3>2. [records EXCEPT ![i] = r] \in [Ids -> Rows]
      BY <1>1
    <3> QED
      BY <1>8, <2>1, <2>2, <3>1, <3>2
  <2>3. ASSUME NEW i \in Ids, NEW c \in Claims, NEW S \in SUBSET Sources,
               Hashed(records, Norm[c]) = {},
               records' = [records EXCEPT ![i] = Fresh(c, Norm[c], S, NoBatch, "current")]
        PROVE  RowsAreKeyed'
    <3> DEFINE f == Fresh(c, Norm[c], S, NoBatch, "current")
    <3>1. f \in Rows /\ f.claim = c /\ f.hash = Norm[c]
      BY FreshIsRow, NormAssumption DEF Fresh, TemporalStates
    <3> HIDE DEF f
    <3>2. Keyed([records EXCEPT ![i] = f])
      BY <1>1, <2>3, <3>1, KeyedInsert
    <3>3. Keyed(records')
      BY <2>3, <3>2 DEF f
    <3> QED
      BY <1>1, <2>1, <3>3 DEF Keyed
  <2>4. CASE records' = records
    BY <1>1, <2>1, <2>4 DEF Keyed
  <2> QED
    BY <2>1, <2>2, <2>3, <2>4 DEF OthersStep
<1> QED
  BY <1>3, <1>4, <1>5, <1>6, <1>7, <1>9, <1>10, <1>11 DEF Next, Govern

LEMMA KeyedAlways == Spec => []RowsAreKeyed
<1>1. Init => RowsAreKeyed
  <2> SUFFICES ASSUME Init PROVE Keyed(records) /\ Keyed(work.records)
    BY DEF RowsAreKeyed
  <2>1. Keyed(work.records)
    BY DEF Init, NoWork, Blank, Fresh, Keyed
  <2>2. ASSUME NEW i \in Ids
        PROVE  records[i].life = "stored" =>
                  /\ i \in DOMAIN Seed /\ records[i].claim = Seed[i].claim
                  /\ records[i].hash = Norm[Seed[i].claim]
    BY DEF Init, Blank, Fresh
  <2>3. Keyed(records)
    BY <2>2, SeedAssumption DEF Keyed
  <2> QED
    BY <2>1, <2>3
<1>2. TypeOK /\ RowsAreKeyed /\ [Next]_vars => RowsAreKeyed'
  <2> SUFFICES ASSUME TypeOK, RowsAreKeyed, [Next]_vars PROVE RowsAreKeyed'
    OBVIOUS
  <2>1. CASE UNCHANGED vars
    BY <2>1 DEF vars, tables, RowsAreKeyed, Keyed
  <2> QED
    BY <2>1, NextKeyed
<1> QED
  BY <1>1, <1>2, TypeCorrect, PTL DEF Spec
\* Whatever upserts missed when they looked and whatever a batch inserts meanwhile, a
\* claim has at most the two rows its two hashes allow.
THEOREM ClaimsKeepTwoRowsAtMost == Spec => []ClaimsHaveTwoRowsAtMost
<1>1. RowsAreKeyed => ClaimsHaveTwoRowsAtMost
  BY DEF RowsAreKeyed, Keyed, ClaimsHaveTwoRowsAtMost
<1> QED
  BY <1>1, KeyedAlways, PTL

----------------------------------------------------------------------------
(* Withdrawn evidence, and the ledger *)

\* An open apply transaction belongs to a validated proposal: the write lock keeps
\* the withdrawal that would reject it out.
LockedIsValidated == lock # NoBatch => lock \in Batches /\ proposals[lock].status = "validated"

Live == {"validated", "applied"}

\* What makes the withdrawal property inductive: it already holds of a proposal that
\* is only waiting.
LiveCitesNoNewlyWithdrawn ==
    \A b \in Batches : proposals[b].status \in Live =>
        Cited(proposals[b].payload) \cap withdrawn \subseteq known[b]

Governed == LockedIsValidated /\ LiveCitesNoNewlyWithdrawn

LEMMA WithdrawGoverned ==
    ASSUME TypeOK, NEW s \in Sources, Withdraw(s), Governed
    PROVE  Governed'
<1>1. /\ lock' = lock /\ lock = NoBatch /\ known' = known /\ withdrawn' = withdrawn \cup {s}
      /\ proposals' = [b \in Batches |->
            IF Rejects(b, s) THEN [proposals[b] EXCEPT !.status = "rejected"] ELSE proposals[b]]
  BY DEF Withdraw
<1>2. ASSUME NEW b \in Batches, proposals'[b].status \in Live
      PROVE  Cited(proposals'[b].payload) \cap withdrawn' \subseteq known[b]
  <2>1. proposals[b] \in PropRows
    BY DEF TypeOK, StoreOK
  <2>2. ~Rejects(b, s)
    BY <1>1, <1>2, <2>1 DEF PropRows, Live
  <2>3. proposals'[b] = proposals[b]
    BY <1>1, <2>2
  <2>4. s \notin Cited(proposals[b].payload)
    BY <1>2, <2>2, <2>3 DEF Rejects, Live
  <2> QED
    BY <1>1, <1>2, <2>3, <2>4 DEF Governed, LiveCitesNoNewlyWithdrawn
<1> QED
  BY <1>1, <1>2 DEF Governed, LockedIsValidated, LiveCitesNoNewlyWithdrawn

LEMMA NextGoverned ==
    ASSUME TypeOK, Governed, Next
    PROVE  Governed'
<1>1. /\ proposals \in [Batches -> PropRows] /\ known \in [Batches -> SUBSET Sources]
      /\ \A b \in Batches : proposals[b] \in PropRows
  BY DEF TypeOK, StoreOK
<1> USE DEF Governed, LockedIsValidated, LiveCitesNoNewlyWithdrawn
<1>2. ASSUME NEW b \in Batches, NEW p \in Payloads, Persist(b, p)
      PROVE  Governed'
  BY <1>1, <1>2 DEF Persist
<1>3. ASSUME NEW b \in Batches, BeginApply(b)
      PROVE  Governed'
  BY <1>3 DEF BeginApply, tables
<1>4. CASE AdoptNext
  BY <1>4 DEF AdoptNext, tables
<1>5. CASE CommitApply
  <2>1. \A b \in Batches : /\ proposals'[b].payload = proposals[b].payload
                           /\ proposals[b].status = "validated" \/ b # lock
                           /\ b # lock => proposals'[b] = proposals[b]
    BY <1>1, <1>5 DEF CommitApply, PropRows
  <2> QED
    BY <1>5, <2>1 DEF CommitApply, Live
<1>6. CASE AbortApply
  BY <1>6 DEF AbortApply, tables
<1>7. ASSUME NEW b \in Batches, Undo(b)
      PROVE  Governed'
  <2>1. proposals' = [proposals EXCEPT ![b].status = "reverted"]
    BY <1>7 DEF Undo
  <2>2. \A c \in Batches : proposals'[c].status \in Live => proposals'[c] = proposals[c]
    BY <1>1, <2>1 DEF PropRows, Live
  <2> QED
    BY <1>7, <2>2 DEF Undo
<1>8. ASSUME NEW s \in Sources, Withdraw(s)
      PROVE  Governed'
  BY <1>8, WithdrawGoverned
<1>9. CASE Others
  BY <1>9, OthersIsOthersStep
<1> QED
  BY <1>2, <1>3, <1>4, <1>5, <1>6, <1>7, <1>8, <1>9 DEF Next, Govern

LEMMA GovernedAlways == Spec => []Governed
<1>1. Init => Governed
  BY DEF Init, Governed, LockedIsValidated, LiveCitesNoNewlyWithdrawn, Absent, Live
<1>2. TypeOK /\ Governed /\ [Next]_vars => Governed'
  <2> SUFFICES ASSUME TypeOK, Governed, [Next]_vars PROVE Governed'
    OBVIOUS
  <2>1. CASE UNCHANGED vars
    BY <2>1 DEF vars, tables, Governed, LockedIsValidated, LiveCitesNoNewlyWithdrawn
  <2> QED
    BY <2>1, NextGoverned
<1> QED
  BY <1>1, <1>2, TypeCorrect, PTL DEF Spec

\* Withdrawing a source reaches every proposal that was persisted before it, even
\* one whose apply was under way or already committed.
THEOREM WithdrawalReachesProposals == Spec => []NoAppliedProposalCitesWithdrawn
<1>1. Governed => NoAppliedProposalCitesWithdrawn
  BY DEF Governed, LiveCitesNoNewlyWithdrawn, NoAppliedProposalCitesWithdrawn, Live
<1> QED
  BY <1>1, GovernedAlways, PTL

LEMMA NextIsLedgerStep ==
    ASSUME TypeOK, Governed, Next
    PROVE  L!Next \/ LedgerRows' = LedgerRows
<1>1. /\ proposals \in [Batches -> PropRows]
      /\ \A b \in Batches : proposals[b] \in PropRows
  BY DEF TypeOK, StoreOK
<1> DEFINE G == L!Next \/ LedgerRows' = LedgerRows
<1>2. ASSUME NEW b \in Batches, NEW p \in Payloads, Persist(b, p)
      PROVE  G
  <2>1. L!Submit(b, p)
    BY <1>1, <1>2 DEF Persist, LedgerRows, L!Submit, L!Row
  <2> QED
    BY <2>1 DEF L!Next
<1>3. ASSUME proposals' = proposals
      PROVE  G
  BY <1>3 DEF LedgerRows
<1>4. ASSUME CommitApply
      PROVE  G
  <2>1. lock \in Batches /\ proposals[lock].status = "validated"
    BY <1>4 DEF CommitApply, Governed, LockedIsValidated
  <2>2. \A b \in Batches : /\ proposals'[b].payload = proposals[b].payload
                           /\ proposals'[b].status = IF b = lock THEN "applied"
                                                     ELSE proposals[b].status
    BY <1>1, <1>4 DEF CommitApply, PropRows
  <2>3. L!Adopt(lock)
    BY <2>1, <2>2 DEF LedgerRows, L!Adopt
  <2> QED
    BY <2>1, <2>3 DEF L!Next
<1>5. ASSUME NEW b \in Batches, Undo(b)
      PROVE  G
  <2>1. proposals[b].status = "applied"
    BY <1>5 DEF Undo
  <2>2. \A c \in Batches : /\ proposals'[c].payload = proposals[c].payload
                           /\ proposals'[c].status = IF c = b THEN "reverted"
                                                     ELSE proposals[c].status
    BY <1>1, <1>5 DEF Undo, PropRows
  <2>3. L!TakeBack(b)
    BY <2>1, <2>2 DEF LedgerRows, L!TakeBack
  <2> QED
    BY <2>3 DEF L!Next
<1>6. ASSUME NEW s \in Sources, Withdraw(s)
      PROVE  G
  <2> DEFINE B == {b \in Batches : Rejects(b, s)}
  <2>1. \A b \in B : proposals[b].status \in {"validated", "applied", "rejected"}
    BY <1>1 DEF Rejects, PropRows, Statuses
  <2>2. \A b \in Batches : /\ proposals'[b].payload = proposals[b].payload
                           /\ proposals'[b].status = IF b \in B THEN "rejected"
                                                     ELSE proposals[b].status
    BY <1>1, <1>6 DEF Withdraw, PropRows
  <2>3. B \in SUBSET Batches
    OBVIOUS
  <2> HIDE DEF B
  <2>4. L!Reject(B)
    BY <2>1, <2>2, <2>3 DEF LedgerRows, L!Reject
  <2> QED
    BY <2>3, <2>4 DEF L!Next
<1> SUFFICES G
  OBVIOUS
<1> HIDE DEF G
<1>7. CASE Others
  BY <1>3, <1>7, OthersIsOthersStep
<1>8. ASSUME NEW b \in Batches, BeginApply(b)
      PROVE  G
  BY <1>3, <1>8 DEF BeginApply, tables
<1>9. CASE AdoptNext
  BY <1>3, <1>9 DEF AdoptNext, tables
<1>10. CASE AbortApply
  BY <1>3, <1>10 DEF AbortApply, tables
<1> QED
  BY <1>2, <1>4, <1>5, <1>6, <1>7, <1>8, <1>9, <1>10 DEF Next, Govern

\* The table of proposals, moved by persist, apply, undo and withdraw among all the
\* other writers, implements the ledger a reader of it relies on.
THEOREM ImplementsLedger == Spec => Ledger
<1>1. Init => L!Init
  BY DEF Init, L!Init, L!Row, LedgerRows, Absent
<1>2. TypeOK /\ Governed /\ [Next]_vars => [L!Next]_LedgerRows
  <2> SUFFICES ASSUME TypeOK, Governed, [Next]_vars PROVE L!Next \/ LedgerRows' = LedgerRows
    OBVIOUS
  <2>1. CASE UNCHANGED vars
    BY <2>1 DEF vars, tables, LedgerRows
  <2> QED
    BY <2>1, NextIsLedgerStep
<1> QED
  BY <1>1, <1>2, TypeCorrect, GovernedAlways, PTL DEF Spec, Ledger, L!Spec
----------------------------------------------------------------------------
(* Supersession stays mutual and never runs in a circle.  Neither is       *)
(* inductive: both need that a current row is superseded by nobody, that   *)
(* what an undo reads back from a row's metadata (or what a stale upsert   *)
(* writes there) is a current row's state, and that a free id supersedes   *)
(* nothing; and they need all of it of the uncommitted view as well.       *)

PrevOK(m) == m.prev.saved => m.prev.temporal = "current" /\ m.prev.by = NoId

Sane(r) == /\ r.temporal = "current" => r.by = NoId
           /\ r.life = "free" => r.supersedes = {}
           /\ PrevOK(r.meta)

Chained(R) == (\A i \in Ids : Sane(R[i])) /\ Mutual(R) /\ Ends(R)

Supersession == /\ Chained(records) /\ Chained(work.records)
                /\ \A w \in Writers : PrevOK(writer[w].meta)

\* From row q to row r no supersession appears, and none that q answers for is lost.
Settles(q, r) ==
    /\ q.life = "deleted" => r.life = "deleted"
    /\ r.life = "deleted" \/ q.supersedes \subseteq r.supersedes
    /\ r.temporal = "superseded" /\ r.by # NoId =>
          /\ q.temporal = "superseded" /\ q.by = r.by
          /\ r.life = "stored" => q.life = "stored"
    /\ Sane(r)

LEMMA SettledChain ==
    ASSUME NEW R1 \in [Ids -> Rows], NEW R2, Chained(R1),
           \A i \in Ids : Settles(R1[i], R2[i])
    PROVE  Chained(R2)
<1>1. Mutual(R2)
  <2> SUFFICES ASSUME NEW i \in Ids, R2[i].life = "stored", R2[i].temporal = "superseded",
                      R2[i].by # NoId
               PROVE  R2[R2[i].by].life = "deleted" \/ i \in R2[R2[i].by].supersedes
    BY DEF Mutual
  <2> DEFINE y == R2[i].by
  <2>1. R1[i].life = "stored" /\ R1[i].temporal = "superseded" /\ R1[i].by = y
    BY DEF Settles
  <2>2. y \in Ids
    BY <2>1 DEF Rows
  <2>3. R1[y].life = "deleted" \/ i \in R1[y].supersedes
    BY <2>1 DEF Chained, Mutual
  <2> QED
    BY <2>2, <2>3 DEF Settles
<1>2. Ends(R2)
  <2> SUFFICES ASSUME NEW S \in (SUBSET Ids) \ {{}},
                      \A i \in S : R2[i].temporal = "superseded" /\ R2[i].by \in S
               PROVE  FALSE
    BY DEF Ends
  <2>1. \A i \in S : R1[i].temporal = "superseded" /\ R1[i].by \in S
    BY ConstantsAssumption DEF Settles
  <2> QED
    BY <2>1 DEF Chained, Ends
<1> QED
  BY <1>1, <1>2 DEF Chained, Settles

LEMMA SupersededFields ==
    ASSUME NEW r \in Rows, NEW n \in Ids, NEW b \in Batches
    PROVE  /\ Superseded(r, n, b).by = n /\ Superseded(r, n, b).temporal = "superseded"
           /\ Superseded(r, n, b).life = r.life
           /\ Superseded(r, n, b).supersedes = r.supersedes
           /\ Superseded(r, n, b).meta.prev.temporal = r.temporal
           /\ Superseded(r, n, b).meta.prev.by = r.by
<1> DEFINE p == [saved |-> TRUE, archived |-> r.archived, temporal |-> r.temporal,
                 by |-> r.by, batch |-> r.meta.batch, link |-> r.meta.link,
                 patch |-> r.meta.patch]
           m == [r.meta EXCEPT !.link = b, !.prev = p]
           v == r.ver + 1
<1>1. r.meta \in MetaRows
  BY DEF Rows
<1>2. p.temporal = r.temporal /\ p.by = r.by
  OBVIOUS
<1>3. Superseded(r, n, b) =
        [r EXCEPT !.archived = TRUE, !.temporal = "superseded", !.by = n, !.ver = v, !.meta = m]
  BY DEF Superseded, Rows
<1> HIDE DEF p
<1>4. m.prev = p
  BY <1>1 DEF MetaRows
<1> HIDE DEF m, v
<1>5. /\ Superseded(r, n, b).by = n /\ Superseded(r, n, b).temporal = "superseded"
      /\ Superseded(r, n, b).life = r.life /\ Superseded(r, n, b).supersedes = r.supersedes
      /\ Superseded(r, n, b).meta = m
  BY <1>3 DEF Rows
<1> QED
  BY <1>2, <1>4, <1>5

LEMMA ReplaceChained ==
    ASSUME NEW R \in [Ids -> Rows], Chained(R), NEW b \in Batches, NEW n \in Ids,
           NEW T \in SUBSET Ids, n \notin T, R[n].by = NoId, R[n].life = "stored",
           \A t \in T : Current(R[t])
    PROVE  Chained(Replace(R, b, n, T))
<1> DEFINE V == Replace(R, b, n, T)
<1>1. \A t \in T : V[t] = Superseded(R[t], n, b)
  BY DEF Replace
<1>2. V[n] = [R[n] EXCEPT !.supersedes = @ \cup T]
  BY DEF Replace
<1>3. \A i \in Ids \ (T \cup {n}) : V[i] = R[i]
  BY DEF Replace
<1>4. \A i \in Ids : R[i] \in Rows /\ R[i].meta \in MetaRows
  BY DEF Rows
<1> HIDE DEF V
<1>5. ASSUME NEW t \in T
      PROVE  /\ V[t].by = n /\ V[t].temporal = "superseded" /\ V[t].life = "stored"
             /\ V[t].supersedes = R[t].supersedes /\ Sane(V[t])
  <2>1. /\ V[t].by = n /\ V[t].temporal = "superseded" /\ V[t].life = R[t].life
        /\ V[t].supersedes = R[t].supersedes
        /\ V[t].meta.prev.temporal = R[t].temporal /\ V[t].meta.prev.by = R[t].by
    BY <1>1, <1>4, SupersededFields
  <2>2. R[t].life = "stored" /\ R[t].temporal = "current" /\ R[t].by = NoId
    BY <1>4 DEF Chained, Sane, Current, Active
  <2> QED
    BY <2>1, <2>2 DEF Sane, PrevOK
<1>6. /\ V[n].by = NoId /\ V[n].life = "stored" /\ V[n].supersedes = R[n].supersedes \cup T
      /\ V[n].temporal = R[n].temporal /\ V[n].meta = R[n].meta
  BY <1>2, <1>4 DEF Rows
<1>7. \A i \in Ids : Sane(V[i])
  BY <1>3, <1>5, <1>6 DEF Chained, Sane
<1>8. Mutual(V)
  <2> SUFFICES ASSUME NEW i \in Ids, V[i].life = "stored", V[i].temporal = "superseded",
                      V[i].by # NoId
               PROVE  V[V[i].by].life = "deleted" \/ i \in V[V[i].by].supersedes
    BY DEF Mutual
  <2>1. CASE i \in T
    BY <1>5, <1>6, <2>1
  <2>2. CASE i \notin T
    <3> DEFINE y == R[i].by
    <3>1. V[i] = R[i] /\ y \in Ids
      BY <1>3, <1>4, <1>6, <2>2 DEF Rows
    <3>2. R[y].life = "deleted" \/ i \in R[y].supersedes
      BY <3>1 DEF Chained, Mutual
    <3>3. V[y].life = R[y].life /\ R[y].supersedes \subseteq V[y].supersedes
      BY <1>3, <1>5, <1>6, <3>1 DEF Current, Active
    <3> QED
      BY <3>1, <3>2, <3>3
  <2> QED
    BY <2>1, <2>2
<1>9. Ends(V)
  <2> SUFFICES ASSUME NEW S \in (SUBSET Ids) \ {{}},
                      \A i \in S : V[i].temporal = "superseded" /\ V[i].by \in S
               PROVE  FALSE
    BY DEF Ends
  <2>1. n \notin S
    BY <1>6, ConstantsAssumption
  <2>2. \A i \in S : i \notin T
    BY <1>5, <2>1
  <2>3. \A i \in S : R[i].temporal = "superseded" /\ R[i].by \in S
    BY <1>3, <2>1, <2>2
  <2> QED
    BY <2>3 DEF Chained, Ends
<1> QED
  BY <1>7, <1>8, <1>9 DEF Chained, V

\* A row whose state is untouched, or which is superseded by nobody, settles.
LEMMA SameStateSettles ==
    ASSUME NEW q, NEW r, Sane(q), r.life = q.life, r.temporal = q.temporal, r.by = q.by,
           r.supersedes = q.supersedes, PrevOK(r.meta)
    PROVE  Settles(q, r)
BY DEF Settles, Sane

LEMMA AdoptedChained ==
    ASSUME NEW R \in [Ids -> Rows], NEW r \in Rows, NEW n \in Ids, NEW d \in Decision,
           NEW s, NEW z, lock \in Batches, Chained(R), Settles(R[n], r), r.by = NoId,
           r.life = "stored", AdoptInto([R EXCEPT ![n] = r], d, n, s, z)
    PROVE  Chained(work'.records)
<1> DEFINE Q == [R EXCEPT ![n] = r]
           T == d.supersedes \ {n}
<1>1. Q \in [Ids -> Rows]
  OBVIOUS
<1>2. \A i \in Ids : Settles(R[i], Q[i])
  <2>1. \A i \in Ids : Settles(R[i], R[i])
    BY SameStateSettles DEF Chained, Sane
  <2> QED
    BY <2>1
<1>3. Q[n] = r
  OBVIOUS
<1>4. T \in SUBSET Ids /\ n \notin T
  BY DEF Decision
<1>5. work'.records = Replace(Q, lock, n, T) /\ Replaceable(Q, lock, T)
  BY DEF AdoptInto
<1> HIDE DEF Q, T
<1>6. Chained(Q)
  BY <1>1, <1>2, SettledChain
<1> QED
  BY <1>1, <1>3, <1>4, <1>5, <1>6, ReplaceChained DEF Replaceable

LEMMA AdoptNextSupersession ==
    ASSUME TypeOK, AdoptNext, Supersession
    PROVE  Supersession'
<1> DEFINE d == Decisions(lock)[work.next]
           s == IF work.bumped THEN work.seq ELSE work.seq + 1
           R == work.records
<1>1. lock \in Batches /\ d \in Decision
  BY DecisionOfLock DEF AdoptNext
<1>2. /\ R \in [Ids -> Rows] /\ s \in Nat /\ work \in WorkRows /\ Chained(R)
      /\ \A i \in Ids : R[i] \in Rows
  BY DEF TypeOK, StoreOK, WorkRows, Supersession
<1>3. ASSUME work' = [work EXCEPT !.next = @ + 1]
      PROVE  Chained(work'.records)
  <2>1. work'.records = R
    BY <1>2, <1>3 DEF WorkRows
  <2> QED
    BY <1>2, <2>1
<1>4. ASSUME NEW i \in Reusable(R, d), AdoptInto([R EXCEPT ![i] = Reused(@, d, s)], d, i, s, TRUE)
      PROVE  Chained(work'.records)
  <2> DEFINE r == Reused(R[i], d, s)
  <2>1. i \in Ids /\ R[i].life = "stored" /\ R[i].temporal = "current"
    BY <1>4, ReusableIsCurrent
  <2>2. r \in Rows
    BY <1>1, <1>2, <2>1, ReusedIsRow
  <2>3. /\ r.life = R[i].life /\ r.by = R[i].by /\ r.supersedes = R[i].supersedes
        /\ r.meta = R[i].meta
    BY <1>2, <2>1 DEF Reused, Rows
  <2>4. AdoptInto([R EXCEPT ![i] = r], d, i, s, TRUE)
    BY <1>4
  <2> HIDE DEF r, R, d, s
  <2>5. Sane(R[i]) /\ R[i].by = NoId
    BY <1>2, <2>1 DEF Chained, Sane
  <2>6. Settles(R[i], r) /\ r.by = NoId /\ r.life = "stored"
    BY <2>1, <2>3, <2>5 DEF Settles, Sane
  <2> QED
    BY <1>1, <1>2, <2>1, <2>2, <2>4, <2>6, AdoptedChained
<1>5. ASSUME NEW i \in Ids, R[i].life = "free",
             AdoptInto([R EXCEPT ![i] = Adopted(d, lock)], d, i, work.seq, work.bumped)
      PROVE  Chained(work'.records)
  <2> DEFINE f == Adopted(d, lock)
  <2>1. f \in Rows
    BY <1>1, AdoptedIsRow
  <2>2. f.life = "stored" /\ f.by = NoId /\ PrevOK(f.meta)
    BY DEF Adopted, Fresh, Metadata, NoPrev, PrevOK
  <2>3. AdoptInto([R EXCEPT ![i] = f], d, i, work.seq, work.bumped)
    BY <1>5
  <2> HIDE DEF f, d, R
  <2>4. Settles(R[i], f)
    BY <1>2, <1>5, <2>2 DEF Settles, Sane, Chained
  <2> QED
    BY <1>1, <1>2, <2>1, <2>2, <2>3, <2>4, AdoptedChained
<1>6. Chained(work'.records)
  BY <1>3, <1>4, <1>5, Zenon DEF AdoptNext
<1>7. records' = records /\ writer' = writer
  BY DEF AdoptNext, tables
<1> QED
  BY <1>6, <1>7 DEF Supersession, Chained, Sane, Mutual, Ends, PrevOK

LEMMA RestoredSettles ==
    ASSUME NEW r \in Rows, Sane(r), r.meta.prev.saved, r.life = "stored", NEW s
    PROVE  Settles(r, Restored(r, s))
<1> DEFINE m == [batch |-> r.meta.prev.batch, link |-> r.meta.prev.link,
                 patch |-> r.meta.prev.patch, prev |-> NoPrev]
           a == r.meta.prev.archived
           t == r.meta.prev.temporal
           y == r.meta.prev.by
           v == r.ver + 1
           q == IF a THEN r.mseq ELSE s
<1>1. t = "current" /\ y = NoId
  BY DEF Sane, PrevOK
<1>2. PrevOK(m)
  BY DEF PrevOK, NoPrev
<1>3. Restored(r, s) = [r EXCEPT !.archived = a, !.temporal = t, !.by = y, !.ver = v,
                                 !.mseq = q, !.meta = m]
  BY DEF Restored
<1> HIDE DEF m, a, t, y, v, q
<1>4. /\ Restored(r, s).life = r.life /\ Restored(r, s).temporal = t /\ Restored(r, s).by = y
      /\ Restored(r, s).supersedes = r.supersedes /\ Restored(r, s).meta = m
  BY <1>3 DEF Rows
<1> QED
  BY <1>1, <1>2, <1>4 DEF Settles, Sane

LEMMA RetiredSettles ==
    ASSUME NEW r \in Rows, Sane(r), NEW t \in {"historical", "invalidated"}
    PROVE  Settles(r, [r EXCEPT !.archived = TRUE, !.temporal = t, !.ver = @ + 1])
<1> DEFINE h == [r EXCEPT !.archived = TRUE, !.temporal = t, !.ver = @ + 1]
<1>1. /\ h.life = r.life /\ h.temporal = t /\ h.by = r.by /\ h.supersedes = r.supersedes
      /\ h.meta = r.meta
  BY DEF Rows
<1> HIDE DEF h
<1>2. Settles(r, h)
  BY <1>1 DEF Settles, Sane
<1> QED
  BY <1>2 DEF h

LEMMA CurrentChained ==
    ASSUME NEW R, \A i \in Ids : Sane(R[i]) /\ R[i].temporal = "current"
    PROVE  Chained(R)
<1>1. Ends(R)
  <2> SUFFICES ASSUME NEW S \in (SUBSET Ids) \ {{}}
               PROVE  \E i \in S : R[i].temporal # "superseded"
    BY DEF Ends
  <2>1. S \subseteq Ids /\ S # {}
    OBVIOUS
  <2>2. PICK i : i \in S
    BY <2>1
  <2> QED
    BY <2>1, <2>2
<1>2. Mutual(R)
  BY DEF Mutual
<1> QED
  BY <1>1, <1>2 DEF Chained

LEMMA OthersKeepWriters ==
    ASSUME TypeOK, Supersession, Others
    PROVE  \A w \in Writers : PrevOK(writer'[w].meta)
<1>1. writer \in [Writers -> WriterRows]
  BY DEF TypeOK, StoreOK
<1>2. PrevOK(Idle.meta)
  BY DEF Idle, Metadata, NoPrev, PrevOK
<1>3. CASE writer' = writer
  BY <1>3 DEF Supersession
<1>4. ASSUME NEW w \in Writers, NEW c \in Claims, NEW S \in SUBSET Sources, UpsertRead(w, c, S)
      PROVE  \A v \in Writers : PrevOK(writer'[v].meta)
  <2>1. [Idle EXCEPT !.pc = "insert", !.claim = c, !.sources = S].meta = Idle.meta
    BY DEF Idle
  <2>2. \A i \in Ids : PrevOK(records[i].meta)
    BY DEF Supersession, Chained, Sane
  <2>3. \A i \in Found(c) : i \in Ids
    BY FoundIsRow
  <2> QED
    <3>1. ASSUME NEW x, PrevOK(x.meta), writer' = [writer EXCEPT ![w] = x]
          PROVE  \A v \in Writers : PrevOK(writer'[v].meta)
      BY <1>1, <3>1 DEF Supersession
    <3>2. ASSUME NEW i \in Ids,
                 writer' = [writer EXCEPT ![w] =
                     [pc |-> "merge", id |-> i, claim |-> c, sources |-> records[i].sources \cup S,
                      meta |-> records[i].meta]]
          PROVE  \A v \in Writers : PrevOK(writer'[v].meta)
      BY <2>2, <3>1, <3>2
    <3>3. ASSUME writer' = [writer EXCEPT ![w] =
                     [Idle EXCEPT !.pc = "insert", !.claim = c, !.sources = S]]
          PROVE  \A v \in Writers : PrevOK(writer'[v].meta)
      BY <1>2, <2>1, <3>1, <3>3
    <3> QED
      BY <1>4, <2>3, <3>2, <3>3 DEF UpsertRead
<1>5. ASSUME NEW w \in Writers, UpsertMerge(w) \/ UpsertInsert(w)
      PROVE  \A v \in Writers : PrevOK(writer'[v].meta)
  <2>1. writer' = [writer EXCEPT ![w] = Idle]
    BY <1>5 DEF UpsertMerge, UpsertInsert
  <2> QED
    BY <1>1, <1>2, <2>1 DEF Supersession
<1>6. ASSUME NEW i \in Ids, NEW r, Edit(i, r)
      PROVE  writer' = writer
  BY <1>6 DEF Edit
<1> QED
  BY <1>3, <1>4, <1>5, <1>6
  DEF Others, Upsert, Forget, Delete, PatchArchive, PatchRestore, Quarantine, Promote

LEMMA OthersSettle ==
    ASSUME TypeOK, Supersession, Others
    PROVE  Chained(records')
<1>1. /\ records \in [Ids -> Rows] /\ \A i \in Ids : records[i] \in Rows
      /\ Chained(records)
  BY DEF TypeOK, StoreOK, Supersession
<1>2. \A i \in Ids : Settles(records[i], records[i])
  BY <1>1, SameStateSettles DEF Chained, Sane
<1>3. ASSUME NEW i \in Ids, NEW r \in Rows, records' = [records EXCEPT ![i] = r],
             r = Blank("deleted") \/ Touched(records[i], r)
      PROVE  Chained(records')
  <2>1. Settles(records[i], r)
    <3>1. CASE r = Blank("deleted")
      BY <3>1 DEF Blank, Fresh, Metadata, NoPrev, Settles, Sane, PrevOK
    <3>2. CASE Touched(records[i], r)
      <4>1. PrevOK(r.meta)
        BY <1>1, <3>2 DEF Touched, Supersession, Chained, Sane, PrevOK
      <4> QED
        BY <1>1, <3>2, <4>1, SameStateSettles DEF Touched, SameKey, Chained
    <3> QED
      BY <1>3, <3>1, <3>2
  <2>2. \A j \in Ids : Settles(records[j], records'[j])
    BY <1>1, <1>2, <1>3, <2>1
  <2> QED
    BY <1>1, <2>2, SettledChain
<1>4. ASSUME NEW i \in Ids, NEW c \in Claims, NEW S \in SUBSET Sources,
             records[i].life = "free",
             records' = [records EXCEPT ![i] = Fresh(c, Norm[c], S, NoBatch, "current")]
      PROVE  Chained(records')
  <2> DEFINE f == Fresh(c, Norm[c], S, NoBatch, "current")
  <2>1. f.life = "stored" /\ f.by = NoId /\ f.supersedes = {} /\ PrevOK(f.meta)
    BY DEF Fresh, Metadata, NoPrev, PrevOK
  <2> HIDE DEF f
  <2>2. Settles(records[i], f)
    BY <1>1, <1>4, <2>1 DEF Settles, Sane, Chained
  <2>3. \A j \in Ids : Settles(records[j], records'[j])
    BY <1>1, <1>2, <1>4, <2>2 DEF f
  <2> QED
    BY <1>1, <2>3, SettledChain
<1> QED
  BY <1>1, <1>3, <1>4, OthersIsOthersStep DEF OthersStep

LEMMA NextSupersession ==
    ASSUME TypeOK, Supersession, Next
    PROVE  Supersession'
<1>1. /\ records \in [Ids -> Rows] /\ \A i \in Ids : records[i] \in Rows
      /\ Chained(records) /\ Chained(work.records)
      /\ \A w \in Writers : PrevOK(writer[w].meta)
  BY DEF TypeOK, StoreOK, Supersession
<1>2. Chained(NoWork.records)
  <2>1. \A i \in Ids : NoWork.records[i] = Blank("free")
    BY DEF NoWork
  <2>2. Sane(Blank("free")) /\ Blank("free").life = "free" /\ Blank("free").temporal = "current"
    BY DEF Blank, Fresh, Metadata, NoPrev, Sane, PrevOK
  <2> QED
    BY <2>1, <2>2, CurrentChained
<1>3. ASSUME Chained(records'), Chained(work'.records), \A w \in Writers : PrevOK(writer'[w].meta)
      PROVE  Supersession'
  BY <1>3 DEF Supersession, Chained, Sane, Mutual, Ends, PrevOK
<1>4. ASSUME NEW b \in Batches, NEW p \in Payloads, Persist(b, p)
      PROVE  Supersession'
  BY <1>1, <1>3, <1>4 DEF Persist
<1>5. ASSUME NEW b \in Batches, BeginApply(b)
      PROVE  Supersession'
  <2>1. records' = records /\ work'.records = records /\ writer' = writer
    BY <1>5 DEF BeginApply, tables
  <2> QED
    BY <1>1, <1>3, <2>1
<1>6. CASE AdoptNext
  BY <1>6, AdoptNextSupersession
<1>7. CASE CommitApply
  <2>1. records' = work.records /\ work' = NoWork /\ writer' = writer
    BY <1>7 DEF CommitApply
  <2> QED
    BY <1>1, <1>2, <1>3, <2>1
<1>8. CASE AbortApply
  <2>1. records' = records /\ work' = NoWork /\ writer' = writer
    BY <1>8 DEF AbortApply, tables
  <2> QED
    BY <1>1, <1>2, <1>3, <2>1
<1>9. ASSUME NEW b \in Batches, Undo(b)
      PROVE  Supersession'
  <2>1. \A i \in Ids : Settles(records[i], records'[i])
    <3> SUFFICES ASSUME NEW i \in Ids
                 PROVE  Settles(records[i], records'[i])
      OBVIOUS
    <3> DEFINE h == [records[i] EXCEPT !.archived = TRUE, !.temporal = "historical", !.ver = @ + 1]
    <3>1. Sane(records[i])
      BY <1>1 DEF Chained
    <3>2. CASE i \in Restorable(b) /\ records'[i] = Restored(records[i], seq + 1)
      <4>1. records[i].life = "stored" /\ records[i].meta.prev.saved
        BY <3>2 DEF Restorable, Replaced
      <4> QED
        BY <1>1, <3>1, <3>2, <4>1, RestoredSettles
    <3>3. CASE records'[i] = h
      BY <1>1, <3>1, <3>3, RetiredSettles
    <3>4. CASE records'[i] = records[i]
      BY <3>1, <3>4, SameStateSettles DEF Sane
    <3> QED
      BY <1>9, <3>2, <3>3, <3>4 DEF Undo
  <2>2. work' = work /\ writer' = writer
    BY <1>9 DEF Undo
  <2> QED
    BY <1>1, <1>3, <2>1, <2>2, SettledChain
<1>10. ASSUME NEW s \in Sources, Withdraw(s)
       PROVE  Supersession'
  <2>1. \A i \in Ids : Settles(records[i], records'[i])
    <3> SUFFICES ASSUME NEW i \in Ids
                 PROVE  Settles(records[i], records'[i])
      OBVIOUS
    <3> DEFINE h == [records[i] EXCEPT !.archived = TRUE, !.temporal = "invalidated", !.ver = @ + 1]
    <3>1. Sane(records[i])
      BY <1>1 DEF Chained
    <3>2. CASE records'[i] = h
      BY <1>1, <3>1, <3>2, RetiredSettles
    <3>3. CASE records'[i] = records[i]
      BY <3>1, <3>3, SameStateSettles DEF Sane
    <3> QED
      BY <1>10, <3>2, <3>3 DEF Withdraw
  <2>2. work' = work /\ writer' = writer
    BY <1>10 DEF Withdraw
  <2> QED
    BY <1>1, <1>3, <2>1, <2>2, SettledChain
<1>11. CASE Others
  <2>1. work' = work
    BY <1>11, OthersIsOthersStep
  <2> QED
    BY <1>1, <1>3, <1>11, <2>1, OthersSettle, OthersKeepWriters
<1> QED
  BY <1>4, <1>5, <1>6, <1>7, <1>8, <1>9, <1>10, <1>11 DEF Next, Govern

LEMMA SupersessionAlways == Spec => []Supersession
<1>1. Init => Supersession
  <2> SUFFICES ASSUME Init PROVE Supersession
    OBVIOUS
  <2>1. \A i \in Ids : /\ Sane(records[i]) /\ Sane(work.records[i])
                       /\ records[i].temporal = "current" /\ work.records[i].temporal = "current"
    BY DEF Init, NoWork, Blank, Fresh, Metadata, NoPrev, Sane, PrevOK
  <2>2. \A w \in Writers : PrevOK(writer[w].meta)
    BY DEF Init, Idle, Metadata, NoPrev, PrevOK
  <2> QED
    BY <2>1, <2>2, CurrentChained DEF Supersession
<1>2. TypeOK /\ Supersession /\ [Next]_vars => Supersession'
  <2> SUFFICES ASSUME TypeOK, Supersession, [Next]_vars PROVE Supersession'
    OBVIOUS
  <2>1. CASE UNCHANGED vars
    BY <2>1 DEF vars, tables, Supersession, Chained, Sane, Mutual, Ends, PrevOK
  <2> QED
    BY <2>1, NextSupersession
<1> QED
  BY <1>1, <1>2, TypeCorrect, PTL DEF Spec

\* A superseded row and its replacement name each other as long as both exist,
\* whatever apply, undo, patches, deletions and stale upserts do between.
THEOREM SupersessionStaysMutual == Spec => []SupersessionIsMutual
<1>1. Supersession => SupersessionIsMutual
  BY DEF Supersession, Chained, SupersessionIsMutual
<1> QED
  BY <1>1, SupersessionAlways, PTL

\* No set of rows supersedes itself in a circle: superseded_by always leads to a row
\* that nothing superseded.
THEOREM SupersessionAlwaysEnds == Spec => []SupersessionEnds
<1>1. Supersession => SupersessionEnds
  BY DEF Supersession, Chained, SupersessionEnds
<1> QED
  BY <1>1, SupersessionAlways, PTL
-----------------------------------------------------------------------------
(* Revisions *)

\* Row q has become r: it has been updated, deleted or stored; b inserts for itself.
Ages(q, r, b) ==
    \/ r = q
    \/ q.life = "stored" /\ r.life = "stored" /\ q.ver < r.ver /\ r.claim = q.claim
    \/ r.life = "deleted"
    \/ /\ q.life = "free" /\ r.life = "stored" /\ r.claim \in Claims
       /\ 0 < r.ver \/ r.meta.batch \in {b, NoBatch}

\* Row r has had revision v, or has since been changed.
Outlived(v, r) == r.life = "deleted" \/ (r.life = "stored" /\ v.ver <= r.ver)
Outdated(v, r) == r.life = "deleted" \/ (r.life = "stored" /\ v.ver < r.ver)

\* A row, or its revision, that keeps the current state it was superseded in.
Saves(v) == v.meta.prev.saved /\ v.meta.prev.temporal = "current"

\* Targets of a waiting proposal have had the revisions frozen at persist, and no longer
\* have them if they were touched.
Frozen(b) ==
    proposals[b].status = "validated" =>
        \A t \in Targets(Decisions(b)) :
            /\ proposed[b][t] \in RevisionRows /\ Outlived(proposed[b][t], records[t])
            /\ t \in edited[b] => Outdated(proposed[b][t], records[t])

\* So have the rows an applied batch superseded; and what it inserted is no longer as it
\* was inserted, once touched.
Settled(b) ==
    proposals[b].status = "applied" =>
        \A i \in Ids :
            /\ applied[b][i] # NoRev =>
                  /\ Outlived(applied[b][i], records[i]) /\ Saves(applied[b][i])
                  /\ i \in edited[b] => Outdated(applied[b][i], records[i])
            /\ i \in edited[b] => \/ records[i].life = "deleted" \/ 0 < records[i].ver
                                  \/ records[i].meta.batch # b

Unapplied(b) == proposals[b].status \in {"absent", "validated"} => applied[b] = NoRevisions

\* Every row that is stored says something.
Claimed(R) == \A i \in Ids : R[i].life = "stored" => R[i].claim \in Claims

ProposalsHold == Claimed(records) /\ \A b \in Batches : Frozen(b) /\ Settled(b) /\ Unapplied(b)

\* Some adopted row has the claim and the evidence of the k-th decision.
Kept(k) ==
    \E i \in work.ids : /\ Norm[work.records[i].claim] = Norm[Decisions(lock)[k].claim]
                        /\ Decisions(lock)[k].sources \subseteq work.records[i].sources

\* The uncommitted view of an open apply, row by row ...
RowHolds(i) ==
    /\ Ages(records[i], work.records[i], lock)
    /\ records[i].life = "stored" /\ ~Eligible(records[i]) /\ Eligible(work.records[i])
       => seq < work.records[i].mseq
    /\ Active(records[i]) /\ ~Active(work.records[i]) => i \notin edited[lock]
    /\ work.applied[i] # NoRev => Outlived(work.applied[i], work.records[i]) /\ Saves(work.applied[i])
    /\ i \in work.ids => /\ Active(work.records[i])
                         /\ records[i].life = "free" \/ records[i].ver < work.records[i].ver

\* ... and decision by decision.
ViewHolds ==
    lock # NoBatch =>
        /\ seq <= work.seq /\ (work.bumped => seq < work.seq)
        /\ \A i \in Ids : RowHolds(i)
        /\ \A k \in DOMAIN Decisions(lock) : k < work.next /\ Decisions(lock)[k].adopt => Kept(k)

Revised == ProposalsHold /\ ViewHolds
----------------------------------------------------------------------------
(* Rows *)

LEMMA AgesOn ==
    ASSUME NEW p \in Rows, NEW q \in Rows, NEW r \in Rows, NEW b, Ages(p, q, b), Ages(q, r, b),
           q.life = "stored"
    PROVE  Ages(p, r, b)
BY DEF Ages, Rows

LEMMA OutlivedOn ==
    ASSUME NEW v \in RevisionRows, NEW q \in Rows, NEW r \in Rows, NEW b, Ages(q, r, b)
    PROVE  /\ Outlived(v, q) => Outlived(v, r)
           /\ Outdated(v, q) => Outdated(v, r)
           /\ Outlived(v, q) /\ r # q => Outdated(v, r)
BY DEF Ages, Outlived, Outdated, Rows, RevisionRows

LEMMA RevisionOf ==
    ASSUME NEW r \in Rows
    PROVE  /\ Revision(r) \in RevisionRows /\ Revision(r) # NoRev
           /\ Revision(r).ver = r.ver /\ Revision(r).meta = r.meta
<1>1. Revision(r) \in RevisionRows /\ Revision(r).ver = r.ver /\ Revision(r).meta = r.meta
  BY DEF Revision, RevisionRows, Rows
<1> QED
  BY <1>1, NoRevAssumption

\* What superseding a current row does to it.
Dropped(q, r) == /\ q.life = "stored" /\ r.life = "stored" /\ r.archived /\ q.ver < r.ver
                 /\ r.claim = q.claim /\ Saves(r)

LEMMA SupersededIsDropped ==
    ASSUME NEW q \in Rows, NEW n \in Ids, NEW b \in Batches, Current(q)
    PROVE  Dropped(q, Superseded(q, n, b))
<1> DEFINE p == [saved |-> TRUE, archived |-> q.archived, temporal |-> q.temporal,
                 by |-> q.by, batch |-> q.meta.batch, link |-> q.meta.link,
                 patch |-> q.meta.patch]
           m == [q.meta EXCEPT !.link = b, !.prev = p]
           v == [q EXCEPT !.archived = TRUE, !.temporal = "superseded", !.by = n, !.ver = @ + 1,
                          !.meta = m]
<1>1. p.saved /\ p.temporal = "current" /\ q.meta \in MetaRows
  BY DEF Current, Rows
<1>2. m.prev = p
  BY <1>1 DEF MetaRows
<1>3. v.meta = m /\ v.claim = q.claim /\ v.life = q.life /\ v.archived /\ v.ver = q.ver + 1
  BY DEF Rows
<1>4. Superseded(q, n, b) = v
  BY DEF Superseded
<1>5. q.ver < q.ver + 1 /\ q.life = "stored"
  BY DEF Rows, Current, Active
<1> HIDE DEF v, m, p
<1> QED
  BY <1>1, <1>2, <1>3, <1>4, <1>5 DEF Dropped, Saves, Rows

----------------------------------------------------------------------------
(* One turn of the decision loop *)

\* What becomes of the row a decision adopts.
Chosen(q, r, d) ==
    /\ r.life = "stored" /\ ~r.archived
    /\ d.sources \subseteq r.sources /\ Norm[r.claim] = Norm[d.claim]
    /\ \/ /\ q.life = "stored" /\ q.ver < r.ver
          /\ r.claim = q.claim /\ q.sources \subseteq r.sources
       \/ q.life = "free" /\ r.meta.batch = lock /\ r.claim \in Claims

\* The sequence of the transaction, and of a row that is reused.
Sequenced(q, r) ==
    \/ q.life = "free" /\ work'.seq = work.seq /\ work'.bumped = work.bumped
    \/ /\ work'.seq = (IF work.bumped THEN work.seq ELSE work.seq + 1) /\ work'.bumped
       /\ r.mseq = work'.seq

\* The current decision adopts row n.
Adopts(n) ==
    LET d == Decisions(lock)[work.next]
    IN  /\ work'.ids = work.ids \cup {n} /\ work'.next = work.next + 1
        /\ Chosen(work.records[n], work'.records[n], d)
        /\ Sequenced(work.records[n], work'.records[n])
        /\ work'.applied[n] = work.applied[n]
        /\ \A i \in Ids \ {n} :
              \/ /\ i \in d.supersedes /\ Current(work.records[i])
                 /\ proposed[lock][i] = Revision(work.records[i])
                 /\ Dropped(work.records[i], work'.records[i])
                 /\ work'.applied[i] = Revision(work'.records[i])
              \/ work'.records[i] = work.records[i] /\ work'.applied[i] = work.applied[i]

\* Row n of view R, which differs from the present view in nothing else, is adopted.
LEMMA AdoptIntoAdopts ==
    ASSUME TypeOK, lock \in Batches, NEW d \in Decision, d = Decisions(lock)[work.next],
           NEW n \in Ids, NEW s \in Nat, NEW z \in BOOLEAN, NEW f \in Rows,
           AdoptInto([work.records EXCEPT ![n] = f], d, n, s, z),
           NEW q, q = work.records[n],
           Chosen(q, f, d),
           \/ q.life = "free" /\ s = work.seq /\ z = work.bumped
           \/ s = (IF work.bumped THEN work.seq ELSE work.seq + 1) /\ z /\ f.mseq = s
    PROVE  Adopts(n)
<1> DEFINE R == [work.records EXCEPT ![n] = f]
           T == d.supersedes \ {n}
           V == Replace(R, lock, n, T)
           g == [f EXCEPT !.supersedes = @ \cup T]
<1>1. /\ work.records \in [Ids -> Rows] /\ R \in [Ids -> Rows] /\ T \in SUBSET Ids
      /\ work.applied \in [Ids -> Revisions] /\ V \in [Ids -> Rows]
  <2>1. work.records \in [Ids -> Rows] /\ R \in [Ids -> Rows] /\ T \in SUBSET Ids
        /\ work.applied \in [Ids -> Revisions]
    BY DEF TypeOK, StoreOK, WorkRows, Decision
  <2> HIDE DEF R, T
  <2> QED
    BY <2>1, ReplaceIsRows
<1>2. /\ Replaceable(R, lock, T)
      /\ work' = [records |-> V, seq |-> s, bumped |-> z,
                  applied |-> [i \in Ids |-> IF i \in T THEN Revision(V[i]) ELSE work.applied[i]],
                  ids |-> work.ids \cup {n}, next |-> work.next + 1]
  BY DEF AdoptInto
<1>3. V[n] = g /\ R[n] = f
  BY <1>1 DEF Replace
<1>4. /\ g.life = f.life /\ g.archived = f.archived /\ g.sources = f.sources /\ g.claim = f.claim
      /\ g.ver = f.ver /\ g.meta = f.meta /\ g.mseq = f.mseq
  BY DEF Rows
<1>5. Chosen(q, V[n], d)
  BY ZenonT(30), <1>3, <1>4 DEF Chosen
<1>6. ASSUME NEW i \in Ids \ {n}, i \in T
      PROVE  /\ Current(work.records[i]) /\ proposed[lock][i] = Revision(work.records[i])
             /\ Dropped(work.records[i], V[i])
  <2>1. R[i] = work.records[i] /\ R[i] \in Rows
    BY <1>1, <1>6
  <2>2. V[i] = Superseded(R[i], n, lock)
    BY <1>6 DEF Replace
  <2>3. Current(R[i]) /\ proposed[lock][i] = Revision(R[i])
    BY <1>2, <1>6 DEF Replaceable
  <2> HIDE DEF R, V
  <2> QED
    BY <2>1, <2>2, <2>3, SupersededIsDropped
<1>7. ASSUME NEW i \in Ids \ {n}, i \notin T
      PROVE  V[i] = work.records[i]
  BY <1>1, <1>7 DEF Replace
<1>8. /\ work'.records = V /\ work'.seq = s /\ work'.bumped = z /\ work'.next = work.next + 1
      /\ work'.ids = work.ids \cup {n}
      /\ \A i \in Ids : work'.applied[i] = IF i \in T THEN Revision(V[i]) ELSE work.applied[i]
  BY <1>2
<1>9. Sequenced(q, V[n])
  BY <1>3, <1>4, <1>8 DEF Sequenced
<1>10. n \notin T /\ \A i \in T : i \in d.supersedes
  OBVIOUS
<1> HIDE DEF V, R, T
<1> QED
  BY <1>5, <1>6, <1>7, <1>8, <1>9, <1>10, Zenon DEF Adopts

LEMMA AdoptNextAdopts ==
    ASSUME TypeOK, AdoptNext, Keyed(work.records), Claimed(work.records)
    PROVE  LET d == Decisions(lock)[work.next]
           IN  \/ ~d.adopt /\ work' = [work EXCEPT !.next = @ + 1]
               \/ \E n \in Ids : Adopts(n)
<1> DEFINE d == Decisions(lock)[work.next]
           s == IF work.bumped THEN work.seq ELSE work.seq + 1
           R == work.records
<1>1. lock \in Batches /\ d \in Decision
  BY DecisionOfLock DEF AdoptNext
<1>2. R \in [Ids -> Rows] /\ s \in Nat /\ work.seq \in Nat /\ work.bumped \in BOOLEAN
  BY DEF TypeOK, StoreOK, WorkRows
<1>3. ASSUME NEW n \in Reusable(R, d), AdoptInto([R EXCEPT ![n] = Reused(@, d, s)], d, n, s, TRUE)
      PROVE  Adopts(n)
  <2> DEFINE f == Reused(R[n], d, s)
  <2>1. n \in Ids /\ R[n].life = "stored" /\ R[n] \in Rows
    BY <1>2, <1>3, ReusableIsCurrent
  <2>2. f \in Rows
    BY <1>1, <1>2, <2>1, ReusedIsRow
  <2>3. R[n].hash = d.claim \/ R[n].claim = d.claim
    BY <1>3 DEF Reusable, Hashed, Stated
  <2>4. Norm[R[n].claim] = Norm[d.claim]
    <3>1. R[n].hash \in {R[n].claim, Norm[R[n].claim]}
      BY <2>1 DEF Keyed
    <3>2. CASE d.claim = Norm[R[n].claim]
      BY <2>1, <3>2, NormAssumption DEF Claimed
    <3> QED
      BY <2>3, <3>1, <3>2
  <2>5. Chosen(R[n], f, d) /\ f.mseq = s
    <3>1. /\ f.life = R[n].life /\ ~f.archived /\ f.sources = R[n].sources \cup d.sources
          /\ f.claim = R[n].claim /\ f.ver = R[n].ver + 1 /\ f.mseq = s
      BY <2>1 DEF Reused, Rows
    <3>2. R[n].ver \in Nat
      BY <2>1 DEF Rows
    <3> HIDE DEF f
    <3> QED
      BY <2>1, <2>4, <3>1, <3>2 DEF Chosen
  <2>6. AdoptInto([R EXCEPT ![n] = f], d, n, s, TRUE)
    BY <1>3
  <2> HIDE DEF f
  <2> QED
    BY <1>1, <1>2, <2>1, <2>2, <2>5, <2>6, AdoptIntoAdopts
<1>4. ASSUME NEW n \in Ids, R[n].life = "free",
             AdoptInto([R EXCEPT ![n] = Adopted(d, lock)], d, n, work.seq, work.bumped)
      PROVE  Adopts(n)
  <2> DEFINE f == Adopted(d, lock)
  <2>1. f \in Rows
    BY <1>1, AdoptedIsRow
  <2>2. Chosen(R[n], f, d)
    BY <1>1, <1>4 DEF Chosen, Adopted, Fresh, Metadata, Decision
  <2> HIDE DEF f
  <2> QED
    BY <1>1, <1>2, <1>4, <2>1, <2>2, AdoptIntoAdopts DEF f
<1>5. CASE ~d.adopt /\ work' = [work EXCEPT !.next = @ + 1]
  BY <1>5
<1>6. \A n \in Reusable(R, d) : n \in Ids
  BY ReusableIsCurrent
<1> QED
  BY <1>3, <1>4, <1>5, <1>6, Zenon DEF AdoptNext

\* The rows an open apply may supersede are targets its proposal froze.
LEMMA SupersededIsTarget ==
    ASSUME TypeOK, Governed, ProposalsHold, lock # NoBatch, work.next \in DOMAIN Decisions(lock),
           NEW i \in Decisions(lock)[work.next].supersedes, i \in Ids
    PROVE  /\ lock \in Batches
           /\ Outlived(proposed[lock][i], records[i]) /\ proposed[lock][i] \in RevisionRows
           /\ i \in edited[lock] => Outdated(proposed[lock][i], records[i])
<1>1. i \in Targets(Decisions(lock))
  BY DEF Targets
<1> QED
  BY <1>1 DEF Governed, LockedIsValidated, ProposalsHold, Frozen

LEMMA AdoptedRowHolds ==
    ASSUME TypeOK, TypeOK', ViewHolds, lock # NoBatch, UNCHANGED <<tables, lock>>, edited'[lock] = edited[lock],
           NEW n \in Ids, Adopts(n)
    PROVE  RowHolds(n)'
<1> DEFINE p == records[n]
           q == work.records[n]
           r == work'.records[n]
           d == Decisions(lock)[work.next]
<1>1. /\ p \in Rows /\ q \in Rows /\ r \in Rows /\ p' = p /\ seq' = seq /\ lock' = lock
      /\ work.seq \in Nat /\ seq \in Nat /\ work.bumped \in BOOLEAN
      /\ work.applied[n] \in Revisions /\ work'.applied[n] = work.applied[n]
  BY DEF TypeOK, StoreOK, WorkRows, tables, Adopts
<1>2. Ages(p, q, lock) /\ (work.applied[n] # NoRev => Outlived(work.applied[n], q) /\ Saves(work.applied[n]))
  BY DEF ViewHolds, RowHolds
<1>3. Chosen(q, r, d) /\ Sequenced(q, r)
  BY DEF Adopts
<1>4. Ages(p, r, lock) /\ Ages(q, r, lock) /\ (p.life = "free" \/ p.ver < r.ver)
  BY <1>1, <1>2, <1>3, AgesOn DEF Ages, Chosen, Rows
<1>5. p.life = "stored" => q.life = "stored"
  BY <1>2, <1>3 DEF Ages, Chosen
<1>6. q.life = "stored" => seq < r.mseq
  BY <1>1, <1>3 DEF Sequenced, ViewHolds
<1>7. work'.applied[n] # NoRev => Outlived(work'.applied[n], r) /\ Saves(work'.applied[n])
  BY <1>1, <1>2, <1>4, OutlivedOn DEF Revisions
<1>8. Active(r)
  BY <1>3 DEF Chosen, Active
<1> HIDE DEF p, q, r, d
<1> QED
  BY <1>1, <1>4, <1>5, <1>6, <1>7, <1>8 DEF RowHolds, p, q, r

\* What an apply supersedes was not touched since the proposal, and no decision of the
\* same batch adopted it.
LEMMA DroppedRowHolds ==
    ASSUME TypeOK, TypeOK', Governed, ProposalsHold, ViewHolds, lock # NoBatch,
           work.next \in DOMAIN Decisions(lock), UNCHANGED <<tables, lock>>,
           edited'[lock] = edited[lock],
           NEW i \in Ids, i \in Decisions(lock)[work.next].supersedes, Current(work.records[i]),
           proposed[lock][i] = Revision(work.records[i]),
           Dropped(work.records[i], work'.records[i]),
           work'.applied[i] = Revision(work'.records[i])
    PROVE  /\ i \notin work.ids
           /\ i \notin work'.ids => RowHolds(i)'
<1> DEFINE p == records[i]
           q == work.records[i]
           r == work'.records[i]
<1>1. /\ p \in Rows /\ q \in Rows /\ r \in Rows /\ p' = p /\ lock' = lock
      /\ edited'[lock] = edited[lock]
  BY DEF TypeOK, StoreOK, WorkRows, tables
<1>2. Ages(p, q, lock) /\ (i \in work.ids => p.life = "free" \/ p.ver < q.ver)
  BY DEF ViewHolds, RowHolds
<1>3. q.life = "stored" /\ r.life = "stored" /\ r.archived /\ q.ver < r.ver /\ r.claim = q.claim /\ Saves(r)
  BY DEF Dropped
<1>4. /\ Outlived(Revision(q), p) /\ Revision(q).ver = q.ver
      /\ i \in edited[lock] => Outdated(Revision(q), p)
  BY <1>1, RevisionOf, SupersededIsTarget
<1>5. p.life = "stored" /\ q.ver = p.ver /\ q = p
  BY <1>1, <1>2, <1>3, <1>4 DEF Outlived, Ages, Rows
<1>6. i \notin work.ids
  BY <1>1, <1>2, <1>5 DEF Rows
<1>7. i \notin edited[lock]
  BY <1>1, <1>4, <1>5 DEF Outdated, Rows
<1>8. Outlived(Revision(r), r) /\ Saves(Revision(r))
  BY <1>1, <1>3, RevisionOf DEF Outlived, Saves, Rows
<1>9. Ages(p, r, lock) /\ ~Active(r)
  BY <1>3, <1>5 DEF Ages, Active
<1> HIDE DEF p, q, r
<1> QED
  BY <1>1, <1>6, <1>7, <1>8, <1>9 DEF RowHolds, Eligible, Active, p, q, r

LEMMA AdoptNextView ==
    ASSUME TypeOK, TypeOK', Governed, ProposalsHold, ViewHolds, Keyed(work.records), AdoptNext,
           edited'[lock] = edited[lock]
    PROVE  ViewHolds'
<1> DEFINE d == Decisions(lock)[work.next]
<1>1. /\ UNCHANGED <<tables, lock>> /\ lock # NoBatch /\ work.next \in DOMAIN Decisions(lock)
      /\ Decisions(lock)' = Decisions(lock) /\ seq' = seq /\ records' = records
  BY DEF AdoptNext, tables, Decisions
<1>2. /\ work.next \in Nat /\ work.seq \in Nat /\ seq \in Nat /\ work.bumped \in BOOLEAN
      /\ work.ids \in SUBSET Ids /\ \A i \in Ids : work.records[i] \in Rows /\ work'.records[i] \in Rows
      /\ lock \in Batches /\ d \in Decision /\ \A k \in DOMAIN Decisions(lock) : k \in Nat
  <2>1. Decisions(lock) \in Payloads \cup {<< >>} /\ lock \in Batches
    BY <1>1 DEF TypeOK, StoreOK, PropRows, Decisions
  <2>2. Decisions(lock) \in Seq(Decision)
    BY <1>1, <2>1, PayloadsAssumption
  <2> QED
    BY <1>1, <2>1, <2>2, DecisionOfLock DEF TypeOK, StoreOK, WorkRows
<1>3. Claimed(work.records)
  <2>1. \A i \in Ids : Ages(records[i], work.records[i], lock)
    BY <1>1 DEF ViewHolds, RowHolds
  <2> QED
    BY <2>1 DEF Claimed, Ages, ProposalsHold
<1>4. CASE ~d.adopt /\ work' = [work EXCEPT !.next = @ + 1]
  <2>1. /\ work'.seq = work.seq /\ work'.bumped = work.bumped /\ work'.records = work.records
        /\ work'.applied = work.applied /\ work'.ids = work.ids /\ work'.next = work.next + 1
    BY <1>4 DEF TypeOK, StoreOK, WorkRows
  <2>2. \A i \in Ids : RowHolds(i)'
    BY <1>1, <2>1 DEF ViewHolds, RowHolds
  <2>3. \A k \in DOMAIN Decisions(lock) : k < work'.next /\ Decisions(lock)[k].adopt => Kept(k)'
    BY <1>1, <1>2, <1>4, <2>1 DEF ViewHolds, Kept
  <2> QED
    BY <1>1, <2>1, <2>2, <2>3 DEF ViewHolds
<1>5. ASSUME NEW n \in Ids, Adopts(n)
      PROVE  ViewHolds'
  <2> DEFINE Falls(i) == /\ i \in d.supersedes /\ Current(work.records[i])
                         /\ proposed[lock][i] = Revision(work.records[i])
                         /\ Dropped(work.records[i], work'.records[i])
                         /\ work'.applied[i] = Revision(work'.records[i])
             Stays(i) == work'.records[i] = work.records[i] /\ work'.applied[i] = work.applied[i]
  <2>1. /\ work'.ids = work.ids \cup {n} /\ work'.next = work.next + 1
        /\ Chosen(work.records[n], work'.records[n], d) /\ Sequenced(work.records[n], work'.records[n])
        /\ \A i \in Ids \ {n} : Falls(i) \/ Stays(i)
    BY <1>5 DEF Adopts
  <2>2. \A i \in Ids \ {n} : Falls(i) => i \notin work.ids /\ RowHolds(i)'
    BY <1>1, <2>1, DroppedRowHolds
  <2>3. \A i \in Ids \ {n} : Stays(i) => RowHolds(i)'
    BY <1>1, <2>1 DEF ViewHolds, RowHolds
  <2>4. RowHolds(n)'
    BY <1>1, <1>5, AdoptedRowHolds
  <2>5. seq <= work'.seq /\ (work'.bumped => seq < work'.seq)
    BY <1>1, <1>2, <2>1 DEF ViewHolds, Sequenced
  <2>6. ASSUME NEW k \in DOMAIN Decisions(lock), k < work'.next, Decisions(lock)[k].adopt
        PROVE  Kept(k)'
    <3>1. CASE k = work.next
      BY <1>1, <2>1, <3>1 DEF Kept, Chosen
    <3>2. CASE k < work.next
      <4>1. PICK i \in work.ids : /\ Norm[work.records[i].claim] = Norm[Decisions(lock)[k].claim]
                                  /\ Decisions(lock)[k].sources \subseteq work.records[i].sources
        BY <1>1, <2>6, <3>2 DEF ViewHolds, Kept
      <4>2. i \in Ids /\ i \in work'.ids /\ work.records[i].life = "stored"
        BY <1>1, <1>2, <2>1, <4>1 DEF ViewHolds, RowHolds, Active
      <4>3. /\ work'.records[i].claim = work.records[i].claim
            /\ work.records[i].sources \subseteq work'.records[i].sources
        BY <2>1, <2>2, <4>1, <4>2 DEF Chosen
      <4> QED
        BY <1>1, <4>1, <4>2, <4>3 DEF Kept
    <3> QED
      BY <1>2, <2>1, <2>6, <3>1, <3>2
  <2> HIDE DEF Falls, Stays
  <2> QED
    BY <1>1, <2>1, <2>2, <2>3, <2>4, <2>5, <2>6 DEF ViewHolds
<1> QED
  BY <1>3, <1>4, <1>5, AdoptNextAdopts

----------------------------------------------------------------------------
(* Every step *)

\* The other writers touch no proposal, and while an apply is open they only read.
LEMMA OthersFreeze ==
    ASSUME Others
    PROVE  /\ UNCHANGED <<proposals, proposed, applied, lock, work>>
           /\ lock # NoBatch => UNCHANGED tables
<1> USE DEF tables
<1>1. ASSUME NEW i, NEW r, Edit(i, r)
      PROVE  UNCHANGED <<proposals, proposed, applied, lock, work>> /\ lock = NoBatch
  BY <1>1 DEF Edit
<1>2. ASSUME NEW w \in Writers, Upsert(w)
      PROVE  /\ UNCHANGED <<proposals, proposed, applied, lock, work>>
             /\ lock = NoBatch \/ UNCHANGED tables
  BY <1>2 DEF Upsert, UpsertRead, UpsertMerge, UpsertInsert
<1> QED
  BY <1>1, <1>2 DEF Others, Forget, Delete, PatchArchive, PatchRestore, Quarantine, Promote

\* A step that brings row q back within the scheduler's reach sequences it.
Wakes(q, r) == q.life = "stored" /\ ~Eligible(q) /\ Eligible(r) => seq < r.mseq

LEMMA RestoredAges ==
    ASSUME NEW r \in Rows, NEW s \in Nat, r.life = "stored"
    PROVE  /\ Restored(r, s).life = "stored" /\ Restored(r, s).ver = r.ver + 1
           /\ Restored(r, s).claim = r.claim
           /\ Restored(r, s).archived = r.meta.prev.archived
           /\ Restored(r, s).temporal = r.meta.prev.temporal
           /\ Eligible(Restored(r, s)) => Restored(r, s).mseq = s
BY DEF Restored, Rows, Eligible, Active

LEMMA UndoAges ==
    ASSUME TypeOK, NEW b \in Batches, Undo(b), NEW i \in Ids
    PROVE  Ages(records[i], records'[i], lock) /\ Wakes(records[i], records'[i])
<1> DEFINE q == records[i]
           r == records'[i]
<1>1. q \in Rows /\ q.ver \in Nat /\ seq \in Nat /\ seq + 1 \in Nat
  BY DEF TypeOK, StoreOK, Rows
<1>2. CASE i \in Restorable(b)
  <2>1. r = Restored(q, seq + 1)
    BY <1>2 DEF Undo
  <2>2. q.life = "stored"
    BY <1>2 DEF Restorable, Replaced
  <2> HIDE DEF q, r
  <2> QED
    BY <1>1, <2>1, <2>2, RestoredAges DEF Ages, Wakes, q, r
<1>3. CASE i \notin Restorable(b) /\ i \in Undoable(b)
  <2>1. r = [q EXCEPT !.archived = TRUE, !.temporal = "historical", !.ver = @ + 1]
    BY <1>3 DEF Undo
  <2>2. q.life = "stored"
    BY <1>3 DEF Undoable, Created, Active
  <2> HIDE DEF q, r
  <2>3. r.life = "stored" /\ r.ver = q.ver + 1 /\ r.claim = q.claim /\ r.archived
    BY <1>1, <2>1, <2>2 DEF Rows
  <2> QED
    BY <1>1, <2>2, <2>3 DEF Ages, Wakes, Eligible, Active, q, r
<1>4. CASE i \notin Restorable(b) /\ i \notin Undoable(b)
  BY <1>4 DEF Undo, Ages, Wakes
<1> QED
  BY <1>2, <1>3, <1>4

LEMMA NextAges ==
    ASSUME TypeOK, ViewHolds, Next, NEW i \in Ids
    PROVE  Ages(records[i], records'[i], lock) /\ Wakes(records[i], records'[i])
<1> DEFINE G == Ages(records[i], records'[i], lock) /\ Wakes(records[i], records'[i])
<1> SUFFICES G
  OBVIOUS
<1>1. records \in [Ids -> Rows] /\ records[i] \in Rows /\ records[i].ver \in Nat /\ seq \in Nat
  BY DEF TypeOK, StoreOK, Rows
<1>2. ASSUME records' = records
      PROVE  G
  BY <1>2 DEF Ages, Wakes
<1>3. CASE Others
  <2>1. CASE records' = records
    BY <1>2, <2>1
  <2>2. ASSUME NEW j \in Ids, NEW r \in Rows, records' = [records EXCEPT ![j] = r],
               r = Blank("deleted") \/ Touched(records[j], r)
        PROVE  G
    <3>1. CASE i # j
      BY <1>1, <2>2, <3>1 DEF Ages, Wakes
    <3>2. CASE i = j
      <4>1. records'[i] = r
        BY <1>1, <2>2, <3>2
      <4>2. CASE r = Blank("deleted")
        BY <4>1, <4>2 DEF Blank, Fresh, Ages, Wakes, Eligible, Active
      <4>3. CASE Touched(records[i], r)
        BY <1>1, <4>1, <4>3 DEF Touched, SameKey, Ages, Wakes
      <4> QED
        BY <2>2, <3>2, <4>2, <4>3
    <3> QED
      BY <3>1, <3>2
  <2>3. ASSUME NEW j \in Ids, NEW c \in Claims, NEW S \in SUBSET Sources, records[j].life = "free",
               records' = [records EXCEPT ![j] = Fresh(c, Norm[c], S, NoBatch, "current")]
        PROVE  G
    BY <1>1, <2>3 DEF Fresh, Metadata, Ages, Wakes
  <2> QED
    BY <1>3, <2>1, <2>2, <2>3, OthersIsOthersStep DEF OthersStep
<1>4. ASSUME NEW b \in Batches, Undo(b)
      PROVE  G
  BY <1>4, UndoAges
<1>5. ASSUME NEW s \in Sources, Withdraw(s)
      PROVE  G
  <2>1. \/ records'[i] = records[i]
        \/ Active(records[i]) /\ records'[i] =
              [records[i] EXCEPT !.archived = TRUE, !.temporal = "invalidated", !.ver = @ + 1]
    BY <1>5 DEF Withdraw
  <2>2. ASSUME Active(records[i]), records'[i] =
              [records[i] EXCEPT !.archived = TRUE, !.temporal = "invalidated", !.ver = @ + 1]
        PROVE  G
    <3>1. /\ records'[i].archived /\ records'[i].ver = records[i].ver + 1
          /\ records'[i].life = records[i].life /\ records'[i].claim = records[i].claim
      BY <1>1, <2>2 DEF Rows
    <3> QED
      BY <1>1, <2>2, <3>1 DEF Ages, Wakes, Eligible, Active
  <2>3. CASE records'[i] = records[i]
    BY <2>3 DEF Ages, Wakes
  <2> QED
    BY <2>1, <2>2, <2>3
<1>6. CASE CommitApply
  BY <1>6 DEF CommitApply, ViewHolds, RowHolds, Wakes
<1>7. ASSUME NEW b \in Batches, NEW p \in Payloads, Persist(b, p)
      PROVE  G
  BY <1>2, <1>7 DEF Persist
<1>8. ASSUME NEW b \in Batches, BeginApply(b)
      PROVE  G
  BY <1>2, <1>8 DEF BeginApply, tables
<1>9. CASE AdoptNext
  BY <1>2, <1>9 DEF AdoptNext, tables
<1>10. CASE AbortApply
  BY <1>2, <1>10 DEF AbortApply, tables
<1> HIDE DEF G
<1> QED
  BY <1>3, <1>4, <1>5, <1>6, <1>7, <1>8, <1>9, <1>10 DEF Next, Govern

LEMMA TargetsAreIds ==
    ASSUME NEW p \in Payloads
    PROVE  Targets(p) \subseteq Ids
<1>1. \A k \in DOMAIN p : p[k] \in Decision
  BY PayloadsAssumption
<1> QED
  BY <1>1 DEF Targets, Decision

Holds(b) == Frozen(b) /\ Settled(b) /\ Unapplied(b)

\* A proposal whose own row and frozen revisions a step leaves alone.
LEMMA HoldsOn ==
    ASSUME TypeOK, TypeOK', Governed, ProposalsHold, Track, NEW b \in Batches,
           \A i \in Ids : Ages(records[i], records'[i], lock),
           proposals'[b].payload = proposals[b].payload, proposals'[b].status = proposals[b].status,
           proposed'[b] = proposed[b], applied'[b] = applied[b]
    PROVE  Holds(b)'
<1>1. /\ \A i \in Ids : records[i] \in Rows /\ records'[i] \in Rows
      /\ \A i \in Ids : applied[b][i] \in Revisions
      /\ Holds(b) /\ Decisions(b)' = Decisions(b) /\ Decisions(b) \in Payloads \cup {<< >>}
  BY DEF TypeOK, StoreOK, ProposalsHold, Holds, Decisions, PropRows
<1>2. Frozen(b)'
  <2> SUFFICES ASSUME proposals[b].status = "validated", NEW t \in Targets(Decisions(b))
               PROVE  /\ proposed[b][t] \in RevisionRows /\ Outlived(proposed[b][t], records'[t])
                      /\ t \in edited'[b] => Outdated(proposed[b][t], records'[t])
    BY <1>1 DEF Frozen
  <2>1. t \in Ids
    <3>1. CASE Decisions(b) = << >>
      BY <3>1 DEF Targets
    <3> QED
      BY <1>1, <3>1, TargetsAreIds
  <2>2. /\ proposed[b][t] \in RevisionRows /\ Outlived(proposed[b][t], records[t])
        /\ t \in edited[b] => Outdated(proposed[b][t], records[t])
    BY <1>1 DEF Holds, Frozen
  <2>3. edited'[b] = edited[b] \cup {i \in Ids : records'[i] # records[i]}
    BY DEF Track
  <2> QED
    BY <1>1, <2>1, <2>2, <2>3, OutlivedOn
<1>3. Settled(b)'
  <2> SUFFICES ASSUME proposals[b].status = "applied", NEW i \in Ids
               PROVE  /\ applied[b][i] # NoRev =>
                             /\ Outlived(applied[b][i], records'[i]) /\ Saves(applied[b][i])
                             /\ i \in edited'[b] => Outdated(applied[b][i], records'[i])
                      /\ i \in edited'[b] => \/ records'[i].life = "deleted" \/ 0 < records'[i].ver
                                             \/ records'[i].meta.batch # b
    BY DEF Settled
  <2>1. /\ applied[b][i] # NoRev =>
              /\ Outlived(applied[b][i], records[i]) /\ Saves(applied[b][i])
              /\ i \in edited[b] => Outdated(applied[b][i], records[i])
        /\ i \in edited[b] => \/ records[i].life = "deleted" \/ 0 < records[i].ver
                              \/ records[i].meta.batch # b
    BY <1>1 DEF Holds, Settled
  <2>2. edited'[b] = edited[b] \cup {j \in Ids : records'[j] # records[j]}
    BY DEF Track
  <2>3. b # NoBatch /\ b # lock
    BY ConstantsAssumption DEF Governed, LockedIsValidated
  <2>4. applied[b][i] # NoRev =>
              /\ Outlived(applied[b][i], records'[i]) /\ Saves(applied[b][i])
              /\ i \in edited'[b] => Outdated(applied[b][i], records'[i])
    BY <1>1, <2>1, <2>2, OutlivedOn DEF Revisions
  <2>5. i \in edited'[b] => \/ records'[i].life = "deleted" \/ 0 < records'[i].ver
                            \/ records'[i].meta.batch # b
    <3>1. CASE records'[i] = records[i]
      BY <2>1, <2>2, <3>1
    <3>2. CASE records'[i] # records[i]
      BY <1>1, <2>3, <3>2 DEF Ages, Rows
    <3> QED
      BY <3>1, <3>2
  <2> QED
    BY <2>4, <2>5
<1>4. Unapplied(b)'
  BY <1>1 DEF Holds, Unapplied
<1> QED
  BY <1>2, <1>3, <1>4 DEF Holds

\* A step that leaves every proposal and its revisions alone.
LEMMA AllHoldOn ==
    ASSUME TypeOK, TypeOK', Governed, ProposalsHold, Track,
           \A i \in Ids : Ages(records[i], records'[i], lock),
           UNCHANGED <<proposals, proposed, applied>>
    PROVE  \A b \in Batches : Holds(b)'
BY HoldsOn

LEMMA ClaimedOn ==
    ASSUME ProposalsHold, \A i \in Ids : Ages(records[i], records'[i], lock)
    PROVE  Claimed(records)'
BY DEF ProposalsHold, Claimed, Ages

LEMMA PersistHolds ==
    ASSUME TypeOK, TypeOK', Governed, ProposalsHold, Track,
           NEW b \in Batches, NEW p \in Payloads, Persist(b, p)
    PROVE  \A c \in Batches : Holds(c)'
<1>1. /\ records' = records /\ applied' = applied /\ proposals[b].status = "absent"
      /\ proposals' = [proposals EXCEPT ![b] = [status |-> "validated", payload |-> p, ids |-> {}]]
      /\ proposed' = [proposed EXCEPT
              ![b] = [i \in Ids |-> IF i \in Targets(p) THEN Revision(records[i]) ELSE NoRev]]
      /\ \A t \in Targets(p) : records[t].life = "stored"
  BY DEF Persist
<1>2. /\ proposals \in [Batches -> PropRows] /\ proposed \in [Batches -> [Ids -> Revisions]]
      /\ \A i \in Ids : records[i] \in Rows
  BY DEF TypeOK, StoreOK
<1>3. Holds(b)'
  <2>1. proposals'[b].status = "validated" /\ proposals'[b].payload = p
    BY <1>1, <1>2
  <2>2. edited'[b] = {}
    BY <1>1, <2>1 DEF Track
  <2>3. \A t \in Targets(p) : /\ t \in Ids /\ proposed'[b][t] = Revision(records[t])
                              /\ records'[t] = records[t] /\ records[t].life = "stored"
                              /\ Revision(records[t]) \in RevisionRows
                              /\ Revision(records[t]).ver = records[t].ver /\ records[t].ver \in Nat
    BY <1>1, <1>2, TargetsAreIds, RevisionOf DEF Rows
  <2>4. Frozen(b)'
    BY <2>1, <2>2, <2>3 DEF Frozen, Decisions, Outlived
  <2>5. applied[b] = NoRevisions
    BY <1>1 DEF ProposalsHold, Unapplied
  <2> QED
    BY <1>1, <2>1, <2>4, <2>5 DEF Holds, Settled, Unapplied
<1>4. ASSUME NEW c \in Batches, c # b
      PROVE  Holds(c)'
  <2>1. proposals'[c] = proposals[c] /\ proposed'[c] = proposed[c] /\ applied'[c] = applied[c]
    BY <1>1, <1>2, <1>4
  <2>2. \A i \in Ids : Ages(records[i], records'[i], lock)
    BY <1>1 DEF Ages
  <2> QED
    BY <2>1, <2>2, HoldsOn
<1> QED
  BY <1>3, <1>4

LEMMA CommitHolds ==
    ASSUME TypeOK, TypeOK', Governed, ProposalsHold, ViewHolds, Track, CommitApply,
           \A i \in Ids : Ages(records[i], records'[i], lock)
    PROVE  \A c \in Batches : Holds(c)'
<1>1. /\ lock \in Batches /\ proposals[lock].status = "validated" /\ lock # NoBatch
      /\ proposals \in [Batches -> PropRows] /\ applied \in [Batches -> [Ids -> Revisions]]
      /\ records' = work.records /\ applied' = [applied EXCEPT ![lock] = work.applied]
      /\ proposals' = [proposals EXCEPT ![lock].status = "applied", ![lock].ids = work.ids]
      /\ proposed' = proposed
  BY DEF CommitApply, Governed, LockedIsValidated, TypeOK, StoreOK
<1>2. /\ proposals'[lock].status = "applied"
      /\ \A c \in Batches : c # lock => proposals'[c] = proposals[c] /\ applied'[c] = applied[c]
  BY <1>1 DEF PropRows
<1>3. edited'[lock] = {}
  BY <1>1, <1>2 DEF Track
<1>4. \A i \in Ids : work.applied[i] # NoRev => Outlived(work.applied[i], records'[i]) /\ Saves(work.applied[i])
  BY <1>1 DEF ViewHolds, RowHolds
<1>5. ASSUME NEW c \in Batches, c = lock
      PROVE  Holds(c)'
  BY <1>1, <1>2, <1>3, <1>4, <1>5 DEF Holds, Frozen, Settled, Unapplied
<1>6. ASSUME NEW c \in Batches, c # lock
      PROVE  Holds(c)'
  BY <1>1, <1>2, <1>6, HoldsOn
<1> QED
  BY <1>5, <1>6

LEMMA UndoHolds ==
    ASSUME TypeOK, TypeOK', Governed, ProposalsHold, Track, NEW b \in Batches, Undo(b),
           \A i \in Ids : Ages(records[i], records'[i], lock)
    PROVE  \A c \in Batches : Holds(c)'
<1>1. /\ proposals \in [Batches -> PropRows] /\ proposed' = proposed /\ applied' = applied
      /\ proposals' = [proposals EXCEPT ![b].status = "reverted"]
  BY DEF Undo, TypeOK, StoreOK
<1>2. /\ proposals'[b].status = "reverted"
      /\ \A c \in Batches : c # b => proposals'[c] = proposals[c]
  BY <1>1 DEF PropRows
<1>3. Holds(b)'
  BY <1>2 DEF Holds, Frozen, Settled, Unapplied
<1>4. ASSUME NEW c \in Batches, c # b
      PROVE  Holds(c)'
  BY <1>1, <1>2, <1>4, HoldsOn
<1> QED
  BY <1>3, <1>4

LEMMA WithdrawHolds ==
    ASSUME TypeOK, TypeOK', Governed, ProposalsHold, Track, NEW s \in Sources, Withdraw(s),
           \A i \in Ids : Ages(records[i], records'[i], lock)
    PROVE  \A c \in Batches : Holds(c)'
<1> SUFFICES ASSUME NEW c \in Batches PROVE Holds(c)'
  OBVIOUS
<1>1. /\ proposals \in [Batches -> PropRows] /\ proposed' = proposed /\ applied' = applied
      /\ proposals'[c] = IF Rejects(c, s) THEN [proposals[c] EXCEPT !.status = "rejected"]
                         ELSE proposals[c]
  BY DEF Withdraw, TypeOK, StoreOK
<1>2. CASE Rejects(c, s)
  <2>1. proposals'[c].status = "rejected"
    BY <1>1, <1>2 DEF PropRows
  <2> QED
    BY <2>1 DEF Holds, Frozen, Settled, Unapplied
<1>3. CASE ~Rejects(c, s)
  BY <1>1, <1>3, HoldsOn
<1> QED
  BY <1>2, <1>3

LEMMA BeginApplyView ==
    ASSUME TypeOK, ProposalsHold, NEW b \in Batches, BeginApply(b)
    PROVE  ViewHolds'
<1>1. /\ work'.records = records /\ work'.applied = applied[b] /\ work'.seq = seq /\ ~work'.bumped
      /\ work'.ids = {} /\ work'.next = 1 /\ lock' = b /\ UNCHANGED tables
      /\ proposals[b].status = "validated" /\ seq \in Nat
  BY DEF BeginApply, TypeOK, StoreOK
<1>2. applied[b] = NoRevisions
  BY <1>1 DEF ProposalsHold, Unapplied
<1>3. \A i \in Ids : RowHolds(i)'
  BY <1>1, <1>2 DEF RowHolds, NoRevisions, Ages, tables
<1>4. \A k \in DOMAIN Decisions(b) : k \in Nat /\ k > 0
  <2>1. Decisions(b) \in Payloads \cup {<< >>}
    BY DEF TypeOK, StoreOK, PropRows, Decisions
  <2>2. CASE Decisions(b) = << >>
    BY <2>2
  <2>3. CASE Decisions(b) \in Seq(Decision)
    BY <2>3
  <2> QED
    BY <2>1, <2>2, <2>3, PayloadsAssumption
<1>5. Decisions(lock)' = Decisions(b)
  BY <1>1 DEF tables, Decisions
<1> QED
  BY <1>1, <1>3, <1>4, <1>5 DEF ViewHolds, tables

LEMMA NextRevised ==
    ASSUME TypeOK, TypeOK', Governed, RowsAreKeyed, Revised, Next
    PROVE  Revised'
<1>1. /\ ProposalsHold /\ ViewHolds /\ Keyed(work.records) /\ Track
      /\ \A i \in Ids : Ages(records[i], records'[i], lock)
  BY NextAges DEF Revised, RowsAreKeyed, Next
<1>2. \A b \in Batches : Holds(b)'
  <2>1. ASSUME UNCHANGED <<proposals, proposed, applied>>
        PROVE  \A b \in Batches : Holds(b)'
    BY <1>1, <2>1, AllHoldOn
  <2>2. CASE Others
    <3>1. UNCHANGED <<proposals, proposed, applied>>
      BY <2>2, OthersFreeze
    <3> QED
      BY <2>1, <3>1
  <2>3. ASSUME NEW b \in Batches, NEW p \in Payloads, Persist(b, p)
        PROVE  \A c \in Batches : Holds(c)'
    BY <1>1, <2>3, PersistHolds
  <2>4. ASSUME NEW b \in Batches, BeginApply(b)
        PROVE  \A c \in Batches : Holds(c)'
    BY <2>1, <2>4 DEF BeginApply, tables
  <2>5. CASE AdoptNext
    BY <2>1, <2>5 DEF AdoptNext, tables
  <2>6. CASE CommitApply
    BY <1>1, <2>6, CommitHolds
  <2>7. CASE AbortApply
    BY <2>1, <2>7 DEF AbortApply, tables
  <2>8. ASSUME NEW b \in Batches, Undo(b)
        PROVE  \A c \in Batches : Holds(c)'
    BY <1>1, <2>8, UndoHolds
  <2>9. ASSUME NEW s \in Sources, Withdraw(s)
        PROVE  \A c \in Batches : Holds(c)'
    BY <1>1, <2>9, WithdrawHolds
  <2> QED
    BY <2>2, <2>3, <2>4, <2>5, <2>6, <2>7, <2>8, <2>9 DEF Next, Govern
<1>3. ProposalsHold'
  BY <1>1, <1>2, ClaimedOn DEF ProposalsHold, Holds
<1>4. ViewHolds'
  <2>1. ASSUME lock' = NoBatch
        PROVE  ViewHolds'
    BY <2>1 DEF ViewHolds
  <2>2. CASE lock = NoBatch /\ lock' # NoBatch
    <3>1. PICK b \in Batches : BeginApply(b)
      BY <2>2, OthersFreeze DEF Next, Govern, Persist, BeginApply, AdoptNext, CommitApply, AbortApply, Undo, Withdraw
    <3> QED
      BY <1>1, <3>1, BeginApplyView
  <2>3. CASE lock # NoBatch /\ lock' # NoBatch
    <3>1. AdoptNext \/ (Others /\ UNCHANGED <<tables, lock, work>>)
      BY <2>3, OthersFreeze DEF Next, Govern, Persist, BeginApply, AdoptNext, CommitApply, AbortApply, Undo, Withdraw
    <3>2. UNCHANGED <<tables, lock>> /\ lock \in Batches /\ proposals[lock].status = "validated"
      BY <2>3, <3>1 DEF AdoptNext, Governed, LockedIsValidated
    <3>3. edited'[lock] = edited[lock]
      BY <1>1, <3>2 DEF Track, tables
    <3>4. CASE AdoptNext
      BY <1>1, <3>3, <3>4, AdoptNextView
    <3>5. CASE UNCHANGED <<tables, lock, work>>
      BY <1>1, <3>2, <3>3, <3>5 DEF ViewHolds, RowHolds, Kept, Decisions, tables
    <3> QED
      BY <3>1, <3>4, <3>5
  <2> QED
    BY <2>1, <2>2, <2>3
<1> QED
  BY <1>3, <1>4 DEF Revised

LEMMA InitRevised == Init => Revised
<1> SUFFICES ASSUME Init PROVE Revised
  OBVIOUS
<1>1. ASSUME NEW i \in Ids, records[i].life = "stored"
      PROVE  records[i].claim \in Claims
  BY <1>1, SeedAssumption DEF Init, Fresh, Blank
<1>2. \A b \in Batches : proposals[b].status = "absent" /\ applied[b] = NoRevisions
  BY DEF Init, Absent
<1>3. lock = NoBatch
  BY DEF Init
<1> QED
  BY <1>1, <1>2, <1>3 DEF Revised, ProposalsHold, ViewHolds, Claimed, Frozen, Settled, Unapplied

\* What every step is taken from.
Sound == TypeOK /\ Governed /\ RowsAreKeyed /\ Revised

LEMMA SoundAlways == Spec => []Sound
<1>1. TypeOK /\ TypeOK' /\ Governed /\ RowsAreKeyed /\ Revised /\ [Next]_vars => Revised'
  <2> SUFFICES ASSUME TypeOK, TypeOK', Governed, RowsAreKeyed, Revised, [Next]_vars PROVE Revised'
    OBVIOUS
  <2>1. CASE UNCHANGED vars
    BY <2>1 DEF vars, tables, Revised, ProposalsHold, ViewHolds, Claimed, Frozen, Settled, Unapplied,
                RowHolds, Kept, Decisions
  <2> QED
    BY <2>1, NextRevised
<1> QED
  BY <1>1, InitRevised, TypeCorrect, GovernedAlways, KeyedAlways, PTL DEF Spec, Sound

----------------------------------------------------------------------------
(* What a step may never do *)

LEMMA AppliedByCommit ==
    ASSUME Sound, Next, NEW b \in Batches, Becomes(b, "applied")
    PROVE  CommitApply /\ lock = b
<1>1. proposals \in [Batches -> PropRows] /\ proposals[b] \in PropRows
  BY DEF Sound, TypeOK, StoreOK
<1>2. ASSUME NEW c \in Batches, NEW p \in Payloads, Persist(c, p)
      PROVE  FALSE
  BY <1>1, <1>2 DEF Persist, Becomes
<1>3. ASSUME NEW c \in Batches, Undo(c)
      PROVE  FALSE
  BY <1>1, <1>3 DEF Undo, Becomes, PropRows
<1>4. ASSUME NEW s \in Sources, Withdraw(s)
      PROVE  FALSE
  BY <1>1, <1>4 DEF Withdraw, Becomes, PropRows
<1>5. ASSUME proposals' = proposals
      PROVE  FALSE
  BY <1>5 DEF Becomes
<1>6. ~Others
  BY <1>5, OthersFreeze
<1>7. ~AdoptNext /\ ~AbortApply /\ \A c \in Batches : ~BeginApply(c)
  BY <1>5 DEF AdoptNext, AbortApply, BeginApply, tables
<1>8. CommitApply
  BY <1>2, <1>3, <1>4, <1>6, <1>7 DEF Next, Govern
<1>9. lock = b
  BY <1>1, <1>8 DEF CommitApply, Becomes
<1> QED
  BY <1>8, <1>9

LEMMA RevertedByUndo ==
    ASSUME Sound, Next, NEW b \in Batches, Becomes(b, "reverted")
    PROVE  Undo(b)
<1>1. proposals \in [Batches -> PropRows] /\ proposals[b] \in PropRows
  BY DEF Sound, TypeOK, StoreOK
<1>2. ASSUME NEW c \in Batches, NEW p \in Payloads, Persist(c, p)
      PROVE  FALSE
  BY <1>1, <1>2 DEF Persist, Becomes
<1>3. ASSUME CommitApply
      PROVE  FALSE
  BY <1>1, <1>3 DEF CommitApply, Becomes, PropRows
<1>4. ASSUME NEW s \in Sources, Withdraw(s)
      PROVE  FALSE
  BY <1>1, <1>4 DEF Withdraw, Becomes, PropRows
<1>5. ASSUME proposals' = proposals
      PROVE  FALSE
  BY <1>5 DEF Becomes
<1>6. ~Others
  BY <1>5, OthersFreeze
<1>7. ~AdoptNext /\ ~AbortApply /\ \A c \in Batches : ~BeginApply(c)
  BY <1>5 DEF AdoptNext, AbortApply, BeginApply, tables
<1>8. PICK c \in Batches : Undo(c)
  BY <1>2, <1>3, <1>4, <1>6, <1>7 DEF Next, Govern
<1>9. c = b
  BY <1>1, <1>8 DEF Undo, Becomes, PropRows
<1> QED
  BY <1>8, <1>9

\* An apply archives no row that anybody touched after the proposal froze it, however
\* many writers came in between and whatever they changed and changed back.
THEOREM AppliesRejectChangedTargets == Spec => ApplyRejectsChangedTargets
<1> DEFINE P == \A b \in Batches : Becomes(b, "applied") =>
                  \A i \in Ids : Active(records[i]) /\ ~Active(records'[i]) => i \notin edited[b]
<1>1. Sound /\ Next => P
  <2> SUFFICES ASSUME Sound, Next, NEW b \in Batches, Becomes(b, "applied"),
                      NEW i \in Ids, Active(records[i]), ~Active(records'[i])
               PROVE  i \notin edited[b]
    BY Zenon
  <2>1. CommitApply /\ lock = b
    BY AppliedByCommit
  <2> QED
    BY <2>1 DEF CommitApply, Sound, Revised, ViewHolds, RowHolds
<1>2. UNCHANGED vars => P
  BY DEF vars, tables, Becomes
<1> HIDE DEF P
<1>3. Sound /\ [Next]_vars => [P]_vars
  BY <1>1, <1>2
<1>4. Spec => [][P]_vars
  BY <1>3, SoundAlways, PTL DEF Spec
<1> QED
  BY <1>4 DEF P, ApplyRejectsChangedTargets

\* A committed batch leaves every claim it adopted in use with the evidence the decision
\* gave it: no later decision of the batch supersedes what an earlier one adopted.
THEOREM CommitsKeepTheirClaims == Spec => CommitKeepsItsClaims
<1> DEFINE P == \A b \in Batches : Becomes(b, "applied") =>
                  \A k \in DOMAIN Decisions(b) :
                     Decisions(b)[k].adopt =>
                        \E i \in proposals'[b].ids :
                            /\ Active(records'[i])
                            /\ Norm[records'[i].claim] = Norm[Decisions(b)[k].claim]
                            /\ Decisions(b)[k].sources \subseteq records'[i].sources
<1>1. Sound /\ Next => P
  <2> SUFFICES ASSUME Sound, Next, NEW b \in Batches, Becomes(b, "applied"),
                      NEW k \in DOMAIN Decisions(b), Decisions(b)[k].adopt
               PROVE  \E i \in proposals'[b].ids :
                         /\ Active(records'[i])
                         /\ Norm[records'[i].claim] = Norm[Decisions(b)[k].claim]
                         /\ Decisions(b)[k].sources \subseteq records'[i].sources
    BY Zenon
  <2>1. CommitApply /\ lock = b /\ b # NoBatch
    BY AppliedByCommit, ConstantsAssumption
  <2>2. /\ work.next = Len(Decisions(b)) + 1 /\ records' = work.records
        /\ proposals' = [proposals EXCEPT ![b].status = "applied", ![b].ids = work.ids]
        /\ proposals[b] \in PropRows /\ proposals \in [Batches -> PropRows]
    BY <2>1 DEF CommitApply, Sound, TypeOK, StoreOK
  <2>3. proposals'[b].ids = work.ids /\ work.ids \subseteq Ids
    BY <2>2 DEF PropRows, Sound, TypeOK, StoreOK, WorkRows
  <2>4. Decisions(b) \in Seq(Decision)
    BY <2>2, PayloadsAssumption DEF Decisions, PropRows
  <2>5. k < work.next
    BY <2>2, <2>4
  <2>6. PICK i \in work.ids : /\ Norm[work.records[i].claim] = Norm[Decisions(b)[k].claim]
                              /\ Decisions(b)[k].sources \subseteq work.records[i].sources
    BY <2>1, <2>5 DEF Sound, Revised, ViewHolds, Kept
  <2>7. Active(work.records[i])
    BY <2>1, <2>3 DEF Sound, Revised, ViewHolds, RowHolds
  <2> QED
    BY <2>2, <2>3, <2>6, <2>7
<1>2. UNCHANGED vars => P
  BY DEF vars, tables, Becomes
<1> HIDE DEF P
<1>3. Sound /\ [Next]_vars => [P]_vars
  BY <1>1, <1>2
<1>4. Spec => [][P]_vars
  BY <1>3, SoundAlways, PTL DEF Spec
<1> QED
  BY <1>4 DEF P, CommitKeepsItsClaims

\* What an undo looks at has not been touched since the apply.
LEMMA UndoLooksAtUntouched ==
    ASSUME Sound, NEW b \in Batches, proposals[b].status = "applied"
    PROVE  /\ \A i \in Undoable(b) : i \notin edited[b]
           /\ \A n \in Undoable(b) : \A r \in Replaced(b, n) :
                 r \notin edited[b] /\ Saves(records[r])
<1>1. \A i \in Ids : records[i] \in Rows /\ records[i].ver \in Nat
  BY DEF Sound, TypeOK, StoreOK, Rows
<1>2. Settled(b)
  BY DEF Sound, Revised, ProposalsHold
<1>3. \A i \in Undoable(b) : i \notin edited[b]
  BY <1>1, <1>2 DEF Undoable, Created, Settled, Active
<1>4. ASSUME NEW n \in Undoable(b), NEW r \in Replaced(b, n)
      PROVE  r \notin edited[b] /\ Saves(records[r])
  <2>1. /\ r \in Ids /\ applied[b][r] = Revision(records[r]) /\ records[r].life = "stored"
        /\ records[r] \in Rows /\ records[r].ver \in Nat
    BY <1>1, <1>4 DEF Undoable, Replaced
  <2>2. /\ applied[b][r] # NoRev /\ applied[b][r].ver = records[r].ver
        /\ applied[b][r].meta = records[r].meta
    BY <2>1, RevisionOf
  <2> QED
    BY <1>2, <2>1, <2>2 DEF Settled, Outdated, Saves
<1> QED
  BY <1>3, <1>4

\* An undo leaves every row somebody touched since the apply exactly as it finds it,
\* whichever side of a supersession the row is on.
THEOREM UndosPreserveLaterEdits == Spec => UndoPreservesLaterEdits
<1> DEFINE P == \A b \in Batches : Becomes(b, "reverted") =>
                  \A i \in edited[b] : records'[i] = records[i]
<1>1. Sound /\ Next => P
  <2> SUFFICES ASSUME Sound, Next, NEW b \in Batches, Becomes(b, "reverted"), NEW i \in edited[b]
               PROVE  records'[i] = records[i]
    BY Zenon
  <2>1. Undo(b) /\ proposals[b].status = "applied"
    BY RevertedByUndo DEF Undo
  <2>2. i \notin Undoable(b) /\ i \notin Restorable(b)
    BY <2>1, UndoLooksAtUntouched DEF Restorable
  <2>3. i \in Ids
    BY DEF Sound, TypeOK
  <2> QED
    BY <2>1, <2>2, <2>3 DEF Undo
<1>2. UNCHANGED vars => P
  BY DEF vars, tables, Becomes
<1> HIDE DEF P
<1>3. Sound /\ [Next]_vars => [P]_vars
  BY <1>1, <1>2
<1>4. Spec => [][P]_vars
  BY <1>3, SoundAlways, PTL DEF Spec
<1> QED
  BY <1>4 DEF P, UndoPreservesLaterEdits

\* When an undo retires a replacement, no row the batch archived in its favour stays
\* archived: each was untouched, so each still holds the state it is put back to.
THEOREM UndosTakeBackWholeSupersessions == Spec => UndoTakesBackWholeSupersession
<1> DEFINE P == \A b \in Batches : Becomes(b, "reverted") =>
                  \A n, r \in Ids :
                     /\ Active(records[n]) /\ ~Active(records'[n])
                     /\ records'[r].life = "stored" /\ records'[r].archived
                     /\ records'[r].temporal = "superseded" /\ records'[r].meta.link = b
                     => records'[r].by # n
<1>1. Sound /\ Next => P
  <2> SUFFICES ASSUME Sound, Next, NEW b \in Batches, Becomes(b, "reverted"), NEW n \in Ids, NEW r \in Ids,
                      Active(records[n]), ~Active(records'[n]),
                      records'[r].life = "stored", records'[r].archived,
                      records'[r].temporal = "superseded", records'[r].meta.link = b,
                      records'[r].by = n
               PROVE  FALSE
    BY Zenon
  <2>1. /\ Undo(b) /\ proposals[b].status = "applied" /\ seq + 1 \in Nat
        /\ \A i \in Ids : records[i] \in Rows
    <3>1. Undo(b) /\ proposals[b].status = "applied"
      BY RevertedByUndo DEF Undo
    <3>2. seq + 1 \in Nat /\ \A i \in Ids : records[i] \in Rows
      BY DEF Sound, TypeOK, StoreOK
    <3> QED
      BY <3>1, <3>2
  <2>2. n \in Undoable(b)
    <3>1. n \notin Restorable(b)
      BY DEF Restorable, Replaced, Active
    <3> QED
      BY <2>1, <3>1 DEF Undo
  <2>3. CASE r \in Restorable(b)
    <3>1. Saves(records[r]) /\ records[r].life = "stored"
      BY <2>1, <2>3, UndoLooksAtUntouched DEF Restorable, Replaced
    <3>2. records'[r] = Restored(records[r], seq + 1)
      BY <2>1, <2>3 DEF Undo
    <3> QED
      BY <2>1, <3>1, <3>2, RestoredAges DEF Saves
  <2>4. CASE r \notin Restorable(b) /\ r \in Undoable(b)
    <3>1. records'[r] = [records[r] EXCEPT !.archived = TRUE, !.temporal = "historical", !.ver = @ + 1]
      BY <2>1, <2>4 DEF Undo
    <3>2. records'[r].temporal = "historical"
      BY <2>1, <3>1 DEF Rows
    <3> QED
      BY <3>2
  <2>5. CASE r \notin Restorable(b) /\ r \notin Undoable(b)
    <3>1. records'[r] = records[r]
      BY <2>1, <2>5 DEF Undo
    <3>2. r \in Replaced(b, n)
      BY <3>1 DEF Replaced
    <3>3. Saves(records[r])
      BY <2>1, <2>2, <3>2, UndoLooksAtUntouched
    <3> QED
      BY <2>2, <2>5, <3>2, <3>3 DEF Restorable, Saves
  <2> QED
    BY <2>3, <2>4, <2>5
<1>2. UNCHANGED vars => P
  BY DEF vars, tables, Becomes
<1> HIDE DEF P
<1>3. Sound /\ [Next]_vars => [P]_vars
  BY <1>1, <1>2
<1>4. Spec => [][P]_vars
  BY <1>3, SoundAlways, PTL DEF Spec
<1> QED
  BY <1>4 DEF P, UndoTakesBackWholeSupersession

\* No step of any actor brings a row back under a mutation sequence that a bounded scan
\* may already have passed.
THEOREM ReactivationsAreSequenced == Spec => ReactivationIsSequenced
<1> DEFINE P == \A i \in Ids :
                  /\ records[i].life = "stored"
                  /\ ~Eligible(records[i]) /\ Eligible(records'[i])
                  => records'[i].mseq > seq
<1>1. Sound /\ Next => P
  <2> SUFFICES ASSUME Sound, Next, NEW i \in Ids, records[i].life = "stored",
                      ~Eligible(records[i]), Eligible(records'[i])
               PROVE  records'[i].mseq > seq
    OBVIOUS
  <2>1. seq < records'[i].mseq
    BY NextAges DEF Sound, Revised, Wakes
  <2>2. seq \in Nat /\ records'[i].mseq \in Nat
    BY NextType DEF Sound, TypeOK, StoreOK, Rows
  <2> QED
    BY <2>1, <2>2
<1>2. UNCHANGED vars => P
  BY DEF vars, tables
<1> HIDE DEF P
<1>3. Sound /\ [Next]_vars => [P]_vars
  BY <1>1, <1>2
<1>4. Spec => [][P]_vars
  BY <1>3, SoundAlways, PTL DEF Spec
<1> QED
  BY <1>4 DEF P, ReactivationIsSequenced
=============================================================================
