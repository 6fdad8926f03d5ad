----------------------- MODULE ConsolidationProperties -----------------------
(* What governed consolidation must guarantee, stated over Consolidation.    *)
EXTENDS Consolidation

PrevRows == [saved: BOOLEAN, archived: BOOLEAN, temporal: TemporalStates,
             by: Ids \cup {NoId}, batch: Batches \cup {NoBatch},
             link: Batches \cup {NoBatch}, patch: BOOLEAN]
MetaRows == [batch: Batches \cup {NoBatch}, link: Batches \cup {NoBatch}, patch: BOOLEAN,
             prev: PrevRows]
Rows     == [life: {"free", "stored", "deleted"}, claim: Claims \cup {NoClaim},
             hash: Claims \cup {NoClaim}, sources: SUBSET Sources, archived: BOOLEAN, temporal: TemporalStates,
             by: Ids \cup {NoId}, supersedes: SUBSET Ids, meta: MetaRows, ver: Nat,
             trust: {"trusted", "quarantined"}, mseq: Nat]
RevisionRows == [hash: Claims \cup {NoClaim}, sources: SUBSET Sources, meta: MetaRows,
                 archived: BOOLEAN, temporal: TemporalStates, by: Ids \cup {NoId},
                 supersedes: SUBSET Ids, ver: Nat]
Revisions == RevisionRows \cup {NoRev}

\* No digest is NULL.
ASSUME NoRevAssumption == NoRev \notin RevisionRows

Statuses == {"absent", "validated", "applied", "reverted", "rejected"}

PropRows   == [status: Statuses, payload: Payloads \cup {<< >>}, ids: SUBSET Ids]
WorkRows   == [records: [Ids -> Rows], applied: [Ids -> Revisions], seq: Nat,
               bumped: BOOLEAN, ids: SUBSET Ids, next: Nat \ {0}]
WriterRows == {w \in [pc: {"idle", "merge", "insert"}, id: Ids \cup {NoId},
                      claim: Claims \cup {NoClaim}, sources: SUBSET Sources, meta: MetaRows] :
                 w.pc = "idle" \/ w.claim \in Claims}

StoreOK ==
    /\ records \in [Ids -> Rows]
    /\ proposals \in [Batches -> PropRows]
    /\ proposed \in [Batches -> [Ids -> Revisions]]
    /\ applied \in [Batches -> [Ids -> Revisions]]
    /\ withdrawn \in SUBSET Sources
    /\ seq \in Nat
    /\ lock \in Batches \cup {NoBatch}
    /\ work \in WorkRows
    /\ writer \in [Writers -> WriterRows]
    /\ known \in [Batches -> SUBSET Sources]

\* Every variable holds a value of the shape its table column has: no update writes
\* an id where a batch belongs, or leaves a column outside its CHECK constraint.
TypeOK == StoreOK /\ edited \in [Batches -> SUBSET Ids]
----------------------------------------------------------------------------
(* Invariants *)

\* One row per hash, and a row is hashed from its content or from the content's norm.
Keyed(R) ==
    /\ \A i, j \in Ids :
          R[i].life = "stored" /\ R[j].life = "stored" /\ R[i].hash = R[j].hash => i = j
    /\ \A i \in Ids : R[i].life = "stored" => R[i].hash \in {R[i].claim, Norm[R[i].claim]}

Mutual(R) == \A i \in Ids :
    R[i].life = "stored" /\ R[i].temporal = "superseded" /\ R[i].by # NoId
    => R[R[i].by].life = "deleted" \/ i \in R[R[i].by].supersedes

Ends(R) == \A S \in (SUBSET Ids) \ {{}} :
    \E i \in S : R[i].temporal # "superseded" \/ R[i].by \notin S

\* However lookups, inserts and applies interleave, a claim never gets more than two
\* rows: one under its exact hash and one under the normalised one.
ClaimsHaveTwoRowsAtMost ==
    \A c \in Claims : \A i, j, k \in Ids :
        (\A x \in {i, j, k} : records[x].life = "stored" /\ records[x].claim = c)
        => i = j \/ j = k \/ i = k

\* A superseded row and the row that superseded it name each other for as long as
\* both exist, through undo, re-adoption, patches and stale upserts.
SupersessionIsMutual == Mutual(records)

\* Following superseded_by always ends: no set of superseded rows is closed under it.
SupersessionEnds == Ends(records)

\* A withdrawal catches every proposal persisted before it: none of them is ever
\* applied on the strength of a source that is gone, and none stays applied.
NoAppliedProposalCitesWithdrawn ==
    \A b \in Batches :
        proposals[b].status = "applied" =>
            Cited(proposals[b].payload) \cap withdrawn \subseteq known[b]
----------------------------------------------------------------------------
(* What a step may never do *)

Becomes(b, s) == proposals[b].status # s /\ proposals'[b].status = s

\* "Apply rejects changed targets": a row a batch archives has not been touched by
\* anyone since the batch was persisted.
ApplyRejectsChangedTargets ==
    [][\A b \in Batches : Becomes(b, "applied") =>
          \A i \in Ids : Active(records[i]) /\ ~Active(records'[i]) => i \notin edited[b]]_vars

\* A committed batch leaves every claim it adopted active and carrying the evidence:
\* no decision of a batch may archive what another one adopted.
CommitKeepsItsClaims ==
    [][\A b \in Batches : Becomes(b, "applied") =>
          \A k \in DOMAIN Decisions(b) :
             Decisions(b)[k].adopt =>
                \E i \in proposals'[b].ids :
                    /\ Active(records'[i])
                    /\ Norm[records'[i].claim] = Norm[Decisions(b)[k].claim]
                    /\ Decisions(b)[k].sources \subseteq records'[i].sources]_vars

\* "Undo preserves later edits to either side": rows others touched since the
\* apply are left exactly as they are.
UndoPreservesLaterEdits ==
    [][\A b \in Batches : Becomes(b, "reverted") =>
          \A i \in edited[b] : records'[i] = records[i]]_vars

\* Undo takes back a supersession as a whole: when it retires a replacement, no row
\* linked to the batch stays archived in its favour.
UndoTakesBackWholeSupersession ==
    [][\A b \in Batches : Becomes(b, "reverted") =>
          \A n, r \in Ids :
              /\ Active(records[n]) /\ ~Active(records'[n])
              /\ records'[r].life = "stored" /\ records'[r].archived
              /\ records'[r].temporal = "superseded" /\ records'[r].meta.link = b
              => records'[r].by # n]_vars

\* Every step that brings an existing row back within the scheduler's reach gives it
\* a mutation sequence above all those already committed; otherwise a bounded scan
\* whose frontier has passed the row would never see it again.
ReactivationIsSequenced ==
    [][\A i \in Ids :
          /\ records[i].life = "stored"
          /\ ~Eligible(records[i]) /\ Eligible(records'[i])
          => records'[i].mseq > seq]_vars
----------------------------------------------------------------------------
(* What the comments say and the code does not do *)

\* "Never replace metadata owned by the existing writer": the merge half of an upsert
\* leaves the row's governance metadata as it finds it.
MergeKeepsMetadata ==
    [][\A w \in Writers :
          writer[w].pc = "merge" /\ writer'[w].pc = "idle" =>
             LET i == writer[w].id
             IN  records[i].life = "stored" => records'[i].meta = records[i].meta]_vars

\* "Derived records are invalidated": a row that cites a withdrawn source comes back
\* into use only with evidence it did not have.
WithdrawnRowsNeedFreshEvidence ==
    [][\A i \in Ids :
          /\ records[i].life = "stored" /\ ~Active(records[i]) /\ Active(records'[i])
          /\ records[i].sources \cap withdrawn # {}
          => records'[i].sources # records[i].sources]_vars
----------------------------------------------------------------------------
(* Refinement *)

LedgerRows == [b \in Batches |-> [status |-> proposals[b].status,
                                  payload |-> proposals[b].payload]]

L == INSTANCE ProposalLedger WITH ledger <- LedgerRows, NoPayload <- << >>

\* The table, as the store's transactions move it, implements ProposalLedger:
\* proposals are immutable and a digest is adopted at most once, ever.
Ledger == L!Spec
=============================================================================
