--------------------------- MODULE Consolidation ---------------------------
(***************************************************************************)
(* Governed consolidation over the memory_records table of the store       *)
(* (src/src/store.rs): proposals are persisted with the revisions of the   *)
(* records they would supersede, applied and undone in immediate SQLite    *)
(* transactions, and live beside every other writer of the records:        *)
(* upserts (which read outside the transaction that writes), forget,       *)
(* patches, quarantine and the withdrawal of a source.                     *)
(*                                                                         *)
(* One profile, workspace and repository.  A record's updated_at is its    *)
(* number of updates, `ver`: the code compares it only with created_at     *)
(* (ver = 0) and inside a revision digest.  A revision digest is the tuple *)
(* it digests.  A failed call changes nothing, so it is a disabled action. *)
(*                                                                         *)
(* A definition marked "Slip" is the next one with a plausible mistake in  *)
(* it; no action uses it.  README.md says which property catches which.    *)
(***************************************************************************)
EXTENDS Integers, Sequences, FiniteSets

CONSTANTS
    Ids,        \* record ids, never reused (UUIDs)
    Claims,     \* contents
    Norm,       \* a content trimmed, lower-cased, its spaces collapsed
    Sources,    \* memory_sources ids
    Batches,    \* proposal batch ids
    Writers,    \* threads inside Store::upsert_record
    Payloads,   \* the decision sequences a proposal may carry
    Seed,       \* id -> [claim, sources] of the records stored at start
    NoId, NoClaim, NoBatch, NoRev,
    MaxVer      \* bound on the edits of one record by the other writers

TemporalStates == {"current", "superseded", "planned", "completed", "invalidated", "historical"}

\* One decision of a proposal, with the candidate it refers to.
Decision == [adopt: BOOLEAN, claim: Claims, sources: SUBSET Sources,
             supersedes: SUBSET Ids, temporal: TemporalStates \cup {"unset"}]

ASSUME ConstantsAssumption ==
    /\ NoId \notin Ids /\ NoClaim \notin Claims /\ NoBatch \notin Batches
    /\ MaxVer \in Nat

ASSUME NormAssumption == Norm \in [Claims -> Claims] /\ \A c \in Claims : Norm[Norm[c]] = Norm[c]

ASSUME PayloadsAssumption == Payloads \subseteq Seq(Decision) /\ << >> \notin Payloads

ASSUME SeedAssumption ==
    /\ DOMAIN Seed \subseteq Ids
    /\ \A i \in DOMAIN Seed : Seed[i] \in [claim: Claims, sources: SUBSET Sources]
    /\ \A i, j \in DOMAIN Seed : Norm[Seed[i].claim] = Norm[Seed[j].claim] => i = j

VARIABLES
    records,    \* memory_records
    proposals,  \* consolidation_proposals
    proposed,   \* consolidation_target_revisions.proposed_revision
    applied,    \* consolidation_target_revisions.applied_revision
    withdrawn,  \* sources whose metadata says withdrawn
    seq,        \* active_memory_mutation_counter
    lock,       \* the batch whose apply transaction holds the write lock
    work,       \* that transaction's uncommitted view
    writer,     \* what each upsert has read and not yet written
    edited,     \* history: records others changed since a batch's last step
    known       \* history: sources already withdrawn when a batch was persisted

tables == <<records, proposals, proposed, applied, withdrawn, seq>>
vars   == <<tables, lock, work, writer, edited, known>>
----------------------------------------------------------------------------
(* Rows *)

NoPrev == [saved |-> FALSE, archived |-> FALSE, temporal |-> "current", by |-> NoId,
           batch |-> NoBatch, link |-> NoBatch, patch |-> FALSE]

\* The metadata keys that steer governance: batch_id, consolidation_batch_id,
\* archived_by_patch_run_id, and consolidation_previous(_metadata), of which only
\* what an undo reads is kept.
Metadata(b) == [batch |-> b, link |-> NoBatch, patch |-> FALSE, prev |-> NoPrev]

\* `hash` is content_hash without its constant parts: a batch hashes the content it
\* inserts as it is, every other writer hashes Norm of it, both into one column.
Fresh(c, h, S, b, t) ==
    [life |-> "stored", claim |-> c, hash |-> h, sources |-> S, archived |-> FALSE, temporal |-> t,
     by |-> NoId, supersedes |-> {}, meta |-> Metadata(b), ver |-> 0, trust |-> "trusted",
     mseq |-> 0]

Blank(l) == [Fresh(NoClaim, NoClaim, {}, NoBatch, "current") EXCEPT !.life = l]

Active(r)   == r.life = "stored" /\ ~r.archived
Current(r)  == Active(r) /\ r.temporal = "current"
\* What the scheduler's mutation scan may select.
Eligible(r) == Active(r) /\ r.trust = "trusted"

\* Slip: the digest leaves out what an update writes besides the state.
ThinRevision(r) == [archived |-> r.archived, temporal |-> r.temporal, by |-> r.by,
                    supersedes |-> r.supersedes]

Revision(r) == [hash |-> r.hash, sources |-> r.sources, meta |-> r.meta,
                archived |-> r.archived, temporal |-> r.temporal, by |-> r.by,
                supersedes |-> r.supersedes, ver |-> r.ver]

\* Slip: archived rows are left out of the lookup.
HashedActive(R, h) == {i \in Ids : Active(R[i]) /\ R[i].hash = h}

\* The UNIQUE content_hash index holds every stored row, archived or not.
Hashed(R, h) == {i \in Ids : R[i].life = "stored" /\ R[i].hash = h}

\* Rows in use whose content is c, whatever they were hashed from.
Stated(R, c) == {i \in Ids : Current(R[i]) /\ R[i].claim = c}

NoRevisions == [i \in Ids |-> NoRev]
Absent == [status |-> "absent", payload |-> << >>, ids |-> {}]
Idle == [pc |-> "idle", id |-> NoId, claim |-> NoClaim, sources |-> {}, meta |-> Metadata(NoBatch)]
NoWork == [records |-> [i \in Ids |-> Blank("free")], applied |-> NoRevisions, seq |-> 0,
           bumped |-> FALSE, ids |-> {}, next |-> 1]

Decisions(b) == proposals[b].payload
Cited(p)     == UNION {p[k].sources : k \in DOMAIN p}
Targets(p)   == UNION {p[k].supersedes : k \in DOMAIN p}

Init ==
    /\ records = [i \in Ids |-> IF i \in DOMAIN Seed
                                THEN Fresh(Seed[i].claim, Norm[Seed[i].claim], Seed[i].sources,
                                           NoBatch, "current")
                                ELSE Blank("free")]
    /\ proposals = [b \in Batches |-> Absent]
    /\ proposed = [b \in Batches |-> NoRevisions]
    /\ applied = [b \in Batches |-> NoRevisions]
    /\ withdrawn = {}
    /\ seq = 0
    /\ lock = NoBatch
    /\ work = NoWork
    /\ writer = [w \in Writers |-> Idle]
    /\ edited = [b \in Batches |-> {}]
    /\ known = [b \in Batches |-> {}]
----------------------------------------------------------------------------
(* Proposals *)

\* INSERT ON CONFLICT DO NOTHING: a batch id or a digest already present leaves
\* the stored proposal untouched.  A fresh row freezes its targets' revisions.
Persist(b, p) ==
    /\ lock = NoBatch
    /\ proposals[b].status = "absent"
    /\ \A c \in Batches : proposals[c].payload # p
    /\ \A t \in Targets(p) : records[t].life = "stored"
    /\ proposals' = [proposals EXCEPT ![b] = [status |-> "validated", payload |-> p, ids |-> {}]]
    /\ proposed' = [proposed EXCEPT
            ![b] = [i \in Ids |-> IF i \in Targets(p) THEN Revision(records[i]) ELSE NoRev]]
    /\ known' = [known EXCEPT ![b] = withdrawn]
    /\ UNCHANGED <<records, applied, withdrawn, seq, lock, work, writer>>

\* Slip: only an applied proposal is told apart.
BeginApplyUnlessApplied(b) ==
    /\ lock = NoBatch
    /\ proposals[b].status \notin {"absent", "applied"}
    /\ lock' = b
    /\ work' = [records |-> records, applied |-> applied[b], seq |-> seq,
                bumped |-> FALSE, ids |-> {}, next |-> 1]
    /\ UNCHANGED <<tables, writer, known>>

\* apply_consolidation_proposal up to its loop.  An applied proposal returns its
\* stored ids; a reverted or rejected one is refused.
BeginApply(b) ==
    /\ lock = NoBatch
    /\ proposals[b].status = "validated"
    /\ lock' = b
    /\ work' = [records |-> records, applied |-> applied[b], seq |-> seq,
                bumped |-> FALSE, ids |-> {}, next |-> 1]
    /\ UNCHANGED <<tables, writer, known>>

\* Slip: any stored row of the hash will do.
ReusableAny(R, d) == Hashed(R, d.claim)

\* The row a decision reuses: one in use under the claim's exact hash, else one in
\* use with that content, else, for a decision that supersedes nothing, a plainly
\* archived one under the hash.
Reusable(R, d) ==
    LET named == Hashed(R, d.claim)
        inuse == {i \in named : Current(R[i])}
        plain == {i \in named : R[i].archived /\ R[i].temporal = "current"}
    IN  IF inuse # {} THEN inuse
        ELSE IF Stated(R, d.claim) # {} THEN Stated(R, d.claim)
        ELSE IF d.supersedes = {} THEN plain ELSE {}

Reused(r, d, s) ==
    [r EXCEPT !.sources = @ \cup d.sources, !.archived = FALSE, !.ver = @ + 1, !.mseq = s,
              !.temporal = IF d.temporal = "unset" THEN @ ELSE d.temporal]

\* The row a decision inserts.
Adopted(d, b) == Fresh(d.claim, d.claim, d.sources, b,
                       IF d.temporal = "unset" THEN "current" ELSE d.temporal)

\* Slip: superseded_by and the batch id swapped, both &str parameters.
SupersededSwapped(r, n, b) ==
    [r EXCEPT !.archived = TRUE, !.temporal = "superseded", !.by = b, !.ver = @ + 1,
              !.meta.link = n]

Superseded(r, n, b) ==
    [r EXCEPT !.archived = TRUE, !.temporal = "superseded", !.by = n, !.ver = @ + 1,
              !.meta = [@ EXCEPT !.link = b,
                                 !.prev = [saved |-> TRUE, archived |-> r.archived,
                                           temporal |-> r.temporal, by |-> r.by,
                                           batch |-> r.meta.batch, link |-> r.meta.link,
                                           patch |-> r.meta.patch]]]

\* Slip: only the state of the targets is checked, not their revision.
ReplaceableCurrent(R, b, T) == \A t \in T : Current(R[t])

\* apply_consolidation_supersession: every target must still have the revision
\* frozen at persist and be current, else the transaction fails as stale.
Replaceable(R, b, T) == \A t \in T : proposed[b][t] = Revision(R[t]) /\ Current(R[t])

\* Slip: the replacement is not told what it supersedes.
ReplaceOneSided(R, b, n, T) ==
    [i \in Ids |-> IF i \in T THEN Superseded(R[i], n, b) ELSE R[i]]

Replace(R, b, n, T) ==
    [i \in Ids |-> IF i \in T THEN Superseded(R[i], n, b)
                   ELSE IF i = n THEN [R[i] EXCEPT !.supersedes = @ \cup T]
                   ELSE R[i]]

\* The adopted row n written into view R, then the supersession of its targets.
AdoptInto(R, d, n, s, bumped) ==
    LET T == d.supersedes \ {n}
        V == Replace(R, lock, n, T)
    IN  /\ Replaceable(R, lock, T)
        /\ work' = [records |-> V, seq |-> s, bumped |-> bumped,
                    applied |-> [i \in Ids |-> IF i \in T THEN Revision(V[i])
                                               ELSE work.applied[i]],
                    ids |-> work.ids \cup {n}, next |-> work.next + 1]

\* One turn of the decision loop.
AdoptNext ==
    /\ lock # NoBatch
    /\ work.next \in DOMAIN Decisions(lock)
    /\ LET d == Decisions(lock)[work.next]
           s == IF work.bumped THEN work.seq ELSE work.seq + 1
       IN  \/ /\ ~d.adopt
              /\ work' = [work EXCEPT !.next = @ + 1]
           \/ /\ d.adopt
              /\ \E i \in Reusable(work.records, d) :
                    AdoptInto([work.records EXCEPT ![i] = Reused(@, d, s)], d, i, s, TRUE)
           \/ /\ d.adopt
              /\ Reusable(work.records, d) = {} /\ Hashed(work.records, d.claim) = {}
              /\ \E i \in Ids :
                    /\ work.records[i].life = "free"
                    /\ AdoptInto([work.records EXCEPT ![i] = Adopted(d, lock)],
                                 d, i, work.seq, work.bumped)
    /\ UNCHANGED <<tables, lock, writer, known>>

CommitApply ==
    /\ lock # NoBatch
    /\ work.next = Len(Decisions(lock)) + 1
    /\ records' = work.records
    /\ seq' = work.seq
    /\ applied' = [applied EXCEPT ![lock] = work.applied]
    /\ proposals' = [proposals EXCEPT ![lock].status = "applied", ![lock].ids = work.ids]
    /\ lock' = NoBatch
    /\ work' = NoWork
    /\ UNCHANGED <<proposed, withdrawn, writer, known>>

\* An error in the loop, or a crash before COMMIT, drops the transaction.
AbortApply ==
    /\ lock # NoBatch
    /\ lock' = NoBatch
    /\ work' = NoWork
    /\ UNCHANGED <<tables, writer, known>>
----------------------------------------------------------------------------
(* Undo and withdrawal *)

\* Slip: rows updated since count too.
CreatedEver(b) == {n \in Ids : Active(records[n]) /\ records[n].meta.batch = b}

\* Rows the batch inserted that nobody updated since.
Created(b) == {n \in Ids : /\ Active(records[n]) /\ records[n].meta.batch = b
                           /\ records[n].ver = 0}

\* Rows the batch superseded by n, as their metadata still says.
Replaced(b, n) == {r \in Ids : /\ records[r].life = "stored" /\ records[r].archived
                               /\ records[r].temporal = "superseded" /\ records[r].by = n
                               /\ records[r].meta.link = b}

Undoable(b) == {n \in Created(b) :
                   \A r \in Replaced(b, n) : applied[b][r] = Revision(records[r])}

\* Slip: one superseded row per replacement is read back.
RestorableOne(b) ==
    {CHOOSE r \in Replaced(b, n) : TRUE : n \in {m \in Undoable(b) : Replaced(b, m) # {}}}

Restorable(b) ==
    {r \in UNION {Replaced(b, n) : n \in Undoable(b)} : records[r].meta.prev.saved}

\* Slip: the row comes back under its old mutation sequence.
RestoredSilently(r, s) ==
    [r EXCEPT !.archived = r.meta.prev.archived, !.temporal = r.meta.prev.temporal,
              !.by = r.meta.prev.by, !.ver = @ + 1, !.meta.link = r.meta.prev.link,
              !.meta.prev = NoPrev]

Restored(r, s) ==
    [r EXCEPT !.archived = r.meta.prev.archived, !.temporal = r.meta.prev.temporal,
              !.by = r.meta.prev.by, !.ver = @ + 1,
              !.mseq = IF r.meta.prev.archived THEN @ ELSE s,
              !.meta = [batch |-> r.meta.prev.batch, link |-> r.meta.prev.link,
                        patch |-> r.meta.prev.patch, prev |-> NoPrev]]

Undo(b) ==
    LET wakes == \E r \in Restorable(b) : ~records[r].meta.prev.archived
    IN  /\ lock = NoBatch
        /\ proposals[b].status = "applied"
        /\ records' = [i \in Ids |->
                IF i \in Restorable(b) THEN Restored(records[i], seq + 1)
                ELSE IF i \in Undoable(b)
                     THEN [records[i] EXCEPT !.archived = TRUE, !.temporal = "historical",
                                             !.ver = @ + 1]
                ELSE records[i]]
        /\ seq' = IF wakes THEN seq + 1 ELSE seq
        /\ proposals' = [proposals EXCEPT ![b].status = "reverted"]
        /\ UNCHANGED <<proposed, applied, withdrawn, lock, work, writer, known>>

\* Slip: a proposal already applied is left alone.
RejectsQueued(b, s) == proposals[b].status = "validated" /\ s \in Cited(proposals[b].payload)

Rejects(b, s) == /\ proposals[b].status \notin {"absent", "reverted"}
                 /\ s \in Cited(proposals[b].payload)

\* withdraw_consolidation_source: the active rows citing s are invalidated and
\* every proposal citing it, unless reverted, is rejected.
Withdraw(s) ==
    LET cites == {i \in Ids : Active(records[i]) /\ s \in records[i].sources}
    IN  /\ lock = NoBatch
        /\ \A i \in cites : records[i].ver < MaxVer
        /\ withdrawn' = withdrawn \cup {s}
        /\ records' = [i \in Ids |->
                IF i \in cites
                THEN [records[i] EXCEPT !.archived = TRUE, !.temporal = "invalidated", !.ver = @ + 1]
                ELSE records[i]]
        /\ proposals' = [b \in Batches |->
                IF Rejects(b, s) THEN [proposals[b] EXCEPT !.status = "rejected"]
                ELSE proposals[b]]
        /\ UNCHANGED <<proposed, applied, seq, lock, work, writer, known>>
----------------------------------------------------------------------------
(* The other writers of memory_records *)

Edit(i, r) ==
    /\ lock = NoBatch
    /\ records[i].life = "stored"
    /\ records[i].ver < MaxVer
    /\ records' = [records EXCEPT ![i] = r]
    /\ UNCHANGED <<proposals, proposed, applied, withdrawn, lock, work, writer, known>>

\* forget (archive), a stale import path, the archive half of a patch rollback.
Forget(i) ==
    /\ Active(records[i])
    /\ Edit(i, [records[i] EXCEPT !.archived = TRUE, !.ver = @ + 1])
    /\ UNCHANGED seq

Delete(i) ==
    /\ Edit(i, Blank("deleted"))
    /\ UNCHANGED seq

PatchArchive(i) ==
    /\ Active(records[i])
    /\ Edit(i, [records[i] EXCEPT !.archived = TRUE, !.ver = @ + 1,
                                  !.meta = [@ EXCEPT !.patch = TRUE]])
    /\ UNCHANGED seq

\* A rollback of the patch that archived the row; the patch id stays in its metadata.
PatchRestore(i) ==
    /\ records[i].archived /\ records[i].meta.patch
    /\ Edit(i, [records[i] EXCEPT !.archived = FALSE, !.ver = @ + 1, !.mseq = seq + 1])
    /\ seq' = seq + 1

Quarantine(i) ==
    /\ records[i].trust = "trusted"
    /\ Edit(i, [records[i] EXCEPT !.trust = "quarantined", !.ver = @ + 1])
    /\ UNCHANGED seq

Promote(i) ==
    /\ records[i].trust = "quarantined"
    /\ Edit(i, [records[i] EXCEPT !.trust = "trusted", !.ver = @ + 1, !.mseq = seq + 1])
    /\ seq' = seq + 1

\* What upsert_record finds: the row under the normalised hash, in any state, else a
\* row in use with the very content.
Found(c) == IF Hashed(records, Norm[c]) # {} THEN Hashed(records, Norm[c])
            ELSE Stated(records, c)

\* It looks on its own connection, outside any transaction.
UpsertRead(w, c, S) ==
    /\ writer[w].pc = "idle"
    /\ \/ \E i \in Found(c) :
             writer' = [writer EXCEPT ![w] =
                 [pc |-> "merge", id |-> i, claim |-> c, sources |-> records[i].sources \cup S,
                  meta |-> records[i].meta]]
       \/ /\ Found(c) = {}
          /\ writer' = [writer EXCEPT ![w] =
                 [Idle EXCEPT !.pc = "insert", !.claim = c, !.sources = S]]
    /\ UNCHANGED <<tables, lock, work, known>>

\* The merge is computed from what was read and written over the row by id.
UpsertMerge(w) ==
    LET i == writer[w].id
    IN  /\ lock = NoBatch
        /\ writer[w].pc = "merge"
        /\ IF records[i].life = "stored"
           THEN /\ records[i].ver < MaxVer
                /\ records' = [records EXCEPT ![i] =
                       [records[i] EXCEPT
                           !.sources = writer[w].sources, !.meta = writer[w].meta,
                           !.ver = @ + 1,
                           !.mseq = IF Eligible(records[i]) THEN seq + 1 ELSE @]]
                /\ seq' = IF Eligible(records[i]) THEN seq + 1 ELSE seq
           ELSE UNCHANGED <<records, seq>>
        /\ writer' = [writer EXCEPT ![w] = Idle]
        /\ UNCHANGED <<proposals, proposed, applied, withdrawn, lock, work, known>>

\* A row stored meanwhile under the hash trips the UNIQUE index: the upsert fails.
UpsertInsert(w) ==
    /\ lock = NoBatch
    /\ writer[w].pc = "insert"
    /\ LET c == writer[w].claim
       IN  IF Hashed(records, Norm[c]) = {}
           THEN \E i \in Ids :
                   /\ records[i].life = "free"
                   /\ records' = [records EXCEPT
                          ![i] = Fresh(c, Norm[c], writer[w].sources, NoBatch, "current")]
           ELSE UNCHANGED records
    /\ writer' = [writer EXCEPT ![w] = Idle]
    /\ UNCHANGED <<proposals, proposed, applied, withdrawn, seq, lock, work, known>>
----------------------------------------------------------------------------
Upsert(w) ==
    \/ \E c \in Claims, S \in (SUBSET Sources) \ {{}} : UpsertRead(w, c, S)
    \/ UpsertMerge(w)
    \/ UpsertInsert(w)

Govern ==
    \/ \E b \in Batches, p \in Payloads : Persist(b, p)
    \/ \E b \in Batches : BeginApply(b)
    \/ AdoptNext
    \/ CommitApply
    \/ AbortApply
    \/ \E b \in Batches : Undo(b)
    \/ \E s \in Sources : Withdraw(s)

Others ==
    \/ \E i \in Ids : Forget(i)
    \/ \E i \in Ids : Delete(i)
    \/ \E i \in Ids : PatchArchive(i)
    \/ \E i \in Ids : PatchRestore(i)
    \/ \E i \in Ids : Quarantine(i)
    \/ \E i \in Ids : Promote(i)
    \/ \E w \in Writers : Upsert(w)

\* History: a batch's own persist, apply and undo clear the set; every other
\* step adds the rows it changed.
Track ==
    edited' = [b \in Batches |->
        IF proposals'[b].status # proposals[b].status THEN {}
        ELSE IF proposals[b].status \in {"validated", "applied"}
             THEN edited[b] \cup {i \in Ids : records'[i] # records[i]}
        ELSE {}]

Next == (Govern \/ Others) /\ Track

Spec == Init /\ [][Next]_vars
=============================================================================
