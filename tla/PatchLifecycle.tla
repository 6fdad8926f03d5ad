--------------------------- MODULE PatchLifecycle ---------------------------
(***************************************************************************)
(* What an explicit dream does to the records, and how it is taken back:   *)
(* dream --apply, and the patch that is previewed, applied if its run id   *)
(* still fits, and rolled back by that id (patch_* in src/src/service.rs,  *)
(* dream::run in src/src/dream.rs).  An apply is an upsert and an archive  *)
(* per candidate, a rollback two transactions after two reads; callers may *)
(* overlap, fail between any two of them, and users change the same rows.  *)
(*                                                                         *)
(* A fact is a content: by its hash it has one row, archived or not.  The  *)
(* rules say what candidates the rows make; the wording of subjects, drift *)
(* and thresholds behind them is left out, as are rows a recency window    *)
(* passes over, the audit of the runs and the evidence ledger.             *)
(* A definition marked "Slip" is the next one with a mistake in it.        *)
(***************************************************************************)
EXTENDS Integers, Sequences, SequencesExt, FiniteSetsExt

CONSTANTS
    Reviewers,      \* callers of dream and patch operations
    Facts,
    Rules,          \* candidates in the order of a run: from which rows, which fact, over which rows
    FirstFacts,     \* facts stored at start
    NoPatch,
    Contested,      \* facts that other callers write too
    MaxTurns, MaxDreams     \* bounds: failures and writes of others, applies

Candidate == [from: SUBSET Facts, fact: Facts, over: SUBSET Facts]
RunIds == [since: BOOLEAN, rows: UNION {[S -> Nat] : S \in SUBSET Facts}]

ASSUME PatchLifecycleAssumption ==
    /\ Rules \in Seq(Candidate)
    /\ \A k \in DOMAIN Rules : Rules[k].over \subseteq Rules[k].from
    /\ FirstFacts \subseteq Facts /\ Contested \subseteq Facts /\ NoPatch \notin RunIds
    /\ MaxTurns \in Nat /\ MaxDreams \in Nat

VARIABLES
    memory,         \* memory_records
    reviewers,      \* where each caller is
    turns, dreams,  \* failures and writes of others, and applies, so far
    basis,          \* the facts in use when a patch was first applied
    disturbed       \* patches someone else has written after

patchVars == <<memory, reviewers, turns, dreams, basis, disturbed>>

\* `by` is patch_run_id, `out` archived_by_patch_run_id, `ver` updated_at.
NoRow == [state |-> "none", ver |-> 0, by |-> NoPatch, out |-> NoPatch]
Written(f, s) == [memory[f] EXCEPT !.state = s, !.ver = @ + 1]

InUse == {f \in Facts : memory[f].state = "active"}
Kept(f) == memory[f].state # "none"

\* stable_run_id: the rows a run reads, with their updated_at.
RunId(since) == [since |-> since,
                 rows |-> [f \in {g \in Facts : g \in InUse \/ (since /\ Kept(g))} |-> memory[f].ver]]

NotReviewing == [pc |-> "idle", patch |-> NoPatch, since |-> FALSE, todo |-> {},
                 created |-> {}, archived |-> {}]

PatchInit ==
    /\ memory = [f \in Facts |-> IF f \in FirstFacts THEN [NoRow EXCEPT !.state = "active"] ELSE NoRow]
    /\ reviewers = [r \in Reviewers |-> NotReviewing]
    /\ turns = 0 /\ dreams = 0
    /\ basis = << >> /\ disturbed = {}

OnPatch(r, pc) == reviewers[r].pc = pc
Patch(r) == reviewers[r].patch
Turn(r, next) == reviewers' = [reviewers EXCEPT ![r] = next]
Applying(p) == {r \in Reviewers : Patch(r) = p /\ reviewers[r].pc \in {"read", "adopt", "retire"}}

\* Whoever writes a row disturbs every patch but its own.
Disturbs(own) == disturbed' = disturbed \cup (DOMAIN basis \ {own})
----------------------------------------------------------------------------
(* Applying *)

\* patch_apply: the run is previewed again, and only if it has the id of the preview the
\* caller has seen is it run.  A preview by itself changes nothing here.
BeginPatch(r) ==
    /\ OnPatch(r, "idle") /\ dreams < MaxDreams
    /\ \E s \in BOOLEAN :
          Turn(r, [NotReviewing EXCEPT !.pc = "read", !.patch = RunId(s), !.since = s])
    /\ dreams' = dreams + 1
    /\ UNCHANGED <<memory, turns, basis, disturbed>>

\* dream --apply, bound to no preview.
BeginDream(r) ==
    /\ OnPatch(r, "idle") /\ dreams < MaxDreams
    /\ \E s \in BOOLEAN : Turn(r, [NotReviewing EXCEPT !.pc = "read", !.since = s])
    /\ dreams' = dreams + 1
    /\ UNCHANGED <<memory, turns, basis, disturbed>>

\* With `since`, archived rows are evidence too.
IsCandidate(c, since) == c.from \subseteq InUse \/ (since /\ \A f \in c.from : Kept(f))

\* Another call has come between the preview and what the run reads, or undoes the patch meanwhile.
IsOvertaken(r) ==
    \/ RunId(reviewers[r].since) # Patch(r)
    \/ \E q \in Reviewers : Patch(q) = Patch(r) /\ reviewers[q].pc \in {"withdraw", "restore"}

\* dream::run reads again what it makes candidates of.
ReadCandidates(r) ==
    /\ OnPatch(r, "read")
    /\ Turn(r, [reviewers[r] EXCEPT !.pc = "adopt",
                    !.todo = {k \in DOMAIN Rules : IsCandidate(Rules[k], reviewers[r].since)}])
    /\ basis' = [p \in DOMAIN basis \cup ({Patch(r)} \ {NoPatch}) |-> IF p \in DOMAIN basis THEN basis[p] ELSE InUse]
    /\ disturbed' = IF Patch(r) \in DOMAIN basis /\ IsOvertaken(r) THEN disturbed \cup {Patch(r)} ELSE disturbed
    /\ UNCHANGED <<memory, turns, dreams>>

\* Slip: a row that is there already is taken over by the patch.
AdoptedOver(r, f) == [Written(f, IF Kept(f) THEN memory[f].state ELSE "active") EXCEPT !.by = Patch(r)]

\* upsert_record: a row that is there already keeps its state and its owner.
AdoptedRow(r, f) ==
    IF Kept(f) THEN Written(f, memory[f].state)
    ELSE [Written(f, "active") EXCEPT !.by = Patch(r)]

\* Candidates are taken in order.
AtHand(r) == Rules[Min(reviewers[r].todo)]

AdoptCandidate(r) ==
    /\ OnPatch(r, "adopt") /\ reviewers[r].todo # {}
    /\ LET f == AtHand(r).fact
       IN  memory' = [memory EXCEPT ![f] = AdoptedRow(r, f)]
    /\ Turn(r, [reviewers[r] EXCEPT !.pc = "retire"])
    /\ Disturbs(Patch(r))
    /\ UNCHANGED <<turns, dreams, basis>>

\* Slip: a row that is archived already is claimed by the patch.
RetiredAnyway(r, f) == IF Kept(f) THEN [Written(f, "archived") EXCEPT !.out = Patch(r)] ELSE memory[f]

\* archive_records_with_metadata_at, which a dream without a patch leaves unsigned.
RetiredRow(r, f) ==
    IF f \notin InUse THEN memory[f]
    ELSE IF Patch(r) = NoPatch THEN Written(f, "archived")
    ELSE [Written(f, "archived") EXCEPT !.out = Patch(r)]

RetireSuperseded(r) ==
    /\ OnPatch(r, "retire")
    /\ memory' = [f \in Facts |-> IF f \in AtHand(r).over THEN RetiredRow(r, f) ELSE memory[f]]
    /\ Turn(r, [reviewers[r] EXCEPT !.pc = "adopt", !.todo = @ \ {Min(@)}])
    /\ Disturbs(Patch(r))
    /\ UNCHANGED <<turns, dreams, basis>>

FinishDream(r) ==
    /\ OnPatch(r, "adopt") /\ reviewers[r].todo = {}
    /\ Turn(r, NotReviewing)
    /\ UNCHANGED <<memory, turns, dreams, basis, disturbed>>
----------------------------------------------------------------------------
(* Rolling back *)

\* records_by_patch_run_id, archived_records_by_patch_run_id
ReadRollback(r) ==
    /\ OnPatch(r, "idle")
    /\ \E p \in DOMAIN basis :
          /\ Turn(r, [NotReviewing EXCEPT !.pc = "withdraw", !.patch = p,
                          !.created = {f \in InUse : memory[f].by = p},
                          !.archived = {f \in Facts : memory[f].state = "archived" /\ memory[f].out = p}])
          /\ disturbed' = IF Applying(p) = {} THEN disturbed ELSE disturbed \cup {p}
    /\ UNCHANGED <<memory, turns, dreams, basis>>

\* archive_records_with_metadata: the rows the patch created.
WithdrawCreated(r) ==
    /\ OnPatch(r, "withdraw")
    /\ memory' = [f \in Facts |-> IF f \in reviewers[r].created \cap InUse
                                  THEN Written(f, "archived") ELSE memory[f]]
    /\ Turn(r, [reviewers[r] EXCEPT !.pc = "restore"])
    /\ Disturbs(Patch(r))
    /\ UNCHANGED <<turns, dreams, basis>>

\* restore_records_with_metadata: the rows it archived, if they still are by it.
RestoreArchived(r) ==
    /\ OnPatch(r, "restore")
    /\ memory' = [f \in Facts |->
          IF f \in reviewers[r].archived /\ memory[f].state = "archived" /\ memory[f].out = Patch(r)
          THEN Written(f, "active") ELSE memory[f]]
    /\ Turn(r, NotReviewing)
    /\ Disturbs(Patch(r))
    /\ UNCHANGED <<turns, dreams, basis>>
----------------------------------------------------------------------------
(* Everyone else *)

\* A store call fails, or the process ends.
StopReview(r) ==
    /\ ~OnPatch(r, "idle") /\ turns < MaxTurns
    /\ Turn(r, NotReviewing)
    /\ turns' = turns + 1
    /\ UNCHANGED <<memory, dreams, basis, disturbed>>

\* A conclusion or another upsert states the fact; forget archives or deletes its row.
OthersWrite(f) ==
    /\ turns < MaxTurns /\ turns' = turns + 1
    /\ \/ memory' = [memory EXCEPT ![f] = IF Kept(f) THEN Written(f, @.state) ELSE Written(f, "active")]
       \/ f \in InUse /\ memory' = [memory EXCEPT ![f] = Written(f, "archived")]
       \/ Kept(f) /\ memory' = [memory EXCEPT ![f] = [NoRow EXCEPT !.ver = memory[f].ver + 1]]
    /\ Disturbs(NoPatch)
    /\ UNCHANGED <<reviewers, dreams, basis>>

PatchNext ==
    \/ \E r \in Reviewers :
          \/ BeginPatch(r) \/ BeginDream(r) \/ ReadCandidates(r) \/ AdoptCandidate(r)
          \/ RetireSuperseded(r) \/ FinishDream(r)
          \/ ReadRollback(r) \/ WithdrawCreated(r) \/ RestoreArchived(r) \/ StopReview(r)
    \/ \E f \in Contested : OthersWrite(f)

PatchSpec == PatchInit /\ [][PatchNext]_patchVars
=============================================================================
