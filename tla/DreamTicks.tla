----------------------------- MODULE DreamTicks -----------------------------
(***************************************************************************)
(* What a scheduled tick does with the window it has selected              *)
(* (scheduled_dream, src/src/service.rs), with automatic adoption or with  *)
(* a command provider: the candidates that are not yet current are frozen  *)
(* in a proposal and applied, or the window is cut until its text fits the *)
(* provider; only then the run is recorded and the cursor moves.  A tick   *)
(* is several transactions, a daemon and a CLI may both be in one, and     *)
(* operators undo batches and forget memories in between.                  *)
(*                                                                         *)
(* The evidence is a sequence in the order of the scan, and the cursor a   *)
(* prefix of it: SchedulerScan says how that comes about.  With automatic  *)
(* adoption it is the evidence of the first scan: scans that have a lower  *)
(* bound promote nothing.  A proposal is its set of candidates, as         *)
(* consolidation_batch_id_by_digest finds it; what applying and undoing    *)
(* one does to records is Consolidation.                                   *)
(* Left out: the gates that put a tick off, the score a claim needs (here  *)
(* one row is enough), superseding candidates, the observations of an HTTP *)
(* provider (they change no store here: ProviderPromotion), and the        *)
(* provider itself (DreamJobs).                                            *)
(* A definition marked "Slip" is the next one with a mistake in it.        *)
(***************************************************************************)
EXTENDS Integers, Sequences, FiniteSets, FiniteSetsExt, TLC

CONSTANTS
    Tickers,        \* the daemon's loop, a CLI run
    Claims,
    Repos,          \* repositories, numbered in the order of their identifiers
    Arrivals,       \* the rows evidence may consist of
    NoClaim,        \* of a row no candidate is made of
    Unresolved,     \* the repository of a row whose roots are gone
    MaxWindow,      \* max_batch_size
    MaxCandidates,
    MaxBytes,       \* max_input_bytes of a command job
    MaxEvidence, MaxUndone, MaxFaults   \* bounds

NoRepo == 0
Scopes == Repos \cup {NoRepo}

\* A row: what it claims, where it is from, how long it is, and whether its candidate is
\* one the content policy rejects.
Evidence == [claim: Claims \cup {NoClaim}, repo: Scopes \cup {Unresolved}, size: Nat, screened: BOOLEAN]

ASSUME DreamTicksAssumption ==
    /\ Arrivals \subseteq Evidence /\ NoClaim \notin Claims
    /\ Repos \subseteq Nat \ {NoRepo} /\ Unresolved \notin Scopes
    /\ MaxWindow \in Nat \ {0} /\ MaxCandidates \in Nat /\ MaxBytes \in Nat
    /\ MaxEvidence \in Nat /\ MaxUndone \in Nat /\ MaxFaults \in Nat

VARIABLES
    mode,           \* "governed" (automatic_apply) or "command"
    evidence,       \* rows in the order of the scan
    covered,        \* the saved cursor: rows below it are never selected again
    owner,          \* the proposal each current claim of a scope was adopted by
    adopted,        \* claims that were current at some time
    sent,           \* rows a provider was given
    proposals,      \* status of each proposal
    ticks,          \* where each tick is
    undone, faults  \* undos and forgets, crashes and refusals so far

tickVars == <<mode, evidence, covered, owner, adopted, sent, proposals, ticks, undone, faults>>

\* A candidate is a claim with the rows it rests on.
Candidates == [claim: Claims, sources: SUBSET (1 .. MaxEvidence)]
NoProposal == {}
Status(d) == IF d \in DOMAIN proposals THEN proposals[d] ELSE "absent"

NotTicking == [pc |-> "idle", from |-> 0, to |-> 0, frontier |-> 0,
               pending |-> NoProposal, limited |-> FALSE]

TicksInit ==
    /\ mode \in {"governed", "command"}
    /\ evidence = << >> /\ covered = 0
    /\ owner = [k \in Claims \X Scopes |-> NoProposal]
    /\ adopted = {} /\ sent = {}
    /\ proposals = << >>
    /\ ticks = [t \in Tickers |-> NotTicking]
    /\ undone = 0 /\ faults = 0

In(t, pc) == ticks[t].pc = pc
Window(t) == (ticks[t].from + 1) .. ticks[t].to
Step(t, next) == ticks' = [ticks EXCEPT ![t] = next]

\* The tick ends with an error, and the cursor stays.
FailsTick(t) == Step(t, NotTicking)
----------------------------------------------------------------------------
(* What a window makes candidates of *)

Claimed(W) == {evidence[i].claim : i \in {j \in W : ~evidence[j].screened}} \ {NoClaim}

\* push_threshold_candidates: rows are grouped by repository before they are compared,
\* and a row whose repository is not known is with those that have none.
GroupOf(i) == IF evidence[i].repo = Unresolved THEN NoRepo ELSE evidence[i].repo

\* dream::run: one candidate a claim, the first, after dedupe_candidates.
CandidatesOf(W) ==
    LET rows(c) == {i \in W : evidence[i].claim = c /\ ~evidence[i].screened}
        first(c) == Min({GroupOf(i) : i \in rows(c)})
    IN  {[claim |-> c, sources |-> {i \in rows(c) : GroupOf(i) = first(c)}] : c \in Claimed(W)}

Screened(W) == {i \in W : evidence[i].screened}

\* Slip: what is current already takes part again.
AllOf(W) == CandidatesOf(W)

\* filter_applied_scheduled_candidates: what is current is looked for without a
\* repository, whatever repository the candidate is of.
Unapplied(W) == {d \in CandidatesOf(W) : owner[<<d.claim, NoRepo>>] = NoProposal}

\* The first candidates, by repository and row, as many as there is room for.
FirstOf(D) ==
    LET group(d) == GroupOf(Min(d.sources))
        before(d, e) == \/ group(d) < group(e)
                        \/ group(d) = group(e) /\ Min(d.sources) < Min(e.sources)
    IN  {d \in D : Cardinality({e \in D : before(e, d)}) < MaxCandidates}

\* Slip: only rejected candidates that are left out limit the run.
TooManyScreened(D, W) == Cardinality(Screened(W)) > MaxCandidates

TooMany(D, W) ==
    \/ Cardinality(D) > MaxCandidates
    \/ Cardinality(Screened(W)) > MaxCandidates - Cardinality(FirstOf(D))

\* apply_governed_deterministic_batch: all evidence of all candidates is of one
\* repository, and its repository is known.
RepoScopes(D) == {evidence[i].repo : i \in UNION {d.sources : d \in D}}
OneScope(D) == Unresolved \notin RepoScopes(D) /\ Cardinality(RepoScopes(D)) <= 1
----------------------------------------------------------------------------
(* A tick *)

\* The window: up to MaxWindow rows after the cursor.
Select(t) ==
    /\ In(t, "idle") /\ (mode = "governed" => evidence # << >>)
    /\ Step(t, [NotTicking EXCEPT !.pc = IF mode = "governed" THEN "filter" ELSE "size",
                    !.from = covered, !.to = Min({Len(evidence), covered + MaxWindow}),
                    !.frontier = Len(evidence)])
    /\ UNCHANGED <<mode, evidence, covered, owner, adopted, sent, proposals, undone, faults>>

\* The candidates that are not current, as many as a run may take.
Filter(t) ==
    /\ In(t, "filter")
    /\ LET D == Unapplied(Window(t))
       IN  Step(t, [ticks[t] EXCEPT !.pc = IF FirstOf(D) = {} THEN "record" ELSE "persist",
                        !.pending = FirstOf(D), !.limited = TooMany(D, Window(t))])
    /\ UNCHANGED <<mode, evidence, covered, owner, adopted, sent, proposals, undone, faults>>

\* persist_consolidation_batch: a replay keeps the proposal there is.  Under a saved
\* cursor the end of the window is pinned: the same window then gives the same run and
\* batch identity, and a batch of that name that ends at another time is refused.
Storable(t) == Status(ticks[t].pending) = "absent" \/ ticks[t].from = 0

PersistBatch(t) ==
    /\ In(t, "persist")
    /\ LET d == ticks[t].pending
       IN  IF OneScope(d) /\ Storable(t)
           THEN /\ Step(t, [ticks[t] EXCEPT !.pc = "apply"])
                /\ proposals' = [e \in DOMAIN proposals \cup {d} |->
                                   IF Status(e) = "absent" THEN "validated" ELSE proposals[e]]
           ELSE FailsTick(t) /\ UNCHANGED proposals
    /\ UNCHANGED <<mode, evidence, covered, owner, adopted, sent, undone, faults>>

\* Slip: a proposal is applied again whatever became of it.
AppliesAlways(d) == Status(d) # "absent"
Applies(d) == Status(d) = "validated"

\* apply_consolidation_proposal: applied once, an applied one is a replay, and one that
\* was taken back fails the tick.
ApplyBatch(t) ==
    /\ In(t, "apply")
    /\ LET d == ticks[t].pending
           new == {c.claim : c \in d} \X RepoScopes(d)
       IN  IF Applies(d)
           THEN /\ proposals' = [proposals EXCEPT ![d] = "applied"]
                /\ owner' = [k \in Claims \X Scopes |->
                                IF k \in new /\ owner[k] = NoProposal THEN d ELSE owner[k]]
                /\ adopted' = adopted \cup {c.claim : c \in d}
                /\ Step(t, [ticks[t] EXCEPT !.pc = "record"])
           ELSE /\ IF Status(d) = "applied" THEN Step(t, [ticks[t] EXCEPT !.pc = "record"])
                   ELSE FailsTick(t)
                /\ UNCHANGED <<proposals, owner, adopted>>
    /\ UNCHANGED <<mode, evidence, covered, sent, undone, faults>>

BytesOf(W) == MapThenSumSet(LAMBDA i : evidence[i].size, W)
Half(n) == (n \div 2) + (n % 2)

\* The command provider's loop: a window whose text is too long is halved and sent again;
\* a single row that is too long is left to the deterministic rules; an empty window is
\* not sent; any other failure of the job ends the tick.
Size(t) ==
    /\ In(t, "size")
    /\ LET n == Cardinality(Window(t))
       IN  IF BytesOf(Window(t)) > MaxBytes
           THEN /\ Step(t, IF n > 1 THEN [ticks[t] EXCEPT !.to = ticks[t].from + Half(n)]
                           ELSE [ticks[t] EXCEPT !.pc = "record"])
                /\ UNCHANGED <<sent, faults>>
           ELSE \/ /\ sent' = sent \cup Window(t)
                   /\ Step(t, [ticks[t] EXCEPT !.pc = "record"])
                   /\ UNCHANGED faults
                \/ /\ n > 0 /\ faults < MaxFaults
                   /\ FailsTick(t)
                   /\ faults' = faults + 1 /\ UNCHANGED sent
    /\ UNCHANGED <<mode, evidence, covered, owner, adopted, proposals, undone>>

\* scheduler_watermark_after: a full window is covered as far as it was read.
Covers(t) == ticks[t].to

\* record_dream_run: the cursor follows the window, unless candidates were left out or
\* the time was over.
RecordTick(t) ==
    /\ In(t, "record")
    /\ \E slow \in BOOLEAN :
          /\ slow => faults < MaxFaults
          /\ faults' = IF slow THEN faults + 1 ELSE faults
          /\ covered' = IF slow \/ ticks[t].limited THEN covered ELSE Max({covered, Covers(t)})
    /\ Step(t, NotTicking)
    /\ UNCHANGED <<mode, evidence, owner, adopted, sent, proposals, undone>>

TickStep(t) ==
    Select(t) \/ Filter(t) \/ PersistBatch(t) \/ ApplyBatch(t) \/ Size(t) \/ RecordTick(t)
----------------------------------------------------------------------------
(* The world *)

\* What arrives after a governed scan has begun belongs to the next one.
Arrive ==
    /\ Len(evidence) < MaxEvidence
    /\ mode = "governed" => covered = 0 /\ \A t \in Tickers : In(t, "idle")
    /\ \E r \in Arrivals : evidence' = Append(evidence, r)
    /\ UNCHANGED <<mode, covered, owner, adopted, sent, proposals, ticks, undone, faults>>

Released(d) == [k \in Claims \X Scopes |-> IF owner[k] = d THEN NoProposal ELSE owner[k]]

\* undo_consolidation_proposal: its claims are no longer current.
UndoBatch(d) ==
    /\ undone < MaxUndone /\ Status(d) = "applied"
    /\ proposals' = [proposals EXCEPT ![d] = "reverted"]
    /\ owner' = Released(d)
    /\ undone' = undone + 1
    /\ UNCHANGED <<mode, evidence, covered, adopted, sent, ticks, faults>>

\* A user forgets a claim.
ForgetClaim(k) ==
    /\ undone < MaxUndone /\ owner[k] # NoProposal
    /\ owner' = [owner EXCEPT ![k] = NoProposal]
    /\ undone' = undone + 1
    /\ UNCHANGED <<mode, evidence, covered, adopted, sent, proposals, ticks, faults>>

\* A store call fails, or the process ends.
LoseTick(t) ==
    /\ ~In(t, "idle") /\ faults < MaxFaults
    /\ FailsTick(t)
    /\ faults' = faults + 1
    /\ UNCHANGED <<mode, evidence, covered, owner, adopted, sent, proposals, undone>>

TicksNext ==
    \/ Arrive
    \/ \E t \in Tickers : TickStep(t) \/ LoseTick(t)
    \/ \E d \in DOMAIN proposals : UndoBatch(d)
    \/ \E k \in Claims \X Scopes : ForgetClaim(k)

\* The daemon's loop starts the next tick whatever became of the last one.
TicksFairness == \A t \in Tickers : WF_tickVars(TickStep(t))

TicksSpec == TicksInit /\ [][TicksNext]_tickVars /\ TicksFairness
=============================================================================
