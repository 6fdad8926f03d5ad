------------------------ MODULE DreamTicksProperties ------------------------
(* What a scheduled tick may not do to its evidence                          *)
(* (docs/dreamer-consolidation.md, docs/dreamer-native-provider.md).         *)
EXTENDS DreamTicks

TickPcs == {"idle", "filter", "persist", "apply", "size", "record"}
Places == 0 .. MaxEvidence
Proposals == SUBSET Candidates

\* The state stays within its types.  The cursor never passes the evidence there is, and
\* a current claim was adopted by a proposal that is applied.
TicksTypeOK ==
    /\ mode \in {"governed", "command"}
    /\ evidence \in Seq(Evidence) /\ covered \in 0 .. Len(evidence)
    /\ owner \in [Claims \X Scopes -> Proposals]
    /\ \A k \in Claims \X Scopes : owner[k] # NoProposal => Status(owner[k]) = "applied"
    /\ adopted \in SUBSET Claims /\ sent \in SUBSET Places
    /\ DOMAIN proposals \subseteq Proposals
    /\ \A d \in DOMAIN proposals : proposals[d] \in {"validated", "applied", "reverted"}
    /\ ticks \in [Tickers -> [pc: TickPcs, from: Places, to: Places, frontier: Places,
                              pending: Proposals, limited: BOOLEAN]]
    /\ undone \in 0 .. MaxUndone /\ faults \in 0 .. MaxFaults

\* With automatic adoption the cursor passes no candidate that was never adopted: not one
\* a run had no room for, nor one whose batch failed or was lost in a crash.
CoveredWasAdopted ==
    mode = "governed" => Claimed(1 .. covered) \subseteq adopted

\* With a command provider the cursor passes no row the provider was not given, except one
\* too long to be sent at all.
CoveredWasSent ==
    mode = "command" => \A i \in 1 .. covered : i \in sent \/ evidence[i].size > MaxBytes

\* The cursor saved in the end passes nothing that was not dealt with.
CoveredWasHandled == CoveredWasAdopted /\ CoveredWasSent

\* What an operator took back is not adopted again from the same evidence: a claim comes
\* back only with a proposal that was not taken back before.
UndoneIsNotReplayed ==
    [][\A k \in Claims \X Scopes : owner'[k] # owner[k] => Status(owner'[k]) # "reverted"]_tickVars

\* The next window can never be finished: it mixes repositories, has more rejected
\* candidates than a run may have, or is that of a batch that was undone, or of one
\* persisted under the same name by a run that did not get to apply it; or claims that are
\* taken for new after their batch was applied, because they were forgotten or are of a
\* repository, come up again and take the others' room.
Blocked ==
    /\ mode = "governed" /\ \A t \in Tickers : In(t, "idle")
    /\ LET W == (covered + 1) .. Min({Len(evidence), covered + MaxWindow})
           U == {d \in CandidatesOf(W) : owner[<<d.claim, NoRepo>>] = NoProposal}
           D == FirstOf(U)
       IN  \/ ~OneScope(D) \/ Cardinality(Screened(W)) > MaxCandidates
           \/ Status(D) = "reverted" \/ (covered > 0 /\ Status(D) # "absent")
           \/ Status(D) = "applied" /\ TooMany(U, W)

\* "Later ticks consume the remaining pages": every row is covered at last, if the windows
\* on the way to it can be finished (docs/dreamer-consolidation.md).
EvidenceIsCovered ==
    \A i \in 1 .. MaxEvidence : i \in DOMAIN evidence ~> covered >= i \/ Blocked

\* The same without the exceptions, where nothing is undone, forgotten or rejected, no
\* tick fails, and all evidence is of one repository.
PagesAreConsumed ==
    \A i \in 1 .. MaxEvidence : i \in DOMAIN evidence ~> covered >= i
=============================================================================
