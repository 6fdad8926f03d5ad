------------------------- MODULE DreamJobsProperties -------------------------
(* What dream jobs promise (docs/async-dreamer-v2.md).                       *)
EXTENDS DreamJobs

RunStatuses == {"ok", "ok_with_limits", "error"}

DreamRunRows == [id: RunIds, status: RunStatuses, cost: Nat, at: 0 .. MaxHours]

\* Every variable holds what its table or local may hold, and run ids are keys.
JobsTypeOK ==
    /\ dreamRuns \in SUBSET DreamRunRows
    /\ \A r \in dreamRuns, q \in dreamRuns : r.id = q.id => r = q
    /\ dreamJobs \in [Jobs -> [status: RunStatuses \cup {"none", "running"},
                               last: RunIds \cup {NoRun}]]
    /\ callers \in [Callers ->
          [pc: {"idle", "begin", "preview", "call", "charge", "settle", "fail", "mark"},
           kind: Kinds \cup {"dream"}, job: Jobs \cup {NoJob}, input: Inputs,
           n: 0 .. MaxAsked, at: 0 .. MaxHours, left: 0 .. MaxCalls, late: BOOLEAN,
           cost: Nat, run: RunIds \cup {NoRun}, status: RunStatuses \cup {"none"}]]
    /\ asked \in 0 .. MaxAsked /\ hours \in 0 .. MaxHours /\ lost \in 0 .. MaxLost

Kept == {r \in dreamRuns : r.status # "error"}

\* "A configured daily ceiling is a rolling 24-hour ceiling across audited provider
\* runs": the answers that were kept in 24 hours exceed it by what the other callers had
\* under way when the last one was looked at, one answer each, and no more.
CeilingIsOvershotOnceEach ==
    SpentOf(Kept) <= Ceiling + (Cardinality(Callers) - 1) * Min({Ceiling, Max(Costs)})

\* The cost of an answer that was billed and refused is never lost again: no later run of
\* the same input takes the place of its row.
RefusedCostsStay == [][\A r \in dreamRuns : r.status = "error" => r \in dreamRuns']_jobVars

\* "Failed runs still have a terminal dream_jobs status": a job comes to an end unless
\* its caller was lost on the way.
JobsEnd == \A j \in Jobs : dreamJobs[j].status = "running" ~> dreamJobs[j].status # "running" \/ lost > 0
=============================================================================
