----------------------------- MODULE DreamJobs -----------------------------
(***************************************************************************)
(* Dream runs and dream jobs (src/src/service.rs, provider.rs, store.rs):  *)
(* a caller asks for a dream or a job, the job may call a model provider   *)
(* within its budget, and what happened is left in dream_runs, one row an  *)
(* id, and dream_jobs.  Callers are HTTP threads, the scheduler's thread   *)
(* and CLI processes over one database: nothing is held from one store     *)
(* call to the next.                                                       *)
(*                                                                         *)
(* An input stands for what a run reads: its window, its records and, for  *)
(* a model, the text sent, so two runs over one input have one run id.     *)
(* Left out: requests refused before anything is written, the candidates   *)
(* themselves, watermarks, and all texts.                                  *)
(* A definition marked "Slip" is the next one with a mistake in it.        *)
(***************************************************************************)
EXTENDS Integers, FiniteSets, FiniteSetsExt

CONSTANTS
    Callers, Jobs, Inputs,
    Kinds,          \* what callers ask for: "dream", or a job's adapter
    Costs,          \* what an answer may be billed
    MaxCost,        \* max_cost_micros; 0 is no limit, which a provider must have
    Ceiling,        \* daily_cost_ceiling_micros
    MaxCalls,       \* min(max_provider_calls, max_retries + 1)
    Day,            \* hours in a day
    MaxHours, MaxAsked, MaxLost,    \* bounds: the clock, requests, callers that give up
    NoJob, NoRun

RunIds == ({"plain", "model"} \X Inputs) \cup ({"error", "budget"} \X (1 .. MaxAsked))

ASSUME DreamJobsAssumption ==
    /\ Kinds \subseteq {"dream", "deterministic", "command", "provider"}
    /\ IsFiniteSet(Callers) /\ Inputs # {}
    /\ Costs \subseteq Nat /\ IsFiniteSet(Costs) /\ Costs # {}     \* 64-bit numbers
    /\ MaxCost \in Nat /\ Ceiling \in Nat /\ Day \in Nat
    /\ MaxCalls \in Nat \ {0}
    /\ MaxHours \in Nat /\ MaxAsked \in Nat /\ MaxLost \in Nat
    /\ NoJob \notin Jobs /\ NoRun \notin RunIds

VARIABLES
    dreamRuns,      \* rows of dream_runs
    dreamJobs,      \* rows of dream_jobs
    callers,        \* where each caller is
    asked,          \* requests so far; names the fresh ids of the request
    hours,          \* the clock
    lost            \* callers that gave up between two store calls

jobVars == <<dreamRuns, dreamJobs, callers, asked, hours, lost>>

NotAsking == [pc |-> "idle", kind |-> "dream", job |-> NoJob, input |-> CHOOSE i \in Inputs : TRUE,
              n |-> 0, at |-> 0, left |-> MaxCalls, late |-> FALSE, cost |-> 0,
              run |-> NoRun, status |-> "none"]

JobsInit ==
    /\ dreamRuns = {}
    /\ dreamJobs = [j \in Jobs |-> [status |-> "none", last |-> NoRun]]
    /\ callers = [c \in Callers |-> NotAsking]
    /\ asked = 0 /\ hours = 0 /\ lost = 0

At(c, pc) == callers[c].pc = pc
ModelBacked(c) == callers[c].kind \in {"command", "provider"}
----------------------------------------------------------------------------
(* dream_runs *)

\* Slip: the row is added beside the one with its id.
InsertedBeside(row) == dreamRuns \cup {row}

\* insert_dream_run: INSERT OR REPLACE
Inserted(row) == {r \in dreamRuns : r.id # row.id} \cup {row}

RunRow(id, status, cost, at) == [id |-> id, status |-> status, cost |-> cost, at |-> at]

\* dream_provider_cost_since, 24 hours back from now
SpentOf(rows) == MapThenSumSet(LAMBDA r : r.cost, {r \in rows : r.at >= hours - Day})
Spent == SpentOf(dreamRuns)

ErrorId(c) == <<"error", callers[c].n>>

\* Slip: the audit of a refused answer takes the id a success would have.
BudgetIdShared(c) == <<"model", callers[c].input>>
BudgetId(c) == <<"budget", callers[c].n>>
----------------------------------------------------------------------------
(* A request, one store call a step *)

Move(c, pc) == callers' = [callers EXCEPT ![c].pc = pc]

\* The error is all that is left of the call.
Fails(c) == callers' = [callers EXCEPT ![c].pc = "fail", ![c].left = MaxCalls,
                                       ![c].late = FALSE, ![c].cost = 0]

\* What there is to record, under the id of the input: the run itself, or the run with
\* the provider's answer.
ToRecord(c, with) ==
    callers' = [callers EXCEPT ![c].pc = "settle", ![c].left = MaxCalls,
                                  ![c].run = <<with, callers[c].input>>]

\* dream, run_dream_job_inner: a dream has no job row.
Ask(c) ==
    /\ At(c, "idle") /\ asked < MaxAsked
    /\ \E k \in Kinds, j \in Jobs, i \in Inputs :
          callers' = [callers EXCEPT ![c] = [NotAsking EXCEPT
              !.pc = IF k = "dream" THEN "preview" ELSE "begin", !.kind = k,
              !.job = IF k = "dream" THEN NoJob ELSE j, !.input = i,
              !.n = asked + 1, !.at = hours]]
    /\ asked' = asked + 1
    /\ UNCHANGED <<dreamRuns, dreamJobs, hours, lost>>

\* The job's row is "running" before anything is read.
BeginJob(c) ==
    /\ At(c, "begin")
    /\ dreamJobs' = [dreamJobs EXCEPT ![callers[c].job] = [status |-> "running", last |-> NoRun]]
    /\ Move(c, "preview")
    /\ UNCHANGED <<dreamRuns, asked, hours, lost>>

\* dream::run, and what augment_model_dream_preview settles without a call: nothing to
\* send, no room for candidates, a remote provider without a limit or with the day's spent.
PreviewRun(c) ==
    /\ At(c, "preview")
    /\ \/ Fails(c)
       \/ ToRecord(c, "plain")
       \/ ModelBacked(c) /\ IF callers[c].kind = "provider" /\ (MaxCost = 0 \/ Spent >= Ceiling)
                            THEN Fails(c) ELSE Move(c, "call")
    /\ UNCHANGED <<dreamRuns, dreamJobs, asked, hours, lost>>

\* call_once, call_command: no usable reply, and the next attempt.
NoReply(c) == callers' = [callers EXCEPT ![c].left = @ - 1]

\* extract_response, validate_provider_scope: a reply that is malformed or of another scope.
BadReply(c) == Fails(c)

\* estimate_provider_cost: an answer, and what it is billed.
Answered(c) == \E k \in Costs : callers' = [callers EXCEPT ![c].pc = "charge", ![c].cost = k]

\* execute_preview, one attempt of its loop
Attempt(c) ==
    /\ At(c, "call") /\ callers[c].left > 0 /\ ~callers[c].late
    /\ NoReply(c) \/ BadReply(c) \/ Answered(c)
    /\ UNCHANGED <<dreamRuns, dreamJobs, asked, hours, lost>>

\* The attempts or the time are used up.
RunOut(c) ==
    /\ At(c, "call") /\ (callers[c].left = 0 \/ callers[c].late)
    /\ Fails(c)
    /\ UNCHANGED <<dreamRuns, dreamJobs, asked, hours, lost>>

\* Slip: an answer passes when there is anything left of the day's ceiling.
OverCeilingBefore(c) == Spent >= Ceiling
OverCeiling(c) == Spent + callers[c].cost > Ceiling

\* The answer has arrived: refused, and its cost recorded, over the ceiling of the day
\* or of the run, or when it is too long; else it is what the run will record.
Charge(c) ==
    /\ At(c, "charge")
    /\ \E long \in BOOLEAN :
          IF OverCeiling(c) \/ (MaxCost > 0 /\ callers[c].cost > MaxCost) \/ long
          THEN /\ dreamRuns' = Inserted(RunRow(BudgetId(c), "error", callers[c].cost, hours))
               /\ Fails(c)
          ELSE /\ ToRecord(c, "model")
               /\ UNCHANGED dreamRuns
    /\ UNCHANGED <<dreamJobs, asked, hours, lost>>

\* The row of the run, of an error or of an answer that came too late without the cost of
\* any call.
Audit(c, s) ==
    IF At(c, "fail") \/ callers[c].late THEN RunRow(ErrorId(c), "error", 0, callers[c].at)
    ELSE RunRow(callers[c].run, s, callers[c].cost, callers[c].at)

\* dream_with_patch_binding: a dream has no job and no deadline.
SettleDream(c) ==
    /\ callers[c].kind = "dream" /\ callers[c].pc \in {"settle", "fail"}
    /\ dreamRuns' = Inserted(Audit(c, "ok"))
    /\ callers' = [callers EXCEPT ![c] = NotAsking]
    /\ UNCHANGED <<dreamJobs, asked, hours, lost>>

\* Slip: the job of a late answer is left as it is.
MarksLate(c, row) == IF callers[c].late THEN NotAsking ELSE
    [callers[c] EXCEPT !.pc = "mark", !.run = row.id, !.status = row.status, !.late = FALSE, !.cost = 0]

Marks(c, row) ==
    [callers[c] EXCEPT !.pc = "mark", !.run = row.id, !.status = row.status, !.late = FALSE, !.cost = 0]

\* A job's run is recorded first,
SettleJob(c) ==
    /\ callers[c].kind # "dream" /\ callers[c].pc \in {"settle", "fail"}
    /\ \E s \in {"ok", "ok_with_limits"} :
          /\ dreamRuns' = Inserted(Audit(c, s))
          /\ callers' = [callers EXCEPT ![c] = Marks(c, Audit(c, s))]
    /\ UNCHANGED <<dreamJobs, asked, hours, lost>>

\* then its row points at it.
Mark(c) ==
    /\ At(c, "mark")
    /\ dreamJobs' = [dreamJobs EXCEPT ![callers[c].job] =
                        [status |-> callers[c].status, last |-> callers[c].run]]
    /\ callers' = [callers EXCEPT ![c] = NotAsking]
    /\ UNCHANGED <<dreamRuns, asked, hours, lost>>

JobStep(c) ==
    \/ BeginJob(c) \/ PreviewRun(c) \/ Attempt(c) \/ RunOut(c) \/ Charge(c)
    \/ SettleDream(c) \/ SettleJob(c) \/ Mark(c)
----------------------------------------------------------------------------
(* The world *)

\* max_runtime_seconds are over; a plain dream has no deadline.
Expire(c) ==
    /\ callers[c].pc \in {"preview", "call", "charge", "settle"}
    /\ callers[c].kind # "dream" /\ ~callers[c].late
    /\ callers' = [callers EXCEPT ![c].late = TRUE]
    /\ UNCHANGED <<dreamRuns, dreamJobs, asked, hours, lost>>

\* A store call fails, or the process ends: what was written stays.
GiveUp(c) ==
    /\ ~At(c, "idle") /\ lost < MaxLost
    /\ callers' = [callers EXCEPT ![c] = NotAsking]
    /\ lost' = lost + 1
    /\ UNCHANGED <<dreamRuns, dreamJobs, asked, hours>>

TimePasses ==
    /\ hours < MaxHours
    /\ hours' = hours + 1
    /\ UNCHANGED <<dreamRuns, dreamJobs, callers, asked, lost>>

JobsNext == TimePasses \/ \E c \in Callers : Ask(c) \/ JobStep(c) \/ Expire(c) \/ GiveUp(c)

\* A call ends: by its answer, its failure or its timeout.  Nothing waits for a lock.
JobsFairness == \A c \in Callers : WF_jobVars(JobStep(c))

JobsSpec == JobsInit /\ [][JobsNext]_jobVars /\ JobsFairness
=============================================================================
