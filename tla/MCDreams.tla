------------------------------ MODULE MCDreams ------------------------------
(* What the background work promises to finish: the scan of the scheduler,   *)
(* the ticks over its windows, the jobs that call providers and the use of   *)
(* their answers, each on its own instance.  They share no state, so a       *)
(* behaviour is that of one of them, chosen at the start.                    *)
EXTENDS SchedulerProperties, DreamJobsProperties, DreamTicksProperties, ProviderPromotion

CONSTANTS m1, t1, c1, c2, k1, k2, k3, h1, h2, e1, e2, e3

VARIABLE part

MCStages == <<Records, "chatgpt_export", "visible_turns">>
MCTables == [i \in Rows |-> IF i = m1 THEN Records ELSE "visible_turns"]

Evident(c, p, n, s) == [claim |-> c, repo |-> p, size |-> n, screened |-> s]

\* A short row and a long one of no repository, one of a repository, one whose repository
\* is not known, and one the content policy rejects.
MCArrivals == {Evident(c1, NoRepo, 1, FALSE), Evident(c2, NoRepo, 2, FALSE),
               Evident(c2, 1, 1, FALSE), Evident(c1, Unresolved, 1, FALSE),
               Evident(NoClaim, NoRepo, 1, TRUE)}

\* Two claims about one repository.
MCOfOneRepo == {Evident(c1, 1, 1, FALSE), Evident(c2, 1, 1, FALSE)}

\* One text in two homes.
Row(h, k) == [home |-> h, content |-> k, state |-> "active", supersedes |-> {}, promoted |-> FALSE, retired |-> FALSE]
MCFirst == <<Row(h1, k1), Row(h2, k1)>>
Ob(k, e, r) == [content |-> k, evidence |-> e, retires |-> r, ok |-> TRUE, provider |-> TRUE]
\* Answers that retire what is theirs and what is not, are refused, or are not a provider's.
MCAnswers == {<<Ob(k2, {1, 2}, {1, 2})>>,
              <<[Ob(k3, {1}, {}) EXCEPT !.provider = FALSE], Ob(k1, {2}, {2}), Ob(k3, {1, 3}, {1, 3})>>}
\* No provider, one with a key, one without https or this host, and a command.
Conf(on, key, e, c) == [enabled |-> on, key |-> key, endpoint |-> e, command |-> c]
MCConf == {Conf(FALSE, FALSE, Unset, FALSE), Conf(TRUE, TRUE, e1, FALSE), Conf(TRUE, FALSE, e3, FALSE), Conf(TRUE, FALSE, Unset, TRUE)}
Job(a, e) == [adapter |-> a, endpoint |-> e]
MCReq == {Job("deterministic", Unset), Job("command", Unset), Job("local-model", e2), Job("provider", Unset), Job("provider", e2), Job("provider", e1)}

DreamsInit ==
    /\ part \in {"scan", "jobs", "ticks", "promotion"}
    /\ Init /\ JobsInit /\ TicksInit /\ PromotionInit
    /\ part # "ticks" => mode = "command"

DreamsNext ==
    /\ UNCHANGED part
    /\ \/ part = "scan" /\ Next /\ UNCHANGED <<jobVars, tickVars, promotionVars>>
       \/ part = "jobs" /\ JobsNext /\ UNCHANGED <<vars, tickVars, promotionVars>>
       \/ part = "ticks" /\ TicksNext /\ UNCHANGED <<vars, jobVars, promotionVars>>
       \/ part = "promotion" /\ PromotionNext /\ UNCHANGED <<vars, jobVars, tickVars>>

\* Runs, jobs, costs, proposals and ticks have the types their tables declare; a run id is a
\* key, and the cursor stays within the evidence.
DreamsTypeOK == JobsTypeOK /\ TicksTypeOK /\ PromotionTypeOK

\* Whatever fails, the scan reaches every row and a job comes to an end.
WorkEnds == EveryRowIsSelected /\ JobsEnd

\* What a provider costs and what its answers may do are kept within the limits set for them.
AnswersAreBounded == CeilingIsOvershotOnceEach /\ PromotionsHold

\* The fairness of each specification, of the one that runs.
DreamsFairness ==
    /\ \A r \in Runners :
          /\ WF_vars(part = "scan" /\ Begin(r)) /\ WF_vars(part = "scan" /\ Pin(r))
          /\ WF_vars(part = "scan" /\ Read(r)) /\ SF_vars(part = "scan" /\ Record(r))
    /\ \A c \in Callers : WF_jobVars(part = "jobs" /\ JobStep(c))
    /\ \A t \in Tickers : WF_tickVars(part = "ticks" /\ TickStep(t))

DreamsSpec == DreamsInit /\ [][DreamsNext]_<<part, vars, jobVars, tickVars, promotionVars>> /\ DreamsFairness
=============================================================================
