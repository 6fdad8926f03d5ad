--------------------------- MODULE ProviderPromotion ---------------------------
(***************************************************************************)
(* What becomes of a model's answer (src/src/service.rs, provider.rs):     *)
(* where a job may send its evidence, the candidates that a preview takes  *)
(* from the answer, and the observations that a scheduled apply writes as  *)
(* records, one store call a step, while users archive and delete.         *)
(*                                                                         *)
(* An endpoint is https or not, on this host or not; a content stands for  *)
(* its hash, which is unique in its home.  Left out: texts, types, and the *)
(* call itself, which is that of DreamJobs.                                *)
(* A definition marked "Slip" is the next one with a mistake in it.        *)
(***************************************************************************)
EXTENDS Integers, Sequences, SequencesExt, FiniteSets

CONSTANTS
    Promoters, Homes,  \* ticks at the same time; profiles with their workspaces
    FirstStored,        \* records from the beginning
    Answers,            \* what a model may answer: sequences of observations
    Endpoints, OnHttps, OnThisHost,
    Configured,         \* dream_provider
    Requested,          \* jobs' adapters and providers
    Unset,
    MaxTaken,           \* max_candidates
    MaxRowsStored, MaxAnswers, MaxTroubles \* bounds on records, answers, and failures and withdrawals

Observations == UNION {ToSet(a) : a \in Answers}
Contents == {o.content : o \in Observations} \cup {row.content : row \in ToSet(FirstStored)}
States == {"active", "archived", "deleted"}

ASSUME PromotionAssumption ==
    /\ OnHttps \cup OnThisHost \subseteq Endpoints /\ Unset \notin Endpoints
    /\ Answers \subseteq Seq(Observations) /\ Homes # {}
    /\ Len(FirstStored) <= MaxRowsStored
    /\ FirstStored \in Seq([home: Homes, content: Contents, state: States, supersedes: {{}},
                            promoted: {FALSE}, retired: {FALSE}])
    /\ Configured \subseteq [enabled: BOOLEAN, key: BOOLEAN, endpoint: Endpoints \cup {Unset}, command: BOOLEAN]
    /\ Requested \subseteq [adapter: {"deterministic", "command", "local-model", "provider"},
                             endpoint: Endpoints \cup {Unset}]
    /\ MaxTaken \in Nat /\ MaxRowsStored \in Nat /\ MaxAnswers \in Nat /\ MaxTroubles \in Nat

VARIABLES
    stored,     \* memory_records
    promoters,  \* the ticks
    previews,   \* the last answer if it was a preview's, with what it was about
    answered, troubles

promotionVars == <<stored, promoters, previews, answered, troubles>>

NotPromoting == [pc |-> "none", home |-> CHOOSE h \in Homes : TRUE, todo |-> <<>>, most |-> 0,
                 tried |-> 0, valid |-> {}, hit |-> FALSE]
NoPreview == [sent |-> FALSE, to |-> Unset, key |-> FALSE, by |-> "deterministic", conf |-> Unset,
              window |-> {}, values |-> <<>>, taken |-> {}, refused |-> 0, hit |-> FALSE]

PromotionInit ==
    /\ stored = FirstStored /\ promoters = [p \in Promoters |-> NotPromoting]
    /\ previews = NoPreview /\ answered = 0 /\ troubles = 0

InHome(h) == {n \in DOMAIN stored : stored[n].home = h /\ stored[n].state # "deleted"}
----------------------------------------------------------------------------
(* Jobs that preview *)

\* resolve_dream_provider: the endpoint.
EndpointOf(job, conf) == IF job.endpoint # Unset THEN job.endpoint ELSE conf.endpoint

\* The configured key is for the configured endpoint.
KeyFor(job, conf) == conf.key /\ EndpointOf(job, conf) = conf.endpoint

\* Slip: a provider may be asked without https.
MaySendAnywhere(job, conf) ==
    CASE job.adapter = "command" -> conf.enabled /\ conf.command /\ job.endpoint = Unset
      [] job.adapter = "local-model" -> EndpointOf(job, conf) \in OnThisHost
      [] job.adapter = "provider" -> /\ EndpointOf(job, conf) \in Endpoints
                                     /\ conf.enabled \/ job.endpoint # Unset

\* resolve_dream_provider: where the evidence may be sent.
MaySend(job, conf) ==
    CASE job.adapter = "command" -> conf.enabled /\ conf.command /\ job.endpoint = Unset
      [] job.adapter = "local-model" -> EndpointOf(job, conf) \in OnThisHost
      [] job.adapter = "provider" -> /\ EndpointOf(job, conf) \in OnHttps
                                     /\ conf.enabled \/ job.endpoint # Unset

\* Other endpoints are not asked at all while a key is configured.
Resolved(job, conf) ==
    /\ job.adapter # "deterministic" /\ MaySend(job, conf)
    /\ job.adapter # "command" /\ EndpointOf(job, conf) # conf.endpoint => ~conf.key

\* Slip: the evidence of a candidate need not have been sent.
IsCandidateAnyhow(v, window) == v.ok /\ v.evidence # {} /\ v.retires \subseteq v.evidence

\* provider_candidate_from_value
IsCandidate(v, window) ==
    v.ok /\ v.evidence # {} /\ v.evidence \subseteq window /\ v.retires \subseteq v.evidence

\* append_provider_candidates: no more than there is room for, refused ones counted; the places
\* of those taken.
Appended(values, window, room) ==
    LET count == IF Len(values) < room THEN Len(values) ELSE room
        taken == {i \in 1 .. count : IsCandidate(values[i], window)}
    IN  [taken |-> taken, refused |-> count - Cardinality(taken), hit |-> count < Len(values)]

\* augment_model_dream_preview, for the records of one home; it changes nothing that a tick reads,
\* so it is looked at between ticks.
PreviewAnswer(h, job, conf, values) ==
    LET got == Appended(values, InHome(h), MaxTaken)
    IN  /\ answered < MaxAnswers /\ answered' = answered + 1
        /\ \A p \in Promoters : promoters[p].pc = "none"
        /\ previews' = IF ~Resolved(job, conf) THEN NoPreview ELSE
               [sent |-> TRUE, to |-> IF job.adapter = "command" THEN Unset ELSE EndpointOf(job, conf),
                key |-> job.adapter # "command" /\ KeyFor(job, conf), by |-> job.adapter, conf |-> conf.endpoint,
                window |-> InHome(h), values |-> values,
                taken |-> got.taken, refused |-> got.refused, hit |-> got.hit]
        /\ UNCHANGED <<stored, promoters, troubles>>
----------------------------------------------------------------------------
(* Ticks that promote *)

To(p, r) == promoters' = [promoters EXCEPT ![p] = r]
Next1(r) == [r EXCEPT !.pc = "observe", !.todo = Tail(@)]

\* generate_observations, with what the deterministic candidates have left of the limit.
TakeAnswer(p) ==
    /\ promoters[p].pc = "none" /\ answered < MaxAnswers /\ answered' = answered + 1
    /\ \E h \in Homes, a \in Answers, most \in 0 .. MaxTaken :
           /\ InHome(h) # {}
           /\ To(p, [NotPromoting EXCEPT !.pc = "observe", !.home = h, !.todo = a, !.most = most])
    /\ previews' = NoPreview
    /\ UNCHANGED <<stored, troubles>>

\* promote_provider_observations: the limit, the policy, and the records to be retired that there are.
Observe(p) ==
    LET r == promoters[p]
        o == Head(r.todo)
    IN  /\ r.pc = "observe" /\ r.todo # <<>>
        /\ To(p, IF ~o.provider THEN Next1(r)
                 ELSE IF r.tried >= r.most THEN [r EXCEPT !.pc = "end", !.hit = TRUE]
                 ELSE IF ~o.ok THEN [Next1(r) EXCEPT !.tried = @ + 1]
                 ELSE [r EXCEPT !.pc = "find", !.tried = @ + 1,
                                !.valid = {n \in o.retires \cap DOMAIN stored : stored[n].state # "deleted"}])
        /\ UNCHANGED <<stored, previews, answered, troubles>>

Holds(h, k) == {n \in InHome(h) : stored[n].content = k}

\* Slip: what there is already retires others all the same.
FindAndRetire(r) == [r EXCEPT !.pc = IF Holds(r.home, Head(r.todo).content) # {} THEN "retire" ELSE "insert"]

\* upsert_record: what there is already retires nothing.
Find(r) ==
    IF Holds(r.home, Head(r.todo).content) # {} THEN [r EXCEPT !.pc = "note"] ELSE [r EXCEPT !.pc = "insert"]

FindContent(p) ==
    /\ promoters[p].pc = "find" /\ To(p, Find(promoters[p]))
    /\ UNCHANGED <<stored, previews, answered, troubles>>

\* upsert_record: a row of this content may have come since, and is an error then.
InsertContent(p) ==
    LET r == promoters[p]
        k == Head(r.todo).content
    IN  /\ r.pc = "insert" /\ Len(stored) < MaxRowsStored
        /\ IF Holds(r.home, k) # {} THEN stored' = stored /\ To(p, Next1(r)) ELSE
              /\ stored' = Append(stored, [home |-> r.home, content |-> k, state |-> "active",
                                           supersedes |-> r.valid, promoted |-> TRUE, retired |-> FALSE])
              /\ To(p, [r EXCEPT !.pc = IF r.valid = {} THEN "note" ELSE "retire"])
        /\ UNCHANGED <<previews, answered, troubles>>

\* Slip: in whatever home they are.
RetiredAnywhere(r) == {n \in r.valid : stored[n].state = "active"}

\* archive_records: those of the home.
Retired(r) == {n \in r.valid \cap InHome(r.home) : stored[n].state = "active"}

ArchiveRetired(p) ==
    LET r == promoters[p]
    IN  /\ r.pc = "retire"
        /\ stored' = [n \in DOMAIN stored |-> IF n \in Retired(r)
                         THEN [stored[n] EXCEPT !.state = "archived", !.retired = TRUE] ELSE stored[n]]
        /\ To(p, [r EXCEPT !.pc = "note"])
        /\ UNCHANGED <<previews, answered, troubles>>

\* record_evidence_ledger; the next one.
Note(p) ==
    /\ promoters[p].pc = "note" /\ To(p, Next1(promoters[p]))
    /\ UNCHANGED <<stored, previews, answered, troubles>>

\* An answer that fills the limit counts as one that hits it.
EndAnswer(p) ==
    LET r == promoters[p]
    IN  /\ r.pc = "observe" /\ r.todo = <<>>
        /\ To(p, [r EXCEPT !.pc = "end", !.hit = r.tried >= r.most /\ r.most > 0])
        /\ UNCHANGED <<stored, previews, answered, troubles>>

\* A write fails and the next observation is looked at, or the process is killed.
CutShort(p) ==
    /\ promoters[p].pc \in {"find", "insert", "retire", "note"} /\ troubles < MaxTroubles /\ troubles' = troubles + 1
    /\ \/ promoters[p].pc # "note" /\ To(p, Next1(promoters[p]))
       \/ To(p, NotPromoting)
    /\ UNCHANGED <<stored, previews, answered>>

Leave(p) == promoters[p].pc = "end" /\ To(p, NotPromoting) /\ UNCHANGED <<stored, previews, answered, troubles>>

\* archive_records, delete_records, for a user.
Withdraw(n) ==
    /\ troubles < MaxTroubles /\ troubles' = troubles + 1
    /\ \E s \in {"archived", "deleted"} : /\ stored[n].state \in {"active", "archived"} \ {s}
                                          /\ stored' = [stored EXCEPT ![n].state = s]
    /\ UNCHANGED <<promoters, previews, answered>>

PromotionNext ==
    \/ \E h \in Homes, job \in Requested, conf \in Configured, values \in Answers :
          PreviewAnswer(h, job, conf, values)
    \/ \E p \in Promoters : \/ TakeAnswer(p) \/ Observe(p) \/ FindContent(p) \/ InsertContent(p)
                            \/ ArchiveRetired(p) \/ Note(p) \/ EndAnswer(p) \/ CutShort(p) \/ Leave(p)
    \/ \E n \in DOMAIN stored : Withdraw(n)

PromotionSpec == PromotionInit /\ [][PromotionNext]_promotionVars
----------------------------------------------------------------------------
(* What the use of a model's answers promises (docs/dreamer-native-provider.md, *)
(* docs/async-dreamer-v2.md). *)

Ids == 1 .. MaxRowsStored

\* The state stays within its types.
PromotionTypeOK ==
    /\ Len(stored) \in 0 .. MaxRowsStored
    /\ \A n \in DOMAIN stored :
          /\ stored[n].home \in Homes /\ stored[n].state \in States
          /\ stored[n].supersedes \subseteq Ids /\ stored[n].promoted \in BOOLEAN
    /\ \A p \in Promoters :
          /\ promoters[p].pc \in {"none", "observe", "find", "insert", "retire", "note", "end"}
          /\ ToSet(promoters[p].todo) \subseteq Observations /\ promoters[p].valid \subseteq Ids
          /\ promoters[p].tried \in 0 .. MaxTaken /\ promoters[p].home \in Homes
    /\ previews.to \in Endpoints \cup {Unset} /\ previews.taken \subseteq DOMAIN previews.values
    /\ answered \in 0 .. MaxAnswers /\ troubles \in 0 .. MaxTroubles

\* A promotion takes a record out of recall only for one it has put in its place, in the same home.
RetiredIsReplaced ==
    \A n \in DOMAIN stored : stored[n].retired =>
        \E m \in DOMAIN stored : /\ m > n /\ stored[m].promoted /\ n \in stored[m].supersedes
                                 /\ stored[m].home = stored[n].home

\* And what it says it supersedes it has taken out, unless it was cut short or a user interfered.
SupersededIsOut ==
    troubles = 0 /\ (\A p \in Promoters : promoters[p].pc \in {"none", "observe", "end"}) =>
        \A m \in DOMAIN stored : \A n \in stored[m].supersedes :
            stored[n].home = stored[m].home => stored[n].state # "active"

\* No more is tried than the limit leaves, and what was left out is told.
LimitIsTold ==
    /\ \A p \in Promoters :
          /\ promoters[p].tried <= promoters[p].most
          /\ promoters[p].pc = "end" /\ ~promoters[p].hit => promoters[p].todo = <<>>
    /\ Cardinality(previews.taken) + previews.refused <= MaxTaken
    /\ previews.hit <=> Cardinality(previews.taken) + previews.refused < Len(previews.values)

\* A candidate rests on what the model was shown, and retires nothing else.
RestsOnWhatWasShown ==
    \A v \in {previews.values[i] : i \in previews.taken} :
        v.evidence # {} /\ v.evidence \cup v.retires \subseteq previews.window

\* The configured key goes to the configured endpoint, and nothing leaves this host in the clear.
SentWhereItMay ==
    previews.sent => /\ previews.key => previews.to = previews.conf
                     /\ previews.by # "command" => previews.to \in OnHttps \cup OnThisHost

PromotionsHold ==
    RetiredIsReplaced /\ SupersededIsOut /\ LimitIsTold /\ RestsOnWhatWasShown /\ SentWhereItMay
=============================================================================
