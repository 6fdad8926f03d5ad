----------------------------- MODULE Procedures -----------------------------
(***************************************************************************)
(* Procedures learned from episodes: preview, apply, retire, supersede,    *)
(* counter-evidence and recall (procedure* in src/src/service.rs and       *)
(* src/src/store.rs).  A procedure's id is its place in `procedures`.      *)
(*                                                                         *)
(* A way stands for the summary of an episode and for the activation query *)
(* and steps made of it; its wording, the screening of it, confidences,    *)
(* times of validation and the matching of queries are left out.  Callers  *)
(* submit what a preview has shown them, a candidate at a time: a list is  *)
(* applied one by one too, and ends where one of them fails.               *)
(* A definition marked "Slip" is the next one with a mistake in it.        *)
(***************************************************************************)
EXTENDS Integers, Sequences, FiniteSets

CONSTANTS
    Clerks,         \* callers of procedure operations
    Subjects, Ways,
    Told,           \* the episodes that may be stored
    FirstTold,      \* episodes stored at start
    Threshold,      \* counter-evidence that quarantines
    MaxEpisodes, MaxProcedures, MaxVersion, MaxCounts, MaxStops     \* bounds

Episode == [subject: Subjects, way: Ways, good: BOOLEAN, trusted: BOOLEAN]

ASSUME ProceduresAssumption ==
    /\ Told \subseteq Episode /\ FirstTold \in Seq(Episode) /\ Len(FirstTold) <= MaxEpisodes
    /\ Threshold \in Nat \ {0}
    /\ MaxEpisodes \in Nat /\ MaxProcedures \in Nat /\ MaxVersion \in Nat
    /\ MaxCounts \in Nat /\ MaxStops \in Nat

VARIABLES
    episodes, procedures,   \* the tables
    clerks,                 \* where each caller is
    stops,                  \* calls cut off so far
    uncounted               \* procedures whose counter went up in a call cut off before it looked

procVars == <<episodes, procedures, clerks, stops, uncounted>>

\* No procedure has this id.
NoProcedure == 0

AtDesk == [pc |-> "idle", on |-> << >>, id |-> NoProcedure]

ProceduresInit ==
    /\ episodes = FirstTold /\ procedures = << >>
    /\ clerks = [c \in Clerks |-> AtDesk]
    /\ stops = 0 /\ uncounted = {}

Seat(c, next) == clerks' = [clerks EXCEPT ![c] = next]
Does(c, pc) == clerks[c].pc = pc

\* What recall returns unless asked for history.
Recalled(p) == p.state = "active" /\ ~p.retired
----------------------------------------------------------------------------
(* From episodes to procedures *)

\* Episodes are never changed or deleted.
CreateEpisode ==
    /\ Len(episodes) < MaxEpisodes
    /\ \E e \in Told : episodes' = Append(episodes, e)
    /\ UNCHANGED <<procedures, clerks, stops, uncounted>>

\* list_successful_episodes: the limit may leave any of them out.
Successful == {e \in DOMAIN episodes : episodes[e].good}

\* Slip: episodes are grouped by what they say, whoever it is about.
GroupWithAnyone(seen, e) == {d \in seen : episodes[d].way = episodes[e].way}

GroupWith(seen, e) == {d \in seen : episodes[d].way = episodes[e].way /\ episodes[d].subject = episodes[e].subject}

CandidateOf(group, e) ==
    [subject |-> episodes[e].subject, way |-> episodes[e].way, by |-> group,
     state |-> IF Cardinality(group) >= 2 /\ \A d \in group : episodes[d].trusted
               THEN "candidate" ELSE "quarantined"]

\* procedures_apply accepts what a preview called a candidate.
IsAccepted(k) == k.state = "candidate" /\ Cardinality(k.by) >= 2

\* procedures_preview, and what the caller submits of it, now or much later.
SubmitCandidate(c) ==
    /\ Does(c, "idle")
    /\ \E seen \in SUBSET Successful : \E e \in seen :
          LET k == CandidateOf(GroupWith(seen, e), e)
          IN  IsAccepted(k) /\ Seat(c, [AtDesk EXCEPT !.pc = "insert", !.on = k])
    /\ UNCHANGED <<episodes, procedures, stops, uncounted>>

\* idx_procedures_candidate_dedupe
Clashing(k) == {i \in DOMAIN procedures :
                   /\ procedures[i].subject = k.subject /\ procedures[i].way = k.way
                   /\ ~procedures[i].retired}

NewProcedure(k) == [subject |-> k.subject, way |-> k.way, by |-> k.by, state |-> "active",
                    retired |-> FALSE, version |-> 1, next |-> NoProcedure, counter |-> 0]

\* INSERT OR IGNORE ...
InsertProcedure(c) ==
    /\ Does(c, "insert")
    /\ LET k == clerks[c].on
       IN  IF Clashing(k) = {}
           THEN /\ Len(procedures) < MaxProcedures
                /\ procedures' = Append(procedures, NewProcedure(k))
                /\ Seat(c, AtDesk)
           ELSE /\ Seat(c, [clerks[c] EXCEPT !.pc = "find"])
                /\ UNCHANGED procedures
    /\ UNCHANGED <<episodes, stops, uncounted>>

\* ... and, if it was ignored, the look for the row in the way, which is the answer, or an
\* error if the row is gone by now.
FindProcedure(c) ==
    /\ Does(c, "find")
    /\ Seat(c, AtDesk)
    /\ UNCHANGED <<episodes, procedures, stops, uncounted>>
----------------------------------------------------------------------------
(* The life of a procedure *)

RetiredProcedure(p) == IF p.state = "retired" THEN p ELSE [p EXCEPT !.state = "retired", !.retired = TRUE]

RetireProcedure(i) ==
    /\ procedures' = [procedures EXCEPT ![i] = RetiredProcedure(@)]
    /\ procedures' # procedures
    /\ UNCHANGED <<episodes, clerks, stops, uncounted>>

\* Two updates in one transaction, whatever `new` names and whatever state the two are in.
SupersedeProcedure(old, new) ==
    LET version == procedures[old].version + 1
        left == [procedures EXCEPT ![old].state = "superseded", ![old].retired = TRUE, ![old].next = new]
    IN  /\ version <= MaxVersion
        /\ procedures' = IF new \in DOMAIN procedures THEN [left EXCEPT ![new].version = version] ELSE left
        /\ UNCHANGED <<episodes, clerks, stops, uncounted>>

\* record_procedure_counter_evidence: a statement that counts ...
CountEvidence(c, i) ==
    /\ Does(c, "idle") /\ procedures[i].counter < MaxCounts
    /\ procedures' = [procedures EXCEPT ![i].counter = @ + 1]
    /\ Seat(c, [AtDesk EXCEPT !.pc = "count", !.id = i])
    /\ UNCHANGED <<episodes, stops, uncounted>>

\* Slip: a quarantined procedure keeps its place in the index.
QuarantinedOpen(p) ==
    IF p.counter < Threshold \/ p.state \in {"retired", "superseded"} THEN p
    ELSE [p EXCEPT !.state = "quarantined"]

\* Slip: quarantined when the threshold is passed, not when it is reached.
QuarantinedLate(p) ==
    IF p.counter <= Threshold \/ p.state \in {"retired", "superseded"} THEN p
    ELSE [p EXCEPT !.state = "quarantined", !.retired = TRUE]

QuarantinedProcedure(p) ==
    IF p.counter < Threshold \/ p.state \in {"retired", "superseded"} THEN p
    ELSE [p EXCEPT !.state = "quarantined", !.retired = TRUE]

\* ... and one that looks at the counter.
QuarantineProcedure(c) ==
    /\ Does(c, "count")
    /\ procedures' = [procedures EXCEPT ![clerks[c].id] = QuarantinedProcedure(@)]
    /\ Seat(c, AtDesk)
    /\ UNCHANGED <<episodes, stops, uncounted>>

\* The call fails, or the process ends, between two statements.
StopProcedures(c) ==
    /\ ~Does(c, "idle") /\ stops < MaxStops
    /\ Seat(c, AtDesk)
    /\ stops' = stops + 1
    /\ uncounted' = IF Does(c, "count") THEN uncounted \cup {clerks[c].id} ELSE uncounted
    /\ UNCHANGED <<episodes, procedures>>

ProceduresNext ==
    \/ CreateEpisode
    \/ \E c \in Clerks :
          \/ SubmitCandidate(c) \/ InsertProcedure(c) \/ FindProcedure(c)
          \/ QuarantineProcedure(c) \/ StopProcedures(c)
          \/ \E i \in DOMAIN procedures : CountEvidence(c, i)
    \/ \E i \in DOMAIN procedures :
          RetireProcedure(i) \/ \E j \in {NoProcedure} \cup DOMAIN procedures : SupersedeProcedure(i, j)

ProceduresSpec == ProceduresInit /\ [][ProceduresNext]_procVars
----------------------------------------------------------------------------
(* What procedures promise (docs/procedure-maintenance.md, *)
(* tests/procedure_lifecycle.rs). *)

\* The state stays within its types.
ProceduresTypeOK ==
    /\ episodes \in Seq(Episode)
    /\ procedures \in Seq([subject: Subjects, way: Ways, by: SUBSET (1 .. MaxEpisodes),
                           state: {"active", "retired", "superseded", "quarantined"},
                           retired: BOOLEAN, version: Nat, next: Nat, counter: Nat])
    /\ \A c \in Clerks : /\ clerks[c].pc \in {"idle", "insert", "find", "count"}
                         /\ clerks[c].id \in {NoProcedure} \cup DOMAIN procedures
    /\ stops \in 0 .. MaxStops /\ uncounted \subseteq DOMAIN procedures

\* However many callers apply what they once were shown, no two procedures in use say the
\* same of a subject, and each rests on two trusted successes of that very subject.  What
\* keeps a new procedure out, and is the answer in its place, is one that recall returns: the
\* index asks for the time of retirement only, recall for the state, too.
WaysAreLearnedOnce ==
    /\ \A i, j \in DOMAIN procedures :
          /\ Recalled(procedures[i]) /\ Recalled(procedures[j])
          /\ procedures[i].subject = procedures[j].subject /\ procedures[i].way = procedures[j].way
          => i = j
    /\ \A i \in DOMAIN procedures :
          /\ \E d, e \in procedures[i].by :
                d # e /\ \A f \in {d, e} : /\ episodes[f].good /\ episodes[f].trusted
                                           /\ episodes[f].subject = procedures[i].subject
          /\ i \in Clashing(procedures[i]) => Recalled(procedures[i])

\* Counter-evidence up to the threshold takes a procedure out of use, though callers count
\* and look in two statements each; a call cut off in between leaves it to the next one.
EnoughIsQuarantined ==
    \A i \in DOMAIN procedures :
        Recalled(procedures[i]) /\ procedures[i].counter >= Threshold =>
            i \in uncounted \/ \E c \in Clerks : Does(c, "count") /\ clerks[c].id = i

\* "The old procedure is marked superseded, links to the successor, and the successor's
\* version is bumped past the old one" (src/src/store.rs:2771).
SuccessorsAreNewer ==
    \A i \in DOMAIN procedures : procedures[i].state = "superseded" =>
        /\ procedures[i].next \in DOMAIN procedures
        /\ procedures[procedures[i].next].version > procedures[i].version
=============================================================================
