-------------------------------- MODULE Intake --------------------------------
(***************************************************************************)
(* What clients write: turns, conclusions and checkpoints (src/src/        *)
(* service.rs).  A request is a list of messages of one kind; each message *)
(* takes several store calls that commit one by one, and a call that fails *)
(* ends the request where it is.  A client may send it again.              *)
(*                                                                         *)
(* One profile, workspace and session, which exist.  What the policy says  *)
(* of a message and the claim it classifies it as are parts of the         *)
(* message; a row is found by its exact content hash only, and what a row  *)
(* found again cites is left to Consolidation.  Policy events and counters *)
(* are left out.  A definition marked "Slip" is the next one with a        *)
(* mistake in it.                                                          *)
(***************************************************************************)
EXTENDS Integers, Sequences, SequencesExt

CONSTANTS
    Clients,
    Topics,                 \* the claims that messages may make
    NoTopic,                \* a turn that says nothing durable
    Requests,               \* what clients send: see Message
    MaxPosts, MaxStored, MaxBreakdowns, MaxForgets      \* bounds

Refusals == {"secret_blocked", "invalid_request"}
Message == [topic: Topics \cup {NoTopic}, text: Nat, code: {"accepted"} \cup Refusals]

Phases == [turn |-> <<"evidence", "source", "ledger", "record">>,
           conclusion |-> <<"evidence", "record", "ledger">>,
           checkpoint |-> <<"evidence", "ledger", "record">>]

ASSUME IntakeAssumption ==
    /\ Requests \subseteq [kind: DOMAIN Phases, messages: Seq(Message)]
    /\ \A r \in Requests :
          /\ r.kind = "checkpoint" => Len(r.messages) = 1
          /\ r.kind # "turn" => \A i \in DOMAIN r.messages : r.messages[i].topic # NoTopic
    /\ MaxPosts \in Nat /\ MaxStored \in Nat /\ MaxBreakdowns \in Nat /\ MaxForgets \in Nat

VARIABLES
    evidence,       \* visible_turns, conclusions and checkpoints, in the order stored
    cited,          \* the evidence that has a row in memory_sources
    trail,          \* evidence_ledger: the set of its event keys
    claims,         \* the row of each topic in memory_records
    clients,        \* where the request of each client is
    posts, breakdowns, forgets,
    unwritten,      \* the rejections whose ledger row failed, which the code ignores
    erased          \* the topics whose row was deleted

intakeVars == <<evidence, cited, trail, claims, clients, posts, breakdowns, forgets, unwritten, erased>>

NoEvidence == 0
NoClaimRow == [state |-> "none", by |-> NoEvidence]
NoRequest == [kind |-> "turn", messages |-> << >>]
AtRest == [pc |-> "idle", request |-> NoRequest, at |-> 1, item |-> NoEvidence, stored |-> << >>]

IntakeInit ==
    /\ evidence = << >> /\ cited = {} /\ trail = {}
    /\ claims = [t \in Topics |-> NoClaimRow]
    /\ clients = [c \in Clients |-> AtRest]
    /\ posts = 0 /\ breakdowns = 0 /\ forgets = 0 /\ unwritten = {} /\ erased = {}

Sends(c, next) == clients' = [clients EXCEPT ![c] = next]
Works(c, phase) == clients[c].pc = phase
MessageOf(c) == clients[c].request.messages[clients[c].at]
----------------------------------------------------------------------------
(* From message to message *)

\* Slip: a turn's record is derived before the trail is laid.
PhasesEager(kind) == IF kind = "turn" THEN <<"evidence", "record", "source", "ledger">> ELSE Phases[kind]

PhasesOf(kind) == Phases[kind]

FirstPhase(m) == IF m.code = "accepted" THEN "evidence" ELSE "refuse"

\* On to the next message of the request, or to the answer.
NextMessage(k) ==
    IF k.at = Len(k.request.messages) THEN [k EXCEPT !.pc = "answered", !.item = NoEvidence]
    ELSE [k EXCEPT !.at = @ + 1, !.item = NoEvidence, !.pc = FirstPhase(k.request.messages[k.at + 1])]

NextPhase(k) ==
    LET phases == PhasesOf(k.request.kind)
        n == CHOOSE i \in DOMAIN phases : phases[i] = k.pc
    IN  IF n = Len(phases) THEN NextMessage(k) ELSE [k EXCEPT !.pc = phases[n + 1]]

Post(c) ==
    /\ Works(c, "idle") /\ posts < MaxPosts /\ posts' = posts + 1
    /\ \E r \in Requests :
          Sends(c, [AtRest EXCEPT !.request = r, !.pc = IF r.messages = << >> THEN "answered"
                                                         ELSE FirstPhase(r.messages[1])])
    /\ UNCHANGED <<evidence, cited, trail, claims, breakdowns, forgets, unwritten, erased>>

\* Slip: all a rejected message is told apart by is its code.
KeyByCode(kind, i, m) == [kind |-> kind, of |-> NoEvidence, place |-> 0, text |-> 0, code |-> m.code]

\* A rejected turn is told apart by its place in the request, the others by their content.
RejectionKey(kind, i, m) ==
    [kind |-> kind, of |-> NoEvidence, place |-> IF kind = "turn" THEN i ELSE 0,
     text |-> IF kind = "turn" THEN 0 ELSE m.text, code |-> m.code]

\* A rejected message leaves a row in the ledger, if that can be written; a rejected
\* checkpoint is answered with an error.
RefuseMessage(c) ==
    /\ Works(c, "refuse")
    /\ LET k == clients[c]
           key == RejectionKey(k.request.kind, k.at, MessageOf(c))
       IN  \/ /\ trail' = trail \cup {key}
              /\ UNCHANGED <<breakdowns, unwritten>>
           \/ /\ breakdowns < MaxBreakdowns /\ breakdowns' = breakdowns + 1
              /\ unwritten' = unwritten \cup {key}
              /\ UNCHANGED trail
    /\ Sends(c, NextMessage(clients[c]))
    /\ UNCHANGED <<evidence, cited, claims, posts, forgets, erased>>

StoreEvidence(c) ==
    /\ Works(c, "evidence") /\ Len(evidence) < MaxStored
    /\ evidence' = Append(evidence, [kind |-> clients[c].request.kind, topic |-> MessageOf(c).topic])
    /\ Sends(c, NextPhase([clients[c] EXCEPT !.item = Len(evidence) + 1, !.stored = Append(@, Len(evidence) + 1)]))
    /\ UNCHANGED <<cited, trail, claims, posts, breakdowns, forgets, unwritten, erased>>

\* The source of a turn names the turn, so it is always a new one.
CiteTurn(c) ==
    /\ Works(c, "source")
    /\ cited' = cited \cup {clients[c].item}
    /\ Sends(c, NextPhase(clients[c]))
    /\ UNCHANGED <<evidence, trail, claims, posts, breakdowns, forgets, unwritten, erased>>

AcceptanceKey(e) == [kind |-> evidence[e].kind, of |-> e, place |-> 0, text |-> 0, code |-> "accepted"]

LayTrail(c) ==
    /\ Works(c, "ledger")
    /\ trail' = trail \cup {AcceptanceKey(clients[c].item)}
    /\ Sends(c, NextPhase(clients[c]))
    /\ UNCHANGED <<evidence, cited, claims, posts, breakdowns, forgets, unwritten, erased>>

\* upsert_record looks for the row, archived or not, ...
FindClaim(c) ==
    /\ Works(c, "record")
    /\ LET t == MessageOf(c).topic
       IN  Sends(c, IF t = NoTopic \/ claims[t].state # "none" THEN NextPhase(clients[c])
                    ELSE [clients[c] EXCEPT !.pc = "insert"])
    /\ UNCHANGED <<evidence, cited, trail, claims, posts, breakdowns, forgets, unwritten, erased>>

\* ... and, when there is none, inserts it; the index refuses a second one, and the call fails.
InsertClaim(c) ==
    /\ Works(c, "insert")
    /\ LET k == clients[c]
           t == MessageOf(c).topic
       IN  IF claims[t].state = "none"
           THEN /\ claims' = [claims EXCEPT ![t] = [state |-> "active", by |-> k.item]]
                /\ Sends(c, NextPhase([k EXCEPT !.pc = "record"]))
           ELSE Sends(c, [k EXCEPT !.pc = "failed"]) /\ UNCHANGED claims
    /\ UNCHANGED <<evidence, cited, trail, posts, breakdowns, forgets, unwritten, erased>>

EndPost(c) ==
    /\ clients[c].pc \in {"answered", "failed"}
    /\ Sends(c, AtRest)
    /\ UNCHANGED <<evidence, cited, trail, claims, posts, breakdowns, forgets, unwritten, erased>>

\* A store call fails, or the process ends, before the call.
BreakPost(c) ==
    /\ clients[c].pc \notin {"idle", "answered", "failed"}
    /\ breakdowns < MaxBreakdowns /\ breakdowns' = breakdowns + 1
    /\ Sends(c, [clients[c] EXCEPT !.pc = "failed"])
    /\ UNCHANGED <<evidence, cited, trail, claims, posts, forgets, unwritten, erased>>

\* forget archives, and what is said again of an archived row leaves it so; or it deletes.
ForgetTopic(t) ==
    /\ claims[t].state # "none" /\ forgets < MaxForgets
    /\ forgets' = forgets + 1
    /\ \/ /\ claims' = [claims EXCEPT ![t].state = "archived"]
          /\ UNCHANGED erased
       \/ /\ claims' = [claims EXCEPT ![t] = NoClaimRow]
          /\ erased' = erased \cup {t}
    /\ UNCHANGED <<evidence, cited, trail, clients, posts, breakdowns, unwritten>>

IntakeNext ==
    \/ \E c \in Clients :
          \/ Post(c) \/ RefuseMessage(c) \/ StoreEvidence(c) \/ CiteTurn(c) \/ LayTrail(c)
          \/ FindClaim(c) \/ InsertClaim(c) \/ EndPost(c) \/ BreakPost(c)
    \/ \E t \in Topics : ForgetTopic(t)

IntakeSpec == IntakeInit /\ [][IntakeNext]_intakeVars
----------------------------------------------------------------------------
(* What the write endpoints promise (docs/evidence-ledger.md). *)

\* Evidence, rows and requests stay within their types.
IntakeTypeOK ==
    /\ evidence \in Seq([kind: DOMAIN Phases, topic: Topics \cup {NoTopic}])
    /\ cited \subseteq DOMAIN evidence
    /\ claims \in [Topics -> [state: {"none", "active", "archived"}, by: {NoEvidence} \cup DOMAIN evidence]]
    /\ \A c \in Clients : clients[c].item \in {NoEvidence} \cup DOMAIN evidence

Laid(e) == AcceptanceKey(e) \in trail

\* A row in memory stands on the evidence that made it and says the same, however requests
\* interleave, fail half way and come again: a turn's has its source and its trail, a
\* checkpoint's its trail; a conclusion's row is stored before its trail is.
RowsStandOnEvidence ==
    \A t \in Topics : LET e == claims[t].by IN
        claims[t].state # "none" =>
            /\ e \in DOMAIN evidence /\ evidence[e].topic = t
            /\ evidence[e].kind = "turn" => e \in cited
            /\ evidence[e].kind # "conclusion" => Laid(e)

\* An answer tells the truth: what was accepted has its trail and, if it claims something, a
\* row, though a concurrent request may have been first, unless somebody deleted it; what was
\* rejected is in the ledger under its own key, unless that row could not be written.  Two
\* rejected inputs of a request share a key only if they are turns at one place, or say the
\* same.
AnswersAreTrue ==
    \A c \in Clients : Works(c, "answered") =>
        LET r == clients[c].request IN
        /\ \A e \in Range(clients[c].stored) :
              /\ Laid(e)
              /\ LET t == evidence[e].topic IN
                    t \in {NoTopic} \cup erased \/ claims[t].state # "none"
        /\ \A i \in DOMAIN r.messages : r.messages[i].code # "accepted" =>
              \E key \in trail \cup unwritten :
                 /\ key.kind = r.kind /\ key.code = r.messages[i].code
                 /\ IF r.kind = "turn" THEN key.place = i ELSE key.text = r.messages[i].text
=============================================================================
