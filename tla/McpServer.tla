------------------------------- MODULE McpServer -------------------------------
(***************************************************************************)
(* The MCP server on standard input and output (src/src/mcp.rs): one line  *)
(* at a time, in either of two lifecycles.                                 *)
(*                                                                         *)
(* A line is garbled (too long, no JSON, no JSON-RPC request), blank, or a *)
(* message with or without an id.  "said" is the transcript, with what     *)
(* each line made the service do.  Left out: texts, codes and schemas, the *)
(* version echoed by initialize, and what a tool does, which is that of    *)
(* the endpoint it calls.                                                  *)
(* A definition marked "Slip" is the next one with a mistake in it.        *)
(***************************************************************************)
EXTENDS Integers, Sequences

CONSTANTS
    Lines,              \* what a client may send
    Modern, Older,     \* versions of the protocol; another one is not supported
    NoVersion,          \* no version in the metadata of a request
    Nothing,            \* no answer, no call
    MaxLines            \* bound on the transcript

ReadOnlyTools == {"memory_status", "memory_recall", "memory_search"}
WriteTools == {"memory_create", "memory_conclude", "memory_checkpoint",
               "memory_import_preview", "memory_import_apply"}

ASSUME McpAssumption ==
    /\ \A l \in Lines : l.kind \in {"garbled", "blank", "message"}
    /\ Modern \notin Older /\ NoVersion \notin Older \cup {Modern} /\ MaxLines \in Nat
    /\ Nothing \notin {"error", "result"} \cup ReadOnlyTools \cup WriteTools

VARIABLES
    writeTools, \* --write-tools
    mode,       \* connection_mode
    phase,      \* legacy_phase
    said        \* lines, with answers and calls

mcpVars == <<writeTools, mode, phase, said>>

McpInit ==
    /\ writeTools \in BOOLEAN /\ said = <<>>
    /\ mode = "undetermined" /\ phase = "not_initialized"
----------------------------------------------------------------------------
\* tool_definitions
Offered == ReadOnlyTools \cup IF writeTools THEN WriteTools ELSE {}

Reply(result, did) == [result |-> result, did |-> did, offers |-> {}]
Refusal == Reply("error", Nothing)

\* handle_tool_call: which calls the service is asked to do.
CallTool(l) ==
    IF /\ writeTools \/ l.tool \in ReadOnlyTools
       /\ l.tool \in ReadOnlyTools \cup WriteTools /\ l.args
    THEN Reply("result", l.tool) ELSE Refusal

\* handle_request
Handle(l) ==
    CASE l.method = "tools/list" -> [Reply("result", Nothing) EXCEPT !.offers = Offered]
      [] l.method = "tools/call" -> CallTool(l)
      [] OTHER -> Refusal

Stay(answer) == [mode |-> mode, phase |-> phase, answer |-> answer]

\* Slip: initialize is let in again while the client is awaited.
InitializeAgain(l) ==
    IF mode = "modern" \/ phase = "ready" \/ ~l.whole \/ l.asks = Modern THEN Stay(Refusal)
    ELSE [mode |-> "legacy", phase |-> "awaiting_initialized", answer |-> Reply("result", Nothing)]

\* initialize: whatever other version is asked for, a legacy one is agreed on.
Initialize(l) ==
    IF mode = "modern" \/ phase # "not_initialized" \/ ~l.whole \/ l.asks = Modern THEN Stay(Refusal)
    ELSE [mode |-> "legacy", phase |-> "awaiting_initialized", answer |-> Reply("result", Nothing)]

\* Slip: the client is ready whenever it says so.
NotifiedAnyTime(l) ==
    [mode |-> mode, answer |-> Reply(Nothing, Nothing),
     phase |-> IF l.method = "notifications/initialized" THEN "ready" ELSE phase]

\* handle_message, without an id: nothing is answered and nothing else is done.
Notified(l) ==
    [mode |-> mode, answer |-> Reply(Nothing, Nothing),
     phase |-> IF l.method = "notifications/initialized" /\ phase = "awaiting_initialized"
               THEN "ready" ELSE phase]

\* handle_message, with the version of 2026 in the metadata of the request.
ModernRequest(l) ==
    IF ~l.whole \/ mode = "legacy" THEN Stay(Refusal)
    ELSE [mode |-> "modern", phase |-> phase,
          answer |-> IF l.method = "server/discover" THEN Reply("result", Nothing) ELSE Handle(l)]

LegacyRequest(l) ==
    Stay(IF l.method = "server/discover" \/ mode = "modern" \/ phase # "ready" THEN Refusal ELSE Handle(l))

HandleMessage(l) ==
    CASE ~l.params -> Stay(IF l.id THEN Refusal ELSE Reply(Nothing, Nothing))
      [] l.params /\ ~l.id -> Notified(l)
      [] l.params /\ l.id /\ l.method = "initialize" -> Initialize(l)
      [] l.params /\ l.id /\ l.method # "initialize" ->
            CASE l.version = Modern -> ModernRequest(l)
              [] l.version \in Older \cup {NoVersion} -> LegacyRequest(l)
              [] OTHER -> Stay(Refusal)

\* run_stdio: a garbled line is answered, a blank one is not.
Read(l) ==
    LET after == CASE l.kind = "garbled" -> Stay(Refusal)
                   [] l.kind = "blank" -> Stay(Reply(Nothing, Nothing))
                   [] l.kind = "message" -> HandleMessage(l)
    IN  /\ Len(said) < MaxLines
        /\ mode' = after.mode /\ phase' = after.phase
        /\ said' = Append(said, [line |-> l, answer |-> after.answer])
        /\ UNCHANGED writeTools

McpNext == \E l \in Lines : Read(l)

McpSpec == McpInit /\ [][McpNext]_mcpVars
----------------------------------------------------------------------------
(* What a session of the MCP server promises its client (docs/mcp-v2.md, *)
(* docs/dogfood-mcp.md). *)

\* The state stays within its types.
McpTypeOK ==
    /\ writeTools \in BOOLEAN
    /\ mode \in {"undetermined", "modern", "legacy"}
    /\ phase \in {"not_initialized", "awaiting_initialized", "ready"}
    /\ Len(said) \in 0 .. MaxLines
    /\ \A n \in DOMAIN said : said[n].line \in Lines /\ said[n].answer.did \in Offered \cup {Nothing}

Accepted(n) == said[n].answer.result = "result"
IsModern(n) == said[n].line.method # "initialize" /\ said[n].line.version = Modern
Greets(n) == said[n].line.method = "initialize" /\ Accepted(n)
Confirms(n) == said[n].line.kind = "message" /\ ~said[n].line.id
                  /\ said[n].line.method = "notifications/initialized"

\* Nothing is served before the client has introduced itself: in the request, or by an initialize that
\* was accepted and that it confirmed later; once only.
ServedAfterGreeting ==
    \A n \in DOMAIN said : Accepted(n) =>
        \/ IsModern(n) \/ Greets(n)
        \/ \E i, j \in 1 .. n - 1 : i < j /\ Greets(i) /\ Confirms(j)

OneGreeting == \A m, n \in DOMAIN said : Greets(m) /\ Greets(n) => m = n

\* "cannot mix modern and legacy MCP lifecycle on one stdio connection"
OneLifecycle ==
    \A m, n \in DOMAIN said : Accepted(m) /\ Accepted(n) => (IsModern(m) <=> IsModern(n))

\* Only requests are answered, and only what is answered as done has been done; what a list offers
\* is what can be called, and without --write-tools nothing writes.
AnsweredIsDone ==
    /\ \A n \in DOMAIN said :
          LET l == said[n].line
              a == said[n].answer
          IN  /\ (a.result = Nothing) <=> (l.kind = "blank" \/ (l.kind = "message" /\ ~l.id))
              /\ a.did # Nothing => l.id /\ Accepted(n) /\ (writeTools \/ a.did \in ReadOnlyTools)
    /\ \A m, n \in DOMAIN said :
          said[m].answer.offers # {} /\ said[n].answer.did # Nothing
            => said[n].answer.did \in said[m].answer.offers

SessionsAreOrderly == ServedAfterGreeting /\ OneGreeting /\ OneLifecycle /\ AnsweredIsDone
=============================================================================
