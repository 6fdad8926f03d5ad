------------------------------ MODULE ChatExports ------------------------------
(***************************************************************************)
(* The import of ChatGPT exports (src/src/chatgpt_export_import.rs).  A    *)
(* command reads the export twice: to check it, and to write what it       *)
(* selects in one transaction, within which a pending manifest goes to     *)
(* disk; the manifest is published by a rename after the commit.  Commands *)
(* of several profiles, failures and crashes come in between.              *)
(*                                                                         *)
(* An export does not change while a command reads it.  A conversation is  *)
(* its identity and its messages, each a turn, a turn the policy rejects,  *)
(* or something that is no turn; wording, times, size limits and reports   *)
(* are left out.  A definition marked "Slip" is the next one with a        *)
(* mistake in it.                                                          *)
(***************************************************************************)
EXTENDS Integers, Sequences, SequencesExt, FiniteSets, FiniteSetsExt

CONSTANTS
    Importers,          \* commands that may run
    Homes,              \* profiles and workspaces
    Exports,            \* exports that may be given: see ChatExport
    Selections,         \* see Selection
    Legacy,             \* the number of conversations.json, which has none
    Large,              \* LARGE_ARCHIVE_CONVERSATIONS
    NoManifest,
    MaxImports, MaxCrashes      \* bounds

\* Messages are known by [in, id]: the conversation and their own identity.
Talk == [id: Nat, messages: Seq([id: Nat, kind: {"turn", "rejected", "other"}])]
ChatExport == Seq([number: Nat \cup {Legacy}, talks: Seq(Talk)])
Selection == [wanted: SUBSET Nat, eligible: BOOLEAN, most: Nat, all: BOOLEAN]

ASSUME ChatExportsAssumption ==
    /\ Exports \subseteq ChatExport /\ Selections \subseteq Selection
    /\ Legacy \notin Nat /\ Large \in Nat
    /\ MaxImports \in Nat /\ MaxCrashes \in Nat

VARIABLES
    chats,          \* committed: sources, turns, sessions and the ledger's rejections
    drafts,         \* what each command has written in its transaction
    pending, published,  \* the two files beside the database
    importers,      \* where each command is
    imports, crashes,
    overlapped      \* a command reached its commit while another had one behind it, unpublished

chatVars == <<chats, drafts, pending, published, importers, imports, crashes, overlapped>>

NoChats == [sources |-> {}, turns |-> {}, sessions |-> {}, refused |-> {}]
NoChatImport == [pc |-> "idle", home |-> CHOOSE h \in Homes : TRUE, chosen |-> {}, created |-> 0]

ChatsInit ==
    /\ chats = NoChats /\ drafts = [i \in Importers |-> NoChats]
    /\ pending = NoManifest /\ published = NoManifest
    /\ importers = [i \in Importers |-> NoChatImport]
    /\ imports = 0 /\ crashes = 0 /\ overlapped = FALSE

Imports(i, next) == importers' = [importers EXCEPT ![i] = next]
Is(i, pc) == importers[i].pc = pc
----------------------------------------------------------------------------
(* Reading an export *)

Numbers(x) == [n \in DOMAIN x |-> x[n].number]

\* validate_payload_names: one file, or shards from 0 on, none missing and none twice.
HasAllShards(x) ==
    /\ x # << >>
    /\ Numbers(x) = <<Legacy>> \/ (IsInjective(Numbers(x)) /\ ToSet(Numbers(x)) = 0 .. Len(x) - 1)

\* A conversation is found by its place: the file, and the position in it.
Places(x) == UNION {{[file |-> k, at |-> n] : n \in DOMAIN x[k].talks} : k \in DOMAIN x}
TalkAt(x, p) == x[p.file].talks[p.at]

\* Shards are read in the order of their numbers, in whatever order they were found.
IsReadBefore(x, p, q) ==
    IF p.file = q.file THEN p.at < q.at ELSE x[p.file].number < x[q.file].number

\* Every identity once: conversations in all shards, messages in their conversation.
HasIdentities(x) ==
    /\ \A p, q \in Places(x) : TalkAt(x, p).id = TalkAt(x, q).id => p = q
    /\ \A p \in Places(x) :
          LET messages == TalkAt(x, p).messages
          IN  IsInjective([n \in DOMAIN messages |-> messages[n].id])

MessagesOf(talk, kind) == {[in |-> talk.id, id |-> m.id] : m \in {k \in ToSet(talk.messages) : k.kind = kind}}

\* skip_reason; an empty list of wanted conversations wants all.
IsWanted(talk, s) ==
    /\ s.wanted # {} => talk.id \in s.wanted
    /\ s.eligible => MessagesOf(talk, "turn") # {}

HasFilter(s) == s.wanted # {} \/ s.eligible \/ s.most > 0

\* A limit of 0 stands for none.
Chosen(x, s) ==
    LET wanted == {p \in Places(x) : IsWanted(TalkAt(x, p), s)}
    IN  {TalkAt(x, p) : p \in {q \in wanted :
            s.most = 0 \/ Cardinality({w \in wanted : IsReadBefore(x, w, q)}) < s.most}}

IsConfirmed(x, s) == Cardinality(Places(x)) > Large => s.all \/ HasFilter(s)
----------------------------------------------------------------------------
(* Writing *)

Conversations == UNION {{TalkAt(x, p) : p \in Places(x)} : x \in Exports}
Turns(talks) == UNION {MessagesOf(talk, "turn") : talk \in talks}

\* A session belongs to whoever came first: ON CONFLICT(id) DO NOTHING.
Sessions(home, talks) ==
    {[in |-> talk.id, home |-> home] : talk \in
        {t \in talks : MessagesOf(t, "turn") # {} /\ \A s \in chats.sessions : s.in # t.id}}

\* Messages of which this home has no source yet.
Fresh(home, talks) == {m \in Turns(talks) : [home |-> home, of |-> m] \notin chats.sources}

\* A conversation only grows: two exports of it that have turns have a turn in common.
ASSUME ConversationsAssumption ==
    \A t, u \in Conversations :
        t.id = u.id => \/ Turns({t}) = {} \/ Turns({u}) = {}
                       \/ Turns({t}) \cap Turns({u}) # {}

\* Slip: the identity of a turn tells homes apart.
ClashesAtHome(home, m) == \E t \in chats.turns : t.of = m /\ t.home = home

\* The identity of a turn is made of conversation and message, so a turn of any home is in
\* the way, and the insert fails.
Clashes(home, m) == \E t \in chats.turns : t.of = m

Imported(home, talks) ==
    [sources |-> chats.sources \cup {[home |-> home, of |-> m] : m \in Fresh(home, talks)},
     turns |-> chats.turns \cup {[home |-> home, of |-> m] : m \in Fresh(home, talks)},
     sessions |-> chats.sessions \cup Sessions(home, talks),
     refused |-> chats.refused \cup
        {[home |-> home, of |-> m] : m \in UNION {MessagesOf(talk, "rejected") : talk \in talks}}]

\* The first write takes the lock that the commit gives back.
IsLocked == \E i \in Importers : importers[i].pc \in {"write", "commit"}

\* The transaction, up to its commit; it fails as a whole.
BeginImport(i) ==
    /\ Is(i, "idle") /\ imports < MaxImports /\ ~IsLocked
    /\ imports' = imports + 1
    /\ \E x \in Exports, s \in Selections, home \in Homes :
          /\ HasAllShards(x) /\ HasIdentities(x) /\ IsConfirmed(x, s)
          /\ LET talks == Chosen(x, s)
                 fresh == Fresh(home, talks)
             IN  IF \E m \in fresh : Clashes(home, m)
                 THEN UNCHANGED <<importers, drafts>>
                 ELSE /\ Imports(i, [pc |-> "write", home |-> home, chosen |-> talks, created |-> Cardinality(fresh)])
                      /\ drafts' = [drafts EXCEPT ![i] = Imported(home, talks)]
    /\ UNCHANGED <<chats, pending, published, crashes, overlapped>>

\* Slip: the manifest is published before the commit.
FollowsEagerly == [write |-> "publish", publish |-> "commit", commit |-> "idle"]

Follows == [write |-> "commit", commit |-> "publish", publish |-> "idle"]

Proceeds(i) ==
    LET pc == Follows[importers[i].pc]
    IN  Imports(i, IF pc = "idle" THEN NoChatImport ELSE [importers[i] EXCEPT !.pc = pc])

ManifestOf(i) == [home |-> importers[i].home, chosen |-> importers[i].chosen, created |-> importers[i].created]

\* Still inside the transaction.
WritePending(i) ==
    /\ Is(i, "write")
    /\ pending' = ManifestOf(i)
    /\ Proceeds(i)
    /\ overlapped' = (overlapped \/ \E j \in Importers : Is(j, "publish"))
    /\ UNCHANGED <<chats, drafts, published, imports, crashes>>

CommitImport(i) ==
    /\ Is(i, "commit")
    /\ chats' = drafts[i]
    /\ Proceeds(i)
    /\ drafts' = [drafts EXCEPT ![i] = NoChats]
    /\ UNCHANGED <<pending, published, imports, crashes, overlapped>>

\* The rename; it takes whatever pending manifest is there, and its failure is a warning.
PublishManifest(i) ==
    /\ Is(i, "publish")
    /\ IF pending = NoManifest THEN UNCHANGED <<pending, published>>
       ELSE published' = pending /\ pending' = NoManifest
    /\ Proceeds(i)
    /\ UNCHANGED <<chats, drafts, imports, crashes, overlapped>>

\* A write or the commit fails: the transaction is gone, and the pending manifest removed once
\* its writing has begun.
FailImport(i) ==
    /\ importers[i].pc \in {"write", "commit"} /\ crashes < MaxCrashes
    /\ crashes' = crashes + 1
    /\ pending' \in IF Is(i, "commit") THEN {NoManifest} ELSE {pending, NoManifest}
    /\ Imports(i, NoChatImport) /\ drafts' = [drafts EXCEPT ![i] = NoChats]
    /\ UNCHANGED <<chats, published, imports, overlapped>>

\* The command dies: the transaction is gone, the pending manifest stays.
KillImport(i) ==
    /\ ~Is(i, "idle") /\ crashes < MaxCrashes
    /\ crashes' = crashes + 1
    /\ Imports(i, NoChatImport) /\ drafts' = [drafts EXCEPT ![i] = NoChats]
    /\ UNCHANGED <<chats, pending, published, imports, overlapped>>

ChatsNext ==
    \E i \in Importers :
        \/ BeginImport(i) \/ WritePending(i) \/ CommitImport(i) \/ PublishManifest(i)
        \/ FailImport(i) \/ KillImport(i)

ChatsSpec == ChatsInit /\ [][ChatsNext]_chatVars
=============================================================================
