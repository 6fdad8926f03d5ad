---------------------------- MODULE ImportProofs ----------------------------
(***************************************************************************)
(* Proofs about what is imported from elsewhere: the turns of chats stay   *)
(* with their home and a published manifest names what is stored, an       *)
(* import of git takes every trailer once and whole, and a replay passes   *)
(* nothing that it has not imported.                                       *)
(***************************************************************************)
EXTENDS RecordsProofs, NaturalsInduction, WellFoundedInduction

(* Chats *)

Stages == {"idle", "write", "commit", "publish"}

\* Sources and turns go together, a turn is read through a session of its home, and a session
\* came with all turns of some export of its conversation.
IsBook(c) ==
    /\ c.turns = c.sources /\ c.turns \subseteq Place /\ c.refused \subseteq Place
    /\ c.sessions \subseteq [in: Nat, home: Homes]
    /\ \A t \in c.turns : [in |-> t.of.in, home |-> t.home] \in c.sessions
    /\ \A s \in c.sessions : \E u \in Conversations :
          /\ u.id = s.in /\ MessagesOf(u, "turn") # {}
          /\ \A m \in MessagesOf(u, "turn") : [home |-> s.home, of |-> m] \in c.turns

\* What an import has chosen is in the book c.
IsIn(c, x) == \A m \in Turns(x.chosen) : [home |-> x.home, of |-> m] \in c.turns

ImportersType(C) ==
    importers \in [Importers -> [pc: Stages, home: C, chosen: SUBSET Conversations, created: C]]

ChatsInv ==
    /\ \E C : ImportersType(C)
    /\ drafts = [i \in Importers |-> drafts[i]]
    /\ IsBook(chats)
    /\ \A i, j \in Importers :
          importers[i].pc \in {"write", "commit"} /\ importers[j].pc \in {"write", "commit"} => i = j
    /\ \A i \in Importers : importers[i].pc \in {"write", "commit"} =>
          /\ IsBook(drafts[i]) /\ chats.turns \subseteq drafts[i].turns
          /\ IsIn(drafts[i], importers[i])
    /\ \A i \in Importers : importers[i].pc = "publish" => IsIn(chats, importers[i])

\* Unless imports overlapped, the pending manifest belongs to the one import that is on its way
\* to its commit or behind it.
ManifestInv ==
    ~overlapped =>
        /\ \A i, j \in Importers :
              importers[i].pc \in {"commit", "publish"} /\ importers[j].pc \in {"commit", "publish"} => i = j
        /\ \A i \in Importers : importers[i].pc \in {"commit", "publish"} =>
              pending = NoManifest \/ (pending.home = importers[i].home /\ pending.chosen = importers[i].chosen)
        /\ published # NoManifest => IsIn(chats, published)

LEMMA TalksAreTyped ==
    ASSUME NEW u \in Conversations
    PROVE  /\ u.id \in Nat
           /\ \A k : \A m \in MessagesOf(u, k) : m \in [in: Nat, id: Nat] /\ m.in = u.id
<1>1. PICK x \in Exports : u \in {TalkAt(x, p) : p \in Places(x)}
  BY DEF Conversations
<1>2. PICK p \in Places(x) : u = TalkAt(x, p)
  BY <1>1
<1> DEFINE S == [number: Nat \cup {Legacy}, talks: Seq(Talk)]
<1>3. x \in Seq(S)
  BY ChatExportsAssumption DEF ChatExport
<1>4. PICK k \in DOMAIN x : \E n \in DOMAIN x[k].talks : p = [file |-> k, at |-> n]
  BY <1>2 DEF Places
<1>5. u \in Talk
  <2>1. PICK n \in DOMAIN x[k].talks : p = [file |-> k, at |-> n]
    BY <1>4
  <2>2. x[k] \in S
    <3> HIDE DEF S
    <3> QED
      BY <1>3, <1>4
  <2>3. x[k].talks \in Seq(Talk)
    BY <2>2
  <2>4. x[k].talks[n] \in Talk
    BY <2>1, <2>3
  <2> QED
    BY <1>2, <2>1, <2>4 DEF TalkAt
<1> DEFINE M == [id: Nat, kind: {"turn", "rejected", "other"}]
<1>6. u.id \in Nat /\ u.messages \in Seq(M)
  BY <1>5 DEF Talk
<1>7. ASSUME NEW m \in ToSet(u.messages) PROVE m.id \in Nat
  <2>1. PICK n \in DOMAIN u.messages : m = u.messages[n]
    BY <1>7 DEF ToSet
  <2>2. m \in M
    <3> HIDE DEF M
    <3> QED
      BY <1>6, <2>1
  <2> QED
    BY <2>2
<1> QED
  BY <1>6, <1>7 DEF MessagesOf

LEMMA ChosenAre ==
    ASSUME NEW x \in Exports, NEW s
    PROVE  Chosen(x, s) \subseteq Conversations
<1>1. Chosen(x, s) \subseteq {TalkAt(x, p) : p \in Places(x)}
  BY DEF Chosen
<1> QED
  BY <1>1 DEF Conversations

LEMMA TurnsOf ==
    ASSUME NEW T, T \subseteq Conversations
    PROVE  \A m : m \in Turns(T) <=> \E t \in T : m \in MessagesOf(t, "turn")
  BY DEF Turns

\* An import that clashes with nothing leaves a book behind.
LEMMA ImportedIsBook ==
    ASSUME IsBook(chats), NEW h \in Homes, NEW T, T \subseteq Conversations,
           \A m \in Fresh(h, T) : ~Clashes(h, m)
    PROVE  /\ IsBook(Imported(h, T)) /\ chats.turns \subseteq Imported(h, T).turns
           /\ \A m \in Turns(T) : [home |-> h, of |-> m] \in Imported(h, T).turns
<1> DEFINE c == Imported(h, T)
           new == {[home |-> h, of |-> m] : m \in Fresh(h, T)}
<1>1. /\ c.turns = chats.turns \cup new /\ c.sources = chats.sources \cup new
      /\ c.sessions = chats.sessions \cup Sessions(h, T)
      /\ c.refused = chats.refused \cup
            {[home |-> h, of |-> m] : m \in UNION {MessagesOf(talk, "rejected") : talk \in T}}
  BY DEF Imported
<1>2. c.turns = c.sources
  BY <1>1 DEF IsBook
<1>3. \A m \in Turns(T) : [home |-> h, of |-> m] \in c.turns
  BY <1>1 DEF Fresh, IsBook
<1>4. c.turns \subseteq Place
  <2>1. \A m \in Turns(T) : m \in [in: Nat, id: Nat]
    BY TalksAreTyped, TurnsOf
  <2>2. \A m \in Fresh(h, T) : [home |-> h, of |-> m] \in Place
    BY <2>1 DEF Fresh, Place
  <2> QED
    BY <1>1, <2>2 DEF IsBook
<1>5. c.refused \subseteq Place
  <2>1. \A m \in UNION {MessagesOf(talk, "rejected") : talk \in T} : m \in [in: Nat, id: Nat]
    BY TalksAreTyped
  <2> QED
    BY <1>1, <2>1 DEF IsBook, Place
<1>6. c.sessions \subseteq [in: Nat, home: Homes]
  <2>1. Sessions(h, T) \subseteq [in: Nat, home: Homes]
    BY TalksAreTyped DEF Sessions
  <2> QED
    BY <1>1, <2>1 DEF IsBook
<1>7. ASSUME NEW t \in c.turns PROVE [in |-> t.of.in, home |-> t.home] \in c.sessions
  <2>1. CASE t \in chats.turns
    BY <1>1, <2>1 DEF IsBook
  <2>2. CASE t \in new
    <3>1. PICK m \in Fresh(h, T) : t = [home |-> h, of |-> m]
      BY <2>2
    <3>2. PICK k \in T : m \in MessagesOf(k, "turn")
      BY <3>1, TurnsOf DEF Fresh
    <3>3. m.in = k.id /\ k \in Conversations
      BY <3>2, TalksAreTyped
    <3>4. ASSUME NEW s \in chats.sessions, s.in = k.id PROVE [in |-> k.id, home |-> h] \in chats.sessions
      <4>1. PICK u \in Conversations : u.id = s.in /\ MessagesOf(u, "turn") # {}
               /\ \A n \in MessagesOf(u, "turn") : [home |-> s.home, of |-> n] \in chats.turns
        BY <3>4 DEF IsBook
      <4>2. Turns({u}) = MessagesOf(u, "turn") /\ Turns({k}) = MessagesOf(k, "turn")
        BY DEF Turns
      <4>3. PICK n : n \in MessagesOf(u, "turn") /\ n \in MessagesOf(k, "turn")
        BY <3>2, <3>3, <3>4, <4>1, <4>2, ConversationsAssumption
      <4>4. [home |-> s.home, of |-> n] \in chats.turns
        BY <4>1, <4>3
      <4>5. n \in Turns(T)
        BY <3>2, <4>3, TurnsOf
      <4>6. Clashes(h, n)
        BY <4>4 DEF Clashes
      <4>7. [home |-> h, of |-> n] \in chats.turns
        BY <4>5, <4>6 DEF Fresh, IsBook
      <4>8. [in |-> n.in, home |-> h] \in chats.sessions
        BY <4>7 DEF IsBook
      <4> QED
        BY <3>3, <4>3, <4>8, TalksAreTyped
    <3>5. CASE \E s \in chats.sessions : s.in = k.id
      BY <1>1, <3>1, <3>3, <3>4, <3>5
    <3>6. CASE \A s \in chats.sessions : s.in # k.id
      BY <1>1, <3>1, <3>2, <3>3, <3>6 DEF Sessions
    <3> QED
      BY <3>5, <3>6
  <2> QED
    BY <1>1, <1>7, <2>1, <2>2
<1> HIDE DEF c
<1>8. ASSUME NEW s \in c.sessions
      PROVE  \E u \in Conversations : /\ u.id = s.in /\ MessagesOf(u, "turn") # {}
                 /\ \A m \in MessagesOf(u, "turn") : [home |-> s.home, of |-> m] \in c.turns
  <2>1. CASE s \in chats.sessions
    BY <1>1, <2>1 DEF IsBook
  <2>2. CASE s \in Sessions(h, T)
    <3>1. PICK u \in T : s = [in |-> u.id, home |-> h] /\ MessagesOf(u, "turn") # {}
      BY <2>2 DEF Sessions
    <3>2. \A m \in MessagesOf(u, "turn") : m \in Turns(T)
      BY <3>1, TurnsOf
    <3> QED
      BY <1>3, <3>1, <3>2
  <2> QED
    BY <1>1, <1>8, <2>1, <2>2
<1>9. IsBook(c)
  BY <1>2, <1>4, <1>5, <1>6, <1>7, <1>8 DEF IsBook
<1> QED
  BY <1>1, <1>3, <1>9 DEF c

LEMMA ChatsInitInv == ChatsInit => ChatsInv /\ ManifestInv
<1> SUFFICES ASSUME ChatsInit PROVE ChatsInv /\ ManifestInv
  OBVIOUS
<1>1. ImportersType({NoChatImport.home, 0})
  BY DEF ChatsInit, ImportersType, NoChatImport, Stages
<1>2. \A i \in Importers : importers[i].pc = "idle"
  BY DEF ChatsInit, NoChatImport
<1>3. IsBook(chats)
  BY DEF ChatsInit, NoChats, IsBook
<1>4. ChatsInv
  BY <1>1, <1>2, <1>3 DEF ChatsInit, ChatsInv
<1> QED
  BY <1>2, <1>4 DEF ChatsInit, ManifestInv

\* A step of one import, from what it becomes.
LEMMA ImportMoves ==
    ASSUME NEW C, ImportersType(C), NEW i \in Importers, NEW next,
           next \in [pc: Stages, home: C, chosen: SUBSET Conversations, created: C],
           Imports(i, next)
    PROVE  ImportersType(C)' /\ importers'[i] = next /\ \A j \in Importers \ {i} : importers'[j] = importers[j]
  BY DEF ImportersType, Imports

LEMMA ImportersGrow ==
    ASSUME NEW C, ImportersType(C), NEW D, C \subseteq D
    PROVE  ImportersType(D)
<1> DEFINE T(X) == [pc: Stages, home: X, chosen: SUBSET Conversations, created: X]
<1>1. T(C) \subseteq T(D)
  OBVIOUS
<1> HIDE DEF T
<1>2. importers \in [Importers -> T(C)]
  BY DEF ImportersType, T
<1>3. importers \in [Importers -> T(D)]
  BY <1>1, <1>2
<1> QED
  BY <1>3 DEF ImportersType, T

LEMMA BeginKeepsChats ==
    ASSUME ChatsInv, ManifestInv, NEW i \in Importers, BeginImport(i)
    PROVE  ChatsInv' /\ ManifestInv'
<1>1. UNCHANGED <<chats, pending, published, overlapped>> /\ Is(i, "idle") /\ ~IsLocked
  BY DEF BeginImport
<1>2. PICK x \in Exports, s \in Selections, h \in Homes :
         LET talks == Chosen(x, s)
             fresh == Fresh(h, talks)
         IN  IF \E m \in fresh : Clashes(h, m)
             THEN UNCHANGED <<importers, drafts>>
             ELSE /\ Imports(i, [pc |-> "write", home |-> h, chosen |-> talks, created |-> Cardinality(fresh)])
                  /\ drafts' = [drafts EXCEPT ![i] = Imported(h, talks)]
  BY DEF BeginImport
<1> DEFINE talks == Chosen(x, s)
           n == Cardinality(Fresh(h, talks))
           next == [pc |-> "write", home |-> h, chosen |-> talks, created |-> n]
<1>3. CASE \E m \in Fresh(h, talks) : Clashes(h, m)
  <2>1. UNCHANGED <<importers, drafts>>
    BY <1>2, <1>3
  <2> QED
    BY <1>1, <2>1 DEF ChatsInv, ManifestInv, ImportersType, IsIn, IsBook
<1>4. CASE ~\E m \in Fresh(h, talks) : Clashes(h, m)
  <2>1. Imports(i, next) /\ drafts' = [drafts EXCEPT ![i] = Imported(h, talks)]
    BY <1>2, <1>4
  <2>2. talks \subseteq Conversations
    BY ChosenAre
  <2>3. /\ IsBook(Imported(h, talks)) /\ chats.turns \subseteq Imported(h, talks).turns
        /\ \A m \in Turns(talks) : [home |-> h, of |-> m] \in Imported(h, talks).turns
    <3> HIDE DEF talks
    <3> QED
      BY <1>4, <2>2, ImportedIsBook DEF ChatsInv
  <2> HIDE DEF talks, n
  <2>4. PICK C : ImportersType(C)
    BY DEF ChatsInv
  <2>5. PICK D : ImportersType(D) /\ h \in D /\ n \in D
    <3>1. PICK D : D = C \cup {h, n}
      OBVIOUS
    <3> QED
      BY <2>4, <3>1, ImportersGrow
  <2>6. next \in [pc: Stages, home: D, chosen: SUBSET Conversations, created: D]
    BY <2>2, <2>5 DEF Stages
  <2> HIDE DEF next
  <2>7. ImportersType(D)' /\ importers'[i] = next /\ \A j \in Importers \ {i} : importers'[j] = importers[j]
    BY <2>1, <2>5, <2>6, ImportMoves
  <2>8. next.pc = "write" /\ next.home = h /\ next.chosen = talks
    BY DEF next
  <2>9. \A j \in Importers : importers[j].pc \notin {"write", "commit"}
    BY <1>1 DEF IsLocked
  <2>10. drafts'[i] = Imported(h, talks) /\ drafts' = [j \in Importers |-> drafts'[j]]
    BY <2>1 DEF ChatsInv
  <2>11. IsBook(chats)' /\ \A j \in Importers : IsIn(chats, importers[j]) => IsIn(chats', importers[j])
    BY <1>1 DEF ChatsInv, IsBook
  <2>12. IsIn(drafts'[i], importers'[i])
    BY <2>3, <2>7, <2>8, <2>10 DEF IsIn
  <2>13. ChatsInv'
    <3>1. \A j, k \in Importers :
             importers'[j].pc \in {"write", "commit"} /\ importers'[k].pc \in {"write", "commit"} => j = k
      BY <2>7, <2>9
    <3>2. \A j \in Importers : importers'[j].pc \in {"write", "commit"} => j = i
      BY <2>7, <2>9
    <3>3. IsBook(drafts'[i]) /\ chats'.turns \subseteq drafts'[i].turns
      BY <1>1, <2>3, <2>10
    <3>4. \A j \in Importers : importers'[j].pc = "publish" => IsIn(chats', importers'[j])
      BY <2>7, <2>8, <2>11 DEF ChatsInv
    <3> QED
      BY <2>7, <2>10, <2>11, <2>12, <3>1, <3>2, <3>3, <3>4 DEF ChatsInv
  <2>14. ManifestInv'
    BY <1>1, <2>7, <2>8 DEF ManifestInv, IsIn
  <2> QED
    BY <2>13, <2>14
<1> QED
  BY <1>3, <1>4

\* A step of one import to another stage, or its end.
LEMMA StageMoves ==
    ASSUME ChatsInv, NEW i \in Importers, NEW pc \in Stages,
           Imports(i, IF pc = "idle" THEN NoChatImport ELSE [importers[i] EXCEPT !.pc = pc])
    PROVE  /\ (\E C : ImportersType(C))'
           /\ importers'[i].pc = pc /\ \A j \in Importers \ {i} : importers'[j] = importers[j]
           /\ pc # "idle" => importers'[i].home = importers[i].home /\ importers'[i].chosen = importers[i].chosen
<1>1. PICK C : ImportersType(C)
  BY DEF ChatsInv
<1>2. PICK D : D = C \cup {0, NoChatImport.home}
  OBVIOUS
<1>3. ImportersType(D)
  BY <1>1, <1>2, ImportersGrow
<1> DEFINE next == IF pc = "idle" THEN NoChatImport ELSE [importers[i] EXCEPT !.pc = pc]
<1>4. importers[i] \in [pc: Stages, home: D, chosen: SUBSET Conversations, created: D]
  BY <1>3 DEF ImportersType
<1>5. next \in [pc: Stages, home: D, chosen: SUBSET Conversations, created: D]
  BY <1>2, <1>4 DEF NoChatImport, Stages
<1>6. /\ next.pc = pc
      /\ pc # "idle" => next.home = importers[i].home /\ next.chosen = importers[i].chosen
  BY <1>4 DEF NoChatImport
<1>7. Imports(i, next)
  OBVIOUS
<1> HIDE DEF next
<1>8. PICK new : new = next
  OBVIOUS
<1> QED
  BY <1>3, <1>5, <1>6, <1>7, <1>8, ImportMoves

LEMMA WriteKeepsChats ==
    ASSUME ChatsInv, ManifestInv, NEW i \in Importers, WritePending(i)
    PROVE  ChatsInv' /\ ManifestInv'
<1>1. /\ importers[i].pc = "write" /\ UNCHANGED <<chats, drafts, published>>
      /\ pending'.home = importers[i].home /\ pending'.chosen = importers[i].chosen
      /\ overlapped' = (overlapped \/ \E j \in Importers : importers[j].pc = "publish")
      /\ Imports(i, IF "commit" = "idle" THEN NoChatImport ELSE [importers[i] EXCEPT !.pc = "commit"])
  BY DEF WritePending, Is, Proceeds, Follows, ManifestOf
<1>2. /\ (\E C : ImportersType(C))'
      /\ importers'[i].pc = "commit" /\ \A j \in Importers \ {i} : importers'[j] = importers[j]
      /\ importers'[i].home = importers[i].home /\ importers'[i].chosen = importers[i].chosen
  BY <1>1, StageMoves DEF Stages
<1>3. IsBook(chats)' /\ \A j \in Importers : IsBook(drafts[j]) => IsBook(drafts[j])'
  BY <1>1 DEF ChatsInv, IsBook
<1>4. \A c : \A j \in Importers : IsIn(c, importers[j]) => IsIn(c, importers'[j])
  BY <1>2 DEF IsIn
<1>5. ChatsInv'
  <2>1. \A j, k \in Importers :
             importers'[j].pc \in {"write", "commit"} /\ importers'[k].pc \in {"write", "commit"} => j = k
    BY <1>1, <1>2 DEF ChatsInv
  <2>2. \A j \in Importers : importers'[j].pc \in {"write", "commit"} =>
           IsBook(drafts[j])' /\ chats'.turns \subseteq drafts'[j].turns /\ IsIn(drafts'[j], importers'[j])
    BY <1>1, <1>2, <1>3, <1>4 DEF ChatsInv
  <2>3. \A j \in Importers : importers'[j].pc = "publish" => IsIn(chats', importers'[j])
    BY <1>1, <1>2, <1>4 DEF ChatsInv
  <2> QED
    BY <1>1, <1>2, <1>3, <2>1, <2>2, <2>3 DEF ChatsInv
<1>6. ManifestInv'
  <2>1. ASSUME ~overlapped' PROVE ~overlapped /\ \A j \in Importers : importers[j].pc \notin {"publish", "commit"}
    BY <1>1, <2>1 DEF ChatsInv
  <2> QED
    BY <1>1, <1>2, <2>1 DEF ManifestInv, IsIn
<1> QED
  BY <1>5, <1>6

LEMMA CommitKeepsChats ==
    ASSUME ChatsInv, ManifestInv, NEW i \in Importers, CommitImport(i)
    PROVE  ChatsInv' /\ ManifestInv'
<1>1. /\ importers[i].pc = "commit" /\ UNCHANGED <<pending, published, overlapped>>
      /\ chats' = drafts[i] /\ drafts' = [drafts EXCEPT ![i] = NoChats]
      /\ Imports(i, IF "publish" = "idle" THEN NoChatImport ELSE [importers[i] EXCEPT !.pc = "publish"])
  BY DEF CommitImport, Is, Proceeds, Follows
<1>2. /\ (\E C : ImportersType(C))'
      /\ importers'[i].pc = "publish" /\ \A j \in Importers \ {i} : importers'[j] = importers[j]
      /\ importers'[i].home = importers[i].home /\ importers'[i].chosen = importers[i].chosen
  BY <1>1, StageMoves DEF Stages
<1>3. IsBook(drafts[i]) /\ chats.turns \subseteq drafts[i].turns /\ IsIn(drafts[i], importers[i])
  BY <1>1 DEF ChatsInv
<1>4. IsBook(chats)'
  BY <1>1, <1>3 DEF IsBook
<1>5. \A j \in Importers : importers'[j].pc \notin {"write", "commit"}
  BY <1>1, <1>2 DEF ChatsInv
<1>6. \A x : IsIn(chats, x) => IsIn(chats', x)
  BY <1>1, <1>3 DEF IsIn
<1>7. ChatsInv'
  <2>1. \A j \in Importers : importers'[j].pc = "publish" => IsIn(chats', importers'[j])
    BY <1>1, <1>2, <1>3, <1>6 DEF ChatsInv, IsIn
  <2>2. drafts' = [j \in Importers |-> drafts'[j]]
    BY <1>1 DEF ChatsInv
  <2> QED
    BY <1>2, <1>4, <1>5, <2>1, <2>2 DEF ChatsInv
<1>8. ManifestInv'
  BY <1>1, <1>2, <1>6 DEF ManifestInv
<1> QED
  BY <1>7, <1>8

LEMMA PublishKeepsChats ==
    ASSUME ChatsInv, ManifestInv, NEW i \in Importers, PublishManifest(i)
    PROVE  ChatsInv' /\ ManifestInv'
<1>1. /\ importers[i].pc = "publish" /\ UNCHANGED <<chats, drafts, overlapped>>
      /\ \/ UNCHANGED <<pending, published>>
         \/ pending # NoManifest /\ published' = pending /\ pending' = NoManifest
      /\ Imports(i, IF "idle" = "idle" THEN NoChatImport ELSE [importers[i] EXCEPT !.pc = "idle"])
  BY DEF PublishManifest, Is, Proceeds, Follows
<1>2. /\ (\E C : ImportersType(C))'
      /\ importers'[i].pc = "idle" /\ \A j \in Importers \ {i} : importers'[j] = importers[j]
  BY <1>1, StageMoves DEF Stages
<1>3. IsBook(chats)' /\ \A j \in Importers : IsBook(drafts[j]) => IsBook(drafts[j])'
  BY <1>1 DEF ChatsInv, IsBook
<1>4. ChatsInv'
  BY <1>1, <1>2, <1>3 DEF ChatsInv
<1>5. IsIn(chats, importers[i])
  BY <1>1 DEF ChatsInv
<1>6. ManifestInv'
  BY <1>1, <1>2, <1>5 DEF ManifestInv, IsIn
<1> QED
  BY <1>4, <1>6

LEMMA EndKeepsChats ==
    ASSUME ChatsInv, ManifestInv, NEW i \in Importers, FailImport(i) \/ KillImport(i)
    PROVE  ChatsInv' /\ ManifestInv'
<1>1. /\ importers[i].pc # "idle" /\ UNCHANGED <<chats, published, overlapped>>
      /\ pending' \in {pending, NoManifest} /\ drafts' = [drafts EXCEPT ![i] = NoChats]
      /\ Imports(i, IF "idle" = "idle" THEN NoChatImport ELSE [importers[i] EXCEPT !.pc = "idle"])
  BY DEF FailImport, KillImport, Is
<1>2. /\ (\E C : ImportersType(C))'
      /\ importers'[i].pc = "idle" /\ \A j \in Importers \ {i} : importers'[j] = importers[j]
  BY <1>1, StageMoves DEF Stages
<1>3. \A j \in Importers \ {i} : drafts'[j] = drafts[j]
  BY <1>1 DEF ChatsInv
<1>4. drafts' = [j \in Importers |-> drafts'[j]]
  BY <1>1 DEF ChatsInv
<1>5. IsBook(chats)' /\ \A c : IsBook(c) => IsBook(c)
  BY <1>1 DEF ChatsInv, IsBook
<1>6. ChatsInv'
  BY <1>1, <1>2, <1>3, <1>4, <1>5 DEF ChatsInv
<1>7. ManifestInv'
  BY <1>1, <1>2 DEF ManifestInv, IsIn
<1> QED
  BY <1>6, <1>7

LEMMA ChatsNextInv == ChatsInv /\ ManifestInv /\ [ChatsNext]_chatVars => ChatsInv' /\ ManifestInv'
<1> SUFFICES ASSUME ChatsInv, ManifestInv, [ChatsNext]_chatVars PROVE ChatsInv' /\ ManifestInv'
  OBVIOUS
<1>1. CASE UNCHANGED chatVars
  BY <1>1 DEF chatVars, ChatsInv, ManifestInv, ImportersType, IsIn, IsBook
<1>2. CASE ChatsNext
  BY <1>2, BeginKeepsChats, WriteKeepsChats, CommitKeepsChats, PublishKeepsChats, EndKeepsChats DEF ChatsNext
<1> QED
  BY <1>1, <1>2

LEMMA ChatsInvTrue ==
    ChatsInv /\ ManifestInv => ChatsTypeOK /\ TurnsStayHome /\ ManifestIsTrue
<1> SUFFICES ASSUME ChatsInv, ManifestInv PROVE ChatsTypeOK /\ TurnsStayHome /\ ManifestIsTrue
  OBVIOUS
<1>1. \A i \in Importers : importers[i].pc \in Stages
  BY DEF ChatsInv, ImportersType
<1>2. ChatsTypeOK
  BY <1>1 DEF ChatsTypeOK, ChatsInv, IsBook, Stages
<1>3. TurnsStayHome
  BY DEF TurnsStayHome, ChatsInv, IsBook
<1> QED
  BY <1>2, <1>3 DEF ManifestIsTrue, ManifestInv, IsIn

\* What an import of an export reports is stored.
LEMMA ChatsStay == ChatsSpec => [](ChatsTypeOK /\ TurnsStayHome /\ ManifestIsTrue)
BY ChatsInitInv, ChatsNextInv, ChatsInvTrue, PTL DEF ChatsSpec
----------------------------------------------------------------------------
(* Git *)

LEMMA SmallestNumber ==
    ASSUME NEW S, S \subseteq Nat, S # {}
    PROVE  Min(S) \in S /\ \A n \in S : Min(S) <= n
<1>1. PICK m \in S : \A n \in S : ~(<<n, m>> \in OpToRel(<, Nat))
  BY NatLessThanWellFounded, WFMin
<1>2. \A n \in S : ~(n < m)
  BY <1>1 DEF OpToRel
<1>3. \A n \in S : m <= n
  BY <1>2
<1> QED
  BY <1>3 DEF Min

\* What FlattenSeq makes of sequences.
Flat(s, f, m) == f = [k \in 1 .. m |-> IF k = 1 THEN s[k] ELSE f[k - 1] \o s[k]]

LEMMA FlatExists ==
    ASSUME NEW s, NEW n \in Nat
    PROVE  \E f : Flat(s, f, n)
<1> DEFINE bad == {k \in Nat : ~\E f : Flat(s, f, k)}
<1>1. ASSUME bad # {} PROVE FALSE
  <2>1. PICK m \in bad : \A k \in bad : m <= k
    BY <1>1, SmallestNumber
  <2>2. CASE m = 0
    <3>1. Flat(s, [k \in 1 .. 0 |-> 0], 0)
      BY DEF Flat
    <3> QED
      BY <2>1, <2>2, <3>1
  <2>3. CASE m # 0
    <3>1. m - 1 \in Nat /\ m - 1 \notin bad
      BY <2>1, <2>3
    <3>2. PICK f : Flat(s, f, m - 1)
      BY <3>1
    <3> DEFINE g == [k \in 1 .. m |-> IF k = 1 THEN s[k] ELSE f[k - 1] \o s[k]]
    <3>3. \A k \in 1 .. m - 1 : g[k] = f[k]
      <4>1. \A k \in 1 .. m - 1 : f[k] = IF k = 1 THEN s[k] ELSE f[k - 1] \o s[k]
        BY <3>2 DEF Flat
      <4>2. \A k \in 1 .. m - 1 : k \in 1 .. m
        BY <2>1
      <4> QED
        BY <4>1, <4>2
    <3>4. \A k \in 1 .. m : k # 1 => k - 1 \in 1 .. m - 1
      BY <2>1
    <3>5. Flat(s, g, m)
      BY <3>3, <3>4 DEF Flat
    <3> QED
      BY <2>1, <3>5
  <2> QED
    BY <2>2, <2>3
<1> QED
  BY <1>1

LEMMA FlatIsSeq ==
    ASSUME NEW T, NEW s \in Seq(Seq(T))
    PROVE  FlattenSeq(s) \in Seq(T)
<1>1. CASE Len(s) = 0
  <2>1. s = <<>>
    BY <1>1
  <2> QED
    BY <1>1, <2>1 DEF FlattenSeq
<1>2. CASE Len(s) # 0
  <2>1. Len(s) \in Nat
    OBVIOUS
  <2> DEFINE f == CHOOSE h : Flat(s, h, Len(s))
  <2>2. Flat(s, f, Len(s))
    BY <2>1, FlatExists
  <2>3. FlattenSeq(s) = f[Len(s)]
    BY <1>2 DEF FlattenSeq, Flat
  <2> HIDE DEF f
  <2> DEFINE bad == {k \in 1 .. Len(s) : f[k] \notin Seq(T)}
  <2>4. ASSUME bad # {} PROVE FALSE
    <3>1. PICK m \in bad : \A k \in bad : m <= k
      <4>1. bad \subseteq Nat
        OBVIOUS
      <4> HIDE DEF bad
      <4> QED
        BY <2>4, <4>1, SmallestNumber
    <3>2. s[m] \in Seq(T)
      BY <3>1
    <3>3. f[m] = IF m = 1 THEN s[m] ELSE f[m - 1] \o s[m]
      BY <2>2, <3>1 DEF Flat
    <3>4. CASE m # 1
      <4>1. m - 1 \in 1 .. Len(s) /\ m - 1 \notin bad
        BY <2>1, <3>1, <3>4
      <4>2. f[m - 1] \in Seq(T)
        BY <4>1
      <4>3. f[m] = f[m - 1] \o s[m]
        BY <3>3, <3>4
      <4>4. f[m] \in Seq(T)
        BY <3>2, <4>2, <4>3
      <4> QED
        BY <3>1, <4>4
    <3>5. CASE m = 1
      <4>1. f[m] = s[m]
        BY <3>3, <3>5
      <4> QED
        BY <3>1, <3>2, <4>1
    <3> QED
      BY <3>4, <3>5
  <2> QED
    BY <1>2, <2>1, <2>3, <2>4
<1> QED
  BY <1>1, <1>2

\* A trailer of a commit says what the commit says at that place.
SaysCommit(t) == t.ref.kind = "commit" => t.text = CommitBodies[t.ref.root][t.ref.n].text
Finds == {t \in [ref: References, text: Nat, ok: BOOLEAN] : SaysCommit(t)}
Episodes == [ref: References, text: Nat, by: GitImporters]

ItemsAre == edition \in [DOMAIN ItemBodies -> Nat] /\ \A x \in DOMAIN ItemBodies : edition[x] \in DOMAIN ItemBodies[x]

LEMMA WordingIs ==
    ASSUME NEW bodies \in Seq(Seq(Wording)), NEW r \in DOMAIN bodies, NEW n \in DOMAIN bodies[r]
    PROVE  bodies[r] \in Seq(Wording) /\ n \in Nat /\ bodies[r][n].text \in Nat /\ bodies[r][n].ok \in BOOLEAN
<1>1. bodies[r] \in Seq(Wording)
  <2> HIDE DEF Wording
  <2> QED
    OBVIOUS
<1>2. bodies[r][n] \in Wording /\ n \in Nat
  <2> HIDE DEF Wording
  <2> QED
    BY <1>1
<1> QED
  BY <1>1, <1>2 DEF Wording

\* What is found and accepted is said.
Saids == {t \in Finds : t.ok => HasSaid(t.ref, t.text)}

LEMMA ListIsSeq ==
    ASSUME NEW T, NEW m \in Nat, NEW f, \A n \in 1 .. m : f[n] \in T
    PROVE  [n \in 1 .. m |-> f[n]] \in Seq(T)
  OBVIOUS

LEMMA FoundAreSaid ==
    ASSUME GitTypeOK, ItemsAre
    PROVE  ReadCommits \in Seq(Saids) /\ ReadItems \in Seq(Saids)
<1> USE GitAssumption
<1>1. commits \in 1 .. Len(CommitBodies)
  BY DEF GitTypeOK
<1>2. ReadCommits \in Seq(Saids)
  <2> DEFINE count == IF commits < MostScanned THEN commits ELSE MostScanned
             all == [n \in 1 .. count |->
                        TrailersOf("commit", commits + 1 - n, CommitBodies[commits + 1 - n])]
  <2>1. count \in Nat /\ \A n \in 1 .. count : commits + 1 - n \in DOMAIN CommitBodies
    BY <1>1
  <2>2. ASSUME NEW r \in DOMAIN CommitBodies PROVE TrailersOf("commit", r, CommitBodies[r]) \in Seq(Saids)
    <3>1. CommitBodies[r] \in Seq(Wording)
      OBVIOUS
    <3>2. ASSUME NEW n \in DOMAIN CommitBodies[r]
          PROVE  [ref |-> TrailerRef("commit", r, n), text |-> CommitBodies[r][n].text,
                  ok |-> CommitBodies[r][n].ok] \in Saids
      <4>1. PICK t : t = [ref |-> TrailerRef("commit", r, n), text |-> CommitBodies[r][n].text,
                          ok |-> CommitBodies[r][n].ok]
        OBVIOUS
      <4>2. t \in Finds
        BY <4>1, WordingIs DEF Finds, SaysCommit, TrailerRef, References
      <4>3. t.ref.kind = "commit" /\ t.ref.root = r /\ t.ref.n = n /\ t.text = CommitBodies[r][n].text
            /\ t.ok = CommitBodies[r][n].ok
        BY <4>1 DEF TrailerRef
      <4>4. t.ok => HasSaid(t.ref, t.text)
        BY <3>2, <4>3 DEF HasSaid, Bodies
      <4> QED
        BY <4>1, <4>2, <4>4 DEF Saids
    <3> QED
      BY <3>1, <3>2 DEF TrailersOf
  <2>3. all \in Seq(Seq(Saids))
    <3>1. ASSUME NEW n \in 1 .. count PROVE all[n] \in Seq(Saids)
      <4> HIDE DEF count, Saids
      <4> QED
        BY <2>1, <2>2, Zenon
    <3>2. PICK f, m, T : f = all /\ m = count /\ T = Seq(Saids)
      OBVIOUS
    <3>3. f = [n \in 1 .. m |-> f[n]]
      BY <3>2
    <3>4. m \in Nat /\ \A n \in 1 .. m : f[n] \in T
      BY <2>1, <3>1, <3>2, Zenon
    <3>5. [n \in 1 .. m |-> f[n]] \in Seq(T)
      BY <3>4, ListIsSeq
    <3> QED
      BY <3>2, <3>3, <3>5, Zenon
  <2> HIDE DEF all
  <2>4. FlattenSeq(all) \in Seq(Saids)
    BY <2>3, FlatIsSeq
  <2> QED
    BY <2>4 DEF ReadCommits, all
<1>3. ReadItems \in Seq(Saids)
  <2> DEFINE count == IF Len(ItemBodies) < MostScanned THEN Len(ItemBodies) ELSE MostScanned
             all == [x \in 1 .. count |-> TrailersOf("item", x, ItemBodies[x][edition[x]])]
  <2>1. count \in Nat /\ \A x \in 1 .. count : x \in DOMAIN ItemBodies
    OBVIOUS
  <2>2. ASSUME NEW x \in DOMAIN ItemBodies PROVE TrailersOf("item", x, ItemBodies[x][edition[x]]) \in Seq(Saids)
    <3> DEFINE body == ItemBodies[x][edition[x]]
    <3>1. ItemBodies[x] \in Seq(Seq(Wording)) /\ edition[x] \in DOMAIN ItemBodies[x]
      <4> HIDE DEF Wording
      <4> QED
        BY DEF ItemsAre
    <3>2. body \in Seq(Wording)
      <4> HIDE DEF Wording
      <4> QED
        BY <3>1
    <3>3. ASSUME NEW n \in DOMAIN body
          PROVE  [ref |-> TrailerRef("item", x, n), text |-> body[n].text, ok |-> body[n].ok] \in Saids
      <4>1. n \in Nat /\ body[n].text \in Nat /\ body[n].ok \in BOOLEAN
        BY <3>1, <3>3, WordingIs
      <4>2. \E e \in 1 .. edition[x] : body = ItemBodies[x][e]
        <5>1. DOMAIN ItemBodies[x] \subseteq Nat \ {0}
          <6> HIDE DEF Wording
          <6> QED
            BY <3>1
        <5>2. edition[x] \in 1 .. edition[x]
          BY <3>1, <5>1
        <5> QED
          BY <5>2
      <4> HIDE DEF body
      <4>3. PICK t : t = [ref |-> TrailerRef("item", x, n), text |-> body[n].text, ok |-> body[n].ok]
        OBVIOUS
      <4>4. t \in Finds
        BY <4>1, <4>3 DEF Finds, SaysCommit, TrailerRef, References
      <4>5. t.ref.kind = "item" /\ t.ref.root = x /\ t.ref.n = n /\ t.text = body[n].text /\ t.ok = body[n].ok
        BY <4>3 DEF TrailerRef
      <4>6. body \in Bodies(t.ref)
        BY <4>2, <4>5 DEF Bodies
      <4>7. t.ok => HasSaid(t.ref, t.text)
        BY <3>3, <4>5, <4>6 DEF HasSaid
      <4> QED
        BY <4>3, <4>4, <4>7 DEF Saids
    <3> HIDE DEF body
    <3>4. TrailersOf("item", x, body) \in Seq(Saids)
      <4>1. DOMAIN body = 1 .. Len(body) /\ Len(body) \in Nat
        BY <3>2
      <4> QED
        BY <3>3, <4>1 DEF TrailersOf
    <3> QED
      BY <3>4 DEF body
  <2>3. all \in Seq(Seq(Saids))
    <3>1. ASSUME NEW x \in 1 .. count PROVE all[x] \in Seq(Saids)
      <4> HIDE DEF count, Saids
      <4> QED
        BY <2>1, <2>2, Zenon
    <3>2. PICK f, m, T : f = all /\ m = count /\ T = Seq(Saids)
      OBVIOUS
    <3>3. f = [x \in 1 .. m |-> f[x]]
      BY <3>2
    <3>4. m \in Nat /\ \A x \in 1 .. m : f[x] \in T
      BY <2>1, <3>1, <3>2, Zenon
    <3>5. [x \in 1 .. m |-> f[x]] \in Seq(T)
      BY <3>4, ListIsSeq
    <3> QED
      BY <3>2, <3>3, <3>5, Zenon
  <2> HIDE DEF all
  <2>4. FlattenSeq(all) \in Seq(Saids)
    BY <2>3, FlatIsSeq
  <2> QED
    BY <2>4 DEF ReadItems, all
<1> QED
  BY <1>2, <1>3

\* An import takes what it has found place by place; of the rows it has made only the newest may
\* not yet be in the ledger, and if it is alone, nobody makes the row it has not found.
ARun(i) ==
    LET run == runs[i] IN
    /\ run \in [pc: {"none", "look", "insert", "record", "done"}, found: Seq(Finds), todo: SUBSET Nat]
    /\ run.todo \subseteq {n \in DOMAIN run.found : run.found[n].ok}
    /\ run.pc \in {"insert", "record"} => run.todo # {}
    /\ run.pc = "done" => run.todo = {}
    /\ \A n \in DOMAIN run.found \ run.todo : run.found[n].ok =>
          \E k \in DOMAIN rows : rows[k].ref = run.found[n].ref

NewestOf(i, k) == k \in DOMAIN rows /\ rows[k].by = i /\ \A m \in DOMAIN rows : rows[m].by = i => m <= k

GitInv ==
    /\ commits \in DOMAIN CommitBodies /\ ItemsAre
    /\ rows \in Seq(Episodes) /\ \A n \in DOMAIN rows : SaysCommit(rows[n])
    /\ ledger \subseteq [ref: References, row: 0 .. Len(rows)]
    /\ runs = [i \in GitImporters |-> runs[i]]
    /\ \A i \in GitImporters : ARun(i)
    /\ started \in 0 .. MaxRuns /\ killed \in 0 .. MaxKills /\ alone \in BOOLEAN
    /\ \A i \in GitImporters : runs[i].pc = "record" =>
          \E k : NewestOf(i, k) /\ rows[k].ref = Current(i).ref
    /\ \A e \in ledger : e.row # 0 => rows[e.row].ref = e.ref

\* What has been found or stored has been said.
SaidInv ==
    /\ \A i \in GitImporters : \A n \in DOMAIN runs[i].found :
          runs[i].found[n].ok => HasSaid(runs[i].found[n].ref, runs[i].found[n].text)
    /\ \A n \in DOMAIN rows : HasSaid(rows[n].ref, rows[n].text)

Unrecorded(n) == \E i \in GitImporters : runs[i].pc = "record" /\ NewestOf(i, n)

OnceInv ==
    /\ alone => \A i, j \in GitImporters : Underway(i) /\ Underway(j) => i = j
    /\ alone => \A i \in GitImporters : runs[i].pc = "insert" => ~IsTaken(Current(i))
    /\ TakenOnce
    /\ killed = 0 => \A n \in DOMAIN rows : (\E e \in ledger : e.row = n) \/ Unrecorded(n)

LEMMA CurrentIs ==
    ASSUME NEW i \in GitImporters, ARun(i), runs[i].todo # {}
    PROVE  /\ Min(runs[i].todo) \in runs[i].todo /\ Current(i) \in Finds
           /\ Current(i) = runs[i].found[Min(runs[i].todo)]
<1>1. runs[i].todo \subseteq DOMAIN runs[i].found /\ runs[i].found \in Seq(Finds) /\ runs[i].todo \subseteq Nat
  BY DEF ARun
<1>2. Min(runs[i].todo) \in runs[i].todo
  BY <1>1, SmallestNumber
<1> QED
  BY <1>1, <1>2 DEF Current

LEMMA GitInitInv == GitInit => GitInv /\ OnceInv
<1> SUFFICES ASSUME GitInit PROVE GitInv /\ OnceInv
  OBVIOUS
<1> USE DEF GitInit
<1>1. commits \in DOMAIN CommitBodies
  BY GitAssumption
<1>2. ItemsAre
  BY GitAssumption DEF ItemsAre
<1>3. \A i \in GitImporters : runs[i] = NoRun
  OBVIOUS
<1>4. \A i \in GitImporters : ARun(i)
  BY <1>3 DEF ARun, NoRun
<1>5. GitInv
  BY <1>1, <1>2, <1>3, <1>4, GitAssumption DEF GitInv, NoRun
<1> QED
  BY <1>3, <1>5 DEF OnceInv, NoRun, TakenOnce, Underway

\* A step of one import that adds no row.
LEMMA RunSteps ==
    ASSUME GitInv, NEW i \in GitImporters, NEW run, runs' = [runs EXCEPT ![i] = run], UNCHANGED rows
    PROVE  /\ runs'[i] = run /\ runs' = [j \in GitImporters |-> runs'[j]]
           /\ \A j \in GitImporters \ {i} : runs'[j] = runs[j] /\ ARun(j)' /\ Current(j)' = Current(j)
           /\ \A n, j : NewestOf(j, n)' <=> NewestOf(j, n)
<1>1. runs'[i] = run /\ runs' = [j \in GitImporters |-> runs'[j]]
  BY DEF GitInv
<1>2. \A j \in GitImporters \ {i} : runs'[j] = runs[j]
  BY DEF GitInv
<1>3. ASSUME NEW j \in GitImporters \ {i} PROVE ARun(j)'
  <2>1. ARun(j) /\ runs'[j] = runs[j] /\ rows' = rows
    BY <1>2 DEF GitInv
  <2> QED
    BY <2>1 DEF ARun
<1> QED
  BY <1>1, <1>2, <1>3 DEF Current, NewestOf

LEMMA OutsideKeepsGit ==
    ASSUME GitInv, OnceInv, \/ GitCommit \/ \E x \in DOMAIN ItemBodies : EditItem(x)
    PROVE  GitInv' /\ OnceInv'
<1>1. UNCHANGED <<rows, ledger, runs, started, killed, alone>>
  BY DEF GitCommit, EditItem
<1>2. commits' \in DOMAIN CommitBodies
  BY GitAssumption DEF GitCommit, EditItem, GitInv
<1>3. ItemsAre'
  <2>1. CASE GitCommit
    BY <2>1 DEF GitCommit, GitInv, ItemsAre
  <2>2. CASE \E x \in DOMAIN ItemBodies : EditItem(x)
    <3>1. PICK x \in DOMAIN ItemBodies : EditItem(x)
      BY <2>2
    <3>2. ItemBodies[x] \in Seq(Seq(Wording))
      BY GitAssumption
    <3> QED
      BY <3>1, <3>2 DEF EditItem, GitInv, ItemsAre
  <2> QED
    BY <2>1, <2>2
<1>4. \A i \in GitImporters : ARun(i)' /\ Current(i)' = Current(i)
  BY <1>1 DEF ARun, GitInv, Current
<1>5. \A i, k : NewestOf(i, k)' <=> NewestOf(i, k)
  BY <1>1 DEF NewestOf
<1>6. GitInv'
  BY <1>1, <1>2, <1>3, <1>4, <1>5 DEF GitInv, SaysCommit
<1>7. OnceInv'
  BY <1>1, <1>4, <1>5 DEF OnceInv, TakenOnce, IsTaken, Unrecorded, Underway
<1> QED
  BY <1>6, <1>7

LEMMA BeginKeepsGit ==
    ASSUME GitInv, OnceInv, NEW i \in GitImporters, NEW found \in Seq(Finds), BeginRun(i, found)
    PROVE  GitInv' /\ OnceInv'
<1> DEFINE run == [pc |-> "look", found |-> found, todo |-> {n \in DOMAIN found : found[n].ok}]
<1>1. /\ UNCHANGED <<commits, edition, rows, ledger, killed>> /\ runs' = [runs EXCEPT ![i] = run]
      /\ ~Underway(i) /\ started < MaxRuns /\ started' = started + 1
      /\ alone' = (alone /\ \A j \in GitImporters : ~Underway(j))
  BY DEF BeginRun
<1> HIDE DEF run
<1>2. /\ runs'[i] = run /\ runs' = [j \in GitImporters |-> runs'[j]]
      /\ \A j \in GitImporters \ {i} : runs'[j] = runs[j] /\ ARun(j)' /\ Current(j)' = Current(j)
      /\ \A n, j : NewestOf(j, n)' <=> NewestOf(j, n)
  BY <1>1, RunSteps
<1>3. run.pc = "look" /\ run.found = found /\ run.todo = {n \in DOMAIN found : found[n].ok}
  BY DEF run
<1>4. ARun(i)'
  <2>1. DOMAIN found \subseteq Nat
    OBVIOUS
  <2>2. run \in [pc: {"none", "look", "insert", "record", "done"}, found: Seq(Finds), todo: SUBSET Nat]
    BY <2>1 DEF run
  <2> QED
    BY <1>2, <1>3, <2>2 DEF ARun
<1>5. GitInv'
  <2>1. started' \in 0 .. MaxRuns /\ alone' \in BOOLEAN
    BY <1>1, GitAssumption DEF GitInv
  <2>2. \A j \in GitImporters : runs'[j].pc = "record" =>
           \E k : NewestOf(j, k)' /\ rows'[k].ref = Current(j)'.ref
    BY <1>1, <1>2, <1>3 DEF GitInv
  <2>3. \A j \in GitImporters : ARun(j)'
    BY <1>2, <1>4
  <2>4. /\ rows' \in Seq(Episodes) /\ \A n \in DOMAIN rows' : SaysCommit(rows'[n])
        /\ ledger' \subseteq [ref: References, row: 0 .. Len(rows')] /\ ItemsAre'
        /\ commits' \in DOMAIN CommitBodies /\ killed' \in 0 .. MaxKills
        /\ \A e \in ledger' : e.row # 0 => rows'[e.row].ref = e.ref
    BY <1>1 DEF GitInv, ItemsAre
  <2> QED
    BY <1>2, <2>1, <2>2, <2>3, <2>4 DEF GitInv, SaysCommit
<1>6. OnceInv'
  <2>1. alone' => \A j, k \in GitImporters : Underway(j)' /\ Underway(k)' => j = k
    BY <1>1, <1>2 DEF Underway
  <2>2. alone' => \A j \in GitImporters : runs'[j].pc = "insert" => ~IsTaken(Current(j))'
    <3>1. \A j \in GitImporters \ {i} : IsTaken(Current(j))' <=> IsTaken(Current(j))
      BY <1>1, <1>2 DEF IsTaken
    <3>2. alone' => alone
      BY <1>1 DEF GitInv
    <3>3. runs'[i].pc # "insert" /\ \A j \in GitImporters \ {i} : runs'[j].pc = runs[j].pc
      BY <1>2, <1>3
    <3>4. alone => \A j \in GitImporters : runs[j].pc = "insert" => ~IsTaken(Current(j))
      BY DEF OnceInv
    <3> QED
      BY <3>1, <3>2, <3>3, <3>4
  <2>3. TakenOnce'
    BY <1>1 DEF OnceInv, TakenOnce
  <2>4. \A n : Unrecorded(n) => Unrecorded(n)'
    BY <1>1, <1>2 DEF Unrecorded, Underway
  <2> QED
    BY <1>1, <2>1, <2>2, <2>3, <2>4 DEF OnceInv
<1> QED
  BY <1>5, <1>6

\* A step of one import to another stage, with nothing taken.
LEMMA StageKeepsGit ==
    ASSUME GitInv, OnceInv, NEW i \in GitImporters, NEW pc, runs' = [runs EXCEPT ![i].pc = pc],
           Underway(i), runs[i].pc # "record",
           UNCHANGED <<commits, edition, rows, started, killed, alone>>,
           ledger \subseteq ledger', ledger' \subseteq [ref: References, row: 0 .. Len(rows)],
           \A e \in ledger' \ ledger : e.row = 0,
           \/ pc = "insert" /\ runs[i].todo # {} /\ ~IsTaken(Current(i))
           \/ pc = "done" /\ runs[i].todo = {}
    PROVE  GitInv' /\ OnceInv'
<1>1. ARun(i)
  BY DEF GitInv
<1>2. PICK run : run = [runs[i] EXCEPT !.pc = pc]
  OBVIOUS
<1>3. /\ runs' = [runs EXCEPT ![i] = run] /\ run.pc = pc /\ run.found = runs[i].found /\ run.todo = runs[i].todo
      /\ run \in [pc: {"none", "look", "insert", "record", "done"}, found: Seq(Finds), todo: SUBSET Nat]
  BY <1>1, <1>2 DEF ARun, GitInv
<1>4. /\ runs'[i] = run /\ runs' = [j \in GitImporters |-> runs'[j]]
      /\ \A j \in GitImporters \ {i} : runs'[j] = runs[j] /\ ARun(j)' /\ Current(j)' = Current(j)
      /\ \A n, j : NewestOf(j, n)' <=> NewestOf(j, n)
  BY <1>3, RunSteps
<1>5. ARun(i)' /\ Current(i)' = Current(i)
  BY <1>1, <1>3, <1>4 DEF ARun, Current
<1>6. GitInv'
  <2>1. \A j \in GitImporters : runs'[j].pc = "record" =>
           \E k : NewestOf(j, k)' /\ rows'[k].ref = Current(j)'.ref
    BY <1>3, <1>4 DEF GitInv
  <2>2. \A e \in ledger' : e.row # 0 => rows'[e.row].ref = e.ref
    BY DEF GitInv
  <2>3. \A j \in GitImporters : ARun(j)'
    BY <1>4, <1>5
  <2> QED
    BY <1>4, <2>1, <2>2, <2>3 DEF GitInv, ItemsAre, SaysCommit
<1>7. OnceInv'
  <2>1. alone' => \A j, k \in GitImporters : Underway(j)' /\ Underway(k)' => j = k
    <3>1. \A j \in GitImporters : Underway(j)' => Underway(j)
      BY <1>3, <1>4 DEF Underway
    <3> QED
      BY <3>1 DEF OnceInv
  <2>2. alone' => \A j \in GitImporters : runs'[j].pc = "insert" => ~IsTaken(Current(j))'
    BY <1>3, <1>4, <1>5 DEF OnceInv, IsTaken
  <2>3. TakenOnce'
    BY DEF OnceInv, TakenOnce
  <2>4. \A n : Unrecorded(n) => Unrecorded(n)'
    BY <1>3, <1>4 DEF Unrecorded
  <2> QED
    BY <2>1, <2>2, <2>3, <2>4 DEF OnceInv
<1> QED
  BY <1>6, <1>7

\* What is current has its row, and its place is passed.
LEMMA FollowKeepsGit ==
    ASSUME GitInv, OnceInv, NEW i \in GitImporters, Follow(i), runs[i].todo # {},
           runs[i].pc \in {"look", "record"}, IsTaken(Current(i)),
           UNCHANGED <<commits, edition, rows, started, killed, alone>>,
           ledger \subseteq ledger', ledger' \subseteq [ref: References, row: 0 .. Len(rows)],
           \A e \in ledger' \ ledger : e.row # 0 => rows[e.row].ref = e.ref,
           runs[i].pc = "record" => \A n : NewestOf(i, n) => \E e \in ledger' : e.row = n
    PROVE  GitInv' /\ OnceInv'
<1>1. ARun(i)
  BY DEF GitInv
<1>2. PICK run : run = [runs[i] EXCEPT !.pc = "look", !.todo = @ \ {Min(@)}]
  OBVIOUS
<1>3. PICK n : n = Min(runs[i].todo)
  OBVIOUS
<1>4. n \in runs[i].todo /\ Current(i) = runs[i].found[n]
  BY <1>1, <1>3, CurrentIs
<1>5. /\ runs' = [runs EXCEPT ![i] = run] /\ run.pc = "look" /\ run.found = runs[i].found
      /\ run.todo = runs[i].todo \ {n}
      /\ run \in [pc: {"none", "look", "insert", "record", "done"}, found: Seq(Finds), todo: SUBSET Nat]
  <2>1. runs' = [runs EXCEPT ![i] = run]
    BY <1>2 DEF Follow
  <2>2. runs[i] \in [pc: {"none", "look", "insert", "record", "done"}, found: Seq(Finds), todo: SUBSET Nat]
    BY <1>1 DEF ARun
  <2>3. run = [runs[i] EXCEPT !.pc = "look", !.todo = @ \ {n}]
    BY <1>2, <1>3, <2>2
  <2> QED
    BY <2>1, <2>2, <2>3
<1>6. /\ runs'[i] = run /\ runs' = [j \in GitImporters |-> runs'[j]]
      /\ \A j \in GitImporters \ {i} : runs'[j] = runs[j] /\ ARun(j)' /\ Current(j)' = Current(j)
      /\ \A m, j : NewestOf(j, m)' <=> NewestOf(j, m)
  BY <1>5, RunSteps
<1>7. ARun(i)'
  <2>1. \A m \in DOMAIN run.found \ run.todo : run.found[m].ok =>
          \E k \in DOMAIN rows : rows[k].ref = run.found[m].ref
    BY <1>1, <1>4, <1>5 DEF ARun, IsTaken
  <2>2. run.todo \subseteq {m \in DOMAIN run.found : run.found[m].ok}
    BY <1>1, <1>5 DEF ARun
  <2> QED
    BY <1>5, <1>6, <2>1, <2>2 DEF ARun
<1>8. GitInv'
  <2>1. \A j \in GitImporters : runs'[j].pc = "record" =>
           \E k : NewestOf(j, k)' /\ rows'[k].ref = Current(j)'.ref
    BY <1>5, <1>6 DEF GitInv
  <2>2. \A e \in ledger' : e.row # 0 => rows'[e.row].ref = e.ref
    BY DEF GitInv
  <2>3. \A j \in GitImporters : ARun(j)'
    BY <1>6, <1>7
  <2> QED
    BY <1>6, <2>1, <2>2, <2>3 DEF GitInv, ItemsAre, SaysCommit
<1>9. OnceInv'
  <2>1. alone' => \A j, k \in GitImporters : Underway(j)' /\ Underway(k)' => j = k
    <3>1. \A j \in GitImporters : Underway(j)' => Underway(j)
      BY <1>6 DEF Underway
    <3> QED
      BY <3>1 DEF OnceInv
  <2>2. alone' => \A j \in GitImporters : runs'[j].pc = "insert" => ~IsTaken(Current(j))'
    BY <1>5, <1>6 DEF OnceInv, IsTaken
  <2>3. TakenOnce'
    BY DEF OnceInv, TakenOnce
  <2>4. \A m : Unrecorded(m) => Unrecorded(m)' \/ \E e \in ledger' : e.row = m
    BY <1>6 DEF Unrecorded
  <2> QED
    BY <2>1, <2>2, <2>3, <2>4 DEF OnceInv
<1> QED
  BY <1>8, <1>9

LEMMA LookKeepsGit ==
    ASSUME GitInv, OnceInv, NEW i \in GitImporters, LookUp(i)
    PROVE  GitInv' /\ OnceInv'
<1>1. /\ runs[i].pc = "look" /\ runs[i].todo # {} /\ ledger' = ledger
      /\ UNCHANGED <<commits, edition, rows, started, killed, alone>>
      /\ ledger' \subseteq [ref: References, row: 0 .. Len(rows)]
  BY DEF LookUp, GitInv
<1>2. CASE IsTaken(Current(i))
  BY <1>1, <1>2, FollowKeepsGit DEF LookUp
<1>3. CASE ~IsTaken(Current(i))
  BY <1>1, <1>3, StageKeepsGit DEF LookUp, Underway
<1> QED
  BY <1>2, <1>3

LEMMA RecordKeepsGit ==
    ASSUME GitInv, OnceInv, NEW i \in GitImporters, RecordAccepted(i)
    PROVE  GitInv' /\ OnceInv'
<1> DEFINE mine == {n \in DOMAIN rows : rows[n].by = i}
           newest == CHOOSE n \in mine : \A m \in mine : m <= n
<1>1. /\ runs[i].pc = "record" /\ ledger' = ledger \cup {[ref |-> Current(i).ref, row |-> newest]}
      /\ Follow(i) /\ UNCHANGED <<commits, edition, rows, started, killed, alone>>
  BY DEF RecordAccepted
<1>2. PICK k : NewestOf(i, k) /\ rows[k].ref = Current(i).ref
  BY <1>1 DEF GitInv
<1>3. k \in mine /\ \A m \in mine : m <= k
  BY <1>2 DEF NewestOf
<1>4. rows \in Seq(Episodes)
  BY DEF GitInv
<1>5. newest \in mine /\ \A m \in mine : m <= newest
  BY <1>3
<1>6. DOMAIN rows = 1 .. Len(rows) /\ Len(rows) \in Nat
  BY <1>4
<1>7. \A n : NewestOf(i, n) => n = newest
  BY <1>5, <1>6 DEF NewestOf
<1>8. newest = k /\ k \in 1 .. Len(rows)
  BY <1>2, <1>6, <1>7 DEF NewestOf
<1> HIDE DEF newest
<1>9. ARun(i) /\ runs[i].todo # {}
  BY <1>1 DEF GitInv, ARun
<1>10. Current(i) \in Finds
  BY <1>9, CurrentIs
<1>11. Current(i).ref \in References
  BY <1>10 DEF Finds
<1>12. ledger' \subseteq [ref: References, row: 0 .. Len(rows)]
  BY <1>1, <1>8, <1>11 DEF GitInv
<1>13. \A e \in ledger' \ ledger : e.row # 0 => rows[e.row].ref = e.ref
  BY <1>1, <1>2, <1>8
<1>14. \A n : NewestOf(i, n) => \E e \in ledger' : e.row = n
  <2>1. PICK e : e = [ref |-> Current(i).ref, row |-> newest]
    OBVIOUS
  <2>2. e \in ledger' /\ e.row = newest
    BY <1>1, <2>1
  <2> QED
    BY <1>7, <2>2
<1>15. IsTaken(Current(i))
  BY <1>2 DEF IsTaken, NewestOf
<1> QED
  BY <1>1, <1>9, <1>12, <1>13, <1>14, <1>15, FollowKeepsGit

LEMMA RejectKeepsGit ==
    ASSUME GitInv, OnceInv, NEW i \in GitImporters, RecordRejected(i)
    PROVE  GitInv' /\ OnceInv'
<1> DEFINE found == runs[i].found
           new == {[ref |-> found[n].ref, row |-> 0] : n \in {m \in DOMAIN found : ~found[m].ok}}
<1>1. /\ runs[i].pc = "look" /\ runs[i].todo = {} /\ ledger' = ledger \cup new
      /\ runs' = [runs EXCEPT ![i].pc = "done"]
      /\ UNCHANGED <<commits, edition, rows, started, killed, alone>>
  BY DEF RecordRejected
<1>2. found \in Seq(Finds) /\ rows \in Seq(Episodes)
  BY DEF GitInv, ARun
<1>3. \A n \in DOMAIN found : found[n].ref \in References
  BY <1>2 DEF Finds
<1>4. new \subseteq [ref: References, row: 0 .. Len(rows)] /\ \A e \in new : e.row = 0
  BY <1>2, <1>3
<1> HIDE DEF new
<1>5. ledger' \subseteq [ref: References, row: 0 .. Len(rows)] /\ \A e \in ledger' \ ledger : e.row = 0
  BY <1>1, <1>4 DEF GitInv
<1> QED
  BY <1>1, <1>5, StageKeepsGit DEF Underway

LEMMA InsertKeepsGit ==
    ASSUME GitInv, OnceInv, NEW i \in GitImporters, InsertEpisode(i)
    PROVE  GitInv' /\ OnceInv'
<1>1. ARun(i) /\ runs[i].pc = "insert" /\ runs[i].todo # {}
  BY DEF GitInv, ARun, InsertEpisode
<1>2. PICK row : row = [ref |-> Current(i).ref, text |-> Current(i).text, by |-> i]
  OBVIOUS
<1>3. Current(i) \in Finds
  BY <1>1, CurrentIs
<1>4. row \in Episodes /\ row.ref = Current(i).ref /\ row.by = i /\ SaysCommit(row)
  BY <1>2, <1>3 DEF Finds, Episodes, SaysCommit
<1>5. rows \in Seq(Episodes)
  BY DEF GitInv
<1>6. PICK len : len = Len(rows) /\ len \in Nat /\ DOMAIN rows = 1 .. len
  BY <1>5
<1>7. /\ rows' \in Seq(Episodes) /\ Len(rows') = len + 1 /\ DOMAIN rows' = 1 .. len + 1
      /\ rows'[len + 1] = row /\ \A n \in 1 .. len : rows'[n] = rows[n]
  BY <1>2, <1>4, <1>5, <1>6 DEF InsertEpisode
<1>8. UNCHANGED <<commits, edition, ledger, started, killed, alone>>
  BY DEF InsertEpisode
<1>9. PICK run : run = [runs[i] EXCEPT !.pc = "record"]
  OBVIOUS
<1>10. /\ run.pc = "record" /\ run.found = runs[i].found /\ run.todo = runs[i].todo
       /\ run \in [pc: {"none", "look", "insert", "record", "done"}, found: Seq(Finds), todo: SUBSET Nat]
  BY <1>1, <1>9 DEF ARun
<1>11. runs'[i] = run /\ runs' = [j \in GitImporters |-> runs'[j]]
       /\ \A j \in GitImporters \ {i} : runs'[j] = runs[j]
  BY <1>9 DEF GitInv, InsertEpisode
<1>12. \A j \in GitImporters : Current(j)' = Current(j)
  BY <1>10, <1>11 DEF Current
<1>13. \A n \in DOMAIN rows : n \in DOMAIN rows' /\ rows'[n] = rows[n]
  BY <1>6, <1>7
<1>14. \A j \in GitImporters : ARun(j)'
  <2>1. ASSUME NEW j \in GitImporters, NEW r, ARun(j), r.found = runs[j].found, r.todo = runs[j].todo,
               NEW n \in DOMAIN r.found \ r.todo, r.found[n].ok
        PROVE  \E k \in DOMAIN rows' : rows'[k].ref = r.found[n].ref
    BY <1>13, <2>1 DEF ARun
  <2>2. ARun(i)'
    BY <1>1, <1>10, <1>11, <2>1 DEF ARun
  <2>3. ASSUME NEW j \in GitImporters \ {i} PROVE ARun(j)'
    <3>1. ARun(j) /\ runs'[j] = runs[j]
      BY <1>11 DEF GitInv
    <3> QED
      BY <2>1, <3>1 DEF ARun
  <2> QED
    BY <2>2, <2>3
<1>15. NewestOf(i, len + 1)' /\ \A n, j : j # i /\ NewestOf(j, n) => NewestOf(j, n)'
  BY <1>4, <1>6, <1>7 DEF NewestOf
<1>16. GitInv'
  <2>1. \A j \in GitImporters : runs'[j].pc = "record" =>
           \E k : NewestOf(j, k)' /\ rows'[k].ref = Current(j)'.ref
    <3>1. ASSUME NEW j \in GitImporters \ {i}, runs'[j].pc = "record"
          PROVE  \E k : NewestOf(j, k)' /\ rows'[k].ref = Current(j)'.ref
      <4>1. PICK k : NewestOf(j, k) /\ rows[k].ref = Current(j).ref
        BY <1>11, <3>1 DEF GitInv
      <4> QED
        BY <1>12, <1>13, <1>15, <4>1 DEF NewestOf
    <3> QED
      BY <1>4, <1>7, <1>12, <1>15, <3>1
  <2>2. /\ ledger' \subseteq [ref: References, row: 0 .. Len(rows')]
        /\ \A e \in ledger' : e.row # 0 => rows'[e.row].ref = e.ref
    <3>1. \A e \in ledger : e \in [ref: References, row: 0 .. len] /\ (e.row # 0 => rows[e.row].ref = e.ref)
      BY <1>6 DEF GitInv
    <3>2. \A e \in ledger : e.row \in 0 .. len /\ (e.row # 0 => e.row \in 1 .. len)
      BY <1>6, <3>1
    <3>3. \A n \in 0 .. len : n \in 0 .. len + 1
      BY <1>6
    <3>4. \A e \in ledger : e \in [ref: References, row: 0 .. len + 1]
      BY <3>1, <3>3
    <3> QED
      BY <1>7, <1>8, <3>1, <3>2, <3>4
  <2>3. \A n \in DOMAIN rows' : SaysCommit(rows'[n])
    BY <1>4, <1>6, <1>7 DEF GitInv
  <2>4. ItemsAre' /\ \A n \in DOMAIN rows' : SaysCommit(rows[n])'
    BY <1>8, <2>3 DEF GitInv, ItemsAre, SaysCommit
  <2> QED
    BY <1>7, <1>8, <1>11, <1>14, <2>1, <2>2, <2>4 DEF GitInv
<1>17. OnceInv'
  <2>1. \A j \in GitImporters : Underway(j)' <=> Underway(j)
    BY <1>1, <1>10, <1>11 DEF Underway
  <2>2. ASSUME alone PROVE \A j \in GitImporters : runs'[j].pc # "insert"
    BY <1>1, <1>10, <1>11, <2>2 DEF OnceInv, Underway
  <2>3. TakenOnce'
    <3>1. ASSUME alone PROVE \A n \in DOMAIN rows : rows[n].ref # Current(i).ref
      BY <1>1, <3>1 DEF OnceInv, IsTaken
    <3> QED
      BY <1>4, <1>6, <1>7, <1>8, <3>1 DEF OnceInv, TakenOnce
  <2>4. ASSUME killed = 0, NEW n \in DOMAIN rows' PROVE (\E e \in ledger' : e.row = n) \/ Unrecorded(n)'
    <3>1. CASE n = len + 1
      BY <1>10, <1>11, <1>15, <3>1 DEF Unrecorded
    <3>2. CASE n # len + 1
      <4>1. n \in DOMAIN rows
        BY <1>6, <1>7, <3>2
      <4>2. (\E e \in ledger : e.row = n) \/ Unrecorded(n)
        BY <2>4, <4>1 DEF OnceInv
      <4>3. Unrecorded(n) => Unrecorded(n)'
        BY <1>1, <1>11, <1>15 DEF Unrecorded
      <4> QED
        BY <1>8, <4>2, <4>3
    <3> QED
      BY <3>1, <3>2
  <2> QED
    BY <1>8, <2>1, <2>2, <2>3, <2>4 DEF OnceInv
<1> QED
  BY <1>16, <1>17

LEMMA StopKeepsGit ==
    ASSUME GitInv, OnceInv, NEW i \in GitImporters, StopRun(i)
    PROVE  GitInv' /\ OnceInv'
<1>1. /\ runs' = [runs EXCEPT ![i] = NoRun] /\ killed' = killed + 1 /\ killed < MaxKills
      /\ UNCHANGED <<commits, edition, rows, ledger, started, alone>>
  BY DEF StopRun
<1>2. /\ runs'[i] = NoRun /\ runs' = [j \in GitImporters |-> runs'[j]]
      /\ \A j \in GitImporters \ {i} : runs'[j] = runs[j] /\ ARun(j)' /\ Current(j)' = Current(j)
      /\ \A n, j : NewestOf(j, n)' <=> NewestOf(j, n)
  BY <1>1, RunSteps
<1>3. ARun(i)' /\ runs'[i].pc = "none"
  BY <1>2 DEF ARun, NoRun
<1>4. GitInv'
  <2>1. \A j \in GitImporters : runs'[j].pc = "record" =>
           \E k : NewestOf(j, k)' /\ rows'[k].ref = Current(j)'.ref
    BY <1>1, <1>2, <1>3 DEF GitInv
  <2>2. \A j \in GitImporters : ARun(j)'
    BY <1>2, <1>3
  <2>3. killed' \in 0 .. MaxKills
    BY <1>1, GitAssumption DEF GitInv
  <2> QED
    BY <1>1, <1>2, <2>1, <2>2, <2>3 DEF GitInv, ItemsAre, SaysCommit
<1>5. OnceInv'
  <2>1. killed' # 0
    BY <1>1 DEF GitInv
  <2>2. \A j \in GitImporters : Underway(j)' => Underway(j)
    BY <1>2, <1>3 DEF Underway
  <2>3. alone => \A j \in GitImporters : runs'[j].pc = "insert" => ~IsTaken(Current(j))'
    BY <1>1, <1>2, <1>3 DEF OnceInv, IsTaken
  <2> QED
    BY <1>1, <2>1, <2>2, <2>3 DEF OnceInv, TakenOnce
<1> QED
  BY <1>4, <1>5

LEMMA GitInvTrue == (GitInv => GitTypeOK) /\ (GitInv /\ OnceInv /\ SaidInv => GitIsTaken)
<1> SUFFICES ASSUME GitInv PROVE GitTypeOK /\ (OnceInv /\ SaidInv => GitIsTaken)
  OBVIOUS
<1>1. \A n \in DOMAIN rows : rows[n] \in Episodes
  BY DEF GitInv
<1>2. ASSUME NEW i \in GitImporters
      PROVE  /\ runs[i].pc \in {"none", "look", "insert", "record", "done"}
             /\ \A n \in DOMAIN runs[i].found : runs[i].found[n] \in Finds
             /\ runs[i].todo \subseteq DOMAIN runs[i].found
  <2>1. runs[i] \in [pc: {"none", "look", "insert", "record", "done"}, found: Seq(Finds), todo: SUBSET Nat]
        /\ runs[i].todo \subseteq {n \in DOMAIN runs[i].found : runs[i].found[n].ok}
    BY DEF GitInv, ARun
  <2>2. runs[i].found \in Seq(Finds)
    BY <2>1
  <2> QED
    BY <2>1, <2>2
<1>3. GitTypeOK
  BY <1>1, <1>2 DEF GitTypeOK, GitInv, ItemsAre, Episodes, Finds
<1>4. ASSUME NEW i \in GitImporters, runs[i].pc = "done", NEW t \in ToSet(runs[i].found), t.ok
      PROVE  \E n \in DOMAIN rows : rows[n].ref = t.ref /\ (t.ref.kind = "commit" => rows[n].text = t.text)
  <2>1. PICK n \in DOMAIN runs[i].found : t = runs[i].found[n]
    BY <1>4 DEF ToSet
  <2>2. PICK k \in DOMAIN rows : rows[k].ref = t.ref
    BY <1>4, <2>1 DEF GitInv, ARun
  <2>3. SaysCommit(rows[k]) /\ SaysCommit(t)
    BY <1>2, <2>1 DEF GitInv, Finds
  <2> QED
    BY <2>2, <2>3 DEF SaysCommit
<1>5. PlacesAreTaken
  BY <1>4 DEF PlacesAreTaken
<1>6. ASSUME OnceInv, SaidInv PROVE GitIsTaken
  <2>1. LedgerFollows
    BY <1>6 DEF LedgerFollows, GitInv, OnceInv, Unrecorded, Underway
  <2> QED
    BY <1>5, <1>6, <2>1 DEF GitIsTaken, OnceInv, SaidInv, EpisodesAreSaid
<1> QED
  BY <1>3, <1>6

LEMMA GitNextInv == GitInv /\ OnceInv /\ [GitNext]_gitVars => GitInv' /\ OnceInv'
<1> SUFFICES ASSUME GitInv, OnceInv, [GitNext]_gitVars PROVE GitInv' /\ OnceInv'
  OBVIOUS
<1>1. CASE UNCHANGED gitVars
  BY <1>1 DEF gitVars, GitInv, OnceInv, ARun, ItemsAre, SaysCommit, NewestOf, Current, Unrecorded, Underway,
              IsTaken, TakenOnce
<1>2. CASE GitNext
  <2>1. \A i \in GitImporters, found \in {ReadCommits, ReadItems} : BeginRun(i, found) => GitInv' /\ OnceInv'
    <3>1. ReadCommits \in Seq(Finds) /\ ReadItems \in Seq(Finds)
      <4>1. GitTypeOK
        BY GitInvTrue
      <4>2. Saids \subseteq Finds
        BY DEF Saids
      <4> HIDE DEF Saids, Finds
      <4>3. ReadCommits \in Seq(Saids) /\ ReadItems \in Seq(Saids)
        BY <4>1, FoundAreSaid DEF GitInv
      <4> QED
        BY <4>2, <4>3
    <3> QED
      BY <3>1, BeginKeepsGit
  <2> QED
    BY <1>2, <2>1, OutsideKeepsGit, LookKeepsGit, InsertKeepsGit, RecordKeepsGit, RejectKeepsGit, StopKeepsGit
       DEF GitNext
<1> QED
  BY <1>1, <1>2

\* A source goes on having said what it has said.
LEMMA SayingStays ==
    ASSUME ItemsAre, NEW ref, NEW text, HasSaid(ref, text),
           edition' = edition \/ \E x \in DOMAIN ItemBodies : edition' = [edition EXCEPT ![x] = @ + 1]
    PROVE  HasSaid(ref, text)'
<1>1. CASE edition' = edition
  BY <1>1 DEF HasSaid, Bodies
<1>2. ASSUME NEW x \in DOMAIN ItemBodies, edition' = [edition EXCEPT ![x] = @ + 1]
      PROVE  Bodies(ref) \subseteq Bodies(ref)'
  <2>1. CASE ref.kind = "commit"
    BY <2>1 DEF Bodies
  <2>2. CASE ref.kind # "commit" /\ ref.root = x
    <3>1. edition'[x] = edition[x] + 1 /\ edition[x] \in Nat
      BY <1>2 DEF ItemsAre
    <3>2. 1 .. edition[x] \subseteq 1 .. edition'[x]
      BY <3>1
    <3> QED
      BY <2>2, <3>2 DEF Bodies
  <2>3. CASE ref.kind # "commit" /\ ref.root # x
    <3>1. edition'[ref.root] = edition[ref.root]
      BY <1>2, <2>3 DEF ItemsAre
    <3> QED
      BY <2>3, <3>1 DEF Bodies
  <2> QED
    BY <2>1, <2>2, <2>3
<1> QED
  BY <1>1, <1>2 DEF HasSaid

\* Taking what has been found does not change it.
LEMMA RunsKeepFound ==
    ASSUME GitInv, NEW i \in GitImporters, LookUp(i) \/ RecordAccepted(i) \/ RecordRejected(i)
    PROVE  \E run : runs' = [runs EXCEPT ![i] = run] /\ run.found = runs[i].found
<1>1. runs[i] \in [pc: {"none", "look", "insert", "record", "done"}, found: Seq(Finds), todo: SUBSET Nat]
  BY DEF GitInv, ARun
<1>2. CASE Follow(i)
  <2>1. PICK run : run = [runs[i] EXCEPT !.pc = "look", !.todo = @ \ {Min(@)}]
    OBVIOUS
  <2>2. runs' = [runs EXCEPT ![i] = run]
    BY <1>2, <2>1 DEF Follow
  <2>3. run.found = runs[i].found
    BY <1>1, <2>1
  <2> QED
    BY <2>2, <2>3
<1>3. ASSUME NEW pc, runs' = [runs EXCEPT ![i].pc = pc]
      PROVE  \E run : runs' = [runs EXCEPT ![i] = run] /\ run.found = runs[i].found
  <2>1. PICK run : run = [runs[i] EXCEPT !.pc = pc]
    OBVIOUS
  <2>2. runs' = [runs EXCEPT ![i] = run]
    BY <1>3, <2>1
  <2>3. run.found = runs[i].found
    BY <1>1, <2>1
  <2> QED
    BY <2>2, <2>3
<1> QED
  BY <1>2, <1>3 DEF LookUp, RecordAccepted, RecordRejected

LEMMA SaidNextInv == GitInv /\ SaidInv /\ [GitNext]_gitVars => SaidInv'
<1> SUFFICES ASSUME GitInv, SaidInv, [GitNext]_gitVars PROVE SaidInv'
  OBVIOUS
<1>1. ASSUME NEW ref, NEW text, HasSaid(ref, text) PROVE HasSaid(ref, text)'
  <2>1. edition' = edition \/ \E x \in DOMAIN ItemBodies : edition' = [edition EXCEPT ![x] = @ + 1]
    BY DEF GitNext, gitVars, GitCommit, EditItem, BeginRun, LookUp, InsertEpisode, RecordAccepted,
           RecordRejected, StopRun
  <2> QED
    BY <1>1, <2>1, SayingStays DEF GitInv
<1>2. runs = [i \in GitImporters |-> runs[i]]
  BY DEF GitInv
<1>3. ASSUME rows' = rows, \A i \in GitImporters : runs'[i].found \in {runs[i].found, <<>>}
      PROVE  SaidInv'
  <2>1. ASSUME NEW i \in GitImporters, NEW n \in DOMAIN runs'[i].found, runs'[i].found[n].ok
        PROVE  HasSaid(runs[i].found[n].ref, runs[i].found[n].text)'
    <3>1. runs'[i].found = runs[i].found
      BY <1>3, <2>1
    <3>2. PICK t : t = runs[i].found[n]
      OBVIOUS
    <3>3. HasSaid(t.ref, t.text)'
      BY <1>1, <2>1, <3>1, <3>2 DEF SaidInv
    <3> QED
      BY <3>1, <3>2, <3>3
  <2>2. ASSUME NEW n \in DOMAIN rows PROVE HasSaid(rows[n].ref, rows[n].text)'
    <3>1. PICK r : r = rows[n]
      OBVIOUS
    <3>2. HasSaid(r.ref, r.text)' /\ rows'[n] = r
      BY <1>1, <1>3, <3>1 DEF SaidInv
    <3> QED
      BY <3>2
  <2> QED
    BY <1>3, <2>1, <2>2 DEF SaidInv
<1>4. CASE \/ UNCHANGED gitVars \/ GitCommit \/ \E x \in DOMAIN ItemBodies : EditItem(x)
           \/ \E i \in GitImporters : LookUp(i) \/ RecordAccepted(i) \/ RecordRejected(i) \/ StopRun(i)
  <2>1. rows' = rows
    BY <1>4 DEF gitVars, GitCommit, EditItem, LookUp, RecordAccepted, RecordRejected, StopRun
  <2>2. ASSUME NEW i \in GitImporters, LookUp(i) \/ RecordAccepted(i) \/ RecordRejected(i) \/ StopRun(i)
        PROVE  \A j \in GitImporters : runs'[j].found \in {runs[j].found, <<>>}
    <3>1. \E run : runs' = [runs EXCEPT ![i] = run] /\ run.found \in {runs[i].found, <<>>}
      <4>1. CASE StopRun(i)
        <5>1. NoRun.found = <<>>
          BY DEF NoRun
        <5>2. runs' = [runs EXCEPT ![i] = NoRun]
          BY <4>1 DEF StopRun
        <5> QED
          BY <5>1, <5>2
      <4>2. CASE LookUp(i) \/ RecordAccepted(i) \/ RecordRejected(i)
        BY <4>2, RunsKeepFound
      <4> QED
        BY <2>2, <4>1, <4>2
    <3> QED
      BY <1>2, <3>1
  <2>3. \A j \in GitImporters : runs'[j].found \in {runs[j].found, <<>>}
    BY <1>4, <2>2 DEF gitVars, GitCommit, EditItem
  <2> QED
    BY <1>3, <2>1, <2>3
<1>5. CASE \E i \in GitImporters : InsertEpisode(i)
  <2>1. PICK i \in GitImporters : InsertEpisode(i)
    BY <1>5
  <2>2. ARun(i) /\ runs[i].todo # {}
    BY <2>1 DEF GitInv, ARun, InsertEpisode
  <2>3. PICK c : c = Current(i)
    OBVIOUS
  <2>4. HasSaid(c.ref, c.text)
    BY <2>2, <2>3, CurrentIs DEF ARun, SaidInv
  <2>5. HasSaid(c.ref, c.text)'
    BY <1>1, <2>4
  <2>6. rows \in Seq(Episodes)
    BY DEF GitInv
  <2>7. PICK row : row = [ref |-> c.ref, text |-> c.text, by |-> i]
    OBVIOUS
  <2>8. rows' = Append(rows, row) /\ row.ref = c.ref /\ row.text = c.text
    BY <2>1, <2>3, <2>7 DEF InsertEpisode
  <2>9. ASSUME NEW n \in DOMAIN rows' PROVE HasSaid(rows[n].ref, rows[n].text)'
    <3>1. CASE n \in DOMAIN rows
      <4>1. PICK r : r = rows[n]
        OBVIOUS
      <4>2. rows'[n] = r
        BY <2>6, <2>8, <3>1, <4>1
      <4>3. HasSaid(r.ref, r.text)'
        BY <1>1, <3>1, <4>1 DEF SaidInv
      <4> QED
        BY <4>2, <4>3
    <3>2. CASE n \notin DOMAIN rows
      <4>1. rows'[n] = row
        BY <2>6, <2>8, <3>2
      <4> QED
        BY <2>5, <2>8, <4>1
    <3> QED
      BY <3>1, <3>2
  <2>10. \A j \in GitImporters : runs'[j].found = runs[j].found
    BY <1>2, <2>1 DEF InsertEpisode, GitInv, ARun
  <2>11. ASSUME NEW j \in GitImporters, NEW n \in DOMAIN runs'[j].found, runs'[j].found[n].ok
         PROVE  HasSaid(runs[j].found[n].ref, runs[j].found[n].text)'
    <3>1. PICK t : t = runs[j].found[n]
      OBVIOUS
    <3>2. HasSaid(t.ref, t.text)' /\ t = runs'[j].found[n]
      BY <1>1, <2>10, <2>11, <3>1 DEF SaidInv
    <3> QED
      BY <3>2
  <2> QED
    BY <2>9, <2>11 DEF SaidInv
<1>6. CASE \E i \in GitImporters, found \in {ReadCommits, ReadItems} : BeginRun(i, found)
  <2>1. PICK i \in GitImporters, found \in {ReadCommits, ReadItems} : BeginRun(i, found)
    BY <1>6
  <2>2. found \in Seq(Saids)
    <3>1. GitTypeOK
      BY GitInvTrue
    <3> QED
      BY <2>1, <3>1, FoundAreSaid DEF GitInv
  <2>3. /\ \A j \in GitImporters : runs'[j].found = IF j = i THEN found ELSE runs[j].found
        /\ rows' = rows
    BY <1>2, <2>1 DEF BeginRun
  <2>4. ASSUME NEW j \in GitImporters, NEW n \in DOMAIN runs'[j].found, runs'[j].found[n].ok
        PROVE  HasSaid(runs[j].found[n].ref, runs[j].found[n].text)'
    <3>1. PICK t : t = runs'[j].found[n]
      OBVIOUS
    <3>2. HasSaid(t.ref, t.text)
      <4>1. CASE j = i
        <5>1. t \in Saids
          BY <2>2, <2>3, <2>4, <3>1, <4>1
        <5> QED
          BY <2>4, <3>1, <5>1 DEF Saids
      <4>2. CASE j # i
        BY <2>3, <2>4, <3>1, <4>2 DEF SaidInv
      <4> QED
        BY <4>1, <4>2
    <3> QED
      BY <1>1, <3>1, <3>2
  <2>5. ASSUME NEW n \in DOMAIN rows PROVE HasSaid(rows[n].ref, rows[n].text)'
    <3>1. PICK r : r = rows[n]
      OBVIOUS
    <3>2. HasSaid(r.ref, r.text)' /\ rows'[n] = r
      BY <1>1, <2>3, <3>1 DEF SaidInv
    <3> QED
      BY <3>2
  <2> QED
    BY <2>3, <2>4, <2>5 DEF SaidInv
<1> QED
  BY <1>4, <1>5, <1>6 DEF GitNext

\* An import from git takes every place it reads, each once, and stores nothing that was not said there.
LEMMA GitStays == GitSpec => [](GitTypeOK /\ GitIsTaken)
<1>1. GitInv /\ OnceInv /\ SaidInv => GitTypeOK /\ GitIsTaken
  BY GitInvTrue
<1>2. GitInit => SaidInv
  BY DEF GitInit, SaidInv, NoRun
<1> QED
  BY <1>1, <1>2, GitInitInv, GitNextInv, SaidNextInv, PTL DEF GitSpec
----------------------------------------------------------------------------
(* Replay *)

\* What is read of a file, line by line, exists.
ReadsTo(f, keys, file, m) ==
    f = [n \in 0 .. m |-> IF n = 0 THEN Start(keys) ELSE Consume(f[n - 1], file[n])]

LEMMA ReadExists ==
    ASSUME NEW keys, NEW file, NEW n \in Nat
    PROVE  \E f : ReadsTo(f, keys, file, n)
<1> DEFINE bad == {k \in Nat : ~\E f : ReadsTo(f, keys, file, k)}
<1>1. ASSUME bad # {} PROVE FALSE
  <2>1. PICK m \in bad : \A k \in bad : m <= k
    BY <1>1, SmallestNumber
  <2>2. CASE m = 0
    <3>1. ReadsTo([k \in 0 .. 0 |-> Start(keys)], keys, file, 0)
      BY DEF ReadsTo
    <3> QED
      BY <2>1, <2>2, <3>1
  <2>3. CASE m # 0
    <3>1. m - 1 \in Nat /\ m - 1 \notin bad
      BY <2>1, <2>3
    <3>2. PICK f : ReadsTo(f, keys, file, m - 1)
      BY <3>1
    <3> DEFINE g == [k \in 0 .. m |-> IF k = 0 THEN Start(keys) ELSE Consume(f[k - 1], file[k])]
    <3>3. \A k \in 0 .. m - 1 : g[k] = f[k]
      <4>1. \A k \in 0 .. m - 1 : f[k] = IF k = 0 THEN Start(keys) ELSE Consume(f[k - 1], file[k])
        BY <3>2 DEF ReadsTo
      <4>2. \A k \in 0 .. m - 1 : k \in 0 .. m
        BY <2>1
      <4> QED
        BY <4>1, <4>2
    <3>4. \A k \in 0 .. m : k # 0 => k - 1 \in 0 .. m - 1
      BY <2>1
    <3>5. ReadsTo(g, keys, file, m)
      BY <3>3, <3>4 DEF ReadsTo
    <3> QED
      BY <2>1, <3>5
  <2> QED
    BY <2>2, <2>3
<1> QED
  BY <1>1

Fields == {"ended", "lines", "records", "seen", "keys", "skipped", "all", "theirs", "indexes", "reasons",
           "summed", "next"}
Tallies(st) ==
    /\ DOMAIN st = Fields /\ st.lines \in Nat /\ st.records \in Nat /\ st.skipped \in Nat
    /\ st.all \in Nat /\ st.theirs \in Nat

\* What a line may do: nothing more after the end, ...
Stops(st, to) ==
    /\ to.ended /\ to.seen = st.seen /\ to.keys = st.keys /\ to.next = st.next
    /\ to.summed = st.summed /\ to.theirs = st.theirs /\ to.all >= st.all /\ to.records >= st.records

\* ... a fault of this side, ...
Faults(st, to) ==
    /\ to.ended = st.ended /\ to.seen = st.seen /\ to.keys = st.keys /\ to.next = st.next
    /\ to.summed = st.summed \/ to.summed
    /\ to.theirs = st.theirs /\ to.all = st.all + 1
    /\ to.records = st.records \/ (to.records = st.records + 1 /\ to.records <= MostRecords)

\* ... what the producer keeps back, ...
HoldsBack(st, to, l) ==
    /\ l.type = "quarantine" /\ ~st.summed
    /\ to.ended = st.ended /\ to.seen = st.seen /\ to.keys = st.keys /\ to.next = st.next
    /\ to.summed = st.summed /\ to.records = st.records
    /\ to.theirs = st.theirs + 1 /\ to.all = st.all + 1

\* ... a record that is imported, unless it was, ...
TakesIn(st, to, l) ==
    /\ l.type = "record" /\ ~st.summed /\ l.ours /\ l.safe
    /\ to.ended = st.ended /\ to.next = st.next /\ to.summed = st.summed
    /\ to.theirs = st.theirs /\ to.all = st.all
    /\ to.records = st.records + 1 /\ to.records <= MostRecords
    /\ \/ l.key \in st.seen /\ to.seen = st.seen /\ to.keys = st.keys
       \/ l.key \notin st.seen /\ to.seen = st.seen \cup {l.key} /\ to.keys = Reported(st, l.key)

\* ... or the summary.
SumsUp(st, to, l) ==
    /\ l.type = "summary" /\ ~st.summed
    /\ to.ended = st.ended /\ to.seen = st.seen /\ to.keys = st.keys
    /\ to.summed /\ to.next = {l.next} /\ to.records = st.records
    /\ to.theirs = st.theirs /\ to.all = st.all

LineDoes(st, to, l) == Stops(st, to) \/ Faults(st, to) \/ HoldsBack(st, to, l) \/ TakesIn(st, to, l) \/ SumsUp(st, to, l)

LEMMA QuarantineIs ==
    ASSUME NEW st, Tallies(st), NEW reason
    PROVE  LET to == Quarantine(st, reason) IN
           /\ Tallies(to) /\ to.all = st.all + 1
           /\ \A x \in Fields \ {"all", "reasons"} : to[x] = st[x]
<1>1. PICK to : to = Quarantine(st, reason)
  OBVIOUS
<1>2. DOMAIN to = Fields /\ to.all = st.all + 1 /\ \A x \in Fields \ {"all", "reasons"} : to[x] = st[x]
  BY <1>1 DEF Quarantine, Tallies, Fields
<1>3. Tallies(to)
  BY <1>2 DEF Tallies, Fields
<1> QED
  BY <1>1, <1>2, <1>3

LEMMA RecordDoes ==
    ASSUME NEW st, Tallies(st), NEW l, l.type = "record", ~st.summed, ~st.ended
    PROVE  LET to == ConsumeRecord(st, l) IN Tallies(to) /\ LineDoes(st, to, l)
<1>1. PICK now : now = [st EXCEPT !.records = @ + 1, !.indexes = @ \cup {l.index}]
  OBVIOUS
<1>2. /\ Tallies(now) /\ now.records = st.records + 1
      /\ \A x \in Fields \ {"records", "indexes"} : now[x] = st[x]
  <2>1. PICK x : x = st.indexes \cup {l.index}
    OBVIOUS
  <2>2. now = [st EXCEPT !.records = @ + 1, !.indexes = x]
    BY <1>1, <2>1
  <2>3. DOMAIN now = Fields /\ now.records = st.records + 1
    BY <2>2 DEF Tallies, Fields
  <2>4. \A y \in Fields \ {"records", "indexes"} : now[y] = st[y]
    BY <2>2 DEF Tallies
  <2> QED
    BY <2>3, <2>4 DEF Tallies, Fields
<1>3. PICK to : to = ConsumeRecord(st, l)
  OBVIOUS
<1>4. \A r : LET q == Quarantine(now, r) IN
         /\ Tallies(q) /\ q.all = now.all + 1 /\ \A x \in Fields \ {"all", "reasons"} : q[x] = now[x]
  BY <1>2, QuarantineIs
<1>5. CASE now.records > MostRecords
  <2>1. PICK q : q = Quarantine(now, "record-limit")
    OBVIOUS
  <2>2. to = [q EXCEPT !.ended = TRUE]
    BY <1>1, <1>2, <1>3, <1>5, <2>1, PccAssumption DEF ConsumeRecord, Tallies
  <2>3. Tallies(q) /\ q.all = now.all + 1 /\ \A x \in Fields \ {"all", "reasons"} : q[x] = now[x]
    BY <1>4, <2>1
  <2>4. Tallies(to) /\ to.ended /\ to.all = now.all + 1 /\ \A x \in Fields \ {"all", "reasons", "ended"} : to[x] = now[x]
    BY <2>2, <2>3 DEF Tallies, Fields
  <2>5. Stops(st, to)
    BY <1>2, <2>4 DEF Stops, Tallies, Fields
  <2> QED
    BY <1>3, <2>4, <2>5 DEF LineDoes
<1>6. CASE now.records <= MostRecords /\ ~l.ours
  <2>1. to = Quarantine(now, "profile-mismatch")
    BY <1>1, <1>2, <1>3, <1>6, PccAssumption DEF ConsumeRecord, Tallies
  <2>2. Tallies(to) /\ Faults(st, to)
    BY <1>2, <1>4, <1>6, <2>1 DEF Faults, Tallies, Fields
  <2> QED
    BY <1>3, <2>2 DEF LineDoes
<1>7. CASE now.records <= MostRecords /\ l.ours /\ ~l.safe
  <2>1. to = Quarantine(now, "policy-denied")
    BY <1>1, <1>2, <1>3, <1>7, PccAssumption DEF ConsumeRecord, Tallies
  <2>2. Tallies(to) /\ Faults(st, to)
    BY <1>2, <1>4, <1>7, <2>1 DEF Faults, Tallies, Fields
  <2> QED
    BY <1>3, <2>2 DEF LineDoes
<1>8. CASE now.records <= MostRecords /\ l.ours /\ l.safe
  <2>1. to = IF l.key \in now.seen THEN [now EXCEPT !.skipped = @ + 1]
             ELSE [now EXCEPT !.seen = @ \cup {l.key}, !.keys = Reported(now, l.key)]
    BY <1>1, <1>2, <1>3, <1>8, PccAssumption DEF ConsumeRecord, Tallies
  <2>2. Tallies(to)
    BY <1>2, <2>1 DEF Tallies, Fields
  <2>3. Reported(now, l.key) = Reported(st, l.key)
    BY <1>2 DEF Reported, Fields
  <2>4. \A x \in Fields \ {"skipped", "seen", "keys"} : to[x] = now[x]
    BY <1>2, <2>1 DEF Tallies, Fields
  <2>5. \/ l.key \in st.seen /\ to.seen = st.seen /\ to.keys = st.keys
        \/ l.key \notin st.seen /\ to.seen = st.seen \cup {l.key} /\ to.keys = Reported(st, l.key)
    BY <1>2, <2>1, <2>3 DEF Tallies, Fields
  <2>6. TakesIn(st, to, l)
    BY <1>2, <1>8, <2>4, <2>5 DEF TakesIn, Fields
  <2> QED
    BY <1>3, <2>2, <2>6 DEF LineDoes
<1>9. now.records > MostRecords \/ now.records <= MostRecords
  BY <1>2, PccAssumption DEF Tallies
<1> QED
  BY <1>5, <1>6, <1>7, <1>8, <1>9

LEMMA SummaryDoes ==
    ASSUME NEW st, Tallies(st), NEW l, l.type = "summary", ~st.summed, ~st.ended
    PROVE  LET to == ConsumeSummary(st, l) IN Tallies(to) /\ LineDoes(st, to, l)
<1>1. PICK now : now = [st EXCEPT !.summed = TRUE]
  OBVIOUS
<1>2. Tallies(now) /\ now.summed /\ \A x \in Fields \ {"summed"} : now[x] = st[x]
  BY <1>1 DEF Tallies, Fields
<1>3. PICK to : to = ConsumeSummary(st, l)
  OBVIOUS
<1>4. ASSUME NEW r, to = Quarantine(now, r) PROVE Tallies(to) /\ LineDoes(st, to, l)
  <2>1. Tallies(to) /\ to.all = now.all + 1 /\ \A x \in Fields \ {"all", "reasons"} : to[x] = now[x]
    BY <1>2, <1>4, QuarantineIs
  <2>2. Faults(st, to)
    BY <1>2, <2>1 DEF Faults, Fields
  <2> QED
    BY <2>1, <2>2 DEF LineDoes
<1>5. ASSUME to = [now EXCEPT !.next = {l.next}] PROVE Tallies(to) /\ LineDoes(st, to, l)
  <2>1. Tallies(to) /\ to.next = {l.next} /\ \A x \in Fields \ {"next"} : to[x] = now[x]
    BY <1>2, <1>5 DEF Tallies, Fields
  <2>2. SumsUp(st, to, l)
    BY <1>2, <2>1 DEF SumsUp, Fields
  <2> QED
    BY <2>1, <2>2 DEF LineDoes
<1>6. st.records \in Nat /\ st.theirs \in Nat
  BY DEF Tallies
<1>7. \/ to = Quarantine(now, "summary-no-scope") \/ to = Quarantine(now, "summary-mismatch")
      \/ to = [now EXCEPT !.next = {l.next}]
  BY <1>1, <1>3, <1>6 DEF ConsumeSummary
<1> QED
  BY <1>3, <1>4, <1>5, <1>7

LEMMA QuarantineDoes ==
    ASSUME NEW st, Tallies(st), NEW l, l.type = "quarantine", ~st.summed, ~st.ended
    PROVE  LET to == ConsumeQuarantine(st, l) IN Tallies(to) /\ LineDoes(st, to, l)
<1>1. PICK to : to = ConsumeQuarantine(st, l)
  OBVIOUS
<1>2. CASE ~l.ours
  <2>1. Tallies(to) /\ to.all = st.all + 1 /\ \A x \in Fields \ {"all", "reasons"} : to[x] = st[x]
    BY <1>1, <1>2, QuarantineIs DEF ConsumeQuarantine
  <2>2. Faults(st, to)
    BY <2>1 DEF Faults, Fields
  <2> QED
    BY <1>1, <2>1, <2>2 DEF LineDoes
<1>3. CASE l.ours
  <2>1. PICK q : q = Quarantine(st, l.reason)
    OBVIOUS
  <2>2. Tallies(q) /\ q.all = st.all + 1 /\ \A x \in Fields \ {"all", "reasons"} : q[x] = st[x]
    BY <2>1, QuarantineIs
  <2>3. PICK x : x = q.indexes \cup {l.index}
    OBVIOUS
  <2>4. to = [q EXCEPT !.theirs = @ + 1, !.indexes = x]
    BY <1>1, <1>3, <2>1, <2>3 DEF ConsumeQuarantine
  <2>5. DOMAIN to = Fields /\ to.theirs = q.theirs + 1
    BY <2>2, <2>4 DEF Tallies, Fields
  <2>6. \A y \in Fields \ {"theirs", "indexes"} : to[y] = q[y]
    BY <2>2, <2>4 DEF Tallies
  <2>7. Tallies(to)
    BY <2>2, <2>5, <2>6 DEF Tallies, Fields
  <2>8. HoldsBack(st, to, l)
    BY <2>2, <2>5, <2>6 DEF HoldsBack, Fields
  <2> QED
    BY <1>1, <2>7, <2>8 DEF LineDoes
<1> QED
  BY <1>2, <1>3

LineTypes == {"garbled", "endless", "record", "quarantine", "summary"}

LEMMA ConsumeDoes ==
    ASSUME NEW st, Tallies(st), NEW l, l.type \in LineTypes
    PROVE  LET to == Consume(st, l) IN Tallies(to) /\ LineDoes(st, to, l)
<1>1. PICK to : to = Consume(st, l)
  OBVIOUS
<1>2. CASE st.ended
  <2>1. to = st
    BY <1>1, <1>2 DEF Consume
  <2> QED
    BY <1>1, <1>2, <2>1 DEF LineDoes, Stops, Tallies
<1>3. CASE ~st.ended /\ st.lines >= MostLines
  <2>1. PICK q : q = Quarantine(st, "input-limit")
    OBVIOUS
  <2>2. to = [q EXCEPT !.ended = TRUE]
    BY <1>1, <1>3, <2>1 DEF Consume
  <2>3. Tallies(q) /\ q.all = st.all + 1 /\ \A x \in Fields \ {"all", "reasons"} : q[x] = st[x]
    BY <2>1, QuarantineIs
  <2>4. Tallies(to) /\ to.ended /\ to.all = st.all + 1 /\ \A x \in Fields \ {"all", "reasons", "ended"} : to[x] = st[x]
    BY <2>2, <2>3 DEF Tallies, Fields
  <2>5. Stops(st, to)
    BY <2>4 DEF Stops, Tallies, Fields
  <2> QED
    BY <1>1, <2>4, <2>5 DEF LineDoes
<1>4. CASE ~st.ended /\ ~(st.lines >= MostLines)
  <2>1. PICK now : now = [st EXCEPT !.lines = @ + 1]
    OBVIOUS
  <2>2. Tallies(now) /\ \A x \in Fields \ {"lines"} : now[x] = st[x]
    BY <2>1 DEF Tallies, Fields
  <2>3. ~now.ended /\ (now.summed <=> st.summed)
    BY <1>4, <2>2 DEF Fields
  <2>4. ASSUME LineDoes(now, to, l) PROVE LineDoes(st, to, l)
    <3>1. now.seen = st.seen /\ now.keys = st.keys /\ now.next = st.next /\ now.summed = st.summed
          /\ now.theirs = st.theirs /\ now.all = st.all /\ now.records = st.records /\ now.ended = st.ended
      BY <2>2 DEF Fields
    <3>2. Reported(now, l.key) = Reported(st, l.key)
      BY <3>1 DEF Reported
    <3> QED
      BY <2>4, <3>1, <3>2 DEF LineDoes, Stops, Faults, HoldsBack, TakesIn, SumsUp
  <2>5. ASSUME NEW r, to = Quarantine(now, r) PROVE Tallies(to) /\ LineDoes(now, to, l)
    <3>1. Tallies(to) /\ to.all = now.all + 1 /\ \A x \in Fields \ {"all", "reasons"} : to[x] = now[x]
      BY <2>2, <2>5, QuarantineIs
    <3>2. Faults(now, to)
      BY <3>1 DEF Faults, Fields
    <3> QED
      BY <3>1, <3>2 DEF LineDoes
  <2>6. CASE l.type = "garbled"
    <3>1. to = Quarantine(now, "invalid-json")
      BY <1>1, <1>4, <2>1, <2>6 DEF Consume
    <3> QED
      BY <1>1, <2>4, <2>5, <3>1
  <2>11. CASE l.type = "endless"
    <3>1. PICK q : q = Quarantine(now, "line-too-large")
      OBVIOUS
    <3>2. to = [q EXCEPT !.ended = TRUE]
      BY <1>1, <1>4, <2>1, <2>11, <3>1 DEF Consume
    <3>3. Tallies(q) /\ q.all = now.all + 1 /\ \A x \in Fields \ {"all", "reasons"} : q[x] = now[x]
      BY <2>2, <3>1, QuarantineIs
    <3>4. Tallies(to) /\ to.ended /\ to.all = now.all + 1 /\ \A x \in Fields \ {"all", "reasons", "ended"} : to[x] = now[x]
      BY <3>2, <3>3 DEF Tallies, Fields
    <3>5. Stops(now, to)
      BY <2>2, <3>4 DEF Stops, Tallies, Fields
    <3> QED
      BY <1>1, <2>4, <3>4, <3>5 DEF LineDoes
  <2>7. CASE l.type \notin {"endless", "garbled"} /\ st.summed
    <3>1. to = Quarantine(now, "trailing-after-summary")
      BY <1>1, <1>4, <2>1, <2>7 DEF Consume
    <3> QED
      BY <1>1, <2>4, <2>5, <3>1
  <2>8. CASE l.type = "record" /\ ~st.summed
    <3>1. to = ConsumeRecord(now, l)
      BY <1>1, <1>4, <2>1, <2>8 DEF Consume
    <3> QED
      BY <1>1, <2>2, <2>3, <2>4, <2>8, <3>1, RecordDoes
  <2>9. CASE l.type = "quarantine" /\ ~st.summed
    <3>1. to = ConsumeQuarantine(now, l)
      BY <1>1, <1>4, <2>1, <2>9 DEF Consume
    <3> QED
      BY <1>1, <2>2, <2>3, <2>4, <2>9, <3>1, QuarantineDoes
  <2>10. CASE l.type = "summary" /\ ~st.summed
    <3>1. to = ConsumeSummary(now, l)
      BY <1>1, <1>4, <2>1, <2>10 DEF Consume
    <3> QED
      BY <1>1, <2>2, <2>3, <2>4, <2>10, <3>1, SummaryDoes
  <2> QED
    BY <2>6, <2>7, <2>8, <2>9, <2>10, <2>11 DEF LineTypes
<1> QED
  BY <1>2, <1>3, <1>4

AllKeys == UNION {KeysOf(c) : c \in Cursors}
IsLine(l) == /\ l.type \in LineTypes
             /\ l.type = "record" => l.key \in AllKeys
             /\ l.type = "summary" => l.next \in Cursors

\* As long as there is no fault, every record read so far is imported, and a summary was the last line.
Faultless(st) == ~st.ended /\ st.all = st.theirs
WellSoFar(st, file, n) ==
    /\ \A m \in 1 .. n : file[m].type = "record" => file[m].ours /\ file[m].safe /\ file[m].key \in st.seen
    /\ \A m \in 1 .. n : file[m].type # "summary" \/ m = n
    /\ st.summed => n # 0 /\ file[n].type = "summary"
    /\ n # 0 /\ file[n].type = "summary" => st.summed
    /\ st.next # {} => st.next = {file[n].next}

WellRead(st, known, file, n) ==
    /\ Tallies(st) /\ st.theirs <= st.all
    /\ st.keys \in Seq(AllKeys) /\ IsInjective(st.keys)
    /\ ToSet(st.keys) \cap known = {} /\ st.seen = known \cup ToSet(st.keys)
    /\ Len(st.keys) <= st.records /\ (st.ended \/ st.records <= MostRecords)
    /\ st.next \subseteq Cursors /\ (st.next # {} => st.summed)
    /\ Faultless(st) => WellSoFar(st, file, n)

LEMMA AppendedIs ==
    ASSUME NEW K, NEW s \in Seq(K), IsInjective(s), NEW k \in K, k \notin ToSet(s)
    PROVE  /\ Append(s, k) \in Seq(K) /\ IsInjective(Append(s, k)) /\ Len(Append(s, k)) = Len(s) + 1
           /\ ToSet(Append(s, k)) = ToSet(s) \cup {k}
<1>1. PICK t : t = Append(s, k)
  OBVIOUS
<1>2. PICK n : n = Len(s) /\ n \in Nat /\ DOMAIN s = 1 .. n
  OBVIOUS
<1>3. /\ t \in Seq(K) /\ Len(t) = n + 1 /\ DOMAIN t = 1 .. n + 1 /\ t[n + 1] = k
      /\ \A m \in 1 .. n : t[m] = s[m]
  BY <1>1, <1>2
<1>4. ToSet(t) = ToSet(s) \cup {k}
  BY <1>2, <1>3 DEF ToSet
<1>5. \A m \in 1 .. n : s[m] # k
  BY <1>2 DEF ToSet
<1>6. \A a, b \in 1 .. n : s[a] = s[b] => a = b
  BY <1>2 DEF IsInjective
<1>7. ASSUME NEW a \in 1 .. n + 1, NEW b \in 1 .. n + 1, t[a] = t[b] PROVE a = b
  <2>1. a \in 1 .. n \/ a = n + 1
    BY <1>2
  <2>2. b \in 1 .. n \/ b = n + 1
    BY <1>2
  <2> QED
    BY <1>3, <1>5, <1>6, <1>7, <2>1, <2>2
<1>8. IsInjective(t)
  BY <1>3, <1>7 DEF IsInjective
<1> QED
  BY <1>1, <1>2, <1>3, <1>4, <1>8

LEMMA ReadsOn ==
    ASSUME NEW st, NEW known, NEW file, NEW n \in Nat, WellRead(st, known, file, n),
           IsLine(file[n + 1])
    PROVE  WellRead(Consume(st, file[n + 1]), known, file, n + 1)
<1>1. PICK l : l = file[n + 1]
  OBVIOUS
<1>2. PICK to : to = Consume(st, l)
  OBVIOUS
<1>3. Tallies(to) /\ LineDoes(st, to, l)
  BY <1>1, <1>2, ConsumeDoes DEF WellRead, IsLine
<1>4. /\ st.all \in Nat /\ st.theirs \in Nat /\ st.records \in Nat
      /\ to.all \in Nat /\ to.theirs \in Nat /\ to.records \in Nat
  BY <1>3 DEF Tallies, WellRead
<1>5. PICK len : len = Len(st.keys) /\ len \in Nat
  BY DEF WellRead
<1>6. ASSUME Stops(st, to) \/ Faults(st, to) \/ HoldsBack(st, to, l) \/ SumsUp(st, to, l)
      PROVE  to.keys = st.keys /\ to.seen = st.seen /\ to.records >= st.records /\ to.theirs <= to.all
             /\ (to.ended \/ to.records <= MostRecords)
             /\ to.next \subseteq Cursors /\ (to.next # {} => to.summed)
  <2>1. CASE Stops(st, to)
    BY <1>4, <2>1 DEF Stops, WellRead
  <2>2. CASE Faults(st, to)
    BY <1>4, <2>2 DEF Faults, WellRead
  <2>3. CASE HoldsBack(st, to, l)
    BY <1>4, <2>3 DEF HoldsBack, WellRead
  <2>4. CASE SumsUp(st, to, l)
    BY <1>1, <1>4, <2>4 DEF SumsUp, WellRead, IsLine
  <2> QED
    BY <1>6, <2>1, <2>2, <2>3, <2>4
<1>7. ASSUME TakesIn(st, to, l)
      PROVE  /\ to.keys \in Seq(AllKeys) /\ IsInjective(to.keys) /\ ToSet(to.keys) \cap known = {}
             /\ to.seen = known \cup ToSet(to.keys) /\ Len(to.keys) <= to.records
             /\ l.key \in to.seen /\ st.seen \subseteq to.seen
  <2>1. CASE l.key \in st.seen
    BY <1>4, <1>5, <1>7, <2>1 DEF TakesIn, WellRead
  <2>2. CASE l.key \notin st.seen
    <3>1. to.records = st.records + 1 /\ to.records <= MostRecords
          /\ to.seen = st.seen \cup {l.key} /\ to.keys = Reported(st, l.key)
      BY <1>7, <2>2 DEF TakesIn
    <3>2. Len(st.keys) < MostKeys
      BY <1>4, <1>5, <3>1, PccAssumption DEF WellRead
    <3>3. to.keys = Append(st.keys, l.key)
      BY <3>1, <3>2 DEF Reported
    <3>4. l.key \in AllKeys /\ l.key \notin ToSet(st.keys) /\ l.key \notin known
      BY <1>1, <1>7, <2>2 DEF TakesIn, IsLine, WellRead
    <3>5. st.keys \in Seq(AllKeys) /\ IsInjective(st.keys)
      BY DEF WellRead
    <3>6. /\ to.keys \in Seq(AllKeys) /\ IsInjective(to.keys) /\ Len(to.keys) = len + 1
          /\ ToSet(to.keys) = ToSet(st.keys) \cup {l.key}
      BY <1>5, <3>3, <3>4, <3>5, AppendedIs
    <3>7. Len(to.keys) <= to.records
      BY <1>4, <1>5, <3>1, <3>6 DEF WellRead
    <3> QED
      BY <3>1, <3>4, <3>6, <3>7 DEF WellRead
  <2> QED
    BY <2>1, <2>2
<1>8. ASSUME Faultless(to) PROVE WellSoFar(to, file, n + 1)
  <2>1. ~Stops(st, to) /\ ~Faults(st, to)
    BY <1>4, <1>8 DEF Faultless, Stops, Faults, WellRead
  <2>2. ASSUME HoldsBack(st, to, l) \/ TakesIn(st, to, l) \/ SumsUp(st, to, l)
        PROVE  Faultless(st) /\ ~st.summed
    BY <1>4, <1>8, <2>2 DEF Faultless, HoldsBack, TakesIn, SumsUp
  <2>3. HoldsBack(st, to, l) \/ TakesIn(st, to, l) \/ SumsUp(st, to, l)
    BY <1>3, <2>1 DEF LineDoes
  <2>4. WellSoFar(st, file, n) /\ ~st.summed /\ st.next = {}
    BY <2>2, <2>3 DEF WellRead
  <2>5. \A m \in 1 .. n : file[m].type # "summary"
    BY <2>4 DEF WellSoFar
  <2>6. st.seen \subseteq to.seen
    BY <1>7, <2>3 DEF HoldsBack, SumsUp
  <2>7. \A m \in 1 .. n : file[m].type = "record" => file[m].ours /\ file[m].safe /\ file[m].key \in to.seen
    BY <2>4, <2>6 DEF WellSoFar
  <2>8. l.type = "record" => l.ours /\ l.safe /\ l.key \in to.seen
    BY <1>7, <2>3 DEF HoldsBack, TakesIn, SumsUp
  <2>9. \A m \in 1 .. n + 1 : m \in 1 .. n \/ m = n + 1
    OBVIOUS
  <2>10. (to.summed => l.type = "summary") /\ (l.type = "summary" => to.summed)
         /\ (to.next # {} => to.next = {l.next})
    BY <2>3, <2>4 DEF HoldsBack, TakesIn, SumsUp
  <2> QED
    BY <1>1, <2>5, <2>7, <2>8, <2>9, <2>10 DEF WellSoFar
<1>9. CASE TakesIn(st, to, l)
  <2>1. to.theirs <= to.all /\ (to.ended \/ to.records <= MostRecords)
        /\ to.next \subseteq Cursors /\ (to.next # {} => to.summed)
    BY <1>9 DEF TakesIn, WellRead
  <2> QED
    BY <1>1, <1>2, <1>3, <1>7, <1>8, <1>9, <2>1 DEF WellRead
<1>10. CASE ~TakesIn(st, to, l)
  <2>1. to.keys = st.keys /\ to.seen = st.seen /\ to.records >= st.records /\ to.theirs <= to.all
        /\ (to.ended \/ to.records <= MostRecords)
        /\ to.next \subseteq Cursors /\ (to.next # {} => to.summed)
    BY <1>3, <1>6, <1>10 DEF LineDoes
  <2>2. Len(to.keys) <= to.records
    BY <1>4, <1>5, <2>1 DEF WellRead
  <2> QED
    BY <1>1, <1>2, <1>3, <1>8, <2>1, <2>2 DEF WellRead
<1> QED
  BY <1>9, <1>10

LEMMA ReadIsWell ==
    ASSUME NEW known, NEW file, Len(file) \in Nat, \A n \in 1 .. Len(file) : IsLine(file[n])
    PROVE  WellRead(ReadThrough(known, file), known, file, Len(file))
<1>1. PICK len : len = Len(file) /\ len \in Nat
  OBVIOUS
<1> DEFINE f == CHOOSE h : ReadsTo(h, known, file, len)
<1>2. ReadsTo(f, known, file, len)
  BY <1>1, ReadExists
<1>3. ReadThrough(known, file) = f[len]
  BY <1>1 DEF ReadThrough, ReadsTo
<1> HIDE DEF f
<1> DEFINE bad == {k \in 0 .. len : ~WellRead(f[k], known, file, k)}
<1>4. ASSUME bad # {} PROVE FALSE
  <2>1. PICK m \in bad : \A k \in bad : m <= k
    <3>1. bad \subseteq Nat
      OBVIOUS
    <3> HIDE DEF bad
    <3> QED
      BY <1>4, <3>1, SmallestNumber
  <2>2. f[m] = IF m = 0 THEN Start(known) ELSE Consume(f[m - 1], file[m])
    BY <1>2, <2>1 DEF ReadsTo
  <2>3. CASE m = 0
    <3>1. PICK st : st = Start(known)
      OBVIOUS
    <3>2. /\ Tallies(st) /\ st.all = 0 /\ st.theirs = 0 /\ st.keys = <<>> /\ st.seen = known
          /\ st.records = 0 /\ st.next = {} /\ st.summed = FALSE
      BY <3>1 DEF Start, Tallies, Fields
    <3>3. st.keys \in Seq(AllKeys) /\ IsInjective(st.keys) /\ ToSet(st.keys) = {} /\ Len(st.keys) = 0
      BY <3>2 DEF IsInjective, ToSet
    <3>4. WellSoFar(st, file, 0)
      BY <3>2 DEF WellSoFar
    <3>5. WellRead(st, known, file, 0)
      BY <3>2, <3>3, <3>4, PccAssumption DEF WellRead
    <3> QED
      BY <2>1, <2>2, <2>3, <3>1, <3>5
  <2>4. CASE m # 0
    <3>1. m - 1 \in 0 .. len /\ m - 1 \notin bad /\ m - 1 \in Nat /\ (m - 1) + 1 = m /\ m \in 1 .. len
      BY <1>1, <2>1, <2>4
    <3>2. WellRead(f[m - 1], known, file, m - 1)
      BY <3>1
    <3>3. IsLine(file[(m - 1) + 1])
      BY <1>1, <3>1
    <3>4. WellRead(Consume(f[m - 1], file[(m - 1) + 1]), known, file, (m - 1) + 1)
      BY <3>1, <3>2, <3>3, ReadsOn
    <3> QED
      BY <2>1, <2>2, <2>4, <3>1, <3>4
  <2> QED
    BY <2>3, <2>4
<1>5. WellRead(f[len], known, file, len)
  BY <1>1, <1>4
<1> QED
  BY <1>1, <1>3, <1>5

LEMMA ReceiptIs ==
    ASSUME NEW st, NEW file, WellRead(st, seen, file, Len(file)), at \in Cursors
    PROVE  LET r == ReceiptFor(st) IN
           /\ r.from = at /\ r.keys = st.keys /\ r.known = seen
           /\ r.skipped \in Nat /\ r.theirs \in 0 .. r.all
           /\ r.to = at \/ (Faultless(st) /\ st.summed /\ r.to \in st.next)
           /\ r.to = at /\ at # NoCursor => r.all > r.theirs
<1>1. PICK told : told = IF st.ended \/ st.next = {} THEN Quarantine(st, "missing-summary") ELSE st
  OBVIOUS
<1>2. Tallies(st) /\ st.theirs <= st.all /\ (st.next # {} => st.summed)
  BY DEF WellRead
<1>3. /\ Tallies(told) /\ told.theirs = st.theirs /\ told.keys = st.keys /\ told.next = st.next
      /\ told.ended = st.ended /\ told.summed = st.summed
      /\ st.ended \/ st.next = {} => told.all = st.all + 1
      /\ ~(st.ended \/ st.next = {}) => told.all = st.all
  <2>1. CASE st.ended \/ st.next = {}
    <3>1. told = Quarantine(st, "missing-summary")
      BY <1>1, <2>1
    <3>2. Tallies(told) /\ told.all = st.all + 1 /\ \A x \in Fields \ {"all", "reasons"} : told[x] = st[x]
      BY <1>2, <3>1, QuarantineIs
    <3> QED
      BY <2>1, <3>2 DEF Fields
  <2>2. CASE ~(st.ended \/ st.next = {})
    BY <1>1, <1>2, <2>2
  <2> QED
    BY <2>1, <2>2
<1>4. PICK next : next = IF Clean(told) THEN CHOOSE c \in told.next : TRUE ELSE at
  OBVIOUS
<1>5. PICK last : last = IF Clean(told) /\ next = at /\ next # NoCursor
                         THEN Quarantine(told, "cursor-unchanged") ELSE told
  OBVIOUS
<1>6. /\ Tallies(last) /\ last.theirs = told.theirs /\ last.keys = told.keys /\ last.all >= told.all
      /\ Clean(told) /\ next = at /\ next # NoCursor => last.all = told.all + 1
  <2>1. CASE Clean(told) /\ next = at /\ next # NoCursor
    <3>1. last = Quarantine(told, "cursor-unchanged")
      BY <1>5, <2>1
    <3>2. Tallies(last) /\ last.all = told.all + 1 /\ \A x \in Fields \ {"all", "reasons"} : last[x] = told[x]
      BY <1>3, <3>1, QuarantineIs
    <3>3. last.all >= told.all
      BY <1>3, <3>2 DEF Tallies
    <3> QED
      BY <3>2, <3>3 DEF Fields
  <2>2. CASE ~(Clean(told) /\ next = at /\ next # NoCursor)
    <3>1. last = told
      BY <1>5, <2>2
    <3> QED
      BY <1>3, <2>2, <3>1 DEF Tallies
  <2> QED
    BY <2>1, <2>2
<1>7. PICK r : r = ReceiptFor(st)
  OBVIOUS
<1>8. r = [from |-> at, to |-> next, keys |-> last.keys, known |-> seen, skipped |-> last.skipped,
           reasons |-> last.reasons, all |-> last.all, theirs |-> last.theirs]
  BY <1>1, <1>4, <1>5, <1>7 DEF ReceiptFor
<1>9. r.from = at /\ r.to = next /\ r.keys = st.keys /\ r.known = seen /\ r.all = last.all
      /\ r.theirs = last.theirs /\ r.skipped = last.skipped
  BY <1>3, <1>6, <1>8
<1>10. /\ st.all \in Nat /\ st.theirs \in Nat /\ told.all \in Nat /\ last.all \in Nat /\ last.skipped \in Nat
       /\ last.theirs = st.theirs
  BY <1>2, <1>3, <1>6 DEF Tallies
<1>11. r.theirs \in 0 .. r.all /\ r.skipped \in Nat
  BY <1>2, <1>3, <1>6, <1>9, <1>10
<1>12. ASSUME Clean(told) PROVE Faultless(st) /\ st.summed /\ next \in st.next
  <2>1. ~told.ended /\ told.summed /\ told.next # {} /\ told.all = told.theirs
    BY <1>12 DEF Clean
  <2>2. ~st.ended /\ st.summed /\ st.next # {}
    BY <1>3, <2>1
  <2>3. st.all = st.theirs
    BY <1>3, <2>1, <2>2
  <2>4. next \in st.next
    BY <1>3, <1>4, <1>12, <2>2
  <2> QED
    BY <2>2, <2>3, <2>4 DEF Faultless
<1>13. next = at \/ Clean(told)
  BY <1>4
<1>14. ASSUME next = at, at # NoCursor PROVE r.all > r.theirs
  <2>1. CASE Clean(told)
    BY <1>2, <1>3, <1>6, <1>9, <1>10, <1>14, <2>1
  <2>2. CASE ~Clean(told)
    <3>1. CASE st.ended \/ st.next = {}
      BY <1>2, <1>3, <1>6, <1>9, <1>10, <3>1
    <3>2. CASE ~(st.ended \/ st.next = {})
      <4>1. told.all # told.theirs
        BY <1>2, <1>3, <2>2, <3>2 DEF Clean
      <4> QED
        BY <1>2, <1>3, <1>6, <1>9, <1>10, <3>2, <4>1
    <3> QED
      BY <3>1, <3>2
  <2> QED
    BY <2>1, <2>2
<1> QED
  BY <1>7, <1>9, <1>11, <1>12, <1>13, <1>14

LEMMA Joined ==
    ASSUME NEW K, NEW M, NEW s \in Seq(K), NEW u \in Seq(M), NEW len, len = Len(s), NEW m, m = Len(u)
    PROVE  /\ Len(s \o u) = len + m /\ \A n \in 1 .. len + m : n \in 1 .. len \/ n - len \in 1 .. m
           /\ \A n \in 1 .. len : (s \o u)[n] = s[n]
           /\ \A n \in 1 .. len + m : n - len \in 1 .. m => (s \o u)[n] = u[n - len]
<1>1. len \in Nat /\ m \in Nat
  OBVIOUS
<1>2. \A n \in 1 .. len + m : n \in 1 .. len \/ n - len \in 1 .. m
  BY <1>1
<1>3. Len(s \o u) = len + m
  OBVIOUS
<1>4. ASSUME NEW n \in 1 .. len PROVE (s \o u)[n] = s[n]
  BY <1>1
<1>5. ASSUME NEW n \in 1 .. len + m, n - len \in 1 .. m PROVE (s \o u)[n] = u[n - len]
  BY <1>1, <1>5
<1> QED
  BY <1>2, <1>3, <1>4, <1>5

\* A stream that was read without fault was read as it is.
LEMMA WholeStream ==
    ASSUME NEW c \in Cursors, NEW file \in FilesOf(Streams[c])
    PROVE  /\ Len(file) \in Nat /\ \A n \in 1 .. Len(file) : IsLine(file[n])
           /\ \A st : WellRead(st, seen, file, Len(file)) /\ Faultless(st) /\ st.summed =>
                 /\ \A l \in RecordsOf(c) : l.ours /\ l.safe /\ l.key \in st.seen
                 /\ st.next \subseteq LeadsTo(c)
<1> DEFINE s == Streams[c]
<1>1. ASSUME NEW b \in Cursors
      PROVE  /\ Streams[b] \in Seq(LinesOf(b)) /\ Len(Streams[b]) \in Nat /\ DOMAIN Streams[b] = 1 .. Len(Streams[b])
             /\ \A n \in 1 .. Len(Streams[b]) : IsLine(Streams[b][n]) /\ Streams[b][n] \in LinesOf(b)
             /\ Len(Streams[b]) >= 1
  <2>1. Streams[b] \in Seq(LinesOf(b)) /\ Streams[b] # <<>>
    BY ProducerAssumption
  <2>2. Len(Streams[b]) \in Nat /\ DOMAIN Streams[b] = 1 .. Len(Streams[b]) /\ Len(Streams[b]) >= 1
    BY <2>1
  <2>3. ASSUME NEW n \in DOMAIN Streams[b] PROVE IsLine(Streams[b][n]) /\ Streams[b][n] \in LinesOf(b)
    <3>1. PICK l : l = Streams[b][n]
      OBVIOUS
    <3>2. l \in LinesOf(b)
      BY <3>1 DEF LinesOf
    <3>3. l.type \in LineTypes
      BY <3>2, ProducerAssumption DEF LineTypes
    <3>4. l.type = "record" => l.key \in AllKeys
      BY <3>2 DEF AllKeys, KeysOf, RecordsOf
    <3>5. l.type = "summary" => l.next \in Cursors
      BY <3>2, ProducerAssumption DEF LeadsTo
    <3> QED
      BY <3>1, <3>2, <3>3, <3>4, <3>5 DEF IsLine
  <2> QED
    BY <2>1, <2>2, <2>3
<1>2. PICK len : len = Len(s) /\ len \in Nat /\ len >= 1
  BY <1>1
<1>3. /\ \A n \in 1 .. len : s[n].type = "summary" <=> n = len
      /\ \A n \in 1 .. len : IsLine(s[n])
  BY <1>1, <1>2, ProducerAssumption
<1> DEFINE P == Len(file) \in Nat /\ \A n \in 1 .. Len(file) : IsLine(file[n])
           Q == Len(file) # 0 /\ file[Len(file)].type = "summary" /\ (\A n \in 1 .. Len(file) : file[n].type = "summary" => n = Len(file))
           R == Len(file) = len /\ \A n \in 1 .. len : file[n] = s[n]
<1>4. ASSUME NEW b \in Cursors, file = s \o Streams[b] PROVE P /\ (Q => R)
  <2>1. PICK u : u = Streams[b]
    OBVIOUS
  <2>2. PICK m : m = Len(u) /\ m \in Nat /\ m >= 1
    BY <1>1, <2>1
  <2>3. u \in Seq(LinesOf(b)) /\ (\A n \in 1 .. m : IsLine(u[n])) /\ u[m].type = "summary"
    BY <1>1, <2>1, <2>2, ProducerAssumption
  <2>4. s \in Seq(LinesOf(c)) /\ s[len].type = "summary"
    BY <1>1, <1>2, <1>3
  <2> HIDE DEF s
  <2>5. /\ Len(file) = len + m /\ \A n \in 1 .. len + m : n \in 1 .. len \/ n - len \in 1 .. m
        /\ \A n \in 1 .. len : file[n] = s[n]
        /\ \A n \in 1 .. len + m : n - len \in 1 .. m => file[n] = u[n - len]
    BY <1>2, <1>4, <2>1, <2>2, <2>3, <2>4, Joined
  <2>6. \A n \in 1 .. len + m : IsLine(file[n])
    BY <1>3, <2>3, <2>5
  <2>7. P
    BY <1>2, <2>2, <2>5, <2>6
  <2>8. ~Q
    <3>1. file[len].type = "summary" /\ len \in 1 .. len + m /\ len # len + m
      BY <1>2, <2>2, <2>4, <2>5
    <3> QED
      BY <2>5, <3>1
  <2> QED
    BY <2>7, <2>8
<1>5. ASSUME NEW n \in 0 .. len, file = SubSeq(s, 1, n) PROVE P /\ (Q => R)
  <2>1. Len(file) = n /\ \A k \in 1 .. n : file[k] = s[k]
    <3>1. s \in Seq(LinesOf(c))
      BY <1>1
    <3> HIDE DEF s
    <3> QED
      BY <1>2, <1>5, <3>1
  <2>2. P
    BY <1>2, <1>3, <2>1
  <2>3. Q => n = len
    BY <1>2, <1>3, <2>1
  <2> QED
    BY <2>1, <2>2, <2>3
<1>6. ASSUME NEW n \in 0 .. len - 1, NEW y \in {"garbled", "endless"}, file = Append(SubSeq(s, 1, n), [type |-> y])
      PROVE P /\ (Q => R)
  <2>1. PICK t : t = SubSeq(s, 1, n)
    OBVIOUS
  <2>2. t \in Seq(LinesOf(c)) /\ Len(t) = n /\ \A k \in 1 .. n : t[k] = s[k]
    <3>1. s \in Seq(LinesOf(c))
      BY <1>1
    <3> HIDE DEF s
    <3> QED
      BY <1>2, <2>1, <3>1
  <2>3. PICK g : g = [type |-> y]
    OBVIOUS
  <2>4. Len(file) = n + 1 /\ file[n + 1] = g /\ \A k \in 1 .. n : file[k] = t[k]
    BY <1>6, <2>1, <2>2, <2>3
  <2>5. g.type = y /\ IsLine(g)
    BY <1>6, <2>3 DEF IsLine, LineTypes
  <2>6. P
    BY <1>2, <1>3, <2>2, <2>4, <2>5
  <2> QED
    BY <2>4, <2>5, <2>6
<1>7. ASSUME file = s PROVE P /\ (Q => R)
  BY <1>2, <1>3, <1>7
<1>8. P /\ (Q => R)
  BY <1>2, <1>4, <1>5, <1>6, <1>7 DEF FilesOf
<1>9. ASSUME NEW st, WellRead(st, seen, file, Len(file)), Faultless(st), st.summed
      PROVE  /\ \A l \in RecordsOf(c) : l.ours /\ l.safe /\ l.key \in st.seen
             /\ st.next \subseteq LeadsTo(c)
  <2>1. WellSoFar(st, file, Len(file))
    BY <1>9 DEF WellRead
  <2>2. Q
    BY <1>9, <2>1 DEF WellSoFar
  <2>3. R
    BY <1>8, <2>2
  <2>4. DOMAIN s = 1 .. len
    BY <1>1, <1>2
  <2>5. ASSUME NEW l \in RecordsOf(c) PROVE l.ours /\ l.safe /\ l.key \in st.seen
    <3>1. PICK n \in 1 .. len : l = s[n]
      BY <2>4 DEF RecordsOf, LinesOf
    <3>2. l.type = "record"
      BY DEF RecordsOf
    <3> QED
      BY <2>1, <2>3, <3>1, <3>2 DEF WellSoFar
  <2>6. st.next \subseteq LeadsTo(c)
    <3>1. s[len] \in LinesOf(c) /\ s[len].type = "summary"
      BY <1>1, <1>2, <1>3
    <3>2. st.next \subseteq {s[len].next}
      BY <1>2, <2>1, <2>3 DEF WellSoFar
    <3> HIDE DEF s
    <3> QED
      BY <3>1, <3>2 DEF LeadsTo
  <2> QED
    BY <2>5, <2>6
<1> QED
  BY <1>8, <1>9

\* What is met on the way back from a cursor.
WalksBack(f, c, m) ==
    f = [n \in 0 .. m |->
            IF n = 0 THEN {b \in Cursors : c \in LeadsTo(b)} ELSE
                f[n - 1] \cup {b \in Cursors : LeadsTo(b) \cap (f[n - 1] \ {NoCursor}) # {}}]

LEMMA WayBackExists ==
    ASSUME NEW c, NEW n \in Nat
    PROVE  \E f : WalksBack(f, c, n)
<1> DEFINE bad == {k \in Nat : ~\E f : WalksBack(f, c, k)}
           first == {b \in Cursors : c \in LeadsTo(b)}
           more(x) == x \cup {b \in Cursors : LeadsTo(b) \cap (x \ {NoCursor}) # {}}
<1>1. ASSUME bad # {} PROVE FALSE
  <2>1. PICK m \in bad : \A k \in bad : m <= k
    BY <1>1, SmallestNumber
  <2>2. CASE m = 0
    <3>1. WalksBack([k \in 0 .. 0 |-> first], c, 0)
      BY DEF WalksBack
    <3> QED
      BY <2>1, <2>2, <3>1
  <2>3. CASE m # 0
    <3>1. m - 1 \in Nat /\ m - 1 \notin bad
      BY <2>1, <2>3
    <3>2. PICK f : WalksBack(f, c, m - 1)
      BY <3>1
    <3> DEFINE g == [k \in 0 .. m |-> IF k = 0 THEN first ELSE more(f[k - 1])]
    <3>3. \A k \in 0 .. m - 1 : g[k] = f[k]
      <4>1. \A k \in 0 .. m - 1 : f[k] = IF k = 0 THEN first ELSE more(f[k - 1])
        BY <3>2 DEF WalksBack
      <4>2. \A k \in 0 .. m - 1 : k \in 0 .. m
        BY <2>1
      <4> HIDE DEF first, more
      <4> QED
        BY <4>1, <4>2
    <3>4. \A k \in 0 .. m : k # 0 => k - 1 \in 0 .. m - 1
      BY <2>1
    <3>5. g = [k \in 0 .. m |-> IF k = 0 THEN first ELSE more(g[k - 1])]
      <4> HIDE DEF first, more
      <4> QED
        BY <3>3, <3>4
    <3>6. WalksBack(g, c, m)
      BY <3>5 DEF WalksBack
    <3> QED
      BY <2>1, <3>6
  <2> QED
    BY <2>2, <2>3
<1> QED
  BY <1>1

\* A set that is left nowhere on the way back holds what lies before.
LEMMA BeforeIsWithin ==
    ASSUME NEW c, NEW X, {b \in Cursors : c \in LeadsTo(b)} \subseteq X,
           \A b \in Cursors : LeadsTo(b) \cap (X \ {NoCursor}) # {} => b \in X
    PROVE  Before(c) \subseteq X
<1>1. PICK len : len = Cardinality(Cursors) /\ len \in Nat
  BY PccAssumption, FS_CardinalityType
<1> DEFINE f == CHOOSE h : WalksBack(h, c, len)
<1>2. WalksBack(f, c, len)
  BY <1>1, WayBackExists
<1>3. Before(c) = f[len]
  BY <1>1 DEF Before, WalksBack
<1> HIDE DEF f
<1> DEFINE bad == {k \in 0 .. len : ~(f[k] \subseteq X)}
<1>4. ASSUME bad # {} PROVE FALSE
  <2>1. PICK m \in bad : \A k \in bad : m <= k
    <3>1. bad \subseteq Nat
      OBVIOUS
    <3> HIDE DEF bad
    <3> QED
      BY <1>4, <3>1, SmallestNumber
  <2>2. f[m] = IF m = 0 THEN {b \in Cursors : c \in LeadsTo(b)} ELSE
                   f[m - 1] \cup {b \in Cursors : LeadsTo(b) \cap (f[m - 1] \ {NoCursor}) # {}}
    BY <1>2, <2>1 DEF WalksBack
  <2>3. m # 0
    BY <2>1, <2>2
  <2>4. m - 1 \in 0 .. len /\ m - 1 \notin bad
    BY <1>1, <2>1, <2>3
  <2>5. f[m - 1] \subseteq X
    BY <2>4
  <2>6. \A b \in Cursors : LeadsTo(b) \cap (f[m - 1] \ {NoCursor}) # {} => b \in X
    BY <2>5
  <2>7. f[m] \subseteq X
    BY <2>2, <2>3, <2>5, <2>6
  <2> QED
    BY <2>1, <2>7
<1>5. f[len] \subseteq X
  BY <1>1, <1>4
<1> QED
  BY <1>3, <1>5

\* What has been read on the way to the cursor at hand: the streams of a set that is left nowhere on the way back.
IsTheWay(X) ==
    /\ X \subseteq Cursors
    /\ {b \in Cursors : at \in LeadsTo(b)} \subseteq X
    /\ \A b \in Cursors : LeadsTo(b) \cap (X \ {NoCursor}) # {} => b \in X
    /\ \A c \in X : KeysOf(c) \subseteq seen /\ \A l \in RecordsOf(c) : l.ours /\ l.safe

PccInv ==
    /\ at \in Cursors /\ seen \subseteq AllKeys
    /\ receipt.from \in Cursors /\ receipt.to \in Cursors
    /\ ToSet(receipt.keys) \subseteq AllKeys
    /\ receipt.skipped \in Nat /\ receipt.theirs \in 0 .. receipt.all
    /\ read \in 0 .. MaxFiles /\ lost \in 0 .. MaxLost
    /\ ImportedOnceByKey /\ StandingHasAReason
    /\ at # NoCursor => \E X : IsTheWay(X)

LEMMA PccInvStarts == PccInit => PccInv
<1> SUFFICES ASSUME PccInit PROVE PccInv
  OBVIOUS
<1>1. at = NoCursor /\ seen = {} /\ read = 0 /\ lost = 0
  BY DEF PccInit
<1>2. PICK r : r = receipt
  OBVIOUS
<1>3. r.from = NoCursor /\ r.to = NoCursor /\ r.keys = <<>> /\ r.known = {} /\ r.skipped = 0 /\ r.all = 0 /\ r.theirs = 0
  BY <1>2 DEF PccInit, NoReceipt
<1>4. ToSet(r.keys) = {} /\ IsInjective(r.keys)
  BY <1>3 DEF ToSet, IsInjective
<1> QED
  BY <1>1, <1>2, <1>3, <1>4, PccAssumption DEF PccInv, ImportedOnceByKey, StandingHasAReason

LEMMA CallAnswers ==
    ASSUME PccInv, NEW c \in {at, NoCursor}, NEW file \in FilesOf(Streams[c]), NEW r,
           r = ReceiptFor(ReadThrough(seen, file))
    PROVE  /\ r.from = at /\ r.to \in Cursors /\ ToSet(r.keys) \subseteq AllKeys
           /\ r.skipped \in Nat /\ r.theirs \in 0 .. r.all
           /\ IsInjective(r.keys) /\ ToSet(r.keys) \cap r.known = {}
           /\ r.to = r.from /\ r.from # NoCursor => r.all > r.theirs
           /\ \/ r.to = at
              \/ /\ r.to \in LeadsTo(c)
                 /\ \A l \in RecordsOf(c) : l.ours /\ l.safe /\ l.key \in seen \cup ToSet(r.keys)
<1>1. c \in Cursors /\ at \in Cursors
  BY PccAssumption DEF PccInv
<1>2. PICK st : st = ReadThrough(seen, file)
  OBVIOUS
<1>3. WellRead(st, seen, file, Len(file))
  BY <1>1, <1>2, WholeStream, ReadIsWell
<1>4. /\ r.from = at /\ r.keys = st.keys /\ r.known = seen
      /\ r.skipped \in Nat /\ r.theirs \in 0 .. r.all
      /\ r.to = at \/ (Faultless(st) /\ st.summed /\ r.to \in st.next)
      /\ r.to = at /\ at # NoCursor => r.all > r.theirs
  BY <1>1, <1>2, <1>3, ReceiptIs
<1>5. /\ st.keys \in Seq(AllKeys) /\ IsInjective(st.keys) /\ ToSet(st.keys) \cap seen = {}
      /\ st.seen = seen \cup ToSet(st.keys) /\ st.next \subseteq Cursors
  BY <1>3 DEF WellRead
<1>6. ToSet(st.keys) \subseteq AllKeys
  <2> HIDE DEF AllKeys
  <2> QED
    BY <1>5 DEF ToSet
<1>7. Faultless(st) /\ st.summed =>
         /\ \A l \in RecordsOf(c) : l.ours /\ l.safe /\ l.key \in st.seen
         /\ st.next \subseteq LeadsTo(c)
  BY <1>1, <1>3, WholeStream
<1> QED
  BY <1>1, <1>4, <1>5, <1>6, <1>7

LEMMA PccInvStays == PccInv /\ [PccNext]_pccVars => PccInv'
<1> SUFFICES ASSUME PccInv, [PccNext]_pccVars PROVE PccInv'
  OBVIOUS
<1>1. CASE UNCHANGED pccVars
  BY <1>1 DEF pccVars, PccInv, IsTheWay, ImportedOnceByKey, StandingHasAReason
<1>2. CASE PccNext
  <2>1. PICK c \in {at, NoCursor} : \E file \in FilesOf(Streams[c]) : Replay(file) \/ ReplayLost(file)
    BY <1>2 DEF PccNext
  <2>2. PICK file \in FilesOf(Streams[c]) : Replay(file) \/ ReplayLost(file)
    BY <2>1
  <2>3. PICK r : r = ReceiptFor(ReadThrough(seen, file))
    OBVIOUS
  <2>4. /\ r.from = at /\ r.to \in Cursors /\ ToSet(r.keys) \subseteq AllKeys
        /\ r.skipped \in Nat /\ r.theirs \in 0 .. r.all
        /\ IsInjective(r.keys) /\ ToSet(r.keys) \cap r.known = {}
        /\ r.to = r.from /\ r.from # NoCursor => r.all > r.theirs
        /\ \/ r.to = at
           \/ /\ r.to \in LeadsTo(c)
              /\ \A l \in RecordsOf(c) : l.ours /\ l.safe /\ l.key \in seen \cup ToSet(r.keys)
    BY <2>1, <2>2, <2>3, CallAnswers
  <2>5. receipt' = r /\ read' \in 0 .. MaxFiles /\ lost' \in 0 .. MaxLost
    BY <2>2, <2>3, PccAssumption DEF Replay, ReplayLost, PccInv
  <2>6. at \in Cursors /\ seen \subseteq AllKeys /\ c \in Cursors
    BY <2>1, PccAssumption DEF PccInv
  <2>7. CASE ReplayLost(file)
    <3>1. at' = at /\ seen' = seen
      BY <2>7 DEF ReplayLost
    <3>2. (\E X : IsTheWay(X)) <=> (\E X : IsTheWay(X))'
      BY <3>1 DEF IsTheWay
    <3> QED
      BY <2>4, <2>5, <2>6, <3>1, <3>2 DEF PccInv, ImportedOnceByKey, StandingHasAReason
  <2>8. CASE Replay(file)
    <3>1. at' = r.to /\ seen' = seen \cup ToSet(r.keys)
      BY <2>3, <2>8 DEF Replay
    <3>2. ASSUME at' # NoCursor PROVE (\E X : IsTheWay(X))'
      <4>1. CASE r.to = at
        <5>1. PICK X : IsTheWay(X)
          BY <3>1, <3>2, <4>1 DEF PccInv
        <5>2. IsTheWay(X)'
          BY <3>1, <4>1, <5>1 DEF IsTheWay
        <5> QED
          BY <5>2
      <4>2. CASE r.to # at
        <5>1. /\ r.to \in LeadsTo(c)
              /\ \A l \in RecordsOf(c) : l.ours /\ l.safe /\ l.key \in seen'
          BY <2>4, <3>1, <4>2
        <5>2. {b \in Cursors : at' \in LeadsTo(b)} \subseteq {c}
          BY <2>6, <3>1, <3>2, <5>1, ProducerAssumption
        <5>3. PICK W : /\ W \subseteq Cursors
                       /\ \A b \in Cursors : LeadsTo(b) \cap (W \ {NoCursor}) # {} => b \in W
                       /\ \A d \in W : KeysOf(d) \subseteq seen /\ \A l \in RecordsOf(d) : l.ours /\ l.safe
                       /\ c # NoCursor => {b \in Cursors : c \in LeadsTo(b)} \subseteq W
          <6>1. CASE c = NoCursor
            <7>1. /\ {} \subseteq Cursors
                  /\ \A b \in Cursors : LeadsTo(b) \cap ({} \ {NoCursor}) # {} => b \in {}
              OBVIOUS
            <7> QED
              BY <6>1, <7>1
          <6>2. CASE c # NoCursor
            <7>1. PICK X : IsTheWay(X)
              BY <2>1, <6>2 DEF PccInv
            <7> QED
              BY <2>1, <6>2, <7>1 DEF IsTheWay
          <6> QED
            BY <6>1, <6>2
        <5>4. PICK X : X = W \cup {c}
          OBVIOUS
        <5>5. KeysOf(c) \subseteq seen'
          BY <5>1 DEF KeysOf
        <5>6. ASSUME NEW b \in Cursors, LeadsTo(b) \cap (X \ {NoCursor}) # {} PROVE b \in X
          BY <5>3, <5>4, <5>6
        <5>7. \A d \in X : KeysOf(d) \subseteq seen' /\ \A l \in RecordsOf(d) : l.ours /\ l.safe
          BY <3>1, <5>1, <5>3, <5>4, <5>5
        <5>8. IsTheWay(X)'
          BY <2>6, <5>2, <5>3, <5>4, <5>6, <5>7 DEF IsTheWay
        <5> QED
          BY <5>8
      <4> QED
        BY <4>1, <4>2
    <3>3. seen' \subseteq AllKeys
      BY <2>4, <2>6, <3>1
    <3> QED
      BY <2>4, <2>5, <2>6, <3>1, <3>2, <3>3 DEF PccInv, ImportedOnceByKey, StandingHasAReason
  <2> QED
    BY <2>2, <2>7, <2>8
<1> QED
  BY <1>1, <1>2

LEMMA PccInvHolds == PccInv => PccTypeOK /\ ReceiptsAreTrue
<1> SUFFICES ASSUME PccInv PROVE PccTypeOK /\ ReceiptsAreTrue
  OBVIOUS
<1>1. PccTypeOK
  BY DEF PccInv, PccTypeOK, AllKeys
<1>2. ASSUME at # NoCursor, NEW c \in Before(at)
      PROVE  KeysOf(c) \subseteq seen /\ \A l \in RecordsOf(c) : l.ours /\ l.safe
  <2>1. PICK X : IsTheWay(X)
    BY <1>2 DEF PccInv
  <2>2. Before(at) \subseteq X
    BY <2>1, BeforeIsWithin DEF IsTheWay
  <2> QED
    BY <1>2, <2>1, <2>2 DEF IsTheWay
<1>3. PassedIsImported
  BY <1>2 DEF PassedIsImported
<1> QED
  BY <1>1, <1>3 DEF ReceiptsAreTrue, PccInv

LEMMA PccStays == PccSpec => [](PccTypeOK /\ ReceiptsAreTrue)
<1> QED
  BY PccInvStarts, PccInvStays, PccInvHolds, PTL DEF PccSpec
----------------------------------------------------------------------------
(* Patches *)

RowStates == {"none", "active", "archived"}
MemoryRows == [state: RowStates, ver: Nat, by: PatchIds, out: PatchIds]
PatchCalls == [pc: {"idle", "read", "adopt", "retire", "withdraw", "restore"}, patch: RunIds \cup {NoPatch},
               since: BOOLEAN, todo: SUBSET DOMAIN Rules, created: SUBSET Facts, archived: SUBSET Facts]

PatchTyped ==
    /\ memory \in [Facts -> MemoryRows]
    /\ \A f \in Facts : memory[f].state = "none" => memory[f].by = NoPatch /\ memory[f].out = NoPatch
    /\ DOMAIN basis \subseteq RunIds /\ disturbed \subseteq DOMAIN basis
    /\ basis = [p \in DOMAIN basis |-> basis[p]] /\ \A p \in DOMAIN basis : basis[p] \subseteq Facts
    /\ reviewers \in [Reviewers -> PatchCalls]
    /\ \A r \in Reviewers :
          /\ reviewers[r].pc \notin {"idle", "read"} => Patch(r) \in PatchIds
          /\ reviewers[r].pc \in {"withdraw", "restore"} => Patch(r) \in DOMAIN basis
          /\ reviewers[r].pc = "retire" => reviewers[r].todo # {}
    /\ turns \in 0 .. MaxTurns /\ dreams \in 0 .. MaxDreams

\* Rows have changed since the patch was previewed, or are not the patch's own.
IsMinted(p) ==
    p # NoPatch => \A f \in DOMAIN p.rows :
        /\ f \in Facts /\ p.rows[f] \in Nat /\ p.rows[f] <= memory[f].ver
        /\ memory[f].ver = p.rows[f] => Kept(f) /\ memory[f].by # p
Minted == (\A p \in DOMAIN basis : IsMinted(p)) /\ (\A r \in Reviewers : IsMinted(Patch(r)))

\* What was in use is in use or archived by the patch, what else is in use was created by it.
Stands(p) ==
    \A f \in Facts :
        /\ f \in basis[p] => Kept(f) /\ memory[f].by # p
        /\ f \in basis[p] => f \in InUse \/ (memory[f].state = "archived" /\ memory[f].out = p)
        /\ f \notin basis[p] /\ f \in InUse => memory[f].by = p
        /\ memory[f].out = p => f \in basis[p]

\* An apply retires nothing that the patch has created, and nobody undoes the patch meanwhile.
ApplyFits(p) ==
    \A r \in Reviewers : Patch(r) = p /\ reviewers[r].pc \in {"adopt", "retire"} =>
        /\ \A k \in reviewers[r].todo : \A f \in Rules[k].over : Kept(f) /\ memory[f].by # p
        /\ \A q \in Reviewers : Patch(q) = p => reviewers[q].pc \notin {"withdraw", "restore"}

\* A rollback knows of all there is to undo.
UndoFits(p) ==
    \A r \in Reviewers : Patch(r) = p =>
        /\ reviewers[r].pc = "withdraw" =>
              /\ \A f \in InUse : memory[f].by = p => f \in reviewers[r].created
              /\ \A f \in reviewers[r].created : memory[f].by = p
        /\ reviewers[r].pc = "restore" => \A f \in InUse : memory[f].by # p
        /\ reviewers[r].pc \in {"withdraw", "restore"} =>
              \A f \in Facts : memory[f].state = "archived" /\ memory[f].out = p => f \in reviewers[r].archived

IsSound(p) == Stands(p) /\ ApplyFits(p) /\ UndoFits(p)
PatchInv == PatchTyped /\ Minted /\ \A p \in DOMAIN basis \ disturbed : IsSound(p)

LEMMA NoPatchIsNone == PatchTyped => NoPatch \notin DOMAIN basis
BY PatchLifecycleAssumption DEF PatchTyped

LEMMA RowsWritten ==
    ASSUME PatchTyped, NEW f \in Facts, NEW s \in RowStates
    PROVE  /\ Written(f, s) \in MemoryRows /\ Written(f, s).state = s /\ Written(f, s).ver = memory[f].ver + 1
           /\ Written(f, s).by = memory[f].by /\ Written(f, s).out = memory[f].out
<1>1. PICK m \in MemoryRows : m = memory[f]
  BY DEF PatchTyped
<1>2. Written(f, s) = [m EXCEPT !.state = s, !.ver = m.ver + 1]
  BY <1>1 DEF Written
<1>3. m.ver + 1 \in Nat /\ m.by \in PatchIds /\ m.out \in PatchIds
  BY DEF MemoryRows
<1>4. [m EXCEPT !.state = s, !.ver = m.ver + 1] \in MemoryRows
  BY <1>3 DEF MemoryRows
<1> QED
  BY <1>1, <1>2, <1>4 DEF MemoryRows

\* What a step does to the rows: none is as before without being written, and all have their types.
RowsGrow == \A f \in Facts : memory'[f] = memory[f] \/ memory'[f].ver > memory[f].ver

LEMMA MintedStays ==
    ASSUME PatchTyped, memory' \in [Facts -> MemoryRows], RowsGrow, NEW p, IsMinted(p)
    PROVE  IsMinted(p)'
<1>1. ASSUME p # NoPatch, NEW f \in DOMAIN p.rows
      PROVE  /\ f \in Facts /\ p.rows[f] \in Nat /\ p.rows[f] <= memory'[f].ver
             /\ memory'[f].ver = p.rows[f] => memory'[f].state # "none" /\ memory'[f].by # p
  <2>1. /\ f \in Facts /\ p.rows[f] \in Nat /\ p.rows[f] <= memory[f].ver
        /\ memory[f].ver = p.rows[f] => Kept(f) /\ memory[f].by # p
    BY <1>1 DEF IsMinted
  <2>2. memory[f].ver \in Nat /\ memory'[f].ver \in Nat
    BY <2>1 DEF PatchTyped, MemoryRows
  <2> QED
    BY <2>1, <2>2 DEF RowsGrow, Kept
<1> QED
  BY <1>1 DEF IsMinted, Kept

LEMMA RunIdIs ==
    ASSUME PatchTyped, Minted, NEW s \in BOOLEAN
    PROVE  /\ RunId(s) \in RunIds /\ RunId(s) # NoPatch /\ IsMinted(RunId(s))
           /\ RunId(s).rows = [f \in {g \in Facts : g \in InUse \/ (s /\ Kept(g))} |-> memory[f].ver]
<1>1. PICK p : p = RunId(s)
  OBVIOUS
<1> DEFINE D == {g \in Facts : g \in InUse \/ (s /\ Kept(g))}
<1>2. p = [since |-> s, rows |-> [f \in D |-> memory[f].ver]]
  BY <1>1 DEF RunId
<1>3. \A f \in Facts : memory[f].ver \in Nat /\ memory[f].by \in PatchIds
  BY DEF PatchTyped, MemoryRows
<1>4. [f \in D |-> memory[f].ver] \in [D -> Nat] /\ D \in SUBSET Facts
  BY <1>3
<1>5. \A f \in D : Kept(f)
  BY DEF InUse, Kept
<1> HIDE DEF D
<1>6. p \in RunIds /\ p.rows = [f \in D |-> memory[f].ver]
  BY <1>2, <1>4 DEF RunIds
<1>7. p # NoPatch
  BY <1>6, PatchLifecycleAssumption
<1>8. ASSUME NEW f \in D PROVE memory[f].by # p
  <2>1. CASE p \in DOMAIN basis
    <3>1. IsMinted(p)
      BY <2>1 DEF Minted
    <3>2. f \in DOMAIN p.rows /\ p.rows[f] = memory[f].ver
      BY <1>6
    <3> QED
      BY <1>7, <3>1, <3>2 DEF IsMinted
  <2>2. CASE p \notin DOMAIN basis
    BY <1>3, <1>4, <1>7, <2>2 DEF PatchIds
  <2> QED
    BY <2>1, <2>2
<1>9. IsMinted(p)
  BY <1>3, <1>4, <1>5, <1>6, <1>8 DEF IsMinted
<1> QED
  BY <1>1, <1>6, <1>7, <1>9 DEF D

LEMMA PatchInvStarts == PatchInit => PatchInv
<1> SUFFICES ASSUME PatchInit PROVE PatchInv
  OBVIOUS
<1> USE DEF PatchInit
<1>1. DOMAIN basis = {}
  OBVIOUS
<1>2. NoRow \in MemoryRows /\ [NoRow EXCEPT !.state = "active"] \in MemoryRows
  BY DEF NoRow, MemoryRows, RowStates, PatchIds
<1>3. memory \in [Facts -> MemoryRows]
  BY <1>2
<1>4. \A f \in Facts : memory[f].state = "none" => memory[f].by = NoPatch /\ memory[f].out = NoPatch
  BY DEF NoRow
<1>5. NotReviewing \in PatchCalls /\ NotReviewing.pc = "idle" /\ NotReviewing.patch = NoPatch
  BY DEF NotReviewing, PatchCalls
<1>6. PatchTyped
  BY SMTT(20), <1>1, <1>3, <1>4, <1>5, PatchLifecycleAssumption DEF PatchTyped
<1>7. Minted
  BY <1>1, <1>5 DEF Minted, Patch, IsMinted
<1> QED
  BY <1>1, <1>6, <1>7 DEF PatchInv

\* A step of a caller that leaves the rows alone.
LEMMA MoveKeeps ==
    ASSUME PatchInv, NEW r \in Reviewers, NEW to \in PatchCalls, Turn(r, to), UNCHANGED <<memory, basis>>,
           disturbed \subseteq disturbed', disturbed' \subseteq DOMAIN basis,
           turns' \in 0 .. MaxTurns, dreams' \in 0 .. MaxDreams, IsMinted(to.patch),
           to.pc \notin {"idle", "read"} => to.patch \in PatchIds,
           to.pc \in {"withdraw", "restore"} => to.patch \in DOMAIN basis,
           to.pc = "retire" => to.todo # {},
           to.patch \in DOMAIN basis \ disturbed' =>
              /\ to.pc \in {"adopt", "retire"} =>
                    /\ \A k \in to.todo : \A f \in Rules[k].over : Kept(f) /\ memory[f].by # to.patch
                    /\ \A q \in Reviewers \ {r} : Patch(q) = to.patch => reviewers[q].pc \notin {"withdraw", "restore"}
              /\ to.pc \in {"withdraw", "restore"} =>
                    /\ \A q \in Reviewers \ {r} : Patch(q) = to.patch => reviewers[q].pc \notin {"adopt", "retire"}
                    /\ \A f \in Facts : memory[f].state = "archived" /\ memory[f].out = to.patch => f \in to.archived
              /\ to.pc = "withdraw" =>
                    /\ \A f \in InUse : memory[f].by = to.patch => f \in to.created
                    /\ \A f \in to.created : memory[f].by = to.patch
              /\ to.pc = "restore" => \A f \in InUse : memory[f].by # to.patch
    PROVE  PatchInv'
<1>1. reviewers' = [reviewers EXCEPT ![r] = to] /\ reviewers \in [Reviewers -> PatchCalls]
  BY DEF Turn, PatchInv, PatchTyped
<1>2. /\ reviewers' \in [Reviewers -> PatchCalls] /\ reviewers'[r] = to
      /\ \A q \in Reviewers \ {r} : reviewers'[q] = reviewers[q]
  BY <1>1
<1>3. PatchTyped'
  BY <1>2 DEF PatchInv, PatchTyped, Patch, PatchIds, MemoryRows
<1>4. Minted'
  BY <1>2 DEF PatchInv, Minted, IsMinted, Patch, Kept
<1>5. ASSUME NEW p \in DOMAIN basis \ disturbed' PROVE IsSound(p)'
  <2>1. IsSound(p) /\ p \in DOMAIN basis \ disturbed
    BY <1>5 DEF PatchInv
  <2>2. Stands(p)'
    BY <2>1 DEF IsSound, Stands, Kept, InUse
  <2>3. ApplyFits(p)'
    BY <1>2, <1>5, <2>1 DEF IsSound, ApplyFits, Kept, Patch
  <2>4. UndoFits(p)'
    BY <1>2, <1>5, <2>1 DEF IsSound, UndoFits, InUse, Patch
  <2> QED
    BY <2>2, <2>3, <2>4 DEF IsSound
<1> QED
  BY <1>3, <1>4, <1>5 DEF PatchInv

\* A step that writes rows leaves but its own patch undisturbed.
LEMMA WriteKeeps ==
    ASSUME PatchInv, memory' \in [Facts -> MemoryRows], RowsGrow, UNCHANGED basis,
           \A f \in Facts : memory'[f].state = "none" => memory'[f].by = NoPatch /\ memory'[f].out = NoPatch,
           reviewers' \in [Reviewers -> PatchCalls], \A r \in Reviewers : Patch(r)' \in {Patch(r), NoPatch},
           \A r \in Reviewers :
              /\ reviewers'[r].pc \notin {"idle", "read"} => Patch(r)' \in PatchIds
              /\ reviewers'[r].pc \in {"withdraw", "restore"} => Patch(r)' \in DOMAIN basis
              /\ reviewers'[r].pc = "retire" => reviewers'[r].todo # {},
           turns' \in 0 .. MaxTurns, dreams' \in 0 .. MaxDreams, NEW own, Disturbs(own),
           own \in DOMAIN basis \ disturbed => IsSound(own)'
    PROVE  PatchInv'
<1>1. disturbed' = disturbed \cup (DOMAIN basis \ {own})
  BY DEF Disturbs
<1>2. PatchTyped'
  BY <1>1 DEF PatchInv, PatchTyped, PatchIds, MemoryRows
<1>3. PatchTyped /\ Minted
  BY DEF PatchInv
<1>4. \A p \in DOMAIN basis : IsMinted(p)'
  BY <1>3, MintedStays DEF Minted
<1>5. ASSUME NEW r \in Reviewers PROVE (IsMinted(Patch(r)))'
  <2>1. PICK p : p = Patch(r)'
    OBVIOUS
  <2>2. p = Patch(r) \/ p = NoPatch
    BY <2>1
  <2>3. IsMinted(p)
    BY <1>3, <2>2 DEF Minted, IsMinted
  <2>4. IsMinted(p)'
    BY <1>3, <2>3, MintedStays
  <2> QED
    BY <2>1, <2>4 DEF IsMinted, Kept
<1>6. Minted'
  BY <1>4, <1>5 DEF Minted
<1>7. \A p \in DOMAIN basis \ disturbed' : p = own /\ p \in DOMAIN basis \ disturbed
  BY <1>1
<1> QED
  BY <1>2, <1>6, <1>7 DEF PatchInv

LEMMA RulesAre ==
    ASSUME NEW k \in DOMAIN Rules
    PROVE  k \in Nat /\ Rules[k].fact \in Facts /\ Rules[k].from \subseteq Facts /\ Rules[k].over \subseteq Rules[k].from
<1>1. Rules \in Seq(Candidate) /\ Rules[k].over \subseteq Rules[k].from
  BY PatchLifecycleAssumption
<1>2. Rules[k] \in Candidate /\ k \in Nat
  <2> HIDE DEF Candidate
  <2> QED
    BY <1>1
<1> QED
  BY <1>1, <1>2 DEF Candidate

LEMMA BeginKeepsPatches ==
    ASSUME PatchInv, NEW r \in Reviewers, BeginPatch(r) \/ BeginDream(r)
    PROVE  PatchInv'
<1>1. PatchTyped /\ Minted
  BY DEF PatchInv
<1>2. dreams' \in 0 .. MaxDreams /\ turns' \in 0 .. MaxTurns
  <2>1. dreams \in 0 .. MaxDreams /\ turns \in 0 .. MaxTurns /\ dreams < MaxDreams
        /\ dreams' = dreams + 1 /\ turns' = turns
    BY <1>1 DEF PatchTyped, BeginPatch, BeginDream
  <2> QED
    BY <2>1, PatchLifecycleAssumption
<1>3. PICK to \in PatchCalls : Turn(r, to) /\ to.pc = "read" /\ IsMinted(to.patch)
  <2>1. CASE BeginPatch(r)
    <3>1. PICK s \in BOOLEAN : Turn(r, [NotReviewing EXCEPT !.pc = "read", !.patch = RunId(s), !.since = s])
      BY <2>1 DEF BeginPatch
    <3>2. PICK p : p = RunId(s)
      OBVIOUS
    <3>3. p \in RunIds /\ IsMinted(p)
      BY <1>1, <3>2, RunIdIs
    <3>4. PICK to : to = [NotReviewing EXCEPT !.pc = "read", !.patch = p, !.since = s]
      OBVIOUS
    <3>5. to \in PatchCalls /\ to.pc = "read" /\ to.patch = p
      BY <3>3, <3>4 DEF NotReviewing, PatchCalls
    <3> QED
      BY <3>1, <3>2, <3>3, <3>4, <3>5
  <2>2. CASE BeginDream(r)
    <3>1. PICK s \in BOOLEAN : Turn(r, [NotReviewing EXCEPT !.pc = "read", !.since = s])
      BY <2>2 DEF BeginDream
    <3>2. PICK to : to = [NotReviewing EXCEPT !.pc = "read", !.since = s]
      OBVIOUS
    <3>3. to \in PatchCalls /\ to.pc = "read" /\ to.patch = NoPatch
      BY <3>2 DEF NotReviewing, PatchCalls
    <3> QED
      BY <3>1, <3>2, <3>3 DEF IsMinted
  <2> QED
    BY <2>1, <2>2
<1>4. UNCHANGED <<memory, basis, disturbed>>
  BY DEF BeginPatch, BeginDream
<1>5. disturbed' \subseteq DOMAIN basis
  BY <1>1, <1>4 DEF PatchTyped
<1> QED
  BY <1>2, <1>3, <1>4, <1>5, MoveKeeps

LEMMA EndKeepsPatches ==
    ASSUME PatchInv, NEW r \in Reviewers, FinishDream(r) \/ StopReview(r)
    PROVE  PatchInv'
<1>1. PatchTyped /\ dreams' \in 0 .. MaxDreams /\ turns' \in 0 .. MaxTurns
  BY PatchLifecycleAssumption DEF PatchInv, PatchTyped, FinishDream, StopReview
<1>2. NotReviewing \in PatchCalls /\ NotReviewing.pc = "idle" /\ NotReviewing.patch = NoPatch
  BY DEF NotReviewing, PatchCalls
<1>3. Turn(r, NotReviewing) /\ UNCHANGED <<memory, basis, disturbed>>
  BY DEF FinishDream, StopReview
<1>4. disturbed' \subseteq DOMAIN basis /\ IsMinted(NoPatch) /\ NoPatch \notin DOMAIN basis
  BY <1>1, <1>3, NoPatchIsNone DEF PatchTyped, IsMinted
<1> QED
  BY <1>1, <1>2, <1>3, <1>4, MoveKeeps

LEMMA ReadRollbackKeeps ==
    ASSUME PatchInv, NEW r \in Reviewers, ReadRollback(r)
    PROVE  PatchInv'
<1>1. PatchTyped /\ Minted /\ dreams' \in 0 .. MaxDreams /\ turns' \in 0 .. MaxTurns
  BY DEF PatchInv, PatchTyped, ReadRollback
<1> DEFINE mine(p) == {f \in InUse : memory[f].by = p}
           out(p) == {f \in Facts : memory[f].state = "archived" /\ memory[f].out = p}
<1>2. PICK p \in DOMAIN basis :
         /\ Turn(r, [NotReviewing EXCEPT !.pc = "withdraw", !.patch = p, !.created = mine(p), !.archived = out(p)])
         /\ disturbed' = IF Applying(p) = {} THEN disturbed ELSE disturbed \cup {p}
  BY DEF ReadRollback
<1>3. PICK to : to = [NotReviewing EXCEPT !.pc = "withdraw", !.patch = p, !.created = mine(p), !.archived = out(p)]
  OBVIOUS
<1>4. mine(p) \subseteq Facts /\ out(p) \subseteq Facts /\ p \in RunIds
  BY <1>1 DEF InUse, PatchTyped
<1>5. to \in PatchCalls /\ to.pc = "withdraw" /\ to.patch = p /\ to.created = mine(p) /\ to.archived = out(p)
  <2> HIDE DEF mine, out
  <2> QED
    BY <1>3, <1>4 DEF NotReviewing, PatchCalls
<1>6. Turn(r, to) /\ UNCHANGED <<memory, basis>>
  BY <1>2, <1>3 DEF ReadRollback
<1>7. disturbed \subseteq disturbed' /\ disturbed' \subseteq DOMAIN basis
  BY <1>1, <1>2 DEF PatchTyped
<1>8. IsMinted(p) /\ p \in PatchIds
  BY <1>1 DEF Minted, PatchIds
<1>9. p \notin disturbed' => \A q \in Reviewers \ {r} : Patch(q) = p => reviewers[q].pc \notin {"adopt", "retire"}
  BY <1>2 DEF Applying
<1>10. /\ \A f \in Facts : memory[f].state = "archived" /\ memory[f].out = to.patch => f \in to.archived
       /\ \A f \in InUse : memory[f].by = to.patch => f \in to.created
       /\ \A f \in to.created : memory[f].by = to.patch
  BY <1>5
<1> QED
  BY <1>1, <1>5, <1>6, <1>7, <1>8, <1>9, <1>10, MoveKeeps

LEMMA ReadCandidatesKeeps ==
    ASSUME PatchInv, NEW r \in Reviewers, ReadCandidates(r)
    PROVE  PatchInv'
<1> DEFINE chosen == {k \in DOMAIN Rules : IsCandidate(Rules[k], reviewers[r].since)}
<1>1. PatchTyped /\ Minted /\ dreams' \in 0 .. MaxDreams /\ turns' \in 0 .. MaxTurns /\ UNCHANGED memory
  BY DEF PatchInv, PatchTyped, ReadCandidates
<1>2. PICK p, s : p = Patch(r) /\ s = reviewers[r].since
  OBVIOUS
<1>3. p \in RunIds \cup {NoPatch} /\ IsMinted(p) /\ s \in BOOLEAN /\ reviewers[r] \in PatchCalls
  BY <1>1, <1>2 DEF Patch, PatchTyped, PatchCalls, Minted
<1>4. PICK to : to = [reviewers[r] EXCEPT !.pc = "adopt", !.todo = chosen]
  OBVIOUS
<1>5. to \in PatchCalls /\ to.pc = "adopt" /\ to.patch = p /\ to.todo = chosen
  <2>1. chosen \subseteq DOMAIN Rules
    OBVIOUS
  <2> HIDE DEF chosen
  <2> QED
    BY <1>2, <1>3, <1>4, <2>1 DEF PatchCalls, Patch
<1>6. Turn(r, to)
  BY <1>4 DEF ReadCandidates
<1>7. basis' = [q \in DOMAIN basis \cup ({p} \ {NoPatch}) |-> IF q \in DOMAIN basis THEN basis[q] ELSE InUse]
  BY <1>2 DEF ReadCandidates
<1>8. disturbed' = IF p \in DOMAIN basis /\ IsOvertaken(r) THEN disturbed \cup {p} ELSE disturbed
  BY <1>2 DEF ReadCandidates
<1>9. disturbed \subseteq disturbed' /\ disturbed' \subseteq DOMAIN basis
  BY <1>1, <1>8 DEF PatchTyped
<1>10. \A k \in chosen : \A f \in Rules[k].over : f \in Facts /\ (f \in InUse \/ (s /\ Kept(f)))
  <2>1. ASSUME NEW k \in chosen, NEW f \in Rules[k].over PROVE f \in Facts /\ (f \in InUse \/ (s /\ Kept(f)))
    <3>1. f \in Rules[k].from /\ f \in Facts
      BY RulesAre
    <3> QED
      BY <1>2, <3>1 DEF IsCandidate
  <2> QED
    BY <2>1
<1>11. CASE p \in DOMAIN basis \cup {NoPatch}
  <2>1. basis' = basis
    BY <1>1, <1>7, <1>11, NoPatchIsNone DEF PatchTyped
  <2>2. ASSUME p \in DOMAIN basis \ disturbed'
        PROVE  /\ \A k \in chosen : \A f \in Rules[k].over : Kept(f) /\ memory[f].by # p
               /\ \A q \in Reviewers \ {r} : Patch(q) = p => reviewers[q].pc \notin {"withdraw", "restore"}
    <3>1. ~IsOvertaken(r) /\ p # NoPatch
      BY <1>1, <1>8, <2>2, NoPatchIsNone
    <3>2. RunId(s) = p
      BY <1>2, <3>1 DEF IsOvertaken
    <3>3. p.rows = [f \in {g \in Facts : g \in InUse \/ (s /\ Kept(g))} |-> memory[f].ver]
      BY <1>1, <1>3, <3>2, RunIdIs
    <3>4. ASSUME NEW k \in chosen, NEW f \in Rules[k].over PROVE Kept(f) /\ memory[f].by # p
      <4>1. f \in DOMAIN p.rows /\ p.rows[f] = memory[f].ver
        BY <1>10, <3>3
      <4> QED
        BY <1>3, <3>1, <4>1 DEF IsMinted
    <3> QED
      BY <1>2, <3>1, <3>4 DEF IsOvertaken
  <2>3. p \in PatchIds
    BY <1>11 DEF PatchIds
  <2> HIDE DEF chosen
  <2> QED
    BY <1>1, <1>3, <1>5, <1>6, <1>9, <2>1, <2>2, <2>3, MoveKeeps
<1>12. CASE p \notin DOMAIN basis \cup {NoPatch}
  <2>1. /\ DOMAIN basis' = DOMAIN basis \cup {p} /\ basis'[p] = InUse /\ disturbed' = disturbed
        /\ \A q \in DOMAIN basis : basis'[q] = basis[q]
        /\ basis' = [q \in DOMAIN basis' |-> basis'[q]]
    BY <1>7, <1>8, <1>12
  <2>2. /\ reviewers' \in [Reviewers -> PatchCalls] /\ reviewers'[r] = to
        /\ \A q \in Reviewers \ {r} : reviewers'[q] = reviewers[q]
    BY <1>1, <1>5, <1>6 DEF Turn, PatchTyped
  <2>3. PatchIds' = PatchIds \cup {p} /\ p \notin PatchIds
    BY <1>12, <2>1 DEF PatchIds
  <2>4. \A f \in Facts : memory[f].by # p /\ memory[f].out # p
    BY <1>1, <2>3 DEF PatchTyped, MemoryRows
  <2>5. memory' \in [Facts -> MemoryRows']
    <3>1. MemoryRows \subseteq MemoryRows'
      BY <2>3 DEF MemoryRows
    <3> QED
      BY <1>1, <3>1 DEF PatchTyped
  <2>6. PatchTyped'
    BY <1>1, <1>3, <1>5, <1>12, <2>1, <2>2, <2>3, <2>5 DEF PatchTyped, Patch, InUse
  <2>7. Minted'
    BY <1>1, <1>3, <1>5, <2>1, <2>2 DEF Minted, IsMinted, Patch, Kept
  <2>8. IsSound(p)'
    <3>1. Stands(p)'
      BY <1>1, <2>1, <2>4 DEF Stands, InUse, Kept
    <3>2. \A q \in Reviewers : Patch(q) = p => reviewers[q].pc \in {"idle", "read"}
      BY <1>1, <2>3 DEF PatchTyped
    <3>3. \A q \in Reviewers : Patch(q)' = p => reviewers'[q].pc \in {"idle", "read"} \/ q = r
      BY <2>2, <3>2 DEF Patch
    <3>4. \A k \in chosen : \A f \in Rules[k].over : Kept(f) /\ memory[f].by # p
      BY <1>10, <2>4 DEF InUse, Kept
    <3>5. ApplyFits(p)'
      <4> HIDE DEF chosen
      <4> QED
        BY <1>1, <1>5, <2>2, <3>3, <3>4 DEF ApplyFits, Kept
    <3>6. UndoFits(p)'
      BY <1>5, <2>2, <3>3 DEF UndoFits
    <3> QED
      BY <3>1, <3>5, <3>6 DEF IsSound
  <2>9. ASSUME NEW q \in DOMAIN basis \ disturbed PROVE IsSound(q)'
    <3>1. IsSound(q) /\ q # p
      BY <1>12 DEF PatchInv
    <3>2. Stands(q)'
      BY <1>1, <2>1, <3>1 DEF IsSound, Stands, InUse, Kept
    <3>3. ApplyFits(q)' /\ UndoFits(q)'
      BY <1>1, <1>5, <2>2, <3>1 DEF IsSound, ApplyFits, UndoFits, InUse, Kept, Patch
    <3> QED
      BY <3>2, <3>3 DEF IsSound
  <2> QED
    BY <2>1, <2>6, <2>7, <2>8, <2>9 DEF PatchInv
<1> QED
  BY <1>11, <1>12

LEMMA TurnIs ==
    ASSUME PatchTyped, NEW r \in Reviewers, NEW to, Turn(r, to)
    PROVE  /\ reviewers'[r] = to /\ \A q \in Reviewers \ {r} : reviewers'[q] = reviewers[q]
           /\ to \in PatchCalls => reviewers' \in [Reviewers -> PatchCalls]
BY DEF Turn, PatchTyped

LEMMA AtHandIs ==
    ASSUME PatchTyped, NEW r \in Reviewers, reviewers[r].todo # {}
    PROVE  /\ Min(reviewers[r].todo) \in reviewers[r].todo /\ Min(reviewers[r].todo) \in DOMAIN Rules
           /\ AtHand(r).fact \in Facts /\ AtHand(r).over \subseteq Facts
<1>1. reviewers[r].todo \subseteq DOMAIN Rules
  BY DEF PatchTyped, PatchCalls
<1>2. reviewers[r].todo \subseteq Nat
  BY <1>1, RulesAre
<1>3. Min(reviewers[r].todo) \in reviewers[r].todo
  BY <1>2, SmallestNumber
<1> QED
  BY <1>1, <1>3, RulesAre DEF AtHand

LEMMA AdoptKeepsPatches ==
    ASSUME PatchInv, NEW r \in Reviewers, AdoptCandidate(r)
    PROVE  PatchInv'
<1>1. PatchTyped /\ turns' \in 0 .. MaxTurns /\ dreams' \in 0 .. MaxDreams /\ UNCHANGED basis
  BY DEF PatchInv, PatchTyped, AdoptCandidate
<1>2. PICK p : p = Patch(r)
  OBVIOUS
<1>3. p \in PatchIds /\ reviewers[r].pc = "adopt" /\ reviewers[r].todo # {} /\ reviewers[r] \in PatchCalls
  BY <1>1, <1>2 DEF PatchTyped, AdoptCandidate, OnPatch
<1>4. PICK f \in Facts : f = AtHand(r).fact
  BY <1>1, <1>3, AtHandIs
<1>5. PICK row : row = AdoptedRow(r, f)
  OBVIOUS
<1>6. memory' = [memory EXCEPT ![f] = row] /\ Disturbs(p)
  BY <1>2, <1>4, <1>5 DEF AdoptCandidate
<1>7. memory[f] \in MemoryRows /\ memory[f].ver \in Nat /\ memory[f].state \in RowStates
  BY <1>1 DEF PatchTyped, MemoryRows
<1>8. /\ row \in MemoryRows /\ row.ver = memory[f].ver + 1 /\ row.out = memory[f].out /\ row.state # "none"
      /\ Kept(f) => row.state = memory[f].state /\ row.by = memory[f].by
      /\ ~Kept(f) => row.state = "active" /\ row.by = p
  <2>1. CASE Kept(f)
    <3>1. row = Written(f, memory[f].state)
      BY <1>5, <2>1 DEF AdoptedRow
    <3> QED
      BY <1>1, <1>7, <2>1, <3>1, RowsWritten DEF Kept
  <2>2. CASE ~Kept(f)
    <3>1. PICK w : w = Written(f, "active")
      OBVIOUS
    <3>2. w \in MemoryRows /\ w.ver = memory[f].ver + 1 /\ w.out = memory[f].out /\ w.state = "active"
      BY <1>1, <3>1, RowsWritten DEF RowStates
    <3>3. row = [w EXCEPT !.by = p]
      BY <1>2, <1>5, <2>2, <3>1 DEF AdoptedRow
    <3> QED
      BY <1>3, <2>2, <3>2, <3>3 DEF MemoryRows
  <2> QED
    BY <2>1, <2>2
<1>9. /\ memory' \in [Facts -> MemoryRows] /\ memory'[f] = row
      /\ \A g \in Facts \ {f} : memory'[g] = memory[g]
  BY <1>1, <1>6, <1>8 DEF PatchTyped
<1>10. RowsGrow
  BY <1>7, <1>8, <1>9 DEF RowsGrow
<1>11. \A g \in Facts : memory'[g].state = "none" => memory'[g].by = NoPatch /\ memory'[g].out = NoPatch
  BY <1>1, <1>8, <1>9 DEF PatchTyped
<1>12. PICK to : to = [reviewers[r] EXCEPT !.pc = "retire"]
  OBVIOUS
<1>13. to \in PatchCalls /\ to.pc = "retire" /\ to.todo = reviewers[r].todo /\ to.patch = p /\ Turn(r, to)
  BY <1>2, <1>3, <1>12 DEF PatchCalls, Patch, AdoptCandidate
<1>14. /\ reviewers' \in [Reviewers -> PatchCalls] /\ reviewers'[r] = to
       /\ \A q \in Reviewers \ {r} : reviewers'[q] = reviewers[q]
  BY <1>1, <1>13, TurnIs
<1>15. ASSUME p \in DOMAIN basis \ disturbed PROVE IsSound(p)'
  <2>1. IsSound(p) /\ p # NoPatch
    BY <1>1, <1>15, NoPatchIsNone DEF PatchInv
  <2>2. Kept(f) \/ (f \notin basis[p] /\ memory[f].out # p)
    BY <1>1, <2>1 DEF IsSound, Stands, PatchTyped, Kept
  <2>3. Stands(p)'
    BY <1>1, <1>8, <1>9, <2>1, <2>2 DEF IsSound, Stands, InUse, Kept
  <2>4. \A q \in Reviewers : Patch(q) = p => reviewers[q].pc \notin {"withdraw", "restore"}
    BY <1>2, <1>3, <2>1 DEF IsSound, ApplyFits
  <2>5. \A q \in Reviewers : Patch(q)' = p => reviewers'[q].pc \notin {"withdraw", "restore"}
    BY <1>13, <1>14, <2>4 DEF Patch
  <2>6. \A g \in Facts : Kept(g) /\ memory[g].by # p => Kept(g)' /\ memory'[g].by # p
    BY <1>8, <1>9 DEF Kept
  <2>7. ASSUME NEW q \in Reviewers, Patch(q)' = p, reviewers'[q].pc \in {"adopt", "retire"}, NEW k \in reviewers'[q].todo,
               NEW g \in Rules[k].over
        PROVE  Kept(g)' /\ memory'[g].by # p
    <3>1. k \in reviewers[q].todo /\ Patch(q) = p /\ reviewers[q].pc \in {"adopt", "retire"}
      BY <1>2, <1>3, <1>13, <1>14, <2>7 DEF Patch
    <3>2. g \in Facts
      <4>1. k \in DOMAIN Rules
        BY <1>1, <3>1 DEF PatchTyped, PatchCalls
      <4> QED
        BY <4>1, RulesAre
    <3> QED
      BY <2>1, <2>6, <3>1, <3>2 DEF IsSound, ApplyFits
  <2>8. ApplyFits(p)' /\ UndoFits(p)'
    BY <2>5, <2>7 DEF ApplyFits, UndoFits
  <2> QED
    BY <2>3, <2>8 DEF IsSound
<1>16. \A q \in Reviewers :
          /\ Patch(q)' = Patch(q)
          /\ reviewers'[q].pc \notin {"idle", "read"} => Patch(q)' \in PatchIds
          /\ reviewers'[q].pc \in {"withdraw", "restore"} => Patch(q)' \in DOMAIN basis
          /\ reviewers'[q].pc = "retire" => reviewers'[q].todo # {}
  BY <1>1, <1>2, <1>3, <1>13, <1>14 DEF PatchTyped, Patch
<1> QED
  BY <1>1, <1>6, <1>9, <1>10, <1>11, <1>14, <1>15, <1>16, WriteKeeps

LEMMA RetireKeepsPatches ==
    ASSUME PatchInv, NEW r \in Reviewers, RetireSuperseded(r)
    PROVE  PatchInv'
<1>1. PatchTyped /\ turns' \in 0 .. MaxTurns /\ dreams' \in 0 .. MaxDreams /\ UNCHANGED basis
  BY DEF PatchInv, PatchTyped, RetireSuperseded
<1>2. PICK p : p = Patch(r)
  OBVIOUS
<1>3. p \in PatchIds /\ reviewers[r].pc = "retire" /\ reviewers[r].todo # {} /\ reviewers[r] \in PatchCalls
  BY <1>1, <1>2 DEF PatchTyped, RetireSuperseded, OnPatch
<1>4. PICK S : S = AtHand(r).over
  OBVIOUS
<1>5. PICK m : m = Min(reviewers[r].todo) /\ m \in reviewers[r].todo /\ S = Rules[m].over
  BY <1>1, <1>3, <1>4, AtHandIs DEF AtHand
<1>6. memory' = [f \in Facts |-> IF f \in S THEN RetiredRow(r, f) ELSE memory[f]] /\ Disturbs(p)
  BY <1>2, <1>4 DEF RetireSuperseded
<1>7. ASSUME NEW f \in Facts
      PROVE  /\ memory'[f] \in MemoryRows /\ memory'[f].by = memory[f].by
             /\ \/ memory'[f] = memory[f] /\ (f \in S => f \notin InUse)
                \/ /\ f \in S /\ f \in InUse /\ memory'[f].ver = memory[f].ver + 1 /\ memory'[f].state = "archived"
                   /\ memory'[f].out = IF p = NoPatch THEN memory[f].out ELSE p
  <2>1. memory'[f] = IF f \in S THEN RetiredRow(r, f) ELSE memory[f]
    BY <1>6
  <2>2. memory[f] \in MemoryRows
    BY <1>1 DEF PatchTyped
  <2>3. CASE f \in S /\ f \in InUse
    <3>1. PICK w : w = Written(f, "archived")
      OBVIOUS
    <3>2. /\ w \in MemoryRows /\ w.ver = memory[f].ver + 1 /\ w.state = "archived"
          /\ w.by = memory[f].by /\ w.out = memory[f].out
      BY <1>1, <3>1, RowsWritten DEF RowStates
    <3>3. memory'[f] = IF p = NoPatch THEN w ELSE [w EXCEPT !.out = p]
      BY <1>2, <2>1, <2>3, <3>1 DEF RetiredRow
    <3>4. [w EXCEPT !.out = p] \in MemoryRows
      BY <1>3, <3>2 DEF MemoryRows
    <3> QED
      BY <2>3, <3>2, <3>3, <3>4 DEF MemoryRows
  <2>4. CASE ~(f \in S /\ f \in InUse)
    BY <2>1, <2>2, <2>4 DEF RetiredRow
  <2> QED
    BY <2>3, <2>4
<1>8. memory' \in [Facts -> MemoryRows]
  BY <1>6, <1>7
<1>9. RowsGrow
  <2>1. \A f \in Facts : memory[f].ver \in Nat
    BY <1>1 DEF PatchTyped, MemoryRows
  <2> QED
    BY <1>7, <2>1 DEF RowsGrow
<1>10. \A g \in Facts : memory'[g].state = "none" => memory'[g].by = NoPatch /\ memory'[g].out = NoPatch
  BY <1>1, <1>7 DEF PatchTyped
<1>11. PICK to : to = [reviewers[r] EXCEPT !.pc = "adopt", !.todo = reviewers[r].todo \ {m}]
  OBVIOUS
<1>12. to \in PatchCalls /\ to.pc = "adopt" /\ to.todo = reviewers[r].todo \ {m} /\ to.patch = p
  BY <1>2, <1>3, <1>11 DEF PatchCalls, Patch
<1>13. Turn(r, to)
  BY <1>5, <1>11 DEF RetireSuperseded
<1>14. /\ reviewers' \in [Reviewers -> PatchCalls] /\ reviewers'[r] = to
       /\ \A q \in Reviewers \ {r} : reviewers'[q] = reviewers[q]
  BY <1>1, <1>12, <1>13, TurnIs
<1>15. ASSUME p \in DOMAIN basis \ disturbed PROVE IsSound(p)'
  <2>1. IsSound(p) /\ p # NoPatch
    BY <1>1, <1>15, NoPatchIsNone DEF PatchInv
  <2>2. \A f \in S : Kept(f) /\ memory[f].by # p
    BY <1>2, <1>3, <1>5, <2>1 DEF IsSound, ApplyFits
  <2>3. Stands(p)'
    BY <1>1, <1>7, <2>1, <2>2 DEF IsSound, Stands, InUse, Kept
  <2>4. \A q \in Reviewers : Patch(q) = p => reviewers[q].pc \notin {"withdraw", "restore"}
    BY <1>2, <1>3, <2>1 DEF IsSound, ApplyFits
  <2>5. \A q \in Reviewers : Patch(q)' = p => reviewers'[q].pc \notin {"withdraw", "restore"}
    BY <1>12, <1>14, <2>4 DEF Patch
  <2>6. \A g \in Facts : Kept(g) /\ memory[g].by # p => Kept(g)' /\ memory'[g].by # p
    BY <1>7 DEF Kept
  <2>7. ASSUME NEW q \in Reviewers, Patch(q)' = p, reviewers'[q].pc \in {"adopt", "retire"}, NEW k \in reviewers'[q].todo,
               NEW g \in Rules[k].over
        PROVE  Kept(g)' /\ memory'[g].by # p
    <3>1. k \in reviewers[q].todo /\ Patch(q) = p /\ reviewers[q].pc \in {"adopt", "retire"}
      BY <1>2, <1>3, <1>12, <1>14, <2>7 DEF Patch
    <3>2. g \in Facts
      <4>1. k \in DOMAIN Rules
        BY <1>1, <3>1 DEF PatchTyped, PatchCalls
      <4> QED
        BY <4>1, RulesAre
    <3> QED
      BY <2>1, <2>6, <3>1, <3>2 DEF IsSound, ApplyFits
  <2>8. ApplyFits(p)' /\ UndoFits(p)'
    BY <2>5, <2>7 DEF ApplyFits, UndoFits
  <2> QED
    BY <2>3, <2>8 DEF IsSound
<1>16. \A q \in Reviewers :
          /\ Patch(q)' = Patch(q)
          /\ reviewers'[q].pc \notin {"idle", "read"} => Patch(q)' \in PatchIds
          /\ reviewers'[q].pc \in {"withdraw", "restore"} => Patch(q)' \in DOMAIN basis
          /\ reviewers'[q].pc = "retire" => reviewers'[q].todo # {}
  BY <1>1, <1>2, <1>3, <1>12, <1>14 DEF PatchTyped, Patch
<1> QED
  BY <1>1, <1>6, <1>8, <1>9, <1>10, <1>14, <1>15, <1>16, WriteKeeps

\* A rollback gives rows of a set another state.
LEMMA StatesChange ==
    ASSUME PatchTyped, NEW S, NEW s \in RowStates \ {"none"},
           memory' = [f \in Facts |-> IF f \in S THEN Written(f, s) ELSE memory[f]], UNCHANGED basis,
           \A f \in S \cap Facts : Kept(f)
    PROVE  /\ memory' \in [Facts -> MemoryRows] /\ RowsGrow
           /\ \A f \in Facts :
                 /\ memory'[f].by = memory[f].by /\ memory'[f].out = memory[f].out
                 /\ memory'[f].state = IF f \in S THEN s ELSE memory[f].state
           /\ \A f \in Facts : memory'[f].state = "none" => memory'[f].by = NoPatch /\ memory'[f].out = NoPatch
<1>1. ASSUME NEW f \in Facts
      PROVE  /\ memory'[f] \in MemoryRows /\ memory'[f].by = memory[f].by /\ memory'[f].out = memory[f].out
             /\ memory'[f].state = IF f \in S THEN s ELSE memory[f].state
             /\ memory'[f] = memory[f] \/ memory'[f].ver > memory[f].ver
  <2>1. memory[f] \in MemoryRows /\ memory[f].ver \in Nat
    BY DEF PatchTyped, MemoryRows
  <2>2. memory'[f] = IF f \in S THEN Written(f, s) ELSE memory[f]
    OBVIOUS
  <2>3. /\ Written(f, s) \in MemoryRows /\ Written(f, s).state = s /\ Written(f, s).ver = memory[f].ver + 1
        /\ Written(f, s).by = memory[f].by /\ Written(f, s).out = memory[f].out
    BY RowsWritten
  <2>4. memory[f].ver + 1 > memory[f].ver
    BY <2>1
  <2> HIDE DEF Written
  <2> QED
    BY <2>1, <2>2, <2>3, <2>4
<1>2. memory' \in [Facts -> MemoryRows]
  BY <1>1
<1> QED
  BY <1>1, <1>2 DEF RowsGrow, PatchTyped

LEMMA WithdrawKeepsPatches ==
    ASSUME PatchInv, NEW r \in Reviewers, WithdrawCreated(r)
    PROVE  PatchInv'
<1>1. PatchTyped /\ turns' \in 0 .. MaxTurns /\ dreams' \in 0 .. MaxDreams /\ UNCHANGED basis
  BY DEF PatchInv, PatchTyped, WithdrawCreated
<1>2. PICK p : p = Patch(r)
  OBVIOUS
<1>3. p \in DOMAIN basis /\ reviewers[r].pc = "withdraw" /\ reviewers[r] \in PatchCalls
  BY <1>1, <1>2 DEF PatchTyped, WithdrawCreated, OnPatch
<1>4. PICK S : S = reviewers[r].created \cap InUse
  OBVIOUS
<1>5. memory' = [f \in Facts |-> IF f \in S THEN Written(f, "archived") ELSE memory[f]] /\ Disturbs(p)
  BY <1>2, <1>4 DEF WithdrawCreated
<1>6. \A f \in S \cap Facts : Kept(f)
  BY <1>4 DEF InUse, Kept
<1>7. /\ memory' \in [Facts -> MemoryRows] /\ RowsGrow
      /\ \A f \in Facts :
            /\ memory'[f].by = memory[f].by /\ memory'[f].out = memory[f].out
            /\ memory'[f].state = IF f \in S THEN "archived" ELSE memory[f].state
      /\ \A f \in Facts : memory'[f].state = "none" => memory'[f].by = NoPatch /\ memory'[f].out = NoPatch
  BY <1>1, <1>5, <1>6, StatesChange DEF RowStates
<1>8. PICK to : to = [reviewers[r] EXCEPT !.pc = "restore"]
  OBVIOUS
<1>9. to \in PatchCalls /\ to.pc = "restore" /\ to.patch = p /\ to.archived = reviewers[r].archived
  BY <1>2, <1>3, <1>8 DEF PatchCalls, Patch
<1>10. Turn(r, to)
  BY <1>8 DEF WithdrawCreated
<1>11. /\ reviewers' \in [Reviewers -> PatchCalls] /\ reviewers'[r] = to
       /\ \A q \in Reviewers \ {r} : reviewers'[q] = reviewers[q]
  BY <1>1, <1>9, <1>10, TurnIs
<1>12. ASSUME p \in DOMAIN basis \ disturbed PROVE IsSound(p)'
  <2>1. IsSound(p)
    BY <1>12 DEF PatchInv
  <2>2. /\ \A f \in InUse : memory[f].by = p => f \in reviewers[r].created
        /\ \A f \in reviewers[r].created : memory[f].by = p
        /\ \A f \in Facts : memory[f].state = "archived" /\ memory[f].out = p => f \in to.archived
    BY <1>2, <1>3, <1>9, <2>1 DEF IsSound, UndoFits
  <2>3. \A f \in Facts : f \in S => f \notin basis[p] /\ memory[f].out # p /\ memory[f].by = p /\ f \in InUse
    BY <1>4, <2>1, <2>2 DEF IsSound, Stands
  <2>4. Stands(p)'
    BY <1>1, <1>7, <2>1, <2>3 DEF IsSound, Stands, InUse, Kept
  <2>5. \A q \in Reviewers : Patch(q)' = p => reviewers'[q].pc \notin {"adopt", "retire"}
    BY <1>2, <1>3, <1>9, <1>11, <2>1 DEF IsSound, ApplyFits, Patch
  <2>6. ApplyFits(p)'
    BY <2>5 DEF ApplyFits
  <2>7. \A f \in InUse' : f \in InUse /\ f \notin S /\ memory'[f].by = memory[f].by
    BY <1>7 DEF InUse
  <2>8. \A f \in Facts : memory'[f].state = "archived" /\ memory'[f].out = p => memory[f].state = "archived" /\ memory[f].out = p
    BY <1>7, <2>3
  <2>9. ASSUME NEW q \in Reviewers, q # r, Patch(q)' = p
        PROVE  /\ reviewers'[q].pc = "withdraw" =>
                     /\ \A f \in InUse' : memory'[f].by = p => f \in reviewers'[q].created
                     /\ \A f \in reviewers'[q].created : memory'[f].by = p
               /\ reviewers'[q].pc = "restore" => \A f \in InUse' : memory'[f].by # p
               /\ reviewers'[q].pc \in {"withdraw", "restore"} =>
                     \A f \in Facts : memory'[f].state = "archived" /\ memory'[f].out = p => f \in reviewers'[q].archived
    <3>1. reviewers'[q] = reviewers[q] /\ Patch(q) = p
      BY <1>11, <2>9 DEF Patch
    <3>2. reviewers[q].created \subseteq Facts
      BY <1>1 DEF PatchTyped, PatchCalls
    <3> QED
      BY <1>7, <2>1, <2>7, <2>8, <3>1, <3>2 DEF IsSound, UndoFits
  <2>10. \A f \in InUse' : memory'[f].by # p
    BY <1>4, <2>2, <2>7
  <2>11. UndoFits(p)'
    BY <1>9, <1>11, <2>2, <2>8, <2>9, <2>10 DEF UndoFits
  <2> QED
    BY <2>4, <2>6, <2>11 DEF IsSound
<1>13. \A q \in Reviewers :
          /\ Patch(q)' = Patch(q)
          /\ reviewers'[q].pc \notin {"idle", "read"} => Patch(q)' \in PatchIds
          /\ reviewers'[q].pc \in {"withdraw", "restore"} => Patch(q)' \in DOMAIN basis
          /\ reviewers'[q].pc = "retire" => reviewers'[q].todo # {}
  BY <1>1, <1>2, <1>3, <1>9, <1>11 DEF PatchTyped, Patch, PatchIds
<1> QED
  BY <1>1, <1>5, <1>7, <1>11, <1>12, <1>13, WriteKeeps

LEMMA RestoreKeepsPatches ==
    ASSUME PatchInv, NEW r \in Reviewers, RestoreArchived(r)
    PROVE  PatchInv' /\ (Patch(r) \notin disturbed => InUse' = basis[Patch(r)])
<1>1. PatchTyped /\ turns' \in 0 .. MaxTurns /\ dreams' \in 0 .. MaxDreams /\ UNCHANGED basis
  BY DEF PatchInv, PatchTyped, RestoreArchived
<1>2. PICK p : p = Patch(r)
  OBVIOUS
<1>3. p \in DOMAIN basis /\ reviewers[r].pc = "restore" /\ reviewers[r] \in PatchCalls
  BY <1>1, <1>2 DEF PatchTyped, RestoreArchived, OnPatch
<1>4. PICK S : S = {f \in reviewers[r].archived : memory[f].state = "archived" /\ memory[f].out = p}
  OBVIOUS
<1>5. memory' = [f \in Facts |-> IF f \in S THEN Written(f, "active") ELSE memory[f]] /\ Disturbs(p)
  BY <1>2, <1>4 DEF RestoreArchived
<1>6. \A f \in S \cap Facts : Kept(f)
  BY <1>4 DEF Kept
<1>7. /\ memory' \in [Facts -> MemoryRows] /\ RowsGrow
      /\ \A f \in Facts :
            /\ memory'[f].by = memory[f].by /\ memory'[f].out = memory[f].out
            /\ memory'[f].state = IF f \in S THEN "active" ELSE memory[f].state
      /\ \A f \in Facts : memory'[f].state = "none" => memory'[f].by = NoPatch /\ memory'[f].out = NoPatch
  BY <1>1, <1>5, <1>6, StatesChange DEF RowStates
<1>8. NotReviewing \in PatchCalls /\ NotReviewing.pc = "idle" /\ NotReviewing.patch = NoPatch
  BY DEF NotReviewing, PatchCalls
<1>9. Turn(r, NotReviewing)
  BY DEF RestoreArchived
<1>10. /\ reviewers' \in [Reviewers -> PatchCalls] /\ reviewers'[r] = NotReviewing
       /\ \A q \in Reviewers \ {r} : reviewers'[q] = reviewers[q]
  BY <1>1, <1>8, <1>9, TurnIs
<1>11. ASSUME p \in DOMAIN basis \ disturbed PROVE IsSound(p)' /\ InUse' = basis[p]
  <2>1. IsSound(p)
    BY <1>11 DEF PatchInv
  <2>2. /\ \A f \in InUse : memory[f].by # p
        /\ \A f \in Facts : memory[f].state = "archived" /\ memory[f].out = p => f \in S
    BY <1>2, <1>3, <1>4, <2>1 DEF IsSound, UndoFits
  <2>3. \A f \in Facts : f \in S => f \in basis[p] /\ memory[f].by # p /\ memory[f].state = "archived"
    BY <1>4, <2>1 DEF IsSound, Stands
  <2>4. Stands(p)'
    BY <1>1, <1>7, <2>1, <2>3 DEF IsSound, Stands, InUse, Kept
  <2>5. \A q \in Reviewers : Patch(q)' = p => reviewers'[q].pc \notin {"adopt", "retire"}
    BY <1>2, <1>3, <1>8, <1>10, <2>1 DEF IsSound, ApplyFits, Patch
  <2>6. ApplyFits(p)'
    BY <2>5 DEF ApplyFits
  <2>7. \A f \in InUse' : (f \in InUse \/ memory[f].by # p) /\ memory'[f].by = memory[f].by
    BY <1>7, <2>3 DEF InUse
  <2>8. \A f \in Facts : memory'[f].state = "archived" /\ memory'[f].out = p => memory[f].state = "archived" /\ memory[f].out = p
    BY <1>7
  <2>9. ASSUME NEW q \in Reviewers, q # r, Patch(q)' = p
        PROVE  /\ reviewers'[q].pc = "withdraw" =>
                     /\ \A f \in InUse' : memory'[f].by = p => f \in reviewers'[q].created
                     /\ \A f \in reviewers'[q].created : memory'[f].by = p
               /\ reviewers'[q].pc = "restore" => \A f \in InUse' : memory'[f].by # p
               /\ reviewers'[q].pc \in {"withdraw", "restore"} =>
                     \A f \in Facts : memory'[f].state = "archived" /\ memory'[f].out = p => f \in reviewers'[q].archived
    <3>1. reviewers'[q] = reviewers[q] /\ Patch(q) = p
      BY <1>10, <2>9 DEF Patch
    <3>2. reviewers[q].created \subseteq Facts
      BY <1>1 DEF PatchTyped, PatchCalls
    <3> QED
      BY <1>7, <2>1, <2>7, <2>8, <3>1, <3>2 DEF IsSound, UndoFits
  <2>10. UndoFits(p)'
    BY <1>8, <1>10, <2>9 DEF UndoFits
  <2>11. basis[p] \subseteq Facts
    BY <1>1, <1>3 DEF PatchTyped
  <2>12. ASSUME NEW f \in Facts PROVE f \in InUse' <=> f \in basis[p]
    <3>1. f \in InUse' <=> f \in S \/ f \in InUse
      BY <1>7 DEF InUse
    <3>2. f \in InUse => f \in basis[p]
      BY <2>1, <2>2 DEF IsSound, Stands
    <3>3. f \in basis[p] => f \in InUse \/ f \in S
      BY <2>1, <2>2 DEF IsSound, Stands
    <3> QED
      BY <2>3, <3>1, <3>2, <3>3
  <2>13. InUse' = basis[p]
    BY <2>11, <2>12 DEF InUse
  <2> QED
    BY <2>1, <2>4, <2>6, <2>10, <2>13 DEF IsSound
<1>12. \A q \in Reviewers :
          /\ Patch(q)' \in {Patch(q), NoPatch}
          /\ reviewers'[q].pc \notin {"idle", "read"} => Patch(q)' \in PatchIds
          /\ reviewers'[q].pc \in {"withdraw", "restore"} => Patch(q)' \in DOMAIN basis
          /\ reviewers'[q].pc = "retire" => reviewers'[q].todo # {}
  BY <1>1, <1>8, <1>10 DEF PatchTyped, Patch, PatchIds
<1>13. PatchInv'
  BY <1>1, <1>5, <1>7, <1>10, <1>11, <1>12, WriteKeeps
<1> QED
  BY <1>2, <1>3, <1>11, <1>13

LEMMA OthersKeepPatches ==
    ASSUME PatchInv, NEW f \in Contested, OthersWrite(f)
    PROVE  PatchInv'
<1>1. PatchTyped /\ dreams' \in 0 .. MaxDreams /\ UNCHANGED <<basis, reviewers>> /\ f \in Facts /\ Disturbs(NoPatch)
  BY PatchLifecycleAssumption DEF PatchInv, PatchTyped, OthersWrite
<1>2. turns' \in 0 .. MaxTurns
  BY PatchLifecycleAssumption DEF PatchInv, PatchTyped, OthersWrite
<1>3. memory[f] \in MemoryRows /\ memory[f].ver \in Nat
  BY <1>1 DEF PatchTyped, MemoryRows
<1>4. PICK row : /\ memory' = [memory EXCEPT ![f] = row]
                 /\ \/ row = IF Kept(f) THEN Written(f, memory[f].state) ELSE Written(f, "active")
                    \/ f \in InUse /\ row = Written(f, "archived")
                    \/ row = [NoRow EXCEPT !.ver = memory[f].ver + 1]
  BY <1>1 DEF OthersWrite, PatchTyped
<1>5. /\ row \in MemoryRows /\ row.ver = memory[f].ver + 1
      /\ row.state = "none" => row.by = NoPatch /\ row.out = NoPatch
  <2>1. CASE row = [NoRow EXCEPT !.ver = memory[f].ver + 1]
    BY <1>3, <2>1 DEF NoRow, MemoryRows, RowStates, PatchIds
  <2>2. CASE row = IF Kept(f) THEN Written(f, memory[f].state) ELSE Written(f, "active")
    <3>1. memory[f].state \in RowStates
      BY <1>3 DEF MemoryRows
    <3>2. PICK s \in RowStates \ {"none"} : row = Written(f, s)
      BY <2>2, <3>1 DEF Kept, RowStates
    <3> QED
      BY <1>1, <3>2, RowsWritten
  <2>3. CASE row = Written(f, "archived")
    BY <1>1, <2>3, RowsWritten DEF RowStates
  <2> QED
    BY <1>4, <2>1, <2>2, <2>3
<1>6. memory' \in [Facts -> MemoryRows] /\ memory'[f] = row /\ \A g \in Facts \ {f} : memory'[g] = memory[g]
  BY <1>1, <1>4, <1>5 DEF PatchTyped
<1>7. RowsGrow
  BY <1>3, <1>5, <1>6 DEF RowsGrow
<1>8. \A g \in Facts : memory'[g].state = "none" => memory'[g].by = NoPatch /\ memory'[g].out = NoPatch
  BY <1>1, <1>5, <1>6 DEF PatchTyped
<1>9. \A q \in Reviewers :
          /\ Patch(q)' = Patch(q)
          /\ reviewers'[q].pc \notin {"idle", "read"} => Patch(q)' \in PatchIds
          /\ reviewers'[q].pc \in {"withdraw", "restore"} => Patch(q)' \in DOMAIN basis
          /\ reviewers'[q].pc = "retire" => reviewers'[q].todo # {}
  BY <1>1 DEF PatchTyped, Patch
<1>10. NoPatch \notin DOMAIN basis /\ reviewers' \in [Reviewers -> PatchCalls]
  BY <1>1, NoPatchIsNone DEF PatchTyped
<1> QED
  BY <1>1, <1>2, <1>6, <1>7, <1>8, <1>9, <1>10, WriteKeeps

LEMMA PatchInvStays == PatchInv /\ [PatchNext]_patchVars => PatchInv'
<1> SUFFICES ASSUME PatchInv, [PatchNext]_patchVars PROVE PatchInv'
  OBVIOUS
<1>1. CASE UNCHANGED patchVars
  <2>1. PatchTyped'
    BY <1>1 DEF patchVars, PatchInv, PatchTyped, Patch, PatchIds, MemoryRows
  <2>2. Minted'
    BY <1>1 DEF patchVars, PatchInv, Minted, IsMinted, Patch, Kept
  <2>3. ASSUME NEW p \in DOMAIN basis \ disturbed PROVE IsSound(p)'
    BY <1>1 DEF patchVars, PatchInv, IsSound, Stands, ApplyFits, UndoFits, InUse, Kept, Patch
  <2> QED
    BY <1>1, <2>1, <2>2, <2>3 DEF patchVars, PatchInv
<1>2. CASE PatchNext
  BY <1>2, BeginKeepsPatches, EndKeepsPatches, ReadCandidatesKeeps, AdoptKeepsPatches, RetireKeepsPatches,
     ReadRollbackKeeps, WithdrawKeepsPatches, RestoreKeepsPatches, OthersKeepPatches DEF PatchNext
<1> QED
  BY <1>1, <1>2

LEMMA PatchInvTyped == PatchInv => PatchTypeOK
<1> SUFFICES ASSUME PatchInv PROVE PatchTypeOK
  OBVIOUS
<1>1. PatchTyped
  BY DEF PatchInv
<1>2. ASSUME NEW p \in DOMAIN basis PROVE p.since \in BOOLEAN /\ DOMAIN p.rows \subseteq Facts
  <2>1. p \in RunIds
    BY <1>1 DEF PatchTyped
  <2> QED
    BY <2>1 DEF RunIds
<1>3. ASSUME NEW p \in DOMAIN basis \ disturbed, NEW f \in basis[p] PROVE memory[f].by # p
  <2>1. Stands(p) /\ f \in Facts
    BY <1>1 DEF PatchInv, PatchTyped, IsSound
  <2> QED
    BY <2>1 DEF Stands
<1>4. ASSUME NEW r \in Reviewers
      PROVE  /\ reviewers[r].pc \in {"idle", "read", "adopt", "retire", "withdraw", "restore"}
             /\ reviewers[r].pc \notin {"idle", "read"} => reviewers[r].patch \in PatchIds
             /\ reviewers[r].todo \subseteq DOMAIN Rules
             /\ reviewers[r].created \cup reviewers[r].archived \subseteq Facts
  <2>1. reviewers[r] \in PatchCalls
    BY <1>1 DEF PatchTyped
  <2> QED
    BY <1>1, <2>1 DEF PatchTyped, PatchCalls, Patch
<1> QED
  BY <1>1, <1>2, <1>3, <1>4 DEF PatchTypeOK, PatchTyped, MemoryRows, RowStates

\* Whatever overlaps or is cut off, a rollback that nobody has disturbed gives back what was in use.
LEMMA PatchesStay == PatchSpec => []PatchTypeOK /\ RollbackUndoesApply
<1>1. PatchInv /\ [PatchNext]_patchVars =>
         [\A r \in Reviewers : RestoreArchived(r) /\ Patch(r) \notin disturbed => InUse' = basis[Patch(r)]]_patchVars
  BY RestoreKeepsPatches
<1> QED
  BY <1>1, PatchInvStarts, PatchInvStays, PatchInvTyped, PTL DEF PatchSpec, RollbackUndoesApply
----------------------------------------------------------------------------
(* Together *)

\* What an importer says it holds it holds, whatever runs beside it and whenever it stops: a turn of a
\* chat has its source and its session at its home, and unless imports overlapped a published manifest names
\* only turns that are stored (run, finalize_pending_manifest in src/src/chatgpt_export_import.rs); an
\* import of git that has ended leaves an episode at every place it accepted, of a commit with the text it
\* read and of an item with one the item has had there, one at a place unless two ran at once, and a ledger
\* row of every episode if none was killed (run in src/src/git_import.rs; of an item nothing says that its
\* newest text is stored); and whoever
\* has come to a cursor of a replay has the key of every record before it, and is told none of them twice
\* (run_reader in src/src/pcc_import.rs).
THEOREM ImportsStayKept == RecordsSpec => []ImportsAreKept
<1>1. GitIsTaken /\ ReceiptsAreTrue /\ TurnsStayHome /\ ManifestIsTrue => ImportsAreKept
  BY DEF ImportsAreKept
<1> QED
  BY <1>1, RecordsAreEachPart, ChatsStay, GitStays, PccStays, PTL

\* A rollback undoes its patch: when it ends, what was in use before the patch is in use, and nothing that
\* it created is, unless someone else wrote a row of it meanwhile or the patch was disturbed
\* (patch_rollback in src/src/service.rs); whatever other calls and edits come between.
THEOREM RollbacksUndo == RecordsSpec => RollbackUndoesApply
<1> QED
  BY RecordsAreEachPart, PatchesStay, PTL
=============================================================================
