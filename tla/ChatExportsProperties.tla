------------------------- MODULE ChatExportsProperties -------------------------
(* What an import of an export promises (README.md on chatgpt-export,          *)
(* tests/cli_smoke.rs).                                                        *)
EXTENDS ChatExports

Place == [home: Homes, of: [in: Nat, id: Nat]]

\* The tables, the files and the commands stay within their types.
ChatsTypeOK ==
    /\ chats.sources \subseteq Place /\ chats.turns \subseteq Place /\ chats.refused \subseteq Place
    /\ chats.sessions \subseteq [in: Nat, home: Homes]
    /\ \A i \in Importers : importers[i].pc \in {"idle", "write", "commit", "publish"}

\* A turn is read through its session, so its session is of the home that imported it,
\* though sessions and turns are named without their home; and it has its source there.
TurnsStayHome ==
    \A t \in chats.turns :
        /\ [in |-> t.of.in, home |-> t.home] \in chats.sessions
        /\ t \in chats.sources

\* The manifest published names only what is in the store: crashes and failures on either
\* side of the commit notwithstanding, and unless two imports overlapped, every turn of each
\* conversation it names is there.
ManifestIsTrue ==
    published # NoManifest /\ ~overlapped =>
        \A m \in Turns(published.chosen) : [home |-> published.home, of |-> m] \in chats.turns
=============================================================================
