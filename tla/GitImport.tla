------------------------------- MODULE GitImport -------------------------------
(***************************************************************************)
(* The import of trailers of commit messages, and of exported issues and   *)
(* pull requests, as episodes (src/src/git_import.rs): read at once, then  *)
(* written row by row, by importers who do not know of each other.         *)
(*                                                                         *)
(* Commits are only added; an exported item is changed and exported again. *)
(* A trailer is a text and whether the write policy accepts it; one        *)
(* repository and one workspace; the subject made on the way is left out.  *)
(* A definition marked "Slip" is the next one with a mistake in it.        *)
(***************************************************************************)
EXTENDS Integers, Sequences, SequencesExt, FiniteSets

CONSTANTS
    GitImporters,
    CommitBodies,       \* the commits that come to be: sequences of trailers
    ItemBodies,         \* of every exported item, the bodies it has one after the other
    MostScanned,        \* --max-count
    MaxRuns, MaxKills   \* bounds on imports, and on imports that are killed or fail

Wording == [text: Nat, ok: BOOLEAN]

ASSUME GitAssumption ==
    /\ CommitBodies \in Seq(Seq(Wording)) /\ CommitBodies # <<>>
    /\ ItemBodies \in Seq(Seq(Seq(Wording))) /\ \A x \in DOMAIN ItemBodies : ItemBodies[x] # <<>>
    /\ MostScanned \in Nat \ {0} /\ MaxRuns \in Nat /\ MaxKills \in Nat

VARIABLES
    commits,    \* how many commits there are
    edition,    \* which body an item has now
    rows,       \* episodes: of a source, a reference and a text
    ledger,     \* evidence_ledger
    runs,       \* the imports
    started, killed,
    alone       \* no two imports were ever under way at once

gitVars == <<commits, edition, rows, ledger, runs, started, killed, alone>>

\* What an import has found, and the places of what it has still to take.
NoRun == [pc |-> "none", found |-> <<>>, todo |-> {}]
Underway(i) == runs[i].pc \notin {"none", "done"}

GitInit ==
    /\ commits = 1 /\ edition = [x \in DOMAIN ItemBodies |-> 1] /\ rows = <<>> /\ ledger = {}
    /\ runs = [i \in GitImporters |-> NoRun] /\ started = 0 /\ killed = 0 /\ alone = TRUE
----------------------------------------------------------------------------
(* What there is to be read *)

GitCommit ==
    /\ commits < Len(CommitBodies) /\ commits' = commits + 1
    /\ UNCHANGED <<edition, rows, ledger, runs, started, killed, alone>>

EditItem(x) ==
    /\ edition[x] < Len(ItemBodies[x]) /\ edition' = [edition EXCEPT ![x] = @ + 1]
    /\ UNCHANGED <<commits, rows, ledger, runs, started, killed, alone>>

\* Slip: the trailers of a body share a reference.
TrailerRefShared(kind, root, n) == [kind |-> kind, root |-> root, n |-> 0]

\* source_ref_for_trailer: the trailer's place in the body is part of it.
TrailerRef(kind, root, n) == [kind |-> kind, root |-> root, n |-> n]

\* Slip: the write policy is not asked.
TrailersOfUnscreened(kind, root, body) ==
    [n \in DOMAIN body |-> [ref |-> TrailerRef(kind, root, n), text |-> body[n].text, ok |-> TRUE]]

\* parse_memory_trailers, policy::screen_string_value: the trailers of one source.
TrailersOf(kind, root, body) ==
    [n \in DOMAIN body |-> [ref |-> TrailerRef(kind, root, n), text |-> body[n].text, ok |-> body[n].ok]]

\* read_commits: the newest first, and no more than asked for.
ReadCommits ==
    LET count == IF commits < MostScanned THEN commits ELSE MostScanned
    IN  FlattenSeq([n \in 1 .. count |->
            TrailersOf("commit", commits + 1 - n, CommitBodies[commits + 1 - n])])

\* read_refs_fixture_sources
ReadItems ==
    LET count == IF Len(ItemBodies) < MostScanned THEN Len(ItemBodies) ELSE MostScanned
    IN  FlattenSeq([x \in 1 .. count |-> TrailersOf("item", x, ItemBodies[x][edition[x]])])
----------------------------------------------------------------------------
(* Imports *)

\* run: an import to be applied that has found something.
BeginRun(i, found) ==
    /\ ~Underway(i) /\ started < MaxRuns /\ started' = started + 1 /\ found # <<>>
    /\ runs' = [runs EXCEPT ![i] = [pc |-> "look", found |-> found,
                                    todo |-> {n \in DOMAIN found : found[n].ok}]]
    /\ alone' = (alone /\ \A j \in GitImporters : ~Underway(j))
    /\ UNCHANGED <<commits, edition, rows, ledger, killed>>

\* They are taken in the order they were found in.
Current(i) == runs[i].found[Min(runs[i].todo)]
Follow(i) == runs' = [runs EXCEPT ![i] = [runs[i] EXCEPT !.pc = "look", !.todo = @ \ {Min(@)}]]

\* Slip: what is known is looked for by its text.
IsTakenByText(t) == \E n \in DOMAIN rows : rows[n].text = t.text

\* find_episode_by_source
IsTaken(t) == \E n \in DOMAIN rows : rows[n].ref = t.ref

LookUp(i) ==
    /\ runs[i].pc = "look" /\ runs[i].todo # {}
    /\ IF IsTaken(Current(i)) THEN Follow(i) ELSE runs' = [runs EXCEPT ![i].pc = "insert"]
    /\ UNCHANGED <<commits, edition, rows, ledger, started, killed, alone>>

\* create_episode
InsertEpisode(i) ==
    /\ runs[i].pc = "insert"
    /\ rows' = Append(rows, [ref |-> Current(i).ref, text |-> Current(i).text, by |-> i])
    /\ runs' = [runs EXCEPT ![i].pc = "record"]
    /\ UNCHANGED <<commits, edition, ledger, started, killed, alone>>

\* record_evidence_ledger, for the row just inserted.
RecordAccepted(i) ==
    LET mine == {n \in DOMAIN rows : rows[n].by = i}
        newest == CHOOSE n \in mine : \A m \in mine : m <= n
    IN  /\ runs[i].pc = "record"
        /\ ledger' = ledger \cup {[ref |-> Current(i).ref, row |-> newest]}
        /\ Follow(i)
        /\ UNCHANGED <<commits, edition, rows, started, killed, alone>>

\* record_evidence_ledger, for what the policy rejects, again and again to the same effect.
RecordRejected(i) ==
    LET found == runs[i].found
    IN  /\ runs[i].pc = "look" /\ runs[i].todo = {}
        /\ ledger' = ledger \cup {[ref |-> found[n].ref, row |-> 0] : n \in {m \in DOMAIN found : ~found[m].ok}}
        /\ runs' = [runs EXCEPT ![i].pc = "done"]
        /\ UNCHANGED <<commits, edition, rows, started, killed, alone>>

StopRun(i) ==
    /\ Underway(i) /\ killed < MaxKills /\ killed' = killed + 1
    /\ runs' = [runs EXCEPT ![i] = NoRun]
    /\ UNCHANGED <<commits, edition, rows, ledger, started, alone>>

GitNext ==
    \/ GitCommit \/ \E x \in DOMAIN ItemBodies : EditItem(x)
    \/ \E i \in GitImporters :
          \/ \E found \in {ReadCommits, ReadItems} : BeginRun(i, found)
          \/ LookUp(i) \/ InsertEpisode(i) \/ RecordAccepted(i) \/ RecordRejected(i) \/ StopRun(i)

GitSpec == GitInit /\ [][GitNext]_gitVars
----------------------------------------------------------------------------
(* What an import from git promises: "an evidence-only ingest path" that can *)
(* be run again (src/src/git_import.rs:1). *)

References == [kind: {"commit"}, root: DOMAIN CommitBodies, n: Nat]
                  \cup [kind: {"item"}, root: DOMAIN ItemBodies, n: Nat]

\* The state stays within its types.
GitTypeOK ==
    /\ commits \in DOMAIN CommitBodies /\ \A x \in DOMAIN ItemBodies : edition[x] \in DOMAIN ItemBodies[x]
    /\ \A n \in DOMAIN rows : rows[n].ref \in References /\ rows[n].by \in GitImporters
    /\ \A e \in ledger : e.ref \in References /\ e.row \in 0 .. Len(rows)
    /\ \A i \in GitImporters :
          /\ runs[i].pc \in {"none", "look", "insert", "record", "done"}
          /\ \A n \in DOMAIN runs[i].found : runs[i].found[n].ref \in References
          /\ runs[i].todo \subseteq DOMAIN runs[i].found
    /\ started \in 0 .. MaxRuns /\ killed \in 0 .. MaxKills /\ alone \in BOOLEAN

\* A place of a source is taken in once, however often the source is imported again, is interrupted or has
\* changed, unless two imports have run at once.
TakenOnce == alone => \A m, n \in DOMAIN rows : rows[m].ref = rows[n].ref => m = n

\* An import that has ended leaves an episode at every place it has read; of a commit it is what stands
\* there.  Of an item the place alone is held: what was put there after the place was taken is left out for
\* good, and what moved to a new place is stored a second time (git_import.rs:229).
PlacesAreTaken ==
    \A i \in GitImporters : runs[i].pc = "done" => \A t \in ToSet(runs[i].found) : t.ok =>
        \E n \in DOMAIN rows : rows[n].ref = t.ref /\ (t.ref.kind = "commit" => rows[n].text = t.text)

\* What a source says: an item, in one of its editions so far.
Bodies(ref) ==
    IF ref.kind = "commit" THEN {CommitBodies[ref.root]}
    ELSE {ItemBodies[ref.root][e] : e \in 1 .. edition[ref.root]}
HasSaid(ref, text) ==
    \E body \in Bodies(ref) : ref.n \in DOMAIN body /\ body[ref.n].text = text /\ body[ref.n].ok

\* An episode is what its source says, or has said, at that place, and the policy accepts it.
EpisodesAreSaid == \A n \in DOMAIN rows : HasSaid(rows[n].ref, rows[n].text)

\* The ledger speaks of episodes there are, and of all of them unless an import was cut short.
LedgerFollows ==
    /\ \A e \in ledger : e.row # 0 => rows[e.row].ref = e.ref
    /\ killed = 0 /\ (\A i \in GitImporters : ~Underway(i)) =>
           \A n \in DOMAIN rows : \E e \in ledger : e.row = n

GitIsTaken == TakenOnce /\ PlacesAreTaken /\ EpisodesAreSaid /\ LedgerFollows
=============================================================================
