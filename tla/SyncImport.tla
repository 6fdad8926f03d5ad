----------------------------- MODULE SyncImport -----------------------------
(***************************************************************************)
(* Taking local memory files into the store (run_sync, src/src/ingest.rs). *)
(* A run is given the files as they were read, and stores each file's      *)
(* source and then its chunks, one store call after the other and none of  *)
(* them in a common transaction.  A file whose source is there already is  *)
(* skipped; a chunk that is there already keeps its row; rows of a file    *)
(* that are not among its fresh chunks are archived.  Runs may overlap, and *)
(* one that fails or dies leaves what it has done.                         *)
(*                                                                         *)
(* Content is a set of chunks, and a chunk stands for its content hash: the *)
(* same text in two files is one row.  No chunks are what is left of a file *)
(* that is empty, of no kind that is known, or refused by the policy.      *)
(* Left out: a preview, which writes nothing; chunks the policy refuses on *)
(* their own; the evidence ledger; two runs inserting the same row at once, *)
(* where the unique index fails one.                                       *)
(* A definition marked "Slip" is the next one with a mistake in it.        *)
(***************************************************************************)
EXTENDS Integers, FiniteSets

CONSTANTS
    Syncs,          \* callers of apply
    Files, Chunks,
    Nowhere,        \* the file of a chunk that has no row
    MaxSyncs, MaxChanges, MaxBreaks     \* bounds

ASSUME SyncImportAssumption ==
    /\ Nowhere \notin Files
    /\ MaxSyncs \in Nat /\ MaxChanges \in Nat /\ MaxBreaks \in Nat

VARIABLES
    disk,           \* content of each file
    sources,        \* memory_sources: files with the content they were taken in with
    home,           \* local_path of each chunk's row: the file it was first found in
    retired,        \* chunks whose row is archived
    cursor,         \* sync_cursors: "none", "started" or "completed"
    syncs,          \* where each run is
    begun, changes, breaks,     \* runs, edits and failures so far
    cut,            \* sources whose run ended before all chunks were stored
    whole,          \* sources all of whose chunks were stored
    dropped,        \* chunks a user deleted the row of
    latest          \* what each file was last taken in with, {} when in doubt

syncVars == <<disk, sources, home, retired, cursor, syncs, begun, changes, breaks,
              cut, whole, dropped, latest>>
counters == <<begun, changes, breaks>>
marks == <<cut, whole, dropped, latest>>

Contents == (SUBSET Chunks) \ {{}}
NotSyncing == [pc |-> "idle", files |-> [p \in Files |-> {}], left |-> {}, file |-> Nowhere,
          known |-> FALSE, had |-> FALSE, fresh |-> {}, todo |-> {},
          alone |-> FALSE]

SyncInit ==
    /\ disk \in [Files -> Contents]
    /\ sources = {} /\ home = [c \in Chunks |-> Nowhere] /\ retired = {}
    /\ cursor = "none"
    /\ syncs = [r \in Syncs |-> NotSyncing]
    /\ begun = 0 /\ changes = 0 /\ breaks = 0
    /\ cut = {} /\ whole = {} /\ dropped = {}
    /\ latest = [p \in Files |-> {}]

SyncAt(r, pc) == syncs[r].pc = pc
File(r) == syncs[r].file
Content(r) == syncs[r].files[File(r)]
Source(r) == <<File(r), Content(r)>>
Goes(r, next) == syncs' = [syncs EXCEPT ![r] = next]
NextFile(r) == [NotSyncing EXCEPT !.pc = "files", !.files = syncs[r].files,
                    !.left = syncs[r].left \ {File(r)}, !.fresh = syncs[r].fresh]

Stored(c) == home[c] # Nowhere
Live(p) == {c \in Chunks \ retired : home[c] = p}

\* Runs that have stored the source of a file and not yet left it.
Busy(p) == {r \in Syncs : File(r) = p /\ syncs[r].pc \in {"count", "chunks"}}

\* A store call fails, or the process ends.
Breaks == breaks < MaxBreaks /\ breaks' = breaks + 1
----------------------------------------------------------------------------
(* A run *)

\* start_sync_cursor, with the files as the caller read them.
StartSync(r) ==
    /\ SyncAt(r, "idle") /\ begun < MaxSyncs
    /\ Goes(r, [NotSyncing EXCEPT !.pc = "files", !.files = disk, !.left = Files])
    /\ cursor' = IF cursor = "none" THEN "started" ELSE cursor
    /\ begun' = begun + 1
    /\ UNCHANGED <<disk, sources, home, retired, changes, breaks, marks>>

\* run_sync: a file that is refused is passed over, and what is there of it stays.
RejectFile(r) ==
    /\ SyncAt(r, "files")
    /\ \E p \in syncs[r].left : /\ syncs[r].files[p] = {}
                                /\ Goes(r, [syncs[r] EXCEPT !.left = @ \ {p}])
    /\ UNCHANGED <<disk, sources, home, retired, cursor, counters, marks>>

\* find_source
FoundSource(p, content) == <<p, content>> \in sources

\* already_imported
FindSource(r) ==
    /\ SyncAt(r, "files")
    /\ \E p \in syncs[r].left :
          /\ syncs[r].files[p] # {}
          /\ Goes(r, [syncs[r] EXCEPT !.pc = "source", !.file = p,
                                 !.known = FoundSource(p, syncs[r].files[p])])
    /\ UNCHANGED <<disk, sources, home, retired, cursor, counters, marks>>

\* "Whole file already imported and unchanged": a source that was found exists still.
Skips(r) == syncs[r].known

\* upsert_source
StoreSource(r) ==
    /\ SyncAt(r, "source")
    /\ sources' = sources \cup {Source(r)}
    /\ IF Skips(r)
       THEN /\ Goes(r, NextFile(r))
            /\ latest' = [latest EXCEPT ![File(r)] = IF @ = Content(r) THEN @ ELSE {}]
       ELSE /\ syncs' = [q \in Syncs |->
                 IF q = r THEN [syncs[r] EXCEPT !.pc = "count", !.alone = Busy(File(r)) = {}]
                 ELSE IF q \in Busy(File(r)) THEN [syncs[q] EXCEPT !.alone = FALSE]
                 ELSE syncs[q]]
            /\ latest' = [latest EXCEPT ![File(r)] = {}]
    /\ UNCHANGED <<disk, home, retired, cursor, counters, cut, whole, dropped>>

\* Slip: the fresh chunks are those of all files so far.
FreshKept(r) == syncs[r].fresh
FreshAtFirst(r) == {}

\* count_active_records_for_path; an error counts as none.
CountRows(r) ==
    /\ SyncAt(r, "count")
    /\ LET next == [syncs[r] EXCEPT !.pc = "chunks", !.had = Live(File(r)) # {},
                        !.fresh = FreshAtFirst(r), !.todo = Content(r)]
       IN  \/ Goes(r, next) /\ UNCHANGED breaks
           \/ Breaks /\ Goes(r, [next EXCEPT !.had = FALSE, !.alone = FALSE])
    /\ UNCHANGED <<disk, sources, home, retired, cursor, begun, changes, marks>>

LeftAfter(r, c) == syncs[r].todo \ {c}

\* upsert_record: a row that is there stays as it is, archived or not.
StoreChunk(r) ==
    /\ SyncAt(r, "chunks")
    /\ \E c \in syncs[r].todo :
          /\ home' = IF Stored(c) THEN home ELSE [home EXCEPT ![c] = File(r)]
          /\ Goes(r, [syncs[r] EXCEPT !.todo = LeftAfter(r, c), !.fresh = @ \cup {c}])
    /\ UNCHANGED <<disk, sources, retired, cursor, counters, marks>>

Stale(r) == IF syncs[r].had THEN Live(File(r)) \ syncs[r].fresh ELSE {}

\* archive_stale_path_records; its error is dropped.
ArchiveStale(r) ==
    /\ SyncAt(r, "chunks") /\ syncs[r].todo = {}
    /\ \/ /\ retired' = retired \cup Stale(r)
          /\ latest' = [latest EXCEPT ![File(r)] = IF syncs[r].alone THEN Content(r) ELSE @]
          /\ UNCHANGED breaks
       \/ Breaks /\ syncs[r].had /\ UNCHANGED <<retired, latest>>
    /\ whole' = whole \cup {Source(r)}
    /\ Goes(r, NextFile(r))
    /\ UNCHANGED <<disk, sources, home, cursor, begun, changes, cut, dropped>>

\* complete_sync_cursor
FinishSync(r) ==
    /\ SyncAt(r, "files") /\ syncs[r].left = {}
    /\ cursor' = "completed"
    /\ Goes(r, NotSyncing)
    /\ UNCHANGED <<disk, sources, home, retired, counters, marks>>

\* The run is over: no error is ever written to the cursor.
BreakSync(r) ==
    /\ ~SyncAt(r, "idle") /\ Breaks
    /\ Goes(r, NotSyncing)
    /\ cut' = IF SyncAt(r, "count") \/ SyncAt(r, "chunks") THEN cut \cup {Source(r)} ELSE cut
    /\ UNCHANGED <<disk, sources, home, retired, cursor, begun, changes, whole, dropped, latest>>
----------------------------------------------------------------------------
(* The world *)

Change == changes < MaxChanges /\ changes' = changes + 1

EditFile(p) ==
    /\ Change
    /\ \E F \in (SUBSET Chunks) \ {disk[p]} : disk' = [disk EXCEPT ![p] = F]
    /\ UNCHANGED <<sources, home, retired, cursor, syncs, begun, breaks, marks>>

\* forget: archive_records or delete_records
ForgetChunk(c) ==
    /\ Change /\ Stored(c)
    /\ \/ retired' = retired \cup {c} /\ UNCHANGED <<home, dropped>>
       \/ /\ home' = [home EXCEPT ![c] = Nowhere]
          /\ retired' = retired \ {c}
          /\ dropped' = dropped \cup {c}
    /\ UNCHANGED <<disk, sources, cursor, syncs, begun, breaks, cut, whole, latest>>

SyncStep(r) ==
    \/ StartSync(r) \/ RejectFile(r) \/ FindSource(r) \/ StoreSource(r) \/ CountRows(r)
    \/ StoreChunk(r) \/ ArchiveStale(r) \/ FinishSync(r) \/ BreakSync(r)

SyncNext ==
    \/ \E r \in Syncs : SyncStep(r)
    \/ \E p \in Files : EditFile(p)
    \/ \E c \in Chunks : ForgetChunk(c)

SyncSpec == SyncInit /\ [][SyncNext]_syncVars
=============================================================================
