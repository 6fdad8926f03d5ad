------------------------- MODULE SyncImportProperties -------------------------
(* What taking files in promises (SPEC.md 7.9, docs/codex-integration.md).     *)
EXTENDS SyncImport

Runs == [pc: {"idle", "files", "source", "count", "chunks"},
         files: [Files -> SUBSET Chunks], left: SUBSET Files, file: Files \cup {Nowhere},
         known: BOOLEAN, had: BOOLEAN, fresh: SUBSET Chunks, todo: SUBSET Chunks,
         alone: BOOLEAN]

\* The state stays within its types, only stored chunks are archived, and what was stored
\* whole has a source.
SyncTypeOK ==
    /\ disk \in [Files -> SUBSET Chunks]
    /\ sources \subseteq Files \X Contents
    /\ home \in [Chunks -> Files \cup {Nowhere}]
    /\ retired \subseteq {c \in Chunks : Stored(c)}
    /\ cursor \in {"none", "started", "completed"}
    /\ syncs \in [Syncs -> Runs]
    /\ begun \in 0 .. MaxSyncs /\ changes \in 0 .. MaxChanges /\ breaks \in 0 .. MaxBreaks
    /\ cut \cup whole \subseteq sources
    /\ dropped \subseteq Chunks
    /\ latest \in [Files -> SUBSET Chunks]

\* A source stands for all its chunks, so that a later run may skip the file: each has a
\* row or was deleted, unless the file is being taken in or its run was cut off.
SourcesStandForChunks ==
    \A s \in sources \ cut :
        \/ \E r \in Syncs : r \in Busy(s[1]) /\ Source(r) = s
        \/ \A c \in s[2] : Stored(c) \/ c \in dropped

\* "Prior chunks that no longer exist in the file are superseded (archived) rather than
\* left to contradict the fresh import": whatever the file held before, runs that were cut
\* off included.  Excepted are files that went back to a content they were taken in with
\* before, and files two runs took in at once.
NothingContradictsTheFile ==
    \A p \in Files : latest[p] # {} => Live(p) \subseteq latest[p]

\* So a file that was taken in may be skipped, and one that was taken in again is what the
\* memory says: sources stand for what was stored and rows for what is there.
FilesAreHeld == SourcesStandForChunks /\ NothingContradictsTheFile

\* The same promise as NothingContradictsTheFile, with no exception for a file that went
\* back: when a run that is alone ends without a failure, a file's active rows are among its chunks,
\* unless the file was refused.
MemoryFollowsFiles ==
    [][\A r \in Syncs : FinishSync(r) /\ breaks = 0 /\ Syncs = {r} =>
          \A p \in Files : syncs[r].files[p] # {} => Live(p) \subseteq syncs[r].files[p]]_syncVars
=============================================================================
