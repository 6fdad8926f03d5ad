---------------------------- MODULE RecordsProofs ----------------------------
(***************************************************************************)
(* Proofs about what else writes records: what a local file was taken in   *)
(* with can be relied on, rows stand on their evidence and answers to      *)
(* clients are true, a session of MCP keeps its order, procedures are      *)
(* earned, and imports of aliases and relations report what is so; and     *)
(* that the models keep this together as they do each alone.               *)
(***************************************************************************)
EXTENDS MCRecords, TLAPS, FiniteSetTheorems

\* A run is at a file it has not refused, and knows of a source that is there.
AtFile(r) ==
    syncs[r].pc \in {"source", "count", "chunks"} =>
        File(r) \in Files /\ Content(r) # {} /\ (syncs[r].known => Source(r) \in sources)

\* What a run has stored of the file it is busy with; and while it is the only one that is
\* busy with the file, it has seen all rows of it.
AtChunks(r) ==
    /\ syncs[r].pc \in {"count", "chunks"} =>
          /\ Source(r) \in sources /\ latest[File(r)] = {}
          /\ syncs[r].alone => Busy(File(r)) = {r}
    /\ syncs[r].pc = "chunks" =>
          /\ syncs[r].fresh \cup syncs[r].todo \subseteq Content(r)
          /\ \A c \in Content(r) \ syncs[r].todo : Stored(c) \/ c \in dropped
          /\ syncs[r].alone /\ ~syncs[r].had => Live(File(r)) \subseteq syncs[r].fresh

SyncInv == SyncTypeOK /\ (\A r \in Syncs : AtFile(r) /\ AtChunks(r)) /\ FilesAreHeld

LEMMA SyncInitInv == SyncInit => SyncInv
<1> SUFFICES ASSUME SyncInit PROVE SyncInv
  OBVIOUS
<1> USE DEF SyncInit
<1>1. SyncTypeOK
  BY SyncImportAssumption DEF SyncTypeOK, Contents, NotSyncing, Runs, Stored
<1>2. FilesAreHeld
  BY DEF FilesAreHeld, SourcesStandForChunks, NothingContradictsTheFile
<1>3. \A r \in Syncs : AtFile(r) /\ AtChunks(r)
  BY DEF AtFile, AtChunks, NotSyncing
<1> QED
  BY <1>1, <1>2, <1>3 DEF SyncInv

LEMMA RunsGoOn ==
    ASSUME SyncTypeOK, NEW r \in Syncs
    PROVE  /\ syncs[r] \in Runs /\ NotSyncing \in Runs
           /\ SyncAt(r, "files") => syncs[r].pc = "files"
           /\ NextFile(r) \in Runs
           /\ [NotSyncing EXCEPT !.pc = "files", !.files = disk, !.left = Files] \in Runs
           /\ \A p \in Files, z \in BOOLEAN :
                 [syncs[r] EXCEPT !.pc = "source", !.file = p, !.known = z] \in Runs
           /\ \A p \in Files : [syncs[r] EXCEPT !.left = @ \ {p}] \in Runs
           /\ \A z \in BOOLEAN : [syncs[r] EXCEPT !.pc = "count", !.alone = z] \in Runs
           /\ [syncs[r] EXCEPT !.alone = FALSE] \in Runs
           /\ \A c \in Chunks, F \in SUBSET Chunks :
                 [syncs[r] EXCEPT !.todo = F, !.fresh = @ \cup {c}] \in Runs
<1>1. syncs[r] \in Runs /\ disk \in [Files -> SUBSET Chunks]
  BY DEF SyncTypeOK
<1>2. NotSyncing \in Runs
  BY DEF NotSyncing, Runs
<1>3. NextFile(r) \in Runs
  BY <1>1, <1>2 DEF NextFile, NotSyncing, Runs
<1>4. [NotSyncing EXCEPT !.pc = "files", !.files = disk, !.left = Files] \in Runs
  BY <1>1, <1>2 DEF NotSyncing, Runs
<1> QED
  BY <1>1, <1>2, <1>3, <1>4 DEF Runs, SyncAt

\* Where the runs are, whatever else a step does.
LEMMA SyncRunsType ==
    ASSUME SyncInv, SyncNext
    PROVE  syncs' \in [Syncs -> Runs]
<1>1. /\ syncs \in [Syncs -> Runs] /\ SyncTypeOK
      /\ \A r \in Syncs : syncs[r] \in Runs
  BY DEF SyncInv, SyncTypeOK
<1>2. ASSUME NEW r \in Syncs, NEW q \in Runs, Goes(r, q)
      PROVE  syncs' \in [Syncs -> Runs]
  BY <1>1, <1>2 DEF Goes
<1>3. ASSUME NEW r \in Syncs, StartSync(r)
      PROVE  syncs' \in [Syncs -> Runs]
  BY <1>1, <1>2, <1>3, RunsGoOn DEF StartSync
<1>4. ASSUME NEW r \in Syncs, RejectFile(r)
      PROVE  syncs' \in [Syncs -> Runs]
  <2>1. syncs[r].left \subseteq Files
    BY <1>1 DEF Runs
  <2> QED
    BY <1>1, <1>2, <1>4, <2>1, RunsGoOn DEF RejectFile
<1>5. ASSUME NEW r \in Syncs, FindSource(r)
      PROVE  syncs' \in [Syncs -> Runs]
  <2>1. syncs[r].left \subseteq Files
    BY <1>1 DEF Runs
  <2>2. \A p : FoundSource(p, syncs[r].files[p]) \in BOOLEAN
    BY DEF FoundSource
  <2> QED
    BY <1>1, <1>2, <1>5, <2>1, <2>2, RunsGoOn DEF FindSource
<1>6. ASSUME NEW r \in Syncs, StoreSource(r)
      PROVE  syncs' \in [Syncs -> Runs]
  <2>1. (Busy(File(r)) = {}) \in BOOLEAN /\ Busy(File(r)) \subseteq Syncs
    BY DEF Busy
  <2>2. CASE Skips(r)
    BY <1>1, <1>2, <1>6, <2>2, RunsGoOn DEF StoreSource
  <2>3. CASE ~Skips(r)
    BY ZenonT(30), <1>1, <1>6, <2>1, <2>3, RunsGoOn DEF StoreSource
  <2> QED
    BY <2>2, <2>3
<1>7. ASSUME NEW r \in Syncs, CountRows(r)
      PROVE  syncs' \in [Syncs -> Runs]
  <2>1. /\ Content(r) \subseteq Chunks /\ FreshAtFirst(r) \subseteq Chunks
        /\ (Live(File(r)) # {}) \in BOOLEAN /\ File(r) \in Files
    BY <1>1, <1>7 DEF Content, FreshAtFirst, Runs, SyncInv, AtFile, CountRows, SyncAt, File
  <2>2. \A z, y \in BOOLEAN :
          /\ [syncs[r] EXCEPT !.pc = "chunks", !.had = z, !.fresh = FreshAtFirst(r),
                              !.todo = Content(r)] \in Runs
          /\ [[syncs[r] EXCEPT !.pc = "chunks", !.had = z, !.fresh = FreshAtFirst(r),
                               !.todo = Content(r)] EXCEPT !.had = FALSE, !.alone = FALSE] \in Runs
    BY <1>1, <2>1 DEF Runs
  <2> QED
    BY <1>1, <1>2, <1>7, <2>1, <2>2 DEF CountRows
<1>8. ASSUME NEW r \in Syncs, StoreChunk(r)
      PROVE  syncs' \in [Syncs -> Runs]
  <2>1. \A c \in syncs[r].todo : c \in Chunks /\ LeftAfter(r, c) \in SUBSET Chunks
    BY <1>1 DEF Runs, LeftAfter
  <2> QED
    BY <1>1, <1>2, <1>8, <2>1, RunsGoOn DEF StoreChunk
<1>9. ASSUME NEW r \in Syncs, ArchiveStale(r) \/ FinishSync(r) \/ BreakSync(r)
      PROVE  syncs' \in [Syncs -> Runs]
  BY <1>1, <1>2, <1>9, RunsGoOn DEF ArchiveStale, FinishSync, BreakSync
<1>10. ASSUME UNCHANGED syncs
       PROVE  syncs' \in [Syncs -> Runs]
  BY <1>1, <1>10
<1> QED
  BY <1>3, <1>4, <1>5, <1>6, <1>7, <1>8, <1>9, <1>10 DEF SyncNext, SyncStep, EditFile, ForgetChunk

LEMMA SyncNextType ==
    ASSUME SyncInv, SyncNext
    PROVE  SyncTypeOK'
<1>1. syncs' \in [Syncs -> Runs]
  BY SyncRunsType
<1>2. /\ SyncTypeOK /\ \A r \in Syncs : syncs[r] \in Runs
  BY DEF SyncInv, SyncTypeOK
<1>3. ASSUME NEW r \in Syncs, syncs[r].pc \in {"source", "count", "chunks"}
      PROVE  File(r) \in Files /\ Content(r) \in Contents
  <2>1. syncs[r].files \in [Files -> SUBSET Chunks]
    BY <1>2 DEF Runs
  <2>2. File(r) \in Files /\ Content(r) # {}
    BY <1>3 DEF SyncInv, AtFile
  <2>3. Content(r) \in SUBSET Chunks
    BY <2>1, <2>2 DEF Content
  <2> QED
    BY <2>2, <2>3 DEF Contents
<1> USE SyncImportAssumption DEF SyncTypeOK, marks, counters, Breaks, Change
<1>4. ASSUME NEW r \in Syncs, StartSync(r) \/ RejectFile(r) \/ FindSource(r) \/ FinishSync(r)
      PROVE  SyncTypeOK'
  <2>1. /\ UNCHANGED <<disk, sources, home, retired, changes, breaks, marks>>
        /\ cursor' \in {"none", "started", "completed"} /\ begun' \in 0 .. MaxSyncs
    <3>1. CASE StartSync(r)
      BY <1>2, <3>1 DEF StartSync
    <3>2. CASE RejectFile(r) \/ FindSource(r)
      BY <1>2, <3>2 DEF RejectFile, FindSource
    <3>3. CASE FinishSync(r)
      BY <1>2, <3>3 DEF FinishSync
    <3> QED
      BY <1>4, <3>1, <3>2, <3>3
  <2> QED
    BY <1>1, <1>2, <2>1 DEF Stored
<1>5. ASSUME NEW r \in Syncs, StoreSource(r)
      PROVE  SyncTypeOK'
  <2>1. Source(r) \in Files \X Contents
    BY <1>3, <1>5 DEF StoreSource, SyncAt, Source
  <2> QED
    BY <1>1, <1>2, <1>5, <2>1 DEF StoreSource, Stored
<1>6. ASSUME NEW r \in Syncs, CountRows(r)
      PROVE  SyncTypeOK'
  BY <1>1, <1>2, <1>6 DEF CountRows, Stored
<1>7. ASSUME NEW r \in Syncs, StoreChunk(r)
      PROVE  SyncTypeOK'
  BY <1>1, <1>2, <1>3, <1>7 DEF StoreChunk, SyncAt, Stored
<1>8. ASSUME NEW r \in Syncs, ArchiveStale(r)
      PROVE  SyncTypeOK'
  <2>1. Source(r) \in sources /\ Content(r) \in SUBSET Chunks
    BY <1>3, <1>8 DEF ArchiveStale, SyncAt, SyncInv, AtChunks, Contents
  <2>2. Stale(r) \subseteq {c \in Chunks : Stored(c)}
    BY <1>3, <1>8 DEF ArchiveStale, SyncAt, Stale, Live, Stored
  <2> QED
    BY <1>1, <1>2, <1>8, <2>1, <2>2 DEF ArchiveStale, Stored
<1>9. ASSUME NEW r \in Syncs, BreakSync(r)
      PROVE  SyncTypeOK'
  <2>1. SyncAt(r, "count") \/ SyncAt(r, "chunks") => Source(r) \in sources
    BY DEF SyncAt, SyncInv, AtChunks
  <2> QED
    BY <1>1, <1>2, <1>9, <2>1 DEF BreakSync, Stored
<1>10. ASSUME NEW p \in Files, EditFile(p)
       PROVE  SyncTypeOK'
  BY <1>1, <1>2, <1>10 DEF EditFile, Stored
<1>11. ASSUME NEW c \in Chunks, ForgetChunk(c)
       PROVE  SyncTypeOK'
  BY <1>1, <1>2, <1>11 DEF ForgetChunk, Stored
<1> QED
  BY <1>4, <1>5, <1>6, <1>7, <1>8, <1>9, <1>10, <1>11 DEF SyncNext, SyncStep

\* What a step of run r does to the rest: another run, not busy with the same file, is where
\* it was, and what held of it holds as long as its source and its rows do.
LEMMA AtFileOn ==
    ASSUME SyncInv, NEW q \in Syncs, sources \subseteq sources',
           \/ syncs'[q] = syncs[q] \/ syncs'[q] = [syncs[q] EXCEPT !.alone = FALSE]
    PROVE  AtFile(q)'
<1>1. syncs[q] \in Runs
  BY DEF SyncInv, SyncTypeOK
<1>2. /\ syncs'[q].pc = syncs[q].pc /\ syncs'[q].file = syncs[q].file
      /\ syncs'[q].files = syncs[q].files /\ syncs'[q].known = syncs[q].known
  BY <1>1 DEF Runs
<1> QED
  BY <1>2 DEF SyncInv, AtFile, File, Content, Source

LEMMA SyncAtFile ==
    ASSUME SyncInv, SyncNext, NEW q \in Syncs
    PROVE  AtFile(q)'
<1>1. /\ SyncTypeOK /\ syncs \in [Syncs -> Runs] /\ \A r \in Syncs : syncs[r] \in Runs
  BY DEF SyncInv, SyncTypeOK
<1>2. sources \subseteq sources'
  BY DEF SyncNext, SyncStep, StartSync, RejectFile, FindSource, StoreSource, CountRows, StoreChunk,
         ArchiveStale, FinishSync, BreakSync, EditFile, ForgetChunk, marks
<1>3. ASSUME NEW r \in Syncs, NEW x, Goes(r, x), q # r
      PROVE  AtFile(q)'
  BY <1>1, <1>2, <1>3, AtFileOn DEF Goes
<1>4. ASSUME NEW x, Goes(q, x), x.pc \in {"idle", "files"}
      PROVE  AtFile(q)'
  BY <1>1, <1>4 DEF Goes, AtFile
<1>5. ASSUME NEW r \in Syncs, StartSync(r) \/ RejectFile(r) \/ FinishSync(r) \/ BreakSync(r) \/ ArchiveStale(r)
      PROVE  AtFile(q)'
  <2>1. PICK x : Goes(r, x) /\ x.pc \in {"idle", "files"}
    <3>1. NextFile(r).pc = "files" /\ NotSyncing.pc = "idle"
      BY DEF NextFile, NotSyncing
    <3>2. SyncAt(r, "files") => \A p : [syncs[r] EXCEPT !.left = @ \ {p}].pc = "files"
      BY <1>1 DEF SyncAt, Runs
    <3>3. [NotSyncing EXCEPT !.pc = "files", !.files = disk, !.left = Files].pc = "files"
      BY DEF NotSyncing
    <3> QED
      BY <1>5, <3>1, <3>2, <3>3 DEF StartSync, RejectFile, FinishSync, BreakSync, ArchiveStale
  <2> QED
    BY <1>3, <1>4, <2>1
<1>6. ASSUME NEW r \in Syncs, FindSource(r)
      PROVE  AtFile(q)'
  <2>1. PICK p \in Files : /\ syncs[r].files[p] # {}
                           /\ Goes(r, [syncs[r] EXCEPT !.pc = "source", !.file = p,
                                                      !.known = FoundSource(p, syncs[r].files[p])])
    BY <1>1, <1>6 DEF FindSource, Runs
  <2>2. CASE q = r
    <3>1. /\ syncs'[q].file = p /\ syncs'[q].files = syncs[q].files
          /\ syncs'[q].known = FoundSource(p, syncs[q].files[p])
      BY <1>1, <2>1, <2>2 DEF Goes, Runs
    <3> QED
      BY <1>2, <2>1, <2>2, <3>1 DEF AtFile, File, Content, Source, FoundSource
  <2> QED
    BY <1>3, <2>1, <2>2
<1>7. ASSUME NEW r \in Syncs, StoreSource(r)
      PROVE  AtFile(q)'
  <2>1. CASE Skips(r)
    <3>1. Goes(r, NextFile(r)) /\ NextFile(r).pc = "files"
      BY <1>7, <2>1 DEF StoreSource, NextFile, NotSyncing
    <3> QED
      BY <1>3, <1>4, <3>1
  <2>2. CASE ~Skips(r) /\ q # r
    <3>1. syncs'[q] = syncs[q] \/ syncs'[q] = [syncs[q] EXCEPT !.alone = FALSE]
      BY <1>7, <2>2 DEF StoreSource
    <3> QED
      BY <1>2, <3>1, AtFileOn
  <2>3. CASE ~Skips(r) /\ q = r
    <3>1. /\ syncs'[q].file = syncs[q].file /\ syncs'[q].files = syncs[q].files
          /\ syncs'[q].known = syncs[q].known /\ syncs[q].pc = "source"
      <4>1. syncs'[q] = [syncs[q] EXCEPT !.pc = "count", !.alone = Busy(File(q)) = {}]
        BY <1>1, <1>7, <2>3 DEF StoreSource
      <4>2. syncs[q].pc = "source" /\ syncs[q] \in Runs
        BY <1>1, <1>7, <2>3 DEF StoreSource, SyncAt
      <4> QED
        BY <4>1, <4>2 DEF Runs
    <3> QED
      BY <1>2, <2>3, <3>1 DEF AtFile, File, Content, Source, SyncInv
  <2> QED
    BY <2>1, <2>2, <2>3
<1>8. ASSUME NEW r \in Syncs, CountRows(r) \/ StoreChunk(r)
      PROVE  AtFile(q)'
  <2>1. CASE q # r
    BY <1>3, <1>8, <2>1 DEF CountRows, StoreChunk
  <2>2. CASE q = r
    <3>1. /\ syncs'[q].file = syncs[q].file /\ syncs'[q].files = syncs[q].files
          /\ syncs'[q].known = syncs[q].known /\ syncs[q].pc \in {"count", "chunks"}
      <4> DEFINE Same(x) == x.file = syncs[q].file /\ x.files = syncs[q].files /\ x.known = syncs[q].known
      <4>1. CASE CountRows(r)
        <5> DEFINE x == [syncs[q] EXCEPT !.pc = "chunks", !.had = Live(File(q)) # {},
                                         !.fresh = FreshAtFirst(q), !.todo = Content(q)]
        <5>1. Same(x) /\ Same([x EXCEPT !.had = FALSE, !.alone = FALSE])
          BY <1>1 DEF Runs
        <5>2. Goes(q, x) \/ Goes(q, [x EXCEPT !.had = FALSE, !.alone = FALSE])
          BY <2>2, <4>1 DEF CountRows
        <5>3. syncs[q].pc = "count"
          BY <2>2, <4>1 DEF CountRows, SyncAt
        <5> HIDE DEF x
        <5> QED
          BY <1>1, <5>1, <5>2, <5>3 DEF Goes
      <4>2. CASE StoreChunk(r)
        <5>1. PICK c : Goes(q, [syncs[q] EXCEPT !.todo = LeftAfter(q, c), !.fresh = @ \cup {c}])
          BY <2>2, <4>2 DEF StoreChunk
        <5>2. syncs[q].pc = "chunks" /\ syncs[q] \in Runs
          BY <1>1, <2>2, <4>2 DEF StoreChunk, SyncAt
        <5> QED
          BY <1>1, <5>1, <5>2 DEF Goes, Runs
      <4> QED
        BY <1>8, <4>1, <4>2
    <3> QED
      BY <1>2, <2>2, <3>1 DEF AtFile, File, Content, Source, SyncInv
  <2> QED
    BY <2>1, <2>2
<1>9. ASSUME UNCHANGED syncs
      PROVE  AtFile(q)'
  BY <1>2, <1>9, AtFileOn
<1> QED
  BY <1>5, <1>6, <1>7, <1>8, <1>9 DEF SyncNext, SyncStep, EditFile, ForgetChunk

Chunked == (\A q \in Syncs : AtChunks(q)) /\ FilesAreHeld

\* A run that is where it was, or goes elsewhere without having been busy with a file, while
\* the tables keep what it has stored.
LEMMA ChunkedOn ==
    ASSUME SyncInv, SyncTypeOK', NEW r \in Syncs, NEW x \in Runs, Goes(r, x), ~(syncs[r].pc \in {"count", "chunks"}),
           x.pc \in {"idle", "files", "source"},
           UNCHANGED <<sources, home, retired, cut, dropped>>,
           \A p \in Files : latest'[p] \in {latest[p], {}}
    PROVE  Chunked'
<1>1. /\ syncs'[r] = x /\ \A q \in Syncs \ {r} : syncs'[q] = syncs[q]
      /\ \A p : Live(p)' = Live(p) /\ \A c : Stored(c)' = Stored(c)
  BY DEF SyncInv, SyncTypeOK, Goes, Live, Stored
<1>2. \A p : Busy(p)' = Busy(p)
  BY <1>1 DEF Busy, File
<1>3. ASSUME NEW q \in Syncs
      PROVE  AtChunks(q)'
  <2>1. CASE q = r
    BY <1>1, <2>1 DEF AtChunks
  <2>2. CASE q # r
    <3>1. AtChunks(q) /\ AtFile(q) /\ syncs'[q] = syncs[q]
      BY <1>1, <2>2 DEF SyncInv
    <3>2. syncs[q].pc \in {"count", "chunks"} => latest'[File(q)] = {}
      BY <3>1 DEF AtChunks, AtFile
    <3> QED
      BY <1>1, <1>2, <3>1, <3>2 DEF AtChunks, File, Content, Source
  <2> QED
    BY <2>1, <2>2
<1>4. FilesAreHeld'
  <2>1. \A q \in Syncs : \A p : q \in Busy(p) => syncs'[q] = syncs[q]
    BY <1>1 DEF Busy
  <2>2. FilesAreHeld
    BY DEF SyncInv
  <2>3. SourcesStandForChunks'
    BY <1>1, <1>2, <2>1, <2>2 DEF FilesAreHeld, SourcesStandForChunks, File, Content, Source
  <2>4. NothingContradictsTheFile'
    BY <1>1, <2>2 DEF FilesAreHeld, NothingContradictsTheFile
  <2> QED
    BY <2>3, <2>4 DEF FilesAreHeld
<1> QED
  BY <1>3, <1>4 DEF Chunked

LEMMA StoreChunkHeld ==
    ASSUME SyncInv, SyncTypeOK', NEW r \in Syncs, StoreChunk(r)
    PROVE  Chunked'
<1>1. PICK c \in syncs[r].todo :
          /\ home' = IF Stored(c) THEN home ELSE [home EXCEPT ![c] = File(r)]
          /\ Goes(r, [syncs[r] EXCEPT !.todo = LeftAfter(r, c), !.fresh = @ \cup {c}])
  BY DEF StoreChunk
<1>2. /\ syncs \in [Syncs -> Runs] /\ syncs[r] \in Runs /\ syncs[r].pc = "chunks" /\ home \in [Chunks -> Files \cup {Nowhere}]
      /\ UNCHANGED <<sources, retired, cut, whole, dropped, latest>>
      /\ AtChunks(r) /\ AtFile(r) /\ FilesAreHeld
  BY DEF StoreChunk, SyncAt, SyncInv, SyncTypeOK, marks
<1>3. /\ syncs'[r].pc = "chunks" /\ syncs'[r].file = syncs[r].file /\ syncs'[r].files = syncs[r].files
      /\ syncs'[r].todo = syncs[r].todo \ {c} /\ syncs'[r].fresh = syncs[r].fresh \cup {c}
      /\ syncs'[r].alone = syncs[r].alone /\ syncs'[r].had = syncs[r].had
      /\ \A q \in Syncs \ {r} : syncs'[q] = syncs[q]
  BY <1>1, <1>2 DEF Goes, LeftAfter, Runs
<1>4. /\ File(r) \in Files /\ File(r) # Nowhere /\ c \in Content(r) /\ c \in Chunks
      /\ File(r)' = File(r) /\ Content(r)' = Content(r) /\ Source(r)' = Source(r)
  BY <1>2, <1>3, SyncImportAssumption DEF AtFile, AtChunks, File, Content, Source, Runs
<1>5. \A p : Busy(p)' = Busy(p)
  BY <1>2, <1>3 DEF Busy, File
<1>6. /\ Stored(c)' /\ \A d \in Chunks : Stored(d) => Stored(d)'
      /\ Live(File(r))' \subseteq Live(File(r)) \cup {c}
      /\ \A p : p # File(r) => Live(p)' \subseteq Live(p)
  BY <1>1, <1>2, <1>4 DEF Stored, Live
<1>7. AtChunks(r)'
  <2>1. /\ Source(r) \in sources /\ latest[File(r)] = {}
        /\ syncs[r].alone => Busy(File(r)) = {r}
    BY <1>2 DEF AtChunks
  <2>2. /\ syncs[r].fresh \cup syncs[r].todo \subseteq Content(r)
        /\ \A d \in Content(r) \ syncs[r].todo : Stored(d) \/ d \in dropped
    BY <1>2 DEF AtChunks
  <2>3. syncs[r].alone /\ ~syncs[r].had => Live(File(r)) \subseteq syncs[r].fresh
    BY <1>2 DEF AtChunks
  <2>4. Content(r) \subseteq Chunks
    BY <1>2, <1>4 DEF Content, Runs
  <2>5. /\ Source(r)' \in sources' /\ latest'[File(r)'] = {}
        /\ syncs'[r].alone => Busy(File(r))' = {r}
    BY <1>2, <1>3, <1>4, <1>5, <2>1
  <2>6. syncs'[r].fresh \cup syncs'[r].todo \subseteq Content(r)'
    BY <1>3, <1>4, <2>2
  <2>7. \A d \in Content(r)' \ syncs'[r].todo : Stored(d)' \/ d \in dropped'
    BY <1>2, <1>3, <1>4, <1>6, <2>2, <2>4
  <2>8. syncs'[r].alone /\ ~syncs'[r].had => Live(File(r))' \subseteq syncs'[r].fresh
    BY <1>3, <1>4, <1>6, <2>3
  <2> QED
    BY <2>5, <2>6, <2>7, <2>8 DEF AtChunks
<1>8. ASSUME NEW q \in Syncs, q # r
      PROVE  AtChunks(q)'
  <2>1. /\ AtChunks(q) /\ AtFile(q) /\ syncs'[q] = syncs[q] /\ File(q)' = File(q)
        /\ Content(q)' = Content(q) /\ Source(q)' = Source(q)
    BY <1>3, <1>8 DEF SyncInv, File, Content, Source
  <2>2. syncs[q].pc = "chunks" /\ syncs[q].alone => File(q) # File(r)
    BY <1>2, <1>8, <2>1 DEF AtChunks, Busy
  <2>3. syncs[q].pc = "chunks" => Content(q) \subseteq Chunks
    <3>1. syncs[q].files \in [Files -> SUBSET Chunks]
      BY DEF SyncInv, SyncTypeOK, Runs
    <3> QED
      BY <2>1, <3>1 DEF AtFile, Content
  <2> QED
    BY <1>2, <1>5, <1>6, <2>1, <2>2, <2>3 DEF AtChunks
<1>9. SourcesStandForChunks'
  <2>1. \A q \in Syncs : Source(q)' = Source(q)
    BY <1>3, <1>4 DEF Source, File, Content
  <2>2. \A s \in sources : s[2] \subseteq Chunks
    BY DEF SyncInv, SyncTypeOK, Contents
  <2> QED
    BY <1>2, <1>5, <1>6, <2>1, <2>2 DEF FilesAreHeld, SourcesStandForChunks
<1>10. NothingContradictsTheFile'
  <2>1. latest[File(r)] = {}
    BY <1>2 DEF AtChunks
  <2> QED
    BY <1>2, <1>6, <2>1 DEF FilesAreHeld, NothingContradictsTheFile
<1> QED
  BY <1>7, <1>8, <1>9, <1>10 DEF Chunked, FilesAreHeld

\* A run that is where it was has what it had, as long as the tables keep it.
LEMMA ChunksOn ==
    ASSUME SyncInv, NEW q \in Syncs, syncs'[q] = syncs[q], sources \subseteq sources',
           syncs[q].pc \in {"count", "chunks"} =>
               /\ latest'[File(q)] = {}
               /\ syncs[q].alone => /\ Busy(File(q))' = Busy(File(q))
                                    /\ Live(File(q))' \subseteq Live(File(q)),
           \A c \in Chunks : Stored(c) \/ c \in dropped => Stored(c)' \/ c \in dropped'
    PROVE  AtChunks(q)'
<1>1. /\ AtChunks(q) /\ AtFile(q)
      /\ File(q)' = File(q) /\ Content(q)' = Content(q) /\ Source(q)' = Source(q)
  BY DEF SyncInv, File, Content, Source
<1>2. syncs[q].pc = "chunks" => Content(q) \subseteq Chunks
  <2>1. syncs[q].files \in [Files -> SUBSET Chunks]
    BY DEF SyncInv, SyncTypeOK, Runs
  <2> QED
    BY <1>1, <2>1 DEF AtFile, Content
<1>3. syncs[q].pc \in {"count", "chunks"} =>
          /\ Source(q)' \in sources' /\ latest'[File(q)'] = {}
          /\ syncs'[q].alone => Busy(File(q))' = {q}
  BY <1>1 DEF AtChunks
<1>4. syncs[q].pc = "chunks" =>
          /\ syncs'[q].fresh \cup syncs'[q].todo \subseteq Content(q)'
          /\ \A c \in Content(q)' \ syncs'[q].todo : Stored(c)' \/ c \in dropped'
  BY <1>1, <1>2 DEF AtChunks
<1>5. syncs[q].pc = "chunks" /\ syncs'[q].alone /\ ~syncs'[q].had => Live(File(q))' \subseteq syncs'[q].fresh
  BY <1>1 DEF AtChunks
<1> QED
  BY <1>3, <1>4, <1>5 DEF AtChunks

LEMMA StoreSourceHeld ==
    ASSUME SyncInv, SyncTypeOK', NEW r \in Syncs, StoreSource(r)
    PROVE  Chunked'
<1>1. /\ syncs \in [Syncs -> Runs] /\ syncs[r] \in Runs /\ syncs[r].pc = "source"
      /\ latest \in [Files -> SUBSET Chunks]
      /\ sources' = sources \cup {Source(r)} /\ UNCHANGED <<home, retired, cut, whole, dropped>>
      /\ AtFile(r) /\ FilesAreHeld
  BY DEF StoreSource, SyncAt, SyncInv, SyncTypeOK
<1>2. /\ File(r) \in Files /\ \A c : Stored(c)' = Stored(c) /\ \A p : Live(p)' = Live(p)
  BY <1>1 DEF AtFile, Stored, Live
<1>3. CASE Skips(r)
  <2>1. /\ Goes(r, NextFile(r)) /\ NextFile(r) \in Runs /\ NextFile(r).pc = "files"
        /\ latest' = [latest EXCEPT ![File(r)] = IF @ = Content(r) THEN @ ELSE {}]
    BY <1>3, RunsGoOn DEF StoreSource, SyncInv, NextFile, NotSyncing
  <2>2. sources' = sources
    BY <1>1, <1>3 DEF AtFile, Skips
  <2> QED
    BY <1>1, <2>1, <2>2, ChunkedOn
<1>4. CASE ~Skips(r)
  <2>1. /\ latest' = [latest EXCEPT ![File(r)] = {}]
        /\ syncs'[r] = [syncs[r] EXCEPT !.pc = "count", !.alone = Busy(File(r)) = {}]
        /\ \A q \in Syncs \ {r} :
              syncs'[q] = IF q \in Busy(File(r)) THEN [syncs[q] EXCEPT !.alone = FALSE] ELSE syncs[q]
    BY <1>4 DEF StoreSource
  <2>2. /\ syncs'[r].pc = "count" /\ syncs'[r].file = File(r) /\ syncs'[r].files = syncs[r].files
        /\ syncs'[r].alone = (Busy(File(r)) = {})
    BY <1>1, <2>1 DEF Runs, File
  <2>3. ASSUME NEW q \in Syncs, q # r
        PROVE  /\ syncs'[q].pc = syncs[q].pc /\ File(q)' = File(q) /\ Content(q)' = Content(q)
               /\ Source(q)' = Source(q)
    <3>1. syncs[q] \in Runs
      BY <1>1
    <3>2. syncs'[q].pc = syncs[q].pc /\ syncs'[q].file = syncs[q].file /\ syncs'[q].files = syncs[q].files
      <4>1. CASE syncs'[q] = syncs[q]
        BY <4>1
      <4>2. CASE syncs'[q] = [syncs[q] EXCEPT !.alone = FALSE]
        BY <3>1, <4>2 DEF Runs
      <4> QED
        BY <2>1, <2>3, <4>1, <4>2
    <3> QED
      BY <3>2 DEF File, Content, Source
  <2>4. File(r)' = File(r) /\ Content(r)' = Content(r) /\ Source(r)' = Source(r)
    BY <2>2 DEF File, Content, Source
  <2>5. Busy(File(r))' = Busy(File(r)) \cup {r} /\ \A p : p # File(r) => Busy(p)' = Busy(p)
    BY <1>1, <2>2, <2>3, <2>4 DEF Busy
  <2>6. AtChunks(r)'
    BY <1>1, <1>2, <2>1, <2>2, <2>4, <2>5 DEF AtChunks
  <2>7. ASSUME NEW q \in Syncs, q # r
        PROVE  AtChunks(q)'
    <3>1. CASE q \notin Busy(File(r))
      <4>1. syncs'[q] = syncs[q] /\ AtChunks(q)
        BY <2>1, <2>7, <3>1 DEF SyncInv
      <4>2. syncs[q].pc \in {"count", "chunks"} => File(q) # File(r)
        BY <3>1 DEF Busy
      <4>3. syncs[q].pc \in {"count", "chunks"} => latest'[File(q)] = latest[File(q)]
        BY <1>1, <1>2, <2>1, <4>2
      <4>4. syncs[q].pc \in {"count", "chunks"} =>
               latest'[File(q)] = {} /\ Busy(File(q))' = Busy(File(q)) /\ Live(File(q))' = Live(File(q))
        <5>1. File(q)' = File(q)
          BY <2>3, <2>7
        <5> QED
          BY <1>2, <2>5, <4>1, <4>2, <4>3, <5>1 DEF AtChunks
      <4> QED
        BY <1>1, <1>2, <4>1, <4>4, ChunksOn
    <3>2. CASE q \in Busy(File(r))
      <4>1. /\ syncs[q] \in Runs /\ syncs'[q] = [syncs[q] EXCEPT !.alone = FALSE] /\ AtChunks(q) /\ File(q) = File(r)
            /\ syncs[q].pc \in {"count", "chunks"}
        BY <1>1, <2>1, <2>7, <3>2 DEF SyncInv, Busy
      <4>2. /\ syncs'[q].alone = FALSE /\ syncs'[q].fresh = syncs[q].fresh /\ syncs'[q].todo = syncs[q].todo
            /\ syncs'[q].pc = syncs[q].pc
        BY <4>1 DEF Runs
      <4>3. Source(q)' \in sources' /\ latest'[File(q)'] = {}
        BY <1>1, <1>2, <2>1, <2>3, <2>7, <4>1 DEF AtChunks
      <4>4. syncs'[q].pc = "chunks" =>
                /\ syncs'[q].fresh \cup syncs'[q].todo \subseteq Content(q)'
                /\ \A c \in Content(q)' \ syncs'[q].todo : Stored(c)' \/ c \in dropped'
        BY <1>1, <1>2, <2>3, <2>7, <4>1, <4>2 DEF AtChunks
      <4> QED
        BY <4>2, <4>3, <4>4 DEF AtChunks
    <3> QED
      BY <3>1, <3>2
  <2>8. SourcesStandForChunks'
    <3>1. \A q \in Syncs : Source(q)' = Source(q)
      BY <2>3, <2>4
    <3>2. ASSUME NEW p
          PROVE  Busy(p) \subseteq Busy(p)'
      <4>1. CASE p = File(r)
        BY <1>1, <2>3, <2>4, <3>1, <4>1 DEF Busy
      <4>2. CASE p # File(r)
        BY <2>5, <4>2
      <4> QED
        BY <4>1, <4>2
    <3>3. r \in Busy(Source(r)[1])'
      BY <2>5 DEF Source
    <3> QED
      BY <1>1, <1>2, <3>1, <3>2, <3>3 DEF FilesAreHeld, SourcesStandForChunks
  <2>9. NothingContradictsTheFile'
    BY <1>1, <1>2, <2>1 DEF FilesAreHeld, NothingContradictsTheFile
  <2> QED
    BY <2>6, <2>7, <2>8, <2>9 DEF Chunked, FilesAreHeld
<1> QED
  BY <1>3, <1>4

LEMMA CountRowsHeld ==
    ASSUME SyncInv, SyncTypeOK', NEW r \in Syncs, CountRows(r)
    PROVE  Chunked'
<1>1. /\ syncs \in [Syncs -> Runs] /\ syncs[r] \in Runs /\ syncs[r].pc = "count"
      /\ UNCHANGED <<sources, home, retired, cut, whole, dropped, latest>>
      /\ AtFile(r) /\ AtChunks(r) /\ FilesAreHeld
  BY DEF CountRows, SyncAt, SyncInv, SyncTypeOK, marks
<1>2. /\ syncs'[r].pc = "chunks" /\ syncs'[r].file = syncs[r].file /\ syncs'[r].files = syncs[r].files
      /\ syncs'[r].fresh = {} /\ syncs'[r].todo = Content(r)
      /\ syncs'[r].alone => syncs[r].alone
      /\ syncs'[r].alone /\ ~syncs'[r].had => Live(File(r)) = {}
      /\ \A q \in Syncs \ {r} : syncs'[q] = syncs[q]
  <2> DEFINE had == Live(File(r)) # {}
             x == [syncs[r] EXCEPT !.pc = "chunks", !.had = had, !.fresh = FreshAtFirst(r), !.todo = Content(r)]
             y == [x EXCEPT !.had = FALSE, !.alone = FALSE]
  <2>1. \/ Goes(r, x)
        \/ Goes(r, y)
    BY DEF CountRows
  <2>2. /\ x.pc = "chunks" /\ x.file = syncs[r].file /\ x.files = syncs[r].files
        /\ x.fresh = {} /\ x.todo = Content(r) /\ x.alone = syncs[r].alone /\ x.had = had
    BY <1>1 DEF Runs, FreshAtFirst
  <2>3. /\ y.pc = "chunks" /\ y.file = syncs[r].file /\ y.files = syncs[r].files
        /\ y.fresh = {} /\ y.todo = Content(r) /\ y.alone = FALSE
    BY <1>1 DEF Runs, FreshAtFirst
  <2> HIDE DEF x, y
  <2>4. CASE Goes(r, x)
    BY <1>1, <2>2, <2>4 DEF Goes
  <2>5. CASE Goes(r, y)
    BY <1>1, <2>3, <2>5 DEF Goes
  <2> QED
    BY <2>1, <2>4, <2>5
<1>3. /\ \A q \in Syncs : File(q)' = File(q) /\ Content(q)' = Content(q) /\ Source(q)' = Source(q)
      /\ \A p : Live(p)' = Live(p) /\ \A c : Stored(c)' = Stored(c)
  BY <1>1, <1>2 DEF File, Content, Source, Live, Stored
<1>4. \A p : Busy(p)' = Busy(p)
  BY <1>1, <1>2, <1>3 DEF Busy
<1>5. AtChunks(r)'
  BY <1>1, <1>2, <1>3, <1>4 DEF AtChunks
<1>6. ASSUME NEW q \in Syncs, q # r
      PROVE  AtChunks(q)'
  BY <1>1, <1>2, <1>3, <1>4, <1>6, ChunksOn DEF SyncInv, AtChunks
<1>7. FilesAreHeld'
  BY <1>1, <1>3, <1>4 DEF FilesAreHeld, SourcesStandForChunks, NothingContradictsTheFile
<1> QED
  BY <1>5, <1>6, <1>7 DEF Chunked

LEMMA LeaveFileHeld ==
    ASSUME SyncInv, SyncTypeOK', NEW r \in Syncs, ArchiveStale(r) \/ BreakSync(r)
    PROVE  Chunked'
<1>1. /\ syncs \in [Syncs -> Runs] /\ syncs[r] \in Runs /\ AtFile(r) /\ AtChunks(r) /\ FilesAreHeld
      /\ latest \in [Files -> SUBSET Chunks] /\ home \in [Chunks -> Files \cup {Nowhere}]
      /\ UNCHANGED <<sources, home, dropped>>
  BY DEF ArchiveStale, BreakSync, SyncInv, SyncTypeOK
<1>2. /\ syncs'[r].pc \in {"idle", "files"}
      /\ \A q \in Syncs \ {r} : syncs'[q] = syncs[q]
  <2>1. \/ Goes(r, NextFile(r))
        \/ Goes(r, NotSyncing)
    BY DEF ArchiveStale, BreakSync
  <2>2. NextFile(r).pc = "files" /\ NotSyncing.pc = "idle"
    BY DEF NextFile, NotSyncing
  <2> QED
    BY <1>1, <2>1, <2>2 DEF Goes
<1>3. /\ \A q \in Syncs \ {r} : File(q)' = File(q) /\ Source(q)' = Source(q)
      /\ \A c : Stored(c)' = Stored(c)
      /\ \A p : Busy(p)' = Busy(p) \ {r}
  BY <1>1, <1>2 DEF File, Content, Source, Stored, Busy
<1>4. /\ retired \subseteq retired' /\ cut \subseteq cut'
      /\ \A p : Live(p)' \subseteq Live(p)
      /\ \A p \in Files : latest'[p] # latest[p] =>
            ArchiveStale(r) /\ p = File(r) /\ syncs[r].alone /\ latest'[p] = Content(r)
  <2>1. CASE ArchiveStale(r)
    <3>1. syncs[r].pc = "chunks" /\ File(r) \in Files /\ retired \subseteq retired' /\ UNCHANGED cut
      BY <1>1, <2>1 DEF ArchiveStale, SyncAt, AtFile
    <3>2. \A p \in Files : latest'[p] # latest[p] => p = File(r) /\ syncs[r].alone /\ latest'[p] = Content(r)
      BY <1>1, <2>1 DEF ArchiveStale
    <3> QED
      BY <1>1, <2>1, <3>1, <3>2 DEF Live
  <2>2. CASE BreakSync(r)
    <3>1. UNCHANGED <<retired, latest>> /\ cut \subseteq cut'
      BY <2>2 DEF BreakSync
    <3> QED
      BY <1>1, <3>1 DEF Live
  <2> QED
    BY <2>1, <2>2
<1>5. ASSUME NEW q \in Syncs
      PROVE  AtChunks(q)'
  <2>1. CASE q = r
    BY <1>2, <2>1 DEF AtChunks
  <2>2. CASE q # r
    <3>1. AtChunks(q) /\ AtFile(q) /\ syncs'[q] = syncs[q]
      BY <1>2, <2>2 DEF SyncInv
    <3>2. /\ syncs[q].pc \in {"count", "chunks"} /\ syncs[q].alone => r \notin Busy(File(q))
          /\ syncs[r].pc = "chunks" /\ syncs[r].alone => q \notin Busy(File(r))
      BY <1>1, <2>2, <3>1 DEF AtChunks
    <3>3. syncs[q].pc \in {"count", "chunks"} =>
             /\ latest'[File(q)] = {}
             /\ syncs[q].alone => Busy(File(q))' = Busy(File(q)) /\ Live(File(q))' \subseteq Live(File(q))
      <4>1. ASSUME syncs[q].pc \in {"count", "chunks"}
            PROVE  /\ latest'[File(q)] = {}
                   /\ syncs[q].alone => Busy(File(q))' = Busy(File(q)) /\ Live(File(q))' \subseteq Live(File(q))
        <5>1. File(q) \in Files /\ latest[File(q)] = {} /\ q \in Busy(File(q)) /\ File(q)' = File(q)
          BY <1>3, <2>2, <3>1, <4>1 DEF AtChunks, AtFile, Busy
        <5>2. latest'[File(q)] = {}
          <6> SUFFICES ASSUME latest'[File(q)] # {} PROVE FALSE
            OBVIOUS
          <6>1. ArchiveStale(r) /\ File(q) = File(r) /\ syncs[r].alone /\ syncs[r].pc = "chunks"
            BY <1>4, <5>1 DEF ArchiveStale, SyncAt
          <6> QED
            BY <3>2, <5>1, <6>1
        <5>3. syncs[q].alone => Busy(File(q))' = Busy(File(q))
          BY <1>3, <3>2, <4>1, <5>1
        <5> QED
          BY <1>4, <5>1, <5>2, <5>3
      <4> QED
        BY <4>1
    <3>4. \A c \in Chunks : Stored(c) \/ c \in dropped => Stored(c)' \/ c \in dropped'
      BY <1>1, <1>3
    <3> QED
      BY <1>1, <3>1, <3>3, <3>4, ChunksOn
  <2> QED
    BY <2>1, <2>2
<1>6. SourcesStandForChunks'
  <2>1. Source(r) \in cut' \/ r \notin Busy(File(r)) \/ \A c \in Content(r) : Stored(c) \/ c \in dropped
    <3>1. CASE ArchiveStale(r)
      BY <1>1, <3>1 DEF ArchiveStale, AtChunks, SyncAt
    <3>2. CASE BreakSync(r)
      BY <3>2 DEF BreakSync, Busy, SyncAt
    <3> QED
      BY <3>1, <3>2
  <2>2. \A p : \A q \in Syncs : q \in Busy(p) /\ q # r => q \in Busy(p)' /\ Source(q)' = Source(q)
    BY <1>3
  <2> QED
    BY <1>1, <1>3, <1>4, <2>1, <2>2 DEF FilesAreHeld, SourcesStandForChunks, Source
<1>7. NothingContradictsTheFile'
  <2>1. ASSUME NEW p \in Files, latest'[p] # {}
        PROVE  Live(p)' \subseteq latest'[p]
    <3>1. CASE latest'[p] = latest[p]
      BY <1>1, <1>4, <2>1, <3>1 DEF FilesAreHeld, NothingContradictsTheFile
    <3>2. CASE latest'[p] # latest[p]
      <4>1. /\ ArchiveStale(r) /\ p = File(r) /\ syncs[r].alone /\ latest'[p] = Content(r)
            /\ syncs[r].fresh \subseteq Content(r) /\ syncs[r].pc = "chunks"
        BY <1>1, <1>4, <3>2 DEF AtChunks, ArchiveStale, SyncAt
      <4>2. retired' = retired \cup Stale(r)
        BY <3>2, <4>1 DEF ArchiveStale
      <4>3. CASE syncs[r].had
        BY <1>1, <4>1, <4>2, <4>3 DEF Live, Stale
      <4>4. CASE ~syncs[r].had
        BY <1>1, <1>4, <4>1, <4>4 DEF AtChunks
      <4> QED
        BY <4>3, <4>4
    <3> QED
      BY <3>1, <3>2
  <2> QED
    BY <2>1 DEF NothingContradictsTheFile
<1> QED
  BY <1>5, <1>6, <1>7 DEF Chunked, FilesAreHeld

LEMMA ForgetChunkHeld ==
    ASSUME SyncInv, SyncTypeOK', NEW c \in Chunks, ForgetChunk(c)
    PROVE  Chunked'
<1>1. /\ home \in [Chunks -> Files \cup {Nowhere}] /\ retired \subseteq Chunks /\ FilesAreHeld
      /\ UNCHANGED <<sources, syncs, cut, latest>> /\ \A s \in sources : s[2] \subseteq Chunks
  BY DEF ForgetChunk, SyncInv, SyncTypeOK, Contents
<1>2. /\ \A d \in Chunks : Stored(d) \/ d \in dropped => Stored(d)' \/ d \in dropped'
      /\ \A p \in Files : Live(p)' \subseteq Live(p)
  <2>1. CASE retired' = retired \cup {c} /\ UNCHANGED <<home, dropped>>
    BY <1>1, <2>1 DEF Stored, Live
  <2>2. CASE home' = [home EXCEPT ![c] = Nowhere] /\ retired' = retired \ {c} /\ dropped' = dropped \cup {c}
    BY <1>1, <2>2, SyncImportAssumption DEF Stored, Live
  <2> QED
    BY <2>1, <2>2 DEF ForgetChunk
<1>3. \A p : Busy(p)' = Busy(p) /\ \A q : Source(q)' = Source(q)
  BY <1>1 DEF Busy, File, Source, Content
<1>4. ASSUME NEW q \in Syncs
      PROVE  AtChunks(q)'
  <2>1. AtChunks(q) /\ AtFile(q) /\ syncs'[q] = syncs[q] /\ File(q)' = File(q)
    BY <1>1 DEF SyncInv, File
  <2>2. syncs[q].pc \in {"count", "chunks"} =>
           latest'[File(q)] = {} /\ Busy(File(q))' = Busy(File(q)) /\ Live(File(q))' \subseteq Live(File(q))
    BY <1>1, <1>2, <1>3, <2>1 DEF AtChunks, AtFile
  <2> QED
    BY <1>1, <1>2, <2>1, <2>2, ChunksOn
<1>5. FilesAreHeld'
  BY <1>1, <1>2, <1>3 DEF FilesAreHeld, SourcesStandForChunks, NothingContradictsTheFile
<1> QED
  BY <1>4, <1>5 DEF Chunked

LEMMA SyncNextChunked ==
    ASSUME SyncInv, SyncNext
    PROVE  Chunked'
<1>1. SyncTypeOK' /\ SyncTypeOK
  BY SyncNextType DEF SyncInv
<1>2. ASSUME NEW r \in Syncs, StartSync(r) \/ RejectFile(r) \/ FindSource(r) \/ FinishSync(r)
      PROVE  Chunked'
  <2>1. /\ syncs[r] \in Runs /\ syncs[r].left \subseteq Files
        /\ \A x \in Runs : Goes(r, x) /\ x.pc \in {"idle", "files", "source"} => Chunked'
    <3>1. syncs[r] \in Runs /\ syncs[r].left \subseteq Files
      BY <1>1 DEF SyncTypeOK, Runs
    <3>2. /\ ~(syncs[r].pc \in {"count", "chunks"})
          /\ UNCHANGED <<sources, home, retired, cut, dropped, latest>>
      BY <1>2 DEF StartSync, RejectFile, FindSource, FinishSync, SyncAt, marks
    <3> QED
      BY <1>1, <3>1, <3>2, ChunkedOn
  <2>2. CASE StartSync(r)
    <3> DEFINE x == [NotSyncing EXCEPT !.pc = "files", !.files = disk, !.left = Files]
    <3>1. x \in Runs /\ x.pc = "files" /\ Goes(r, x)
      BY <1>1, <2>2, RunsGoOn DEF StartSync, NotSyncing
    <3> QED
      BY <2>1, <3>1
  <2>3. CASE RejectFile(r)
    <3>1. PICK p \in Files : Goes(r, [syncs[r] EXCEPT !.left = @ \ {p}])
      BY <2>1, <2>3 DEF RejectFile
    <3> DEFINE x == [syncs[r] EXCEPT !.left = @ \ {p}]
    <3>2. x \in Runs
      BY <1>1, RunsGoOn
    <3>3. x.pc = "files"
      BY <2>1, <2>3 DEF RejectFile, SyncAt, Runs
    <3> QED
      BY <2>1, <3>1, <3>2, <3>3
  <2>4. CASE FindSource(r)
    <3>1. PICK p \in Files : Goes(r, [syncs[r] EXCEPT !.pc = "source", !.file = p,
                                              !.known = FoundSource(p, syncs[r].files[p])])
      BY <2>1, <2>4 DEF FindSource
    <3>2. FoundSource(p, syncs[r].files[p]) \in BOOLEAN
      BY DEF FoundSource
    <3> DEFINE x == [syncs[r] EXCEPT !.pc = "source", !.file = p,
                                     !.known = FoundSource(p, syncs[r].files[p])]
    <3>3. x \in Runs
      BY <1>1, <3>2, RunsGoOn
    <3>4. x.pc = "source"
      BY <2>1 DEF Runs
    <3> QED
      BY <2>1, <3>1, <3>3, <3>4
  <2>5. CASE FinishSync(r)
    BY <1>1, <2>1, <2>5, RunsGoOn DEF FinishSync, NotSyncing
  <2> QED
    BY <1>2, <2>2, <2>3, <2>4, <2>5
<1>3. ASSUME NEW p \in Files, EditFile(p)
      PROVE  Chunked'
  BY <1>3 DEF EditFile, marks, SyncInv, Chunked, AtChunks, Live, Busy, File, Content, Source, Stored,
              FilesAreHeld, SourcesStandForChunks, NothingContradictsTheFile
<1> QED
  BY <1>1, <1>2, <1>3, StoreSourceHeld, CountRowsHeld, StoreChunkHeld, LeaveFileHeld, ForgetChunkHeld
     DEF SyncNext, SyncStep

LEMMA SyncInvStays == SyncInv /\ [SyncNext]_syncVars => SyncInv'
<1>1. ASSUME SyncInv, SyncNext
      PROVE  SyncInv'
  BY <1>1, SyncNextType, SyncAtFile, SyncNextChunked DEF SyncInv, Chunked
<1>2. ASSUME SyncInv, UNCHANGED syncVars
      PROVE  SyncInv'
  BY <1>2 DEF syncVars, SyncInv, SyncTypeOK, Runs, Contents, AtFile, AtChunks, Live, Busy, File, Content,
              Source, Stored, FilesAreHeld, SourcesStandForChunks, NothingContradictsTheFile
<1> QED
  BY <1>1, <1>2

\* Whatever a file held before, and however runs overlap, break off or are repeated, a
\* source stands for rows of all its chunks and a file that was taken in is not
\* contradicted by an older row (run_sync, src/src/ingest.rs).
THEOREM FilesStayHeld == SyncSpec => []FilesAreHeld
<1>1. SyncInv => FilesAreHeld
  BY DEF SyncInv
<1> QED
  BY <1>1, SyncInitInv, SyncInvStays, PTL DEF SyncSpec
----------------------------------------------------------------------------
(* What clients write *)

Pcs == {"idle", "refuse", "evidence", "source", "ledger", "record", "insert", "answered", "failed"}
Posts == [pc: Pcs, request: Requests \cup {NoRequest}, at: Nat, item: Nat, stored: Seq(Nat)]
EvidenceRows == [kind: DOMAIN Phases, topic: Topics \cup {NoTopic}]
ClaimRows == [state: {"none", "active", "archived"}, by: Nat]

Claimed(t) == t \in {NoTopic} \cup erased \/ claims[t].state # "none"
Done(e) == Laid(e) /\ Claimed(evidence[e].topic)
InLedger(r, i) ==
    r.messages[i].code # "accepted" =>
        \E key \in trail \cup unwritten :
           /\ key.kind = r.kind /\ key.code = r.messages[i].code
           /\ IF r.kind = "turn" THEN key.place = i ELSE key.text = r.messages[i].text

Storing == {"source", "ledger", "record", "insert"}

\* What a request has written when it is where it is: the messages before the one it is at are done,
\* and of that one what the phases before put into the tables.
PostInv(c) ==
    LET k == clients[c] IN
    k.pc \notin {"idle", "failed"} =>
        /\ k.request \in Requests
        /\ k.pc # "answered" => k.at \in DOMAIN k.request.messages
        /\ k.pc = "answered" => k.at >= Len(k.request.messages)
        /\ k.pc \in Storing \cup {"evidence"} => MessageOf(c).code = "accepted"
        /\ \A e \in Range(k.stored) : e \in DOMAIN evidence /\ (Done(e) \/ (k.pc \in Storing /\ e = k.item))
        /\ \A i \in DOMAIN k.request.messages : i < k.at \/ k.pc = "answered" => InLedger(k.request, i)
        /\ k.pc \in Storing =>
              /\ k.item \in DOMAIN evidence
              /\ evidence[k.item] = [kind |-> k.request.kind, topic |-> MessageOf(c).topic]
              /\ k.pc = "source" => k.request.kind = "turn"
              /\ k.pc # "source" /\ k.request.kind = "turn" => k.item \in cited
              /\ k.pc \in {"record", "insert"} /\ k.request.kind # "conclusion" => Laid(k.item)
              /\ k.pc = "ledger" /\ k.request.kind = "conclusion" => Claimed(MessageOf(c).topic)
              /\ k.pc = "insert" => MessageOf(c).topic # NoTopic

WritesType ==
    /\ evidence \in Seq(EvidenceRows) /\ claims \in [Topics -> ClaimRows] /\ clients \in [Clients -> Posts]

WritesInv == WritesType /\ (\A c \in Clients : PostInv(c)) /\ RowsStandOnEvidence
----------------------------------------------------------------------------
\* From phase to phase.
LEMMA PhasesFollow ==
    ASSUME NEW k \in Posts, NEW kind, kind = k.request.kind
    PROVE  /\ kind = "turn" =>
                /\ k.pc = "evidence" => NextPhase(k) = [k EXCEPT !.pc = "source"]
                /\ k.pc = "source" => NextPhase(k) = [k EXCEPT !.pc = "ledger"]
                /\ k.pc = "ledger" => NextPhase(k) = [k EXCEPT !.pc = "record"]
                /\ k.pc = "record" => NextPhase(k) = NextMessage(k)
           /\ kind = "conclusion" =>
                /\ k.pc = "evidence" => NextPhase(k) = [k EXCEPT !.pc = "record"]
                /\ k.pc = "record" => NextPhase(k) = [k EXCEPT !.pc = "ledger"]
                /\ k.pc = "ledger" => NextPhase(k) = NextMessage(k)
           /\ kind = "checkpoint" =>
                /\ k.pc = "evidence" => NextPhase(k) = [k EXCEPT !.pc = "ledger"]
                /\ k.pc = "ledger" => NextPhase(k) = [k EXCEPT !.pc = "record"]
                /\ k.pc = "record" => NextPhase(k) = NextMessage(k)
<1>1. /\ Phases["turn"] = <<"evidence", "source", "ledger", "record">>
      /\ Phases["conclusion"] = <<"evidence", "record", "ledger">>
      /\ Phases["checkpoint"] = <<"evidence", "ledger", "record">>
  BY DEF Phases
<1>2. ASSUME NEW n, n = CHOOSE i \in DOMAIN PhasesOf(k.request.kind) : PhasesOf(k.request.kind)[i] = k.pc
      PROVE  NextPhase(k) = IF n = Len(PhasesOf(k.request.kind)) THEN NextMessage(k)
                            ELSE [k EXCEPT !.pc = PhasesOf(k.request.kind)[n + 1]]
  BY <1>2 DEF NextPhase
<1>4. ASSUME kind = "turn"
      PROVE  /\ k.pc = "evidence" => NextPhase(k) = [k EXCEPT !.pc = "source"]
             /\ k.pc = "source" => NextPhase(k) = [k EXCEPT !.pc = "ledger"]
             /\ k.pc = "ledger" => NextPhase(k) = [k EXCEPT !.pc = "record"]
             /\ k.pc = "record" => NextPhase(k) = NextMessage(k)
  BY <1>1, <1>4 DEF NextPhase, PhasesOf
<1>5. ASSUME NEW a, NEW b, Phases[kind] = <<"evidence", a, b>>, a # "evidence", b # "evidence", a # b
      PROVE  /\ k.pc = "evidence" => NextPhase(k) = [k EXCEPT !.pc = a]
             /\ k.pc = a => NextPhase(k) = [k EXCEPT !.pc = b]
             /\ k.pc = b => NextPhase(k) = NextMessage(k)
  <2>1. PhasesOf(k.request.kind) = <<"evidence", a, b>>
    BY <1>5 DEF PhasesOf
  <2>2. /\ DOMAIN PhasesOf(k.request.kind) = 1 .. 3 /\ Len(PhasesOf(k.request.kind)) = 3
        /\ PhasesOf(k.request.kind)[1] = "evidence" /\ PhasesOf(k.request.kind)[2] = a
        /\ PhasesOf(k.request.kind)[3] = b
    BY <2>1
  <2>3. PICK n : n = CHOOSE i \in DOMAIN PhasesOf(k.request.kind) : PhasesOf(k.request.kind)[i] = k.pc
    OBVIOUS
  <2>4. (k.pc = "evidence" => n = 1) /\ (k.pc = a => n = 2) /\ (k.pc = b => n = 3)
    BY <1>5, <2>2, <2>3
  <2>5. NextPhase(k) = IF n = Len(PhasesOf(k.request.kind)) THEN NextMessage(k)
                       ELSE [k EXCEPT !.pc = PhasesOf(k.request.kind)[n + 1]]
    BY <1>2, <2>3
  <2>6. CASE k.pc = "evidence"
    <3>1. n = 1 /\ n # Len(PhasesOf(k.request.kind)) /\ PhasesOf(k.request.kind)[n + 1] = a
      BY <2>2, <2>4, <2>6
    <3> QED
      BY <1>5, <2>5, <2>6, <3>1
  <2>7. CASE k.pc = a
    <3>1. n = 2 /\ n # Len(PhasesOf(k.request.kind)) /\ PhasesOf(k.request.kind)[n + 1] = b
      BY <2>2, <2>4, <2>7
    <3> QED
      BY <1>5, <2>5, <2>7, <3>1
  <2>8. CASE k.pc = b
    <3>1. n = Len(PhasesOf(k.request.kind))
      BY <2>2, <2>4, <2>8
    <3> QED
      BY <1>5, <2>5, <2>8, <3>1
  <2> QED
    BY <2>6, <2>7, <2>8
<1>6. kind = "conclusion" => Phases[kind] = <<"evidence", "record", "ledger">>
  BY <1>1
<1>7. kind = "checkpoint" => Phases[kind] = <<"evidence", "ledger", "record">>
  BY <1>1
<1> QED
  BY <1>4, <1>5, <1>6, <1>7

\* What is set of a request that is of its type.
LEMMA PostsStay ==
    ASSUME NEW k \in Posts, NEW p \in Pcs
    PROVE  /\ [k EXCEPT !.pc = p] \in Posts
           /\ \A i \in Nat, n \in Nat :
                 /\ [k EXCEPT !.pc = p, !.item = i] \in Posts
                 /\ [k EXCEPT !.at = n, !.item = i, !.pc = p] \in Posts
                 /\ [k EXCEPT !.item = i, !.stored = Append(@, i)] \in Posts
<1>1. \A i \in Nat : Append(k.stored, i) \in Seq(Nat)
  BY DEF Posts
<1>2. [k EXCEPT !.pc = p] \in Posts /\ \A i \in Nat : [k EXCEPT !.pc = p, !.item = i] \in Posts
  BY DEF Posts
<1>3. \A i \in Nat, n \in Nat : [k EXCEPT !.at = n, !.item = i, !.pc = p] \in Posts
  BY DEF Posts
<1>4. \A i \in Nat : [k EXCEPT !.item = i, !.stored = Append(@, i)] \in Posts
  BY <1>1 DEF Posts
<1> QED
  BY <1>2, <1>3, <1>4

LEMMA RequestsAre ==
    ASSUME IntakeAssumption, NEW r \in Requests \cup {NoRequest}
    PROVE  /\ r.kind \in {"turn", "conclusion", "checkpoint"} /\ DOMAIN Phases = {"turn", "conclusion", "checkpoint"}
           /\ r.messages \in Seq(Message) /\ Len(r.messages) \in Nat
           /\ DOMAIN r.messages = 1 .. Len(r.messages)
           /\ \A i \in DOMAIN r.messages :
                 /\ r.messages[i] \in Message /\ r.messages[i].topic \in Topics \cup {NoTopic}
                 /\ FirstPhase(r.messages[i]) = IF r.messages[i].code = "accepted" THEN "evidence" ELSE "refuse"
                 /\ FirstPhase(r.messages[i]) \in {"evidence", "refuse"}
                 /\ r \in Requests /\ r.kind # "turn" => r.messages[i].topic # NoTopic
<1>1. DOMAIN Phases = {"turn", "conclusion", "checkpoint"}
  BY DEF Phases
<1>2. r.kind \in DOMAIN Phases /\ r.messages \in Seq(Message)
  <2>1. CASE r \in Requests
    BY <2>1 DEF IntakeAssumption
  <2>2. CASE r = NoRequest
    BY <1>1, <2>2 DEF NoRequest
  <2> QED
    BY <2>1, <2>2
<1>3. Len(r.messages) \in Nat /\ DOMAIN r.messages = 1 .. Len(r.messages)
      /\ \A i \in DOMAIN r.messages : r.messages[i] \in Message
  BY <1>2
<1>4. \A m \in Message : m.topic \in Topics \cup {NoTopic}
  BY DEF Message
<1> QED
  BY <1>1, <1>2, <1>3, <1>4 DEF FirstPhase, IntakeAssumption

\* From message to message.
LEMMA MessagesFollow ==
    ASSUME IntakeAssumption, NEW k \in Posts, k.at \in DOMAIN k.request.messages
    PROVE  LET n == NextMessage(k) IN
           /\ n \in Posts /\ n.request = k.request /\ n.stored = k.stored /\ n.item = 0
           /\ \/ n.pc = "answered" /\ n.at = k.at /\ k.at = Len(k.request.messages)
              \/ /\ n.at = k.at + 1 /\ n.at \in DOMAIN k.request.messages
                 /\ n.pc = FirstPhase(k.request.messages[n.at])
<1>1. /\ k.pc \in Pcs /\ k.request \in Requests \cup {NoRequest} /\ k.at \in Nat /\ k.item \in Nat
      /\ k.stored \in Seq(Nat)
      /\ k = [pc |-> k.pc, request |-> k.request, at |-> k.at, item |-> k.item, stored |-> k.stored]
  BY DEF Posts
<1>2. /\ Len(k.request.messages) \in Nat /\ DOMAIN k.request.messages = 1 .. Len(k.request.messages)
      /\ \A i \in DOMAIN k.request.messages : FirstPhase(k.request.messages[i]) \in Pcs
  BY <1>1, RequestsAre DEF Pcs
<1>3. CASE k.at = Len(k.request.messages)
  <2>1. NextMessage(k) = [k EXCEPT !.pc = "answered", !.item = NoEvidence]
    BY <1>3 DEF NextMessage
  <2>2. NextMessage(k) \in Posts
    <3> PICK p \in Pcs : p = "answered"
      BY DEF Pcs
    <3>1. [k EXCEPT !.pc = p, !.item = 0] \in Posts
      BY DEF Posts
    <3> QED
      BY <2>1, <3>1 DEF NoEvidence
  <2> QED
    BY <1>3, <2>1, <2>2 DEF Posts, NoEvidence
<1>4. CASE k.at # Len(k.request.messages)
  <2> DEFINE p == FirstPhase(k.request.messages[k.at + 1])
  <2>1. NextMessage(k) = [k EXCEPT !.at = @ + 1, !.item = NoEvidence, !.pc = p]
    BY <1>4 DEF NextMessage
  <2>2. k.at + 1 \in DOMAIN k.request.messages /\ p \in Pcs /\ k.at + 1 \in Nat
    BY <1>1, <1>2, <1>4
  <2> HIDE DEF p
  <2>3. NextMessage(k) \in Posts
    <3> PICK n \in Nat : n = k.at + 1
      BY <2>2
    <3>1. [k EXCEPT !.at = n, !.item = 0, !.pc = p] \in Posts
      BY <2>2 DEF Posts
    <3> QED
      BY <2>1, <3>1 DEF NoEvidence
  <2>4. NextMessage(k).at = k.at + 1 /\ NextMessage(k).pc = p /\ NextMessage(k).item = 0
        /\ NextMessage(k).request = k.request /\ NextMessage(k).stored = k.stored
    BY <2>1, <2>2 DEF Posts, NoEvidence
  <2> QED
    BY <2>2, <2>3, <2>4 DEF p
<1> QED
  BY <1>3, <1>4
----------------------------------------------------------------------------
\* What a step does to the tables: nothing that a request relies on goes.
Grows ==
    /\ \A e \in DOMAIN evidence : e \in DOMAIN evidence' /\ evidence'[e] = evidence[e]
    /\ cited \subseteq cited' /\ trail \subseteq trail' /\ unwritten \subseteq unwritten'
    /\ \A t \in Topics \cup {NoTopic} : Claimed(t) => Claimed(t)'

LEMMA EvidenceIs ==
    ASSUME WritesType, NEW e \in DOMAIN evidence
    PROVE  e \in Nat \ {0} /\ evidence[e].kind \in DOMAIN Phases /\ evidence[e].topic \in Topics \cup {NoTopic}
<1>1. evidence \in Seq(EvidenceRows)
  BY DEF WritesType
<1>2. evidence[e] \in EvidenceRows /\ e \in Nat \ {0}
  BY <1>1
<1> QED
  BY <1>2 DEF EvidenceRows

LEMMA DoneStays ==
    ASSUME WritesType, Grows
    PROVE  /\ \A e \in DOMAIN evidence : (Laid(e) => Laid(e)') /\ (Done(e) => Done(e)')
           /\ \A r, i : InLedger(r, i) => InLedger(r, i)'
<1>1. ASSUME NEW e \in DOMAIN evidence
      PROVE  (Laid(e) => Laid(e)') /\ (Done(e) => Done(e)')
  <2>1. Laid(e) => Laid(e)'
    BY DEF Laid, AcceptanceKey, Grows
  <2>2. evidence'[e] = evidence[e] /\ evidence[e].topic \in Topics \cup {NoTopic}
    BY EvidenceIs DEF Grows
  <2>3. \A t \in Topics \cup {NoTopic} : Claimed(t) => Claimed(t)'
    BY DEF Grows
  <2>4. ASSUME NEW t \in Topics \cup {NoTopic}, t = evidence[e].topic, Claimed(t)'
        PROVE  Claimed(evidence[e].topic)'
    BY <2>2, <2>4 DEF Claimed
  <2>5. ASSUME NEW t \in Topics \cup {NoTopic}, t = evidence[e].topic, Claimed(evidence[e].topic)
        PROVE  Claimed(t)
    BY <2>5 DEF Claimed
  <2> QED
    BY <2>1, <2>2, <2>3, <2>4, <2>5 DEF Done
<1>2. ASSUME NEW r, NEW i, InLedger(r, i)
      PROVE  InLedger(r, i)'
  <2>1. trail \cup unwritten \subseteq trail' \cup unwritten'
    BY DEF Grows
  <2> QED
    BY <1>2, <2>1 DEF InLedger
<1> QED
  BY <1>1, <1>2

\* A request that does not move.
LEMMA PostKept ==
    ASSUME IntakeAssumption, WritesType, NEW c \in Clients, PostInv(c), Grows, clients'[c] = clients[c]
    PROVE  PostInv(c)'
<1> PICK k : k = clients[c]
  OBVIOUS
<1>1. k \in Posts /\ clients'[c] = k /\ MessageOf(c) = k.request.messages[k.at]
      /\ MessageOf(c)' = k.request.messages[k.at]
  BY DEF WritesType, MessageOf
<1>2. k.request \in Requests /\ k.at \in DOMAIN k.request.messages =>
         k.request.messages[k.at].topic \in Topics \cup {NoTopic}
  BY RequestsAre
<1>3. \A e \in DOMAIN evidence : e \in DOMAIN evidence' /\ evidence'[e] = evidence[e]
      /\ (Laid(e) => Laid(e)') /\ (Done(e) => Done(e)')
  BY DoneStays DEF Grows
<1>4. cited \subseteq cited' /\ \A r, i : InLedger(r, i) => InLedger(r, i)'
  BY DoneStays DEF Grows
<1> QED
  BY <1>1, <1>2, <1>3, <1>4 DEF PostInv, Storing, Grows, Claimed

\* A request that is through with a message.
LEMMA MessageEnds ==
    ASSUME IntakeAssumption, WritesType, NEW c \in Clients, PostInv(c), Grows,
           clients[c].pc \in Storing \cup {"refuse"},
           NEW k \in Posts, k.request = clients[c].request, k.at = clients[c].at, k.stored = clients[c].stored,
           clients'[c] = NextMessage(k),
           NEW x, x = clients[c].item, clients[c].pc \in Storing => Done(x)',
           InLedger(k.request, k.at)'
    PROVE  PostInv(c)' /\ NextMessage(k) \in Posts
<1> DEFINE r == k.request
<1> PICK n : n = NextMessage(k)
  OBVIOUS
<1>1. r \in Requests /\ k.at \in DOMAIN r.messages
  BY DEF PostInv, Storing
<1>2. DOMAIN r.messages = 1 .. Len(r.messages) /\ Len(r.messages) \in Nat
      /\ \A i \in DOMAIN r.messages :
            FirstPhase(r.messages[i]) = IF r.messages[i].code = "accepted" THEN "evidence" ELSE "refuse"
  BY <1>1, RequestsAre
<1>3. /\ n \in Posts /\ n.request = r /\ n.stored = k.stored
      /\ \/ n.pc = "answered" /\ n.at = k.at /\ k.at = Len(r.messages)
         \/ n.at = k.at + 1 /\ n.at \in DOMAIN r.messages /\ n.pc = FirstPhase(r.messages[n.at])
  BY <1>1, MessagesFollow
<1>4. \A e \in Range(n.stored) : e \in DOMAIN evidence' /\ Done(e)'
  <2>1. \A e \in Range(n.stored) : e \in DOMAIN evidence /\ (Done(e) \/ (clients[c].pc \in Storing /\ e = x))
    BY <1>3 DEF PostInv, Storing
  <2> QED
    BY <2>1, DoneStays DEF Grows
<1>5. \A i \in DOMAIN r.messages : i < n.at \/ n.pc = "answered" => InLedger(r, i)'
  <2> SUFFICES ASSUME NEW i \in DOMAIN r.messages, i < n.at \/ n.pc = "answered" PROVE InLedger(r, i)'
    OBVIOUS
  <2>1. i < k.at \/ i = k.at
    BY <1>1, <1>2, <1>3
  <2>2. i < k.at => InLedger(r, i)
    BY DEF PostInv, Storing
  <2> QED
    BY <2>1, <2>2, DoneStays
<1>6. n.pc \in {"answered", "evidence", "refuse"} /\ clients'[c] = n
  BY <1>2, <1>3
<1>7. n.pc = "evidence" => r.messages[n.at].code = "accepted"
  BY <1>2, <1>3
<1>8. n.pc # "answered" => n.at \in DOMAIN r.messages
  BY <1>2, <1>3
<1>9. n.pc = "answered" => n.at >= Len(r.messages)
  BY <1>2, <1>3
<1> QED
  BY <1>1, <1>3, <1>4, <1>5, <1>6, <1>7, <1>8, <1>9 DEF PostInv, Storing, MessageOf

\* A request that goes on to the next phase p of its message.
LEMMA PhaseEnds ==
    ASSUME IntakeAssumption, WritesType, NEW c \in Clients, PostInv(c), Grows, clients[c].pc \in Storing,
           NEW p \in Storing, clients'[c] = [clients[c] EXCEPT !.pc = p],
           NEW t, t = MessageOf(c).topic, NEW x, x = clients[c].item,
           p = "source" => clients[c].request.kind = "turn",
           p # "source" /\ clients[c].request.kind = "turn" => x \in cited',
           p \in {"record", "insert"} /\ clients[c].request.kind # "conclusion" => Laid(x)',
           p = "ledger" /\ clients[c].request.kind = "conclusion" => Claimed(t)',
           p = "insert" => t # NoTopic
    PROVE  PostInv(c)' /\ clients'[c] \in Posts
<1> PICK k \in Posts : k = clients[c]
  BY DEF WritesType
<1> PICK n : n = clients'[c]
  OBVIOUS
<1>1. /\ n \in Posts /\ n.request = k.request /\ n.at = k.at /\ n.item = k.item /\ n.stored = k.stored
      /\ n.pc = p
  BY DEF Posts, Storing, Pcs
<1>2. /\ k.pc \in Storing /\ k.request \in Requests /\ k.at \in DOMAIN k.request.messages
      /\ MessageOf(c) = k.request.messages[k.at] /\ MessageOf(c)' = k.request.messages[k.at]
      /\ k.request.messages[k.at].code = "accepted"
  BY <1>1 DEF PostInv, Storing, MessageOf
<1>3. \A e \in DOMAIN evidence : e \in DOMAIN evidence' /\ evidence'[e] = evidence[e] /\ (Done(e) => Done(e)')
  BY DoneStays DEF Grows
<1>4. \A e \in Range(n.stored) : e \in DOMAIN evidence' /\ (Done(e)' \/ e = n.item)
  BY <1>1, <1>2, <1>3 DEF PostInv, Storing
<1>5. \A i \in DOMAIN n.request.messages : i < n.at => InLedger(n.request, i)'
  BY <1>1, <1>2, DoneStays DEF PostInv, Storing
<1>6. n.item \in DOMAIN evidence' /\ evidence'[n.item] = [kind |-> n.request.kind, topic |-> t]
  BY <1>1, <1>2, <1>3 DEF PostInv, Storing
<1>7. p = "ledger" /\ n.request.kind = "conclusion" => Claimed(MessageOf(c).topic)'
  <2>1. MessageOf(c)'.topic = t
    BY <1>2
  <2> QED
    BY <1>1, <2>1 DEF Claimed
<1>8. p \notin {"answered", "idle", "failed", "evidence"}
  BY DEF Storing
<1> QED
  BY SMTT(20), <1>1, <1>2, <1>4, <1>5, <1>6, <1>7, <1>8 DEF PostInv, Storing

\* No row in memory changes what it stands on.
LEMMA RowsKept ==
    ASSUME WritesType, RowsStandOnEvidence, Grows,
           \A t \in Topics : claims'[t].state # "none" => claims[t].state # "none" /\ claims'[t].by = claims[t].by
    PROVE  RowsStandOnEvidence'
<1>1. ASSUME NEW t \in Topics, NEW e, e = claims'[t].by, claims'[t].state # "none"
      PROVE  /\ e \in DOMAIN evidence' /\ evidence'[e].topic = t
             /\ evidence'[e].kind = "turn" => e \in cited'
             /\ evidence'[e].kind # "conclusion" => Laid(e)'
  <2>1. e = claims[t].by /\ claims[t].state # "none"
    BY <1>1
  <2>2. /\ e \in DOMAIN evidence /\ evidence[e].topic = t
        /\ evidence[e].kind = "turn" => e \in cited
        /\ evidence[e].kind # "conclusion" => Laid(e)
    BY <2>1 DEF RowsStandOnEvidence
  <2> QED
    BY <2>2, DoneStays DEF Grows
<1> QED
  BY <1>1 DEF RowsStandOnEvidence, Laid, AcceptanceKey
----------------------------------------------------------------------------
\* What is left of the invariant when a request has moved.
LEMMA RequestMoves ==
    ASSUME IntakeAssumption, WritesInv, NEW c \in Clients, NEW n \in Posts, Sends(c, n), Grows,
           evidence' \in Seq(EvidenceRows), claims' \in [Topics -> ClaimRows],
           PostInv(c)', RowsStandOnEvidence'
    PROVE  WritesInv'
<1>1. clients' = [clients EXCEPT ![c] = n] /\ clients \in [Clients -> Posts] /\ WritesType
  BY DEF Sends, WritesInv, WritesType
<1>2. clients' \in [Clients -> Posts] /\ \A d \in Clients : d # c => clients'[d] = clients[d]
  BY <1>1
<1>3. ASSUME NEW d \in Clients
      PROVE  PostInv(d)'
  <2>1. CASE d = c
    BY <2>1
  <2>2. CASE d # c
    BY <1>1, <1>2, <2>2, PostKept DEF WritesInv
  <2> QED
    BY <2>1, <2>2
<1> QED
  BY <1>2, <1>3 DEF WritesInv, WritesType

LEMMA SentIs ==
    ASSUME WritesInv, NEW c \in Clients, NEW n, Sends(c, n)
    PROVE  clients'[c] = n /\ clients[c] \in Posts
  BY DEF Sends, WritesInv, WritesType

LEMMA QuietTables ==
    ASSUME WritesInv, UNCHANGED <<evidence, cited, trail, claims, unwritten, erased>>
    PROVE  /\ Grows /\ evidence' \in Seq(EvidenceRows) /\ claims' \in [Topics -> ClaimRows]
           /\ RowsStandOnEvidence'
<1>1. Grows
  BY DEF Grows, Claimed
<1> QED
  BY <1>1, RowsKept DEF WritesInv, WritesType

LEMMA PostKeepsWrites ==
    ASSUME IntakeAssumption, WritesInv, NEW c \in Clients, Post(c)
    PROVE  WritesInv'
<1>1. PICK r \in Requests :
         Sends(c, [AtRest EXCEPT !.request = r, !.pc = IF r.messages = << >> THEN "answered"
                                                      ELSE FirstPhase(r.messages[1])])
  BY DEF Post
<1> PICK p : p = IF r.messages = << >> THEN "answered" ELSE FirstPhase(r.messages[1])
  OBVIOUS
<1> PICK n : n = [AtRest EXCEPT !.request = r, !.pc = p]
  OBVIOUS
<1>2. /\ DOMAIN r.messages = 1 .. Len(r.messages) /\ Len(r.messages) \in Nat /\ r.messages \in Seq(Message)
      /\ r \in Requests \cup {NoRequest}
      /\ \A i \in DOMAIN r.messages :
            FirstPhase(r.messages[i]) = IF r.messages[i].code = "accepted" THEN "evidence" ELSE "refuse"
  BY RequestsAre
<1>3. r.messages # << >> => 1 \in DOMAIN r.messages
  BY <1>2
<1>4. /\ p \in {"answered", "evidence", "refuse"} /\ (p = "answered" <=> r.messages = << >>)
      /\ p = "evidence" => r.messages[1].code = "accepted"
  BY <1>2, <1>3
<1>5. n.request = r /\ n.at = 1 /\ n.stored = << >> /\ n.pc = p /\ n \in Posts
  <2>1. n.request = r /\ n.at = 1 /\ n.stored = << >> /\ n.pc = p
    BY DEF AtRest
  <2>2. AtRest \in Posts /\ p \in Pcs
    BY <1>4 DEF AtRest, Posts, Pcs, NoEvidence
  <2>3. [AtRest EXCEPT !.request = r, !.pc = p] \in Posts
    BY <2>2 DEF Posts
  <2> QED
    BY <2>1, <2>3
<1>6. clients'[c] = n
  BY <1>1, SentIs
<1>7. Range(<< >>) = {}
  BY DEF Range
<1>8. p = "answered" => Len(r.messages) = 0 /\ DOMAIN r.messages = {}
  BY <1>2, <1>4
<1>9. \A i \in DOMAIN r.messages : ~(i < 1)
  BY <1>2
<1>10. PostInv(c)'
  BY <1>3, <1>4, <1>5, <1>6, <1>7, <1>8, <1>9 DEF PostInv, Storing, MessageOf
<1> QED
  BY <1>1, <1>5, <1>10, QuietTables, RequestMoves DEF Post

LEMMA RefuseKeepsWrites ==
    ASSUME IntakeAssumption, WritesInv, NEW c \in Clients, RefuseMessage(c)
    PROVE  WritesInv'
<1> PICK k \in Posts : k = clients[c]
  BY DEF WritesInv, WritesType
<1> PICK key : key = RejectionKey(k.request.kind, k.at, MessageOf(c))
  OBVIOUS
<1>1. /\ trail \cup unwritten \cup {key} \subseteq trail' \cup unwritten'
      /\ trail \subseteq trail' /\ unwritten \subseteq unwritten'
      /\ UNCHANGED <<evidence, cited, claims, erased>>
      /\ Sends(c, NextMessage(k)) /\ k.pc = "refuse"
  BY DEF RefuseMessage, Works
<1>2. Grows
  BY <1>1 DEF Grows, Claimed
<1>3. InLedger(k.request, k.at)'
  BY <1>1 DEF InLedger, RejectionKey, MessageOf
<1>4. RowsStandOnEvidence'
  BY <1>1, <1>2, RowsKept DEF WritesInv
<1>5. PostInv(c)' /\ NextMessage(k) \in Posts
  BY <1>1, <1>2, <1>3, MessageEnds, SentIs DEF WritesInv, Storing
<1> QED
  BY <1>1, <1>2, <1>4, <1>5, RequestMoves DEF WritesInv, WritesType

LEMMA AppendAddsOne ==
    ASSUME NEW s \in Seq(Nat), NEW x \in Nat
    PROVE  Range(Append(s, x)) \subseteq Range(s) \cup {x}
<1> SUFFICES ASSUME NEW i \in DOMAIN Append(s, x) PROVE Append(s, x)[i] \in Range(s) \cup {x}
  BY DEF Range
<1>1. CASE i = Len(s) + 1
  BY <1>1
<1>2. CASE i # Len(s) + 1
  <2>1. i \in DOMAIN s /\ Append(s, x)[i] = s[i]
    BY <1>2
  <2> QED
    BY <2>1 DEF Range
<1> QED
  BY <1>1, <1>2

LEMMA StoreKeepsWrites ==
    ASSUME IntakeAssumption, WritesInv, NEW c \in Clients, StoreEvidence(c)
    PROVE  WritesInv'
<1> PICK k \in Posts : k = clients[c]
  BY DEF WritesInv, WritesType
<1> PICK m : m = MessageOf(c)
  OBVIOUS
<1> PICK x : x = Len(evidence) + 1
  OBVIOUS
<1> PICK j : j = [k EXCEPT !.item = x, !.stored = Append(@, x)]
  OBVIOUS
<1>1. /\ evidence' = Append(evidence, [kind |-> k.request.kind, topic |-> m.topic])
      /\ Sends(c, NextPhase(j)) /\ k.pc = "evidence" /\ UNCHANGED <<cited, trail, claims, unwritten, erased>>
  BY DEF StoreEvidence, Works
<1>2. /\ k.request \in Requests /\ k.at \in DOMAIN k.request.messages /\ m = k.request.messages[k.at]
      /\ m.code = "accepted"
      /\ \A e \in Range(k.stored) : e \in DOMAIN evidence /\ Done(e)
      /\ \A i \in DOMAIN k.request.messages : i < k.at => InLedger(k.request, i)
  BY <1>1 DEF WritesInv, PostInv, Storing, MessageOf
<1>3. /\ k.request.kind \in {"turn", "conclusion", "checkpoint"} /\ m.topic \in Topics \cup {NoTopic}
      /\ DOMAIN Phases = {"turn", "conclusion", "checkpoint"}
  BY <1>2, RequestsAre
<1>4. evidence \in Seq(EvidenceRows) /\ [kind |-> k.request.kind, topic |-> m.topic] \in EvidenceRows
  BY <1>3 DEF WritesInv, WritesType, EvidenceRows
<1>5. /\ evidence' \in Seq(EvidenceRows) /\ x \in Nat /\ x \in DOMAIN evidence'
      /\ evidence'[x] = [kind |-> k.request.kind, topic |-> m.topic]
      /\ \A e \in DOMAIN evidence : e \in DOMAIN evidence' /\ evidence'[e] = evidence[e]
  BY <1>1, <1>4
<1>6. Grows
  BY <1>1, <1>5 DEF Grows, Claimed
<1>7. RowsStandOnEvidence'
  BY <1>1, <1>6, RowsKept DEF WritesInv
<1>8. /\ j \in Posts /\ j.request = k.request /\ j.at = k.at /\ j.item = x /\ j.pc = "evidence"
      /\ j.stored = Append(k.stored, x) /\ k.stored \in Seq(Nat)
  <2>1. k.stored \in Seq(Nat) /\ Append(k.stored, x) \in Seq(Nat)
    BY <1>5 DEF Posts
  <2>2. j \in Posts
    BY <1>5, <2>1 DEF Posts
  <2>3. j.request = k.request /\ j.at = k.at /\ j.item = x /\ j.pc = k.pc /\ j.stored = Append(k.stored, x)
    BY <1>5 DEF Posts
  <2> QED
    BY <1>1, <2>1, <2>2, <2>3
<1>9. Range(j.stored) \subseteq Range(k.stored) \cup {x}
  BY ZenonT(30), <1>5, <1>8, AppendAddsOne
<1>10. PICK p \in {"source", "record", "ledger"} :
         /\ NextPhase(j) = [j EXCEPT !.pc = p]
         /\ p = "source" <=> k.request.kind = "turn"
         /\ p = "record" <=> k.request.kind = "conclusion"
  BY ZenonT(30), <1>3, <1>8, PhasesFollow
<1> PICK n : n = NextPhase(j)
  OBVIOUS
<1>11. /\ n \in Posts /\ n.request = k.request /\ n.at = k.at /\ n.item = x /\ n.pc = p /\ n.stored = j.stored
  <2>1. p \in Pcs
    BY DEF Pcs
  <2>2. n = [j EXCEPT !.pc = p]
    BY <1>10
  <2> QED
    BY <1>8, <2>1, <2>2 DEF Posts
<1>12. clients'[c] = n /\ Sends(c, n)
  BY <1>1, SentIs
<1>13. \A e \in Range(n.stored) : e \in DOMAIN evidence' /\ (Done(e)' \/ e = x)
  BY <1>2, <1>5, <1>6, <1>9, <1>11, DoneStays DEF WritesInv
<1>14. \A i \in DOMAIN k.request.messages : i < k.at => InLedger(k.request, i)'
  BY <1>2, <1>6, DoneStays DEF WritesInv
<1>15. PostInv(c)'
  <2>1. MessageOf(c)' = m /\ p \in Storing /\ p # "insert"
    BY <1>2, <1>11, <1>12 DEF MessageOf, Storing
  <2>2. \A i \in DOMAIN n.request.messages : i < n.at \/ n.pc = "answered" => InLedger(n.request, i)'
    BY <1>11, <1>14
  <2>3. n.pc \in {"record", "insert"} /\ n.request.kind # "conclusion" => Laid(x)'
    BY <1>10, <1>11
  <2>4. n.pc # "source" => n.request.kind # "turn"
    BY <1>10, <1>11
  <2>5. n.pc = "ledger" => n.request.kind = "checkpoint"
    BY <1>3, <1>10, <1>11
  <2>6. n.request \in Requests /\ n.at \in DOMAIN n.request.messages /\ m.code = "accepted"
    BY <1>2, <1>11
  <2>7. n.item \in DOMAIN evidence' /\ evidence'[n.item] = [kind |-> n.request.kind, topic |-> m.topic]
    BY <1>5, <1>11
  <2>8. \A e \in Range(n.stored) : e \in DOMAIN evidence' /\ (Done(e)' \/ e = n.item)
    BY <1>11, <1>13
  <2>9. n.pc \in Storing /\ n.pc \notin {"insert", "answered"} /\ (n.pc = "source" => n.request.kind = "turn")
    BY <1>10, <1>11, <2>1 DEF Storing
  <2> QED
    BY <1>11, <1>12, <2>1, <2>2, <2>3, <2>4, <2>5, <2>6, <2>7, <2>8, <2>9 DEF PostInv
<1> QED
  BY <1>1, <1>5, <1>6, <1>7, <1>11, <1>12, <1>15, RequestMoves DEF WritesInv, WritesType

\* Where a request that is in a phase of an accepted message stands.
LEMMA StoringIs ==
    ASSUME IntakeAssumption, WritesInv, NEW c \in Clients, clients[c].pc \in Storing
    PROVE  /\ clients[c] \in Posts /\ clients[c].request \in Requests
           /\ clients[c].request.kind \in {"turn", "conclusion", "checkpoint"}
           /\ clients[c].at \in DOMAIN clients[c].request.messages
           /\ MessageOf(c) = clients[c].request.messages[clients[c].at]
           /\ MessageOf(c).topic \in Topics \cup {NoTopic}
           /\ clients[c].request.kind # "turn" => MessageOf(c).topic # NoTopic
           /\ clients[c].item \in DOMAIN evidence /\ clients[c].item \in Nat \ {0}
           /\ evidence[clients[c].item] = [kind |-> clients[c].request.kind, topic |-> MessageOf(c).topic]
           /\ MessageOf(c).code = "accepted"
<1>1. /\ clients[c].request \in Requests /\ clients[c].at \in DOMAIN clients[c].request.messages
      /\ clients[c].item \in DOMAIN evidence
      /\ evidence[clients[c].item] = [kind |-> clients[c].request.kind, topic |-> MessageOf(c).topic]
      /\ MessageOf(c).code = "accepted"
  BY DEF WritesInv, PostInv, Storing
<1>2. clients[c] \in Posts /\ clients[c].item \in Nat \ {0}
  BY <1>1, EvidenceIs DEF WritesInv, WritesType
<1> QED
  BY <1>1, <1>2, RequestsAre DEF MessageOf

\* A message that was accepted is recorded in the ledger under its own key.
LEMMA InLedgerWhenAccepted ==
    ASSUME NEW r, NEW i, r.messages[i].code = "accepted"
    PROVE  InLedger(r, i)'
  BY DEF InLedger

LEMMA CiteKeepsWrites ==
    ASSUME IntakeAssumption, WritesInv, NEW c \in Clients, CiteTurn(c)
    PROVE  WritesInv'
<1> PICK k \in Posts : k = clients[c]
  BY DEF WritesInv, WritesType
<1> PICK t : t = MessageOf(c).topic
  OBVIOUS
<1>1. /\ cited' = cited \cup {k.item} /\ Sends(c, NextPhase(k)) /\ k.pc = "source"
      /\ UNCHANGED <<evidence, trail, claims, unwritten, erased>>
  BY DEF CiteTurn, Works
<1>2. k.pc \in Storing /\ k.request.kind = "turn"
  BY <1>1 DEF WritesInv, PostInv, Storing
<1>3. Grows
  BY <1>1 DEF Grows, Claimed
<1>4. RowsStandOnEvidence'
  BY <1>1, <1>3, RowsKept DEF WritesInv
<1>5. NextPhase(k) = [k EXCEPT !.pc = "ledger"]
  BY <1>1, <1>2, PhasesFollow
<1>6. clients'[c] = [k EXCEPT !.pc = "ledger"]
  BY <1>1, <1>5, SentIs
<1>7. PostInv(c)' /\ clients'[c] \in Posts
  <2> PICK x : x = k.item
    OBVIOUS
  <2> PICK p \in Storing : p = "ledger"
    BY DEF Storing
  <2> QED
    BY <1>1, <1>2, <1>3, <1>6, PhaseEnds DEF WritesInv
<1> QED
  BY <1>1, <1>3, <1>4, <1>5, <1>6, <1>7, RequestMoves DEF WritesInv, WritesType

LEMMA LayKeepsWrites ==
    ASSUME IntakeAssumption, WritesInv, NEW c \in Clients, LayTrail(c)
    PROVE  WritesInv'
<1> PICK k \in Posts : k = clients[c]
  BY DEF WritesInv, WritesType
<1> PICK t : t = MessageOf(c).topic
  OBVIOUS
<1> PICK x : x = k.item
  OBVIOUS
<1>1. /\ trail' = trail \cup {AcceptanceKey(x)} /\ Sends(c, NextPhase(k)) /\ k.pc = "ledger"
      /\ UNCHANGED <<evidence, cited, claims, unwritten, erased>>
  BY DEF LayTrail, Works
<1>2. k.pc \in Storing
  BY <1>1 DEF Storing
<1>3. Grows
  BY <1>1 DEF Grows, Claimed
<1>4. RowsStandOnEvidence'
  BY <1>1, <1>3, RowsKept DEF WritesInv
<1>5. Laid(x)'
  BY <1>1 DEF Laid, AcceptanceKey
<1>6. /\ k.request.kind \in {"turn", "conclusion", "checkpoint"} /\ MessageOf(c) = k.request.messages[k.at]
      /\ x \in DOMAIN evidence /\ evidence[x] = [kind |-> k.request.kind, topic |-> t]
      /\ MessageOf(c).code = "accepted" /\ t \in Topics \cup {NoTopic}
  BY <1>2, StoringIs
<1>7. CASE k.request.kind = "conclusion"
  <2>1. NextPhase(k) = NextMessage(k) /\ Claimed(t)
    BY <1>1, <1>7, PhasesFollow DEF WritesInv, PostInv, Storing
  <2>2. Claimed(t)' /\ evidence'[x].topic = t
    <3>1. claims' = claims /\ erased' = erased /\ evidence' = evidence
      BY <1>1
    <3>2. Claimed(t)'
      BY <2>1, <3>1 DEF Claimed
    <3>3. evidence[x].topic = t
      BY <1>6
    <3> QED
      BY <3>1, <3>2, <3>3
  <2>3. Done(x)'
    BY <1>5, <2>2 DEF Done, Claimed
  <2>4. InLedger(k.request, k.at)'
    BY <1>6, InLedgerWhenAccepted
  <2>5. clients'[c] = NextMessage(k)
    BY <1>1, <2>1, SentIs
  <2>6. PostInv(c)' /\ NextMessage(k) \in Posts
    BY <1>2, <1>3, <2>3, <2>4, <2>5, MessageEnds DEF WritesInv
  <2> QED
    BY <1>1, <1>3, <1>4, <2>1, <2>6, RequestMoves DEF WritesInv, WritesType
<1>8. CASE k.request.kind # "conclusion"
  <2>1. NextPhase(k) = [k EXCEPT !.pc = "record"]
    BY <1>1, <1>6, <1>8, PhasesFollow
  <2>2. clients'[c] = [k EXCEPT !.pc = "record"]
    BY <1>1, <2>1, SentIs
  <2>3. k.request.kind = "turn" => x \in cited'
    BY <1>1, <1>3 DEF WritesInv, PostInv, Storing, Grows
  <2>4. PostInv(c)' /\ clients'[c] \in Posts
    <3> PICK p \in Storing : p = "record"
      BY DEF Storing
    <3> QED
      BY <1>2, <1>3, <1>5, <2>2, <2>3, PhaseEnds DEF WritesInv
  <2> QED
    BY <1>1, <1>3, <1>4, <2>1, <2>2, <2>4, RequestMoves DEF WritesInv, WritesType
<1> QED
  BY <1>7, <1>8

LEMMA FindKeepsWrites ==
    ASSUME IntakeAssumption, WritesInv, NEW c \in Clients, FindClaim(c)
    PROVE  WritesInv'
<1> PICK k \in Posts : k = clients[c]
  BY DEF WritesInv, WritesType
<1> PICK t : t = MessageOf(c).topic
  OBVIOUS
<1> PICK x : x = k.item
  OBVIOUS
<1>1. /\ k.pc = "record" /\ UNCHANGED <<evidence, cited, trail, claims, unwritten, erased>>
      /\ Sends(c, IF t = NoTopic \/ claims[t].state # "none" THEN NextPhase(k) ELSE [k EXCEPT !.pc = "insert"])
  BY DEF FindClaim, Works
<1>2. k.pc \in Storing
  BY <1>1 DEF Storing
<1>3. Grows /\ RowsStandOnEvidence' /\ evidence' \in Seq(EvidenceRows) /\ claims' \in [Topics -> ClaimRows]
  BY <1>1, QuietTables
<1>4. /\ k.request.kind \in {"turn", "conclusion", "checkpoint"} /\ MessageOf(c) = k.request.messages[k.at]
      /\ x \in DOMAIN evidence /\ evidence[x] = [kind |-> k.request.kind, topic |-> t]
      /\ MessageOf(c).code = "accepted" /\ t \in Topics \cup {NoTopic}
  BY <1>2, StoringIs
<1>5. (k.request.kind = "turn" => x \in cited') /\ (k.request.kind # "conclusion" => Laid(x)')
  <2>1. (k.request.kind = "turn" => x \in cited) /\ (k.request.kind # "conclusion" => Laid(x))
    BY <1>1 DEF WritesInv, PostInv, Storing
  <2> QED
    BY <1>3, <1>4, <2>1, DoneStays DEF WritesInv, Grows
<1>6. CASE t # NoTopic /\ claims[t].state = "none"
  <2>1. Sends(c, [k EXCEPT !.pc = "insert"]) /\ clients'[c] = [k EXCEPT !.pc = "insert"]
    BY <1>1, <1>6, SentIs
  <2>2. PostInv(c)' /\ clients'[c] \in Posts
    <3> PICK p \in Storing : p = "insert"
      BY DEF Storing
    <3> QED
      BY <1>2, <1>3, <1>5, <1>6, <2>1, PhaseEnds DEF WritesInv
  <2> QED
    BY <1>3, <2>1, <2>2, RequestMoves
<1>7. CASE t = NoTopic \/ claims[t].state # "none"
  <2>1. Sends(c, NextPhase(k)) /\ clients'[c] = NextPhase(k)
    BY <1>1, <1>7, SentIs
  <2>2. Claimed(t)'
    BY <1>1, <1>7 DEF Claimed
  <2>3. CASE k.request.kind = "conclusion"
    <3>1. NextPhase(k) = [k EXCEPT !.pc = "ledger"]
      BY <1>1, <2>3, PhasesFollow
    <3>2. PostInv(c)' /\ clients'[c] \in Posts
      <4> PICK p \in Storing : p = "ledger"
        BY DEF Storing
      <4> QED
        BY <1>2, <1>3, <1>5, <2>1, <2>2, <3>1, PhaseEnds DEF WritesInv
    <3> QED
      BY <1>3, <2>1, <3>1, <3>2, RequestMoves
  <2>4. CASE k.request.kind # "conclusion"
    <3>1. NextPhase(k) = NextMessage(k)
      BY <1>1, <1>4, <2>4, PhasesFollow
    <3>2. Done(x)'
      <4>1. Laid(x)'
        BY <1>5, <2>4
      <4>2. evidence' = evidence
        BY <1>1
      <4>3. evidence'[x].topic = t
        BY <1>4, <4>2
      <4> QED
        BY <2>2, <4>1, <4>3 DEF Done, Claimed
    <3>3. InLedger(k.request, k.at)'
      BY <1>4, InLedgerWhenAccepted
    <3>4. PostInv(c)' /\ NextMessage(k) \in Posts
      BY <1>2, <1>3, <2>1, <3>1, <3>2, <3>3, MessageEnds DEF WritesInv
    <3> QED
      BY <1>3, <2>1, <3>1, <3>4, RequestMoves
  <2> QED
    BY <2>3, <2>4
<1> QED
  BY <1>6, <1>7

\* A request that fails, or rests.
LEMMA FailsKeepsWrites ==
    ASSUME IntakeAssumption, WritesInv, NEW c \in Clients, NEW n \in Posts, n.pc \in {"idle", "failed"}, Sends(c, n),
           UNCHANGED <<evidence, cited, trail, claims, unwritten, erased>>
    PROVE  WritesInv'
<1>1. PostInv(c)'
  BY SentIs DEF PostInv
<1> QED
  BY <1>1, QuietTables, RequestMoves

LEMMA InsertKeepsWrites ==
    ASSUME IntakeAssumption, WritesInv, NEW c \in Clients, InsertClaim(c)
    PROVE  WritesInv'
<1> PICK k \in Posts : k = clients[c]
  BY DEF WritesInv, WritesType
<1> PICK t : t = MessageOf(c).topic
  OBVIOUS
<1> PICK x : x = k.item
  OBVIOUS
<1> PICK j : j = [k EXCEPT !.pc = "record"]
  OBVIOUS
<1>1. /\ k.pc = "insert" /\ UNCHANGED <<evidence, cited, trail, unwritten, erased>>
      /\ \/ /\ claims[t].state = "none" /\ claims' = [claims EXCEPT ![t] = [state |-> "active", by |-> x]]
            /\ Sends(c, NextPhase(j))
         \/ Sends(c, [k EXCEPT !.pc = "failed"]) /\ UNCHANGED claims
  BY DEF InsertClaim, Works
<1>2. CASE Sends(c, [k EXCEPT !.pc = "failed"]) /\ UNCHANGED claims
  <2>1. [k EXCEPT !.pc = "failed"] \in Posts /\ [k EXCEPT !.pc = "failed"].pc = "failed"
    BY DEF Posts, Pcs
  <2> QED
    BY <1>1, <1>2, <2>1, FailsKeepsWrites
<1>3. CASE /\ claims[t].state = "none" /\ claims' = [claims EXCEPT ![t] = [state |-> "active", by |-> x]]
           /\ Sends(c, NextPhase(j))
  <2>1. k.pc \in Storing
    BY <1>1 DEF Storing
  <2>2. /\ k.request.kind \in {"turn", "conclusion", "checkpoint"} /\ MessageOf(c) = k.request.messages[k.at]
        /\ x \in DOMAIN evidence /\ evidence[x] = [kind |-> k.request.kind, topic |-> t] /\ x \in Nat
        /\ MessageOf(c).code = "accepted" /\ t \in Topics \cup {NoTopic}
    BY <2>1, StoringIs
  <2>3. (k.request.kind = "turn" => x \in cited) /\ (k.request.kind # "conclusion" => Laid(x)) /\ t # NoTopic
    BY <1>1 DEF WritesInv, PostInv, Storing
  <2>4. /\ claims' \in [Topics -> ClaimRows] /\ t \in Topics
        /\ claims'[t] = [state |-> "active", by |-> x]
        /\ \A u \in Topics : u # t => claims'[u] = claims[u]
    <3>1. claims \in [Topics -> ClaimRows] /\ t \in Topics
      BY <2>2, <2>3 DEF WritesInv, WritesType
    <3>2. [state |-> "active", by |-> x] \in ClaimRows
      BY <2>2 DEF ClaimRows
    <3> QED
      BY <1>3, <3>1, <3>2
  <2>5. Grows
    <3>1. ASSUME NEW u \in Topics \cup {NoTopic}, Claimed(u)
          PROVE  Claimed(u)'
      BY <1>1, <1>3, <2>4, <3>1 DEF Claimed
    <3> QED
      BY <1>1, <3>1 DEF Grows
  <2>6. (k.request.kind = "turn" => x \in cited') /\ (k.request.kind # "conclusion" => Laid(x)')
        /\ evidence'[x] = [kind |-> k.request.kind, topic |-> t] /\ x \in DOMAIN evidence'
    BY <1>1, <2>2, <2>3, <2>5, DoneStays DEF WritesInv
  <2>7. RowsStandOnEvidence'
    <3>1. ASSUME NEW u \in Topics, NEW e, e = claims'[u].by, claims'[u].state # "none"
          PROVE  /\ e \in DOMAIN evidence' /\ evidence'[e].topic = u
                 /\ evidence'[e].kind = "turn" => e \in cited'
                 /\ evidence'[e].kind # "conclusion" => Laid(e)'
      <4>1. CASE u = t
        BY <2>4, <2>6, <3>1, <4>1
      <4>2. CASE u # t
        <5>1. e = claims[u].by /\ claims[u].state # "none"
          BY <2>4, <3>1, <4>2
        <5>2. /\ e \in DOMAIN evidence /\ evidence[e].topic = u
              /\ evidence[e].kind = "turn" => e \in cited
              /\ evidence[e].kind # "conclusion" => Laid(e)
          BY <5>1 DEF WritesInv, RowsStandOnEvidence
        <5> QED
          BY <2>5, <5>2, DoneStays DEF Grows, WritesInv
      <4> QED
        BY <4>1, <4>2
    <3> QED
      BY <3>1 DEF RowsStandOnEvidence, Laid, AcceptanceKey
  <2>8. Claimed(t)'
    BY <2>4 DEF Claimed
  <2>9. j \in Posts /\ j.request = k.request /\ j.at = k.at /\ j.stored = k.stored /\ j.pc = "record"
    BY DEF Posts, Pcs
  <2>10. clients'[c] = NextPhase(j)
    BY <1>3, SentIs
  <2>11. CASE k.request.kind = "conclusion"
    <3>1. NextPhase(j) = [k EXCEPT !.pc = "ledger"]
      <4>1. NextPhase(j) = [j EXCEPT !.pc = "ledger"]
        BY <2>9, <2>11, PhasesFollow
      <4> QED
        BY <4>1 DEF Posts
    <3>2. PostInv(c)' /\ clients'[c] \in Posts
      <4> PICK p \in Storing : p = "ledger"
        BY DEF Storing
      <4> QED
        BY <2>1, <2>5, <2>6, <2>8, <2>10, <2>11, <3>1, PhaseEnds DEF WritesInv
    <3> QED
      BY <1>1, <1>3, <2>4, <2>5, <2>7, <2>10, <3>2, RequestMoves DEF WritesInv, WritesType
  <2>12. CASE k.request.kind # "conclusion"
    <3>1. NextPhase(j) = NextMessage(j)
      BY <2>2, <2>9, <2>12, PhasesFollow
    <3>2. Done(x)'
      BY <2>6, <2>8, <2>12 DEF Done, Claimed
    <3>3. InLedger(j.request, j.at)'
      BY <2>2, <2>9, InLedgerWhenAccepted
    <3>4. PostInv(c)' /\ NextMessage(j) \in Posts
      BY <2>1, <2>5, <2>9, <2>10, <3>1, <3>2, <3>3, MessageEnds DEF WritesInv
    <3> QED
      BY <1>1, <1>3, <2>4, <2>5, <2>7, <3>1, <3>4, RequestMoves DEF WritesInv, WritesType
  <2> QED
    BY <2>11, <2>12
<1> QED
  BY <1>1, <1>2, <1>3

LEMMA ForgetKeepsWrites ==
    ASSUME IntakeAssumption, WritesInv, NEW t \in Topics, ForgetTopic(t)
    PROVE  WritesInv'
<1>1. /\ UNCHANGED <<evidence, cited, trail, clients, unwritten>> /\ claims[t].state # "none"
      /\ \/ claims' = [claims EXCEPT ![t].state = "archived"] /\ UNCHANGED erased
         \/ claims' = [claims EXCEPT ![t] = NoClaimRow] /\ erased' = erased \cup {t}
  BY DEF ForgetTopic
<1>2. claims \in [Topics -> ClaimRows] /\ WritesType
  BY DEF WritesInv, WritesType
<1>3. /\ claims' \in [Topics -> ClaimRows] /\ \A u \in Topics : u # t => claims'[u] = claims[u]
      /\ \/ claims'[t].state = "archived" /\ claims'[t].by = claims[t].by
         \/ claims'[t].state = "none" /\ t \in erased'
  <2>1. claims[t] \in ClaimRows
    BY <1>2
  <2>2. CASE claims' = [claims EXCEPT ![t] = NoClaimRow] /\ erased' = erased \cup {t}
    <3>1. NoClaimRow \in ClaimRows /\ NoClaimRow.state = "none"
      BY DEF ClaimRows, NoClaimRow, NoEvidence
    <3> QED
      BY <1>2, <2>2, <3>1
  <2>3. CASE claims' = [claims EXCEPT ![t].state = "archived"]
    <3>1. /\ [claims[t] EXCEPT !.state = "archived"] \in ClaimRows
          /\ [claims[t] EXCEPT !.state = "archived"].state = "archived"
          /\ [claims[t] EXCEPT !.state = "archived"].by = claims[t].by
      BY <2>1 DEF ClaimRows
    <3>2. claims' = [claims EXCEPT ![t] = [claims[t] EXCEPT !.state = "archived"]]
      BY <1>2, <2>3
    <3> QED
      BY <1>2, <3>1, <3>2
  <2> QED
    BY <1>1, <2>2, <2>3
<1>4. Grows
  <2>1. ASSUME NEW u \in Topics \cup {NoTopic}, Claimed(u)
        PROVE  Claimed(u)'
    BY <1>1, <1>3, <2>1 DEF Claimed
  <2> QED
    BY <1>1, <2>1 DEF Grows
<1>5. RowsStandOnEvidence'
  BY <1>1, <1>2, <1>3, <1>4, RowsKept DEF WritesInv
<1>6. \A c \in Clients : PostInv(c)'
  BY <1>1, <1>2, <1>4, PostKept DEF WritesInv
<1> QED
  BY <1>1, <1>2, <1>3, <1>5, <1>6 DEF WritesInv, WritesType

LEMMA IntakeNextInv == IntakeAssumption /\ WritesInv /\ [IntakeNext]_intakeVars => WritesInv'
<1> SUFFICES ASSUME IntakeAssumption, WritesInv, [IntakeNext]_intakeVars PROVE WritesInv'
  OBVIOUS
<1>1. ASSUME NEW c \in Clients, EndPost(c) \/ BreakPost(c)
      PROVE  WritesInv'
  <2>1. clients[c] \in Posts /\ AtRest \in Posts
    <3>1. NoRequest \in Requests \cup {NoRequest} /\ << >> \in Seq(Nat)
      OBVIOUS
    <3> QED
      BY <3>1 DEF WritesInv, WritesType, AtRest, Posts, Pcs, NoEvidence
  <2>2. [clients[c] EXCEPT !.pc = "failed"] \in Posts /\ [clients[c] EXCEPT !.pc = "failed"].pc = "failed"
    BY <2>1 DEF Posts, Pcs
  <2>3. AtRest.pc = "idle"
    BY DEF AtRest
  <2> QED
    BY <1>1, <2>1, <2>2, <2>3, FailsKeepsWrites DEF EndPost, BreakPost
<1>2. CASE UNCHANGED intakeVars
  <2>1. \A c \in Clients : PostInv(c)'
    BY <1>2, PostKept, QuietTables DEF intakeVars, WritesInv
  <2> QED
    BY <1>2, <2>1, QuietTables DEF intakeVars, WritesInv, WritesType
<1> QED
  BY <1>1, <1>2, PostKeepsWrites, RefuseKeepsWrites, StoreKeepsWrites, CiteKeepsWrites, LayKeepsWrites,
     FindKeepsWrites, InsertKeepsWrites, ForgetKeepsWrites DEF IntakeNext

LEMMA IntakeInitInv == IntakeInit => WritesInv
<1> SUFFICES ASSUME IntakeInit PROVE WritesInv
  OBVIOUS
<1>1. AtRest \in Posts /\ AtRest.pc = "idle" /\ NoClaimRow \in ClaimRows
  BY DEF AtRest, Posts, Pcs, NoEvidence, NoClaimRow, ClaimRows
<1>2. WritesType
  BY <1>1 DEF IntakeInit, WritesType
<1>3. \A c \in Clients : PostInv(c)
  BY <1>1 DEF IntakeInit, PostInv
<1>4. RowsStandOnEvidence
  BY DEF IntakeInit, RowsStandOnEvidence, NoClaimRow
<1> QED
  BY <1>2, <1>3, <1>4 DEF WritesInv

LEMMA WritesInvTrue == IntakeAssumption /\ WritesInv => AnswersAreTrue
<1> SUFFICES ASSUME IntakeAssumption, WritesInv, NEW c \in Clients, Works(c, "answered")
             PROVE  /\ \A e \in Range(clients[c].stored) : Laid(e) /\ Claimed(evidence[e].topic)
                    /\ \A i \in DOMAIN clients[c].request.messages : InLedger(clients[c].request, i)
  BY DEF AnswersAreTrue, Claimed, InLedger
<1>1. clients[c].pc = "answered"
  BY DEF Works
<1> QED
  BY <1>1 DEF WritesInv, PostInv, Storing, Done

LEMMA AnswersStayTrue == IntakeSpec => [](RowsStandOnEvidence /\ AnswersAreTrue)
<1>1. WritesInv => RowsStandOnEvidence
  BY DEF WritesInv
<1> QED
  BY <1>1, IntakeInitInv, IntakeNextInv, WritesInvTrue, IntakeAssumption, PTL DEF IntakeSpec
----------------------------------------------------------------------------
(* Sessions of MCP *)

McpTools == ReadOnlyTools \cup WriteTools
McpAnswers == [result: {"error", "result", Nothing}, did: McpTools \cup {Nothing}, offers: SUBSET McpTools]
McpRows == [line: Lines, answer: McpAnswers]

\* What is said of one line: who is answered, what is done and what is offered.
SaidTruly(e) ==
    /\ e.answer.result = Nothing <=> (e.line.kind = "blank" \/ (e.line.kind = "message" /\ ~e.line.id))
    /\ e.answer.did # Nothing =>
          e.line.id /\ e.answer.result = "result" /\ e.answer.did \in Offered
    /\ e.answer.offers \in {{}, Offered}

\* The phase says how far the client has introduced itself, and the mode what it was served in.
McpInv ==
    /\ writeTools \in BOOLEAN /\ said \in Seq(McpRows) /\ Len(said) \in 0 .. MaxLines
    /\ mode \in {"undetermined", "modern", "legacy"}
    /\ phase \in {"not_initialized", "awaiting_initialized", "ready"}
    /\ phase # "not_initialized" => mode = "legacy"
    /\ \A n \in DOMAIN said : SaidTruly(said[n])
    /\ \A n \in DOMAIN said : Greets(n) => phase # "not_initialized"
    /\ phase # "not_initialized" => \E i \in DOMAIN said : Greets(i)
    /\ phase = "ready" => \E i, j \in DOMAIN said : i < j /\ Greets(i) /\ Confirms(j)
    /\ \A n \in DOMAIN said : Accepted(n) => mode = IF IsModern(n) THEN "modern" ELSE "legacy"
    /\ ServedAfterGreeting /\ OneGreeting

\* What a line can do: be refused or ignored, confirm a greeting, greet, or be handled in one of the
\* lifecycles.
Answers(l, a) == mode' = mode /\ phase' = phase /\ said' = Append(said, [line |-> l, answer |-> a])

Refuses(l) == l.kind # "blank" /\ (l.kind = "message" => l.id) /\ Answers(l, Refusal)
Ignores(l) == (l.kind = "message" => ~l.id) /\ l.kind # "garbled" /\ Answers(l, Reply(Nothing, Nothing))
ConfirmsGreeting(l) ==
    /\ l.kind = "message" /\ ~l.id /\ l.method = "notifications/initialized"
    /\ phase = "awaiting_initialized" /\ phase' = "ready" /\ mode' = mode
    /\ said' = Append(said, [line |-> l, answer |-> Reply(Nothing, Nothing)])
GreetsFirst(l) ==
    /\ l.kind = "message" /\ l.id /\ l.method = "initialize"
    /\ phase = "not_initialized" /\ phase' = "awaiting_initialized"
    /\ mode # "modern" /\ mode' = "legacy"
    /\ said' = Append(said, [line |-> l, answer |-> Reply("result", Nothing)])
InModern(l) ==
    /\ l.kind = "message" /\ l.id /\ l.method # "initialize" /\ l.version = Modern
    /\ mode # "legacy" /\ mode' = "modern" /\ phase' = phase
    /\ \E a \in {Reply("result", Nothing), Handle(l)} : said' = Append(said, [line |-> l, answer |-> a])
InLegacy(l) ==
    /\ l.kind = "message" /\ l.id /\ l.method # "initialize" /\ l.version # Modern
    /\ mode # "modern" /\ phase = "ready" /\ Answers(l, Handle(l))

LEMMA ReadsOneWay ==
    ASSUME McpAssumption, NEW l \in Lines, Read(l)
    PROVE  Refuses(l) \/ Ignores(l) \/ ConfirmsGreeting(l) \/ GreetsFirst(l) \/ InModern(l) \/ InLegacy(l)
<1>1. l.kind \in {"garbled", "blank", "message"}
  BY DEF McpAssumption
<1>2. CASE l.kind = "garbled"
  BY <1>2 DEF Read, Refuses, Answers, Stay
<1>3. CASE l.kind = "blank"
  BY <1>3 DEF Read, Ignores, Answers, Stay
<1>4. ASSUME l.kind = "message"
      PROVE  /\ mode' = HandleMessage(l).mode /\ phase' = HandleMessage(l).phase
             /\ said' = Append(said, [line |-> l, answer |-> HandleMessage(l).answer])
  BY <1>4 DEF Read
<1>5. CASE l.kind = "message" /\ ~l.params
  <2>1. HandleMessage(l) = Stay(IF l.id THEN Refusal ELSE Reply(Nothing, Nothing))
    BY <1>5 DEF HandleMessage
  <2> QED
    BY <1>4, <1>5, <2>1 DEF Stay, Refuses, Ignores, Answers
<1>6. CASE l.kind = "message" /\ l.params /\ ~l.id
  <2>1. HandleMessage(l) = Notified(l)
    BY <1>6 DEF HandleMessage
  <2> QED
    BY <1>4, <1>6, <2>1 DEF Notified, Ignores, Answers, ConfirmsGreeting
<1>7. CASE l.kind = "message" /\ l.params /\ l.id /\ l.method = "initialize"
  <2>1. HandleMessage(l) = Initialize(l)
    BY <1>7 DEF HandleMessage
  <2> QED
    BY <1>4, <1>7, <2>1 DEF Initialize, Stay, Refuses, Answers, GreetsFirst
<1>8. CASE l.kind = "message" /\ l.params /\ l.id /\ l.method # "initialize"
  <2>1. CASE l.version = Modern
    <3>1. HandleMessage(l) = ModernRequest(l)
      BY <1>8, <2>1 DEF HandleMessage
    <3> QED
      BY <1>4, <1>8, <2>1, <3>1 DEF ModernRequest, Stay, Refuses, Answers, InModern
  <2>2. CASE l.version \in Older \cup {NoVersion}
    <3>1. HandleMessage(l) = LegacyRequest(l) /\ l.version # Modern
      BY <1>8, <2>2 DEF HandleMessage, McpAssumption
    <3> QED
      BY <1>4, <1>8, <2>2, <3>1 DEF LegacyRequest, Stay, Refuses, Answers, InLegacy
  <2>3. CASE l.version \notin Older \cup {Modern, NoVersion}
    <3>1. HandleMessage(l) = Stay(Refusal)
      BY <1>8, <2>3 DEF HandleMessage
    <3> QED
      BY <1>4, <1>8, <3>1 DEF Stay, Refuses, Answers
  <2> QED
    BY <2>1, <2>2, <2>3
<1> QED
  BY <1>1, <1>2, <1>3, <1>5, <1>6, <1>7, <1>8

LEMMA HandlesTruly ==
    ASSUME McpAssumption, writeTools \in BOOLEAN, NEW l
    PROVE  /\ Handle(l) \in McpAnswers
           /\ Handle(l).result \in {"error", "result"} /\ Handle(l).offers \in {{}, Offered}
           /\ Handle(l).did # Nothing => Handle(l).result = "result" /\ Handle(l).did \in Offered
<1>1. Offered \subseteq McpTools /\ Nothing \notin McpTools
  BY DEF Offered, McpTools, McpAssumption
<1>2. Refusal \in McpAnswers /\ Refusal.result = "error" /\ Refusal.did = Nothing /\ Refusal.offers = {}
  BY DEF Refusal, Reply, McpAnswers
<1>3. CallTool(l) = Refusal \/ (CallTool(l) = Reply("result", l.tool) /\ l.tool \in Offered)
  BY DEF CallTool, Offered
<1>4. \A t \in Offered : Reply("result", t) \in McpAnswers
  BY <1>1 DEF Reply, McpAnswers
<1>5. CASE l.method = "tools/list"
  <2>1. Handle(l) = [result |-> "result", did |-> Nothing, offers |-> Offered]
    BY <1>5 DEF Handle, Reply
  <2> QED
    BY <1>1, <2>1 DEF McpAnswers
<1>6. CASE l.method = "tools/call"
  <2>1. Handle(l) = CallTool(l)
    BY <1>6 DEF Handle
  <2> QED
    BY <1>2, <1>3, <1>4, <2>1 DEF Reply
<1>7. CASE l.method \notin {"tools/list", "tools/call"}
  <2>1. Handle(l) = Refusal
    BY <1>7 DEF Handle
  <2> QED
    BY <1>2, <2>1
<1> QED
  BY <1>5, <1>6, <1>7

\* What a line leaves as it was.
LEMMA SaidIsKept ==
    ASSUME McpAssumption, McpInv, NEW l \in Lines, NEW a \in McpAnswers, said' = Append(said, [line |-> l, answer |-> a]),
           Len(said) < MaxLines, UNCHANGED writeTools, NEW k, k = Len(said) + 1
    PROVE  /\ said' \in Seq(McpRows) /\ Len(said') \in 0 .. MaxLines
           /\ k \in DOMAIN said' /\ DOMAIN said = 1 .. k - 1 /\ DOMAIN said' = 1 .. k
           /\ said'[k] = [line |-> l, answer |-> a]
           /\ \A n \in DOMAIN said :
                 said'[n] = said[n] /\ (Accepted(n)' <=> Accepted(n)) /\ (IsModern(n)' <=> IsModern(n))
                 /\ (Greets(n)' <=> Greets(n)) /\ (Confirms(n)' <=> Confirms(n)) /\ SaidTruly(said[n])'
           /\ Offered' = Offered
<1> DEFINE e == [line |-> l, answer |-> a]
<1>1. e \in McpRows /\ said \in Seq(McpRows) /\ Len(said) \in 0 .. MaxLines
  BY DEF McpInv, McpRows
<1>2. said' \in Seq(McpRows) /\ Len(said') = k /\ DOMAIN said = 1 .. k - 1 /\ DOMAIN said' = 1 .. k
  BY <1>1
<1>3. said'[k] = e /\ \A n \in DOMAIN said : said'[n] = said[n]
  BY <1>1
<1>4. Offered' = Offered
  BY DEF Offered
<1>5. ASSUME NEW n \in DOMAIN said
      PROVE  (Accepted(n)' <=> Accepted(n)) /\ (IsModern(n)' <=> IsModern(n))
             /\ (Greets(n)' <=> Greets(n)) /\ (Confirms(n)' <=> Confirms(n)) /\ SaidTruly(said[n])'
  BY <1>3, <1>4 DEF Accepted, IsModern, Greets, Confirms, SaidTruly, McpInv
<1>6. k \in DOMAIN said' /\ Len(said') \in 0 .. MaxLines
  <2>1. Len(said) \in Nat /\ MaxLines \in Nat
    BY <1>1 DEF McpAssumption
  <2> HIDE DEF e
  <2> QED
    BY <1>2, <2>1
<1>7. said'[k] = [line |-> l, answer |-> a]
  BY <1>3
<1> HIDE DEF e
<1> QED
  BY <1>2, <1>3, <1>4, <1>5, <1>6, <1>7

\* A line that greets and confirms nothing, and is answered as the lifecycle allows.
LEMMA AnswerKeepsInv ==
    ASSUME McpAssumption, McpInv, NEW l \in Lines, NEW a \in McpAnswers,
           said' = Append(said, [line |-> l, answer |-> a]), Len(said) < MaxLines, UNCHANGED writeTools,
           phase' = phase, mode' \in {mode, "modern"}, mode' # mode => mode = "undetermined",
           SaidTruly([line |-> l, answer |-> a]),
           a.result = "result" =>
              /\ l.method # "initialize"
              /\ mode' = IF l.version = Modern THEN "modern" ELSE "legacy"
              /\ l.version = Modern \/ phase = "ready"
    PROVE  McpInv'
<1> PICK k : k = Len(said) + 1
  OBVIOUS
<1> DEFINE e == [line |-> l, answer |-> a]
<1>1. /\ said' \in Seq(McpRows) /\ Len(said') \in 0 .. MaxLines
      /\ k \in DOMAIN said' /\ DOMAIN said = 1 .. k - 1 /\ DOMAIN said' = 1 .. k
      /\ said'[k] = e
      /\ \A n \in DOMAIN said :
            said'[n] = said[n] /\ (Accepted(n)' <=> Accepted(n)) /\ (IsModern(n)' <=> IsModern(n))
            /\ (Greets(n)' <=> Greets(n)) /\ (Confirms(n)' <=> Confirms(n)) /\ SaidTruly(said[n])'
      /\ Offered' = Offered
  BY SaidIsKept
<1>2. /\ Accepted(k)' <=> a.result = "result"
      /\ IsModern(k)' <=> l.method # "initialize" /\ l.version = Modern
      /\ ~Greets(k)' /\ SaidTruly(said[k])'
  BY <1>1 DEF Accepted, IsModern, Greets, SaidTruly
<1> HIDE DEF e
<1>3. Len(said) \in Nat
  BY DEF McpInv
<1>4. \A n \in DOMAIN said' : n = k \/ n \in DOMAIN said
  BY <1>1, <1>3
<1>5. (phase # "not_initialized" => mode = "legacy")' /\ mode' \in {"undetermined", "modern", "legacy"}
  BY DEF McpInv
<1>6. \A n \in DOMAIN said : Accepted(n) => mode' = mode
  BY DEF McpInv
<1>7. ASSUME NEW n \in DOMAIN said', Accepted(n)'
      PROVE  mode' = IF IsModern(n)' THEN "modern" ELSE "legacy"
  BY <1>1, <1>2, <1>4, <1>6, <1>7 DEF McpInv
<1>8. (phase = "ready" => \E i, j \in DOMAIN said : i < j /\ Greets(i) /\ Confirms(j))'
  BY <1>1, <1>4, <1>3 DEF McpInv
<1>9. (phase # "not_initialized" => \E i \in DOMAIN said : Greets(i))'
  BY <1>1, <1>4, <1>3 DEF McpInv
<1>10. OneGreeting'
  BY <1>1, <1>2, <1>4 DEF McpInv, OneGreeting
<1>11. ServedAfterGreeting'
  <2> SUFFICES ASSUME NEW n \in DOMAIN said', Accepted(n)', ~IsModern(n)', ~Greets(n)'
               PROVE  \E i, j \in 1 .. n - 1 : i < j /\ Greets(i)' /\ Confirms(j)'
    BY DEF ServedAfterGreeting
  <2>1. CASE n \in DOMAIN said
    <3>1. PICK i \in 1 .. n - 1, j \in 1 .. n - 1 : i < j /\ Greets(i) /\ Confirms(j)
      BY <1>1, <2>1 DEF McpInv, ServedAfterGreeting
    <3>2. i \in DOMAIN said /\ j \in DOMAIN said
      BY <1>1, <1>3, <2>1
    <3> QED
      BY <1>1, <3>1, <3>2
  <2>2. CASE n = k
    <3>1. phase = "ready"
      BY <1>2, <2>2
    <3>2. PICK i \in DOMAIN said, j \in DOMAIN said : i < j /\ Greets(i) /\ Confirms(j)
      BY <3>1 DEF McpInv
    <3>3. i \in 1 .. n - 1 /\ j \in 1 .. n - 1
      BY <1>1, <2>2, <3>2
    <3> QED
      BY <1>1, <3>2, <3>3
  <2> QED
    BY <1>4, <2>1, <2>2
<1>12. \A n \in DOMAIN said' : SaidTruly(said[n])' /\ (Greets(n)' => phase' # "not_initialized")
  BY <1>1, <1>2, <1>4 DEF McpInv
<1>13. writeTools' \in BOOLEAN /\ phase' \in {"not_initialized", "awaiting_initialized", "ready"}
  BY DEF McpInv
<1> QED
  BY <1>1, <1>5, <1>7, <1>8, <1>9, <1>10, <1>11, <1>12, <1>13 DEF McpInv

\* The line with which the client says that it is there, and the one that says it heard the answer.
LEMMA GreetingKeepsInv ==
    ASSUME McpAssumption, McpInv, NEW l \in Lines, Len(said) < MaxLines, UNCHANGED writeTools,
           GreetsFirst(l) \/ ConfirmsGreeting(l)
    PROVE  McpInv'
<1> PICK k : k = Len(said) + 1
  OBVIOUS
<1>1. PICK a \in McpAnswers :
         /\ said' = Append(said, [line |-> l, answer |-> a])
         /\ a = Reply(IF GreetsFirst(l) THEN "result" ELSE Nothing, Nothing)
  BY DEF GreetsFirst, ConfirmsGreeting, Reply, McpAnswers
<1>2. /\ said' \in Seq(McpRows) /\ Len(said') \in 0 .. MaxLines
      /\ k \in DOMAIN said' /\ DOMAIN said = 1 .. k - 1 /\ DOMAIN said' = 1 .. k
      /\ said'[k] = [line |-> l, answer |-> a]
      /\ \A n \in DOMAIN said :
            said'[n] = said[n] /\ (Accepted(n)' <=> Accepted(n)) /\ (IsModern(n)' <=> IsModern(n))
            /\ (Greets(n)' <=> Greets(n)) /\ (Confirms(n)' <=> Confirms(n)) /\ SaidTruly(said[n])'
  BY <1>1, SaidIsKept
<1>3. Len(said) \in Nat /\ \A n \in DOMAIN said' : n = k \/ n \in DOMAIN said
  BY <1>2 DEF McpInv
<1>4. /\ Accepted(k)' <=> GreetsFirst(l)
      /\ Greets(k)' <=> GreetsFirst(l)
      /\ GreetsFirst(l) => ~IsModern(k)'
      /\ ConfirmsGreeting(l) => Confirms(k)'
      /\ SaidTruly(said[k])'
  <2>1. a = [result |-> IF GreetsFirst(l) THEN "result" ELSE Nothing, did |-> Nothing, offers |-> {}]
    BY <1>1 DEF Reply
  <2>2. Nothing # "result"
    BY DEF McpAssumption
  <2>3. Accepted(k)' <=> GreetsFirst(l)
    BY <1>2, <2>1, <2>2 DEF Accepted
  <2>4. SaidTruly(said[k])'
    BY <1>2, <2>1, <2>2 DEF SaidTruly, GreetsFirst, ConfirmsGreeting
  <2>5. Greets(k)' <=> GreetsFirst(l)
    BY <1>2, <2>3 DEF Greets, GreetsFirst
  <2> QED
    BY <1>2, <2>3, <2>4, <2>5 DEF IsModern, Confirms, GreetsFirst, ConfirmsGreeting
<1>5. \A n \in DOMAIN said' : SaidTruly(said[n])'
  BY <1>2, <1>3, <1>4
<1>6. /\ mode' = "legacy" /\ phase' \in {"awaiting_initialized", "ready"}
      /\ mode # "modern" /\ writeTools' \in BOOLEAN
      /\ phase' = "ready" <=> ConfirmsGreeting(l)
  BY DEF McpInv, GreetsFirst, ConfirmsGreeting
<1>7. ASSUME GreetsFirst(l)
      PROVE  OneGreeting' /\ \E i \in DOMAIN said' : Greets(i)'
  <2>1. \A n \in DOMAIN said : ~Greets(n)
    BY <1>7 DEF McpInv, GreetsFirst
  <2> QED
    BY <1>2, <1>3, <1>4, <1>7, <2>1 DEF OneGreeting
<1>8. ASSUME ConfirmsGreeting(l)
      PROVE  OneGreeting' /\ \E i, j \in DOMAIN said' : i < j /\ Greets(i)' /\ Confirms(j)'
  <2>1. ~GreetsFirst(l)
    BY <1>8 DEF GreetsFirst, ConfirmsGreeting
  <2>2. OneGreeting'
    BY <1>2, <1>3, <1>4, <2>1 DEF OneGreeting, McpInv
  <2>3. PICK i \in DOMAIN said : Greets(i)
    BY <1>8 DEF McpInv, ConfirmsGreeting
  <2>4. i < k /\ i \in DOMAIN said' /\ Greets(i)'
    BY <1>2, <1>3, <2>3
  <2> QED
    BY <1>2, <1>4, <1>8, <2>2, <2>4
<1>9. ASSUME NEW n \in DOMAIN said', Accepted(n)'
      PROVE  ~IsModern(n)'
  <2>1. CASE n = k
    BY <1>4, <1>9, <2>1
  <2>2. CASE n \in DOMAIN said
    BY <1>2, <1>6, <1>9, <2>2 DEF McpInv
  <2> QED
    BY <1>3, <2>1, <2>2
<1>10. ServedAfterGreeting'
  <2> SUFFICES ASSUME NEW n \in DOMAIN said', Accepted(n)', ~IsModern(n)', ~Greets(n)'
               PROVE  \E i, j \in 1 .. n - 1 : i < j /\ Greets(i)' /\ Confirms(j)'
    BY DEF ServedAfterGreeting
  <2>1. n \in DOMAIN said
    BY <1>3, <1>4
  <2>2. PICK i \in 1 .. n - 1, j \in 1 .. n - 1 : i < j /\ Greets(i) /\ Confirms(j)
    BY <1>2, <2>1 DEF McpInv, ServedAfterGreeting
  <2>3. i \in DOMAIN said /\ j \in DOMAIN said
    BY <1>2, <1>3, <2>1
  <2> QED
    BY <1>2, <2>2, <2>3
<1>11. (\A n \in DOMAIN said : Accepted(n) => mode = IF IsModern(n) THEN "modern" ELSE "legacy")'
  BY <1>6, <1>9
<1>12. OneGreeting' /\ (\E i \in DOMAIN said' : Greets(i)')
       /\ (phase' = "ready" => \E i, j \in DOMAIN said' : i < j /\ Greets(i)' /\ Confirms(j)')
  BY <1>6, <1>7, <1>8 DEF GreetsFirst
<1> QED
  BY <1>2, <1>5, <1>6, <1>10, <1>11, <1>12 DEF McpInv

LEMMA ReadKeepsInv ==
    ASSUME McpAssumption, McpInv, NEW l \in Lines, Read(l)
    PROVE  McpInv'
<1>1. Len(said) < MaxLines /\ UNCHANGED writeTools /\ writeTools \in BOOLEAN
  BY DEF Read, McpInv
<1>2. Nothing \notin {"error", "result"}
  BY DEF McpAssumption
<1>3. \A r \in {"error", "result", Nothing} :
         Reply(r, Nothing) \in McpAnswers /\ Reply(r, Nothing).result = r
         /\ Reply(r, Nothing).did = Nothing /\ Reply(r, Nothing).offers = {}
  BY DEF Reply, McpAnswers
<1>4. /\ Handle(l) \in McpAnswers
      /\ Handle(l).result \in {"error", "result"} /\ Handle(l).offers \in {{}, Offered}
      /\ Handle(l).did # Nothing => Handle(l).result = "result" /\ Handle(l).did \in Offered
  BY <1>1, HandlesTruly
<1>5. mode \in {"undetermined", "modern", "legacy"}
      /\ (phase # "not_initialized" => mode = "legacy")
  BY DEF McpInv
<1>6. CASE Refuses(l)
  <2>1. SaidTruly([line |-> l, answer |-> Refusal])
    BY <1>2, <1>3, <1>6 DEF SaidTruly, Refuses, Refusal
  <2> QED
    BY <1>1, <1>2, <1>3, <1>6, <2>1, AnswerKeepsInv DEF Refuses, Answers, Refusal
<1>7. CASE Ignores(l)
  <2>0. l.kind \in {"garbled", "blank", "message"}
    BY DEF McpAssumption
  <2>1. SaidTruly([line |-> l, answer |-> Reply(Nothing, Nothing)])
    BY <1>2, <1>3, <1>7, <2>0 DEF SaidTruly, Ignores
  <2> QED
    BY <1>1, <1>2, <1>3, <1>7, <2>1, AnswerKeepsInv DEF Ignores, Answers
<1>8. CASE InModern(l)
  <2>1. PICK a \in {Reply("result", Nothing), Handle(l)} : said' = Append(said, [line |-> l, answer |-> a])
    BY <1>8 DEF InModern
  <2>2. a \in McpAnswers /\ a.result \in {"error", "result"} /\ a.offers \in {{}, Offered}
        /\ (a.did # Nothing => a.result = "result" /\ a.did \in Offered)
    BY <1>3, <1>4, <2>1
  <2>3. SaidTruly([line |-> l, answer |-> a])
    BY <1>2, <1>8, <2>2 DEF SaidTruly, InModern
  <2> QED
    BY <1>1, <1>5, <1>8, <2>1, <2>2, <2>3, AnswerKeepsInv DEF InModern
<1>9. CASE InLegacy(l)
  <2>1. SaidTruly([line |-> l, answer |-> Handle(l)])
    BY <1>2, <1>4, <1>9 DEF SaidTruly, InLegacy
  <2> QED
    BY <1>1, <1>4, <1>5, <1>9, <2>1, AnswerKeepsInv DEF InLegacy, Answers
<1> QED
  BY <1>1, <1>6, <1>7, <1>8, <1>9, ReadsOneWay, GreetingKeepsInv

LEMMA McpInvOrderly == McpAssumption /\ McpInv => SessionsAreOrderly
<1> SUFFICES ASSUME McpAssumption, McpInv PROVE SessionsAreOrderly
  OBVIOUS
<1>1. OneLifecycle
  BY DEF OneLifecycle, McpInv
<1>2. ASSUME NEW n \in DOMAIN said
      PROVE  /\ said[n].answer.result = Nothing <=>
                   (said[n].line.kind = "blank" \/ (said[n].line.kind = "message" /\ ~said[n].line.id))
             /\ said[n].answer.did # Nothing =>
                   /\ said[n].line.id /\ Accepted(n)
                   /\ said[n].answer.did \in Offered
             /\ said[n].answer.offers \in {{}, Offered}
  BY <1>2 DEF McpInv, SaidTruly, Accepted
<1>3. \A t \in Offered : writeTools \/ t \in ReadOnlyTools
  BY DEF Offered
<1>4. AnsweredIsDone
  BY <1>2, <1>3 DEF AnsweredIsDone
<1> QED
  BY <1>1, <1>4 DEF McpInv, SessionsAreOrderly

LEMMA McpInitInv == McpAssumption /\ McpInit => McpInv
<1> SUFFICES ASSUME McpAssumption, McpInit PROVE McpInv
  OBVIOUS
<1>1. said \in Seq(McpRows) /\ DOMAIN said = {} /\ Len(said) = 0
  BY DEF McpInit
<1> QED
  BY <1>1 DEF McpInit, McpInv, McpAssumption, ServedAfterGreeting, OneGreeting

LEMMA McpInvStays == McpInv /\ [McpNext]_mcpVars => McpInv'
<1> SUFFICES ASSUME McpInv, [McpNext]_mcpVars PROVE McpInv'
  OBVIOUS
<1>1. CASE McpNext
  BY <1>1, ReadKeepsInv, McpAssumption DEF McpNext
<1>2. CASE UNCHANGED mcpVars
  BY <1>2 DEF mcpVars, McpInv, SaidTruly, Offered, Greets, Accepted, IsModern, Confirms, ServedAfterGreeting,
              OneGreeting
<1> QED
  BY <1>1, <1>2

LEMMA SessionsStayOrderly == McpSpec => []SessionsAreOrderly
<1> QED
  BY McpInvStays, McpInitInv, McpInvOrderly, McpAssumption, PTL DEF McpSpec
----------------------------------------------------------------------------
(* Procedures *)

ProcStates == {"active", "retired", "superseded", "quarantined"}
ProcRows == [subject: Subjects, way: Ways, by: SUBSET Nat, state: ProcStates, retired: BOOLEAN,
             version: Nat, next: Nat, counter: Nat]
Candidates == [subject: Subjects, way: Ways, by: SUBSET Nat, state: {"candidate", "quarantined"}]
Desks == [pc: {"idle", "insert", "find", "count"}, on: Candidates \cup {<< >>}, id: Nat]

\* Two trusted successes of the subject.
IsEarned(by, subject) ==
    \E d, e \in by :
       d # e /\ \A f \in {d, e} : /\ f \in DOMAIN episodes /\ episodes[f].good /\ episodes[f].trusted
                                  /\ episodes[f].subject = subject

Awaited(i) == i \in uncounted \/ \E c \in Clerks : clerks[c].pc = "count" /\ clerks[c].id = i

\* What a caller is about to insert is earned already; a row that keeps others out is in use, and is
\* the only one that does.
LearnedInv ==
    /\ episodes \in Seq(Episode) /\ procedures \in Seq(ProcRows) /\ clerks \in [Clerks -> Desks]
    /\ \A c \in Clerks : /\ clerks[c].pc = "insert" => clerks[c].on \in Candidates
                                                      /\ IsEarned(clerks[c].on.by, clerks[c].on.subject)
                         /\ clerks[c].pc = "count" => clerks[c].id \in DOMAIN procedures
    /\ \A i \in DOMAIN procedures : /\ IsEarned(procedures[i].by, procedures[i].subject)
                                    /\ ~procedures[i].retired => procedures[i].state = "active"
                                    /\ Recalled(procedures[i]) /\ procedures[i].counter >= Threshold => Awaited(i)
    /\ \A i, j \in DOMAIN procedures :
          /\ ~procedures[i].retired /\ ~procedures[j].retired
          /\ procedures[i].subject = procedures[j].subject /\ procedures[i].way = procedures[j].way
          => i = j

LEMMA TwoOfThem ==
    ASSUME NEW S, IsFiniteSet(S), Cardinality(S) >= 2
    PROVE  \E d, e \in S : d # e
<1> SUFFICES ASSUME \A d, e \in S : d = e PROVE FALSE
  OBVIOUS
<1>1. S = {} \/ \E d \in S : S = {d}
  OBVIOUS
<1>2. S # {}
  BY FS_EmptySet
<1>3. \A d : S # {d}
  BY FS_Singleton
<1> QED
  BY <1>1, <1>2, <1>3

\* What does not depend on the callers goes on as long as rows are only taken out of use.
Ages ==
    /\ DOMAIN procedures' = DOMAIN procedures
    /\ \A i \in DOMAIN procedures :
          /\ procedures'[i].subject = procedures[i].subject /\ procedures'[i].way = procedures[i].way
          /\ procedures'[i].by = procedures[i].by
          /\ procedures'[i].retired
             \/ (procedures'[i].retired = procedures[i].retired /\ procedures'[i].state = procedures[i].state)

LEMMA EarnedStays ==
    ASSUME \A f \in DOMAIN episodes : f \in DOMAIN episodes' /\ episodes'[f] = episodes[f]
    PROVE  \A by, subject : IsEarned(by, subject) => IsEarned(by, subject)'
  BY DEF IsEarned

LEMMA AgesKeeps ==
    ASSUME LearnedInv, Ages, procedures' \in Seq(ProcRows), clerks' \in [Clerks -> Desks],
           episodes' \in Seq(Episode),
           \A f \in DOMAIN episodes : f \in DOMAIN episodes' /\ episodes'[f] = episodes[f],
           \A c \in Clerks : \/ clerks'[c] = clerks[c]
                             \/ clerks'[c].pc \notin {"insert", "count"}
                             \/ clerks'[c].pc = "count" /\ clerks'[c].id \in DOMAIN procedures
                             \/ /\ clerks'[c].pc = "insert" /\ clerks'[c].on \in Candidates
                                /\ IsEarned(clerks[c].on.by, clerks[c].on.subject)',
           \A i \in DOMAIN procedures :
              Recalled(procedures'[i]) /\ procedures'[i].counter >= Threshold => Awaited(i)'
    PROVE  LearnedInv'
<1>1. \A by, subject : IsEarned(by, subject) => IsEarned(by, subject)'
  BY EarnedStays
<1>2. ASSUME NEW c \in Clerks
      PROVE  /\ clerks'[c].pc = "insert" => clerks'[c].on \in Candidates
                                           /\ IsEarned(clerks[c].on.by, clerks[c].on.subject)'
             /\ clerks'[c].pc = "count" => clerks'[c].id \in DOMAIN procedures'
  <2>1. CASE clerks'[c] = clerks[c]
    <3>1. clerks[c].pc = "insert" => IsEarned(clerks[c].on.by, clerks[c].on.subject)'
      <4> SUFFICES ASSUME clerks[c].pc = "insert"
                   PROVE  IsEarned(clerks[c].on.by, clerks[c].on.subject)'
        OBVIOUS
      <4> PICK by, subject : by = clerks[c].on.by /\ subject = clerks[c].on.subject
        OBVIOUS
      <4>1. clerks'[c].on.by = by /\ clerks'[c].on.subject = subject
        BY <2>1
      <4>2. IsEarned(by, subject)
        BY DEF LearnedInv, IsEarned
      <4>3. IsEarned(by, subject)'
        BY <1>1, <4>2
      <4> QED
        BY <4>1, <4>3 DEF IsEarned
    <3> QED
      BY <2>1, <3>1 DEF LearnedInv, Ages
  <2>2. CASE clerks'[c] # clerks[c]
    BY <2>2 DEF Ages
  <2> QED
    BY <2>1, <2>2
<1>3. ASSUME NEW i \in DOMAIN procedures'
      PROVE  /\ IsEarned(procedures[i].by, procedures[i].subject)'
             /\ ~procedures'[i].retired => procedures'[i].state = "active"
             /\ Recalled(procedures'[i]) /\ procedures'[i].counter >= Threshold => Awaited(i)'
  <2>1. IsEarned(procedures[i].by, procedures[i].subject)'
    <3> PICK by, subject : by = procedures[i].by /\ subject = procedures[i].subject
      OBVIOUS
    <3>1. i \in DOMAIN procedures /\ procedures'[i].by = by /\ procedures'[i].subject = subject
      BY DEF Ages
    <3>2. IsEarned(by, subject)
      BY <3>1 DEF LearnedInv, IsEarned
    <3>3. IsEarned(by, subject)'
      BY <1>1, <3>2
    <3> QED
      BY <3>1, <3>3 DEF IsEarned
  <2> QED
    BY <2>1 DEF LearnedInv, Ages
<1>4. (\A i, j \in DOMAIN procedures :
          /\ ~procedures[i].retired /\ ~procedures[j].retired
          /\ procedures[i].subject = procedures[j].subject /\ procedures[i].way = procedures[j].way
          => i = j)'
  BY DEF LearnedInv, Ages
<1> QED
  BY <1>2, <1>3, <1>4 DEF LearnedInv

\* A row that changes.
LEMMA RowAges ==
    ASSUME LearnedInv, NEW i \in DOMAIN procedures, NEW p \in ProcRows, procedures' = [procedures EXCEPT ![i] = p],
           p.subject = procedures[i].subject, p.way = procedures[i].way, p.by = procedures[i].by,
           p.retired \/ (p.retired = procedures[i].retired /\ p.state = procedures[i].state)
    PROVE  /\ Ages /\ procedures' \in Seq(ProcRows)
           /\ procedures'[i] = p /\ \A j \in DOMAIN procedures : j # i => procedures'[j] = procedures[j]
<1>1. procedures \in Seq(ProcRows)
  BY DEF LearnedInv
<1>2. procedures' \in Seq(ProcRows) /\ DOMAIN procedures' = DOMAIN procedures
  BY <1>1
<1>3. procedures'[i] = p /\ \A j \in DOMAIN procedures : j # i => procedures'[j] = procedures[j]
  BY <1>1
<1> QED
  BY <1>2, <1>3 DEF Ages

\* A caller sits down elsewhere, and no row changes.
LEMMA SeatKeeps ==
    ASSUME LearnedInv, NEW c \in Clerks, NEW n \in Desks, Seat(c, n), UNCHANGED <<episodes, procedures>>,
           clerks[c].pc # "count" \/ (clerks[c].id \in uncounted' /\ uncounted \subseteq uncounted'),
           clerks[c].pc = "count" \/ UNCHANGED uncounted,
           \/ n.pc \notin {"insert", "count"}
           \/ n.pc = "insert" /\ n.on \in Candidates /\ IsEarned(n.on.by, n.on.subject)
    PROVE  LearnedInv'
<1>1. /\ clerks' = [clerks EXCEPT ![c] = n] /\ clerks \in [Clerks -> Desks]
      /\ procedures' \in Seq(ProcRows) /\ episodes' \in Seq(Episode)
  BY DEF Seat, LearnedInv
<1>2. clerks' \in [Clerks -> Desks] /\ clerks'[c] = n /\ \A d \in Clerks : d # c => clerks'[d] = clerks[d]
  BY <1>1
<1>3. Ages
  BY DEF Ages
<1>4. ASSUME NEW i \in DOMAIN procedures, Recalled(procedures'[i]), procedures'[i].counter >= Threshold
      PROVE  Awaited(i)'
  <2>1. Awaited(i)
    BY <1>4 DEF LearnedInv
  <2> QED
    BY <1>2, <2>1 DEF Awaited
<1>5. n.pc = "insert" => IsEarned(clerks[c].on.by, clerks[c].on.subject)'
  BY <1>2 DEF IsEarned
<1> QED
  BY <1>1, <1>2, <1>3, <1>4, <1>5, AgesKeeps

LEMMA DesksAre ==
    ASSUME LearnedInv, NEW c \in Clerks
    PROVE  /\ clerks[c] \in Desks /\ AtDesk \in Desks /\ AtDesk.pc = "idle"
           /\ [clerks[c] EXCEPT !.pc = "find"] \in Desks /\ [clerks[c] EXCEPT !.pc = "find"].pc = "find"
           /\ \A k \in Candidates : /\ [AtDesk EXCEPT !.pc = "insert", !.on = k] \in Desks
                                    /\ [AtDesk EXCEPT !.pc = "insert", !.on = k].pc = "insert"
                                    /\ [AtDesk EXCEPT !.pc = "insert", !.on = k].on = k
           /\ \A i \in Nat : /\ [AtDesk EXCEPT !.pc = "count", !.id = i] \in Desks
                             /\ [AtDesk EXCEPT !.pc = "count", !.id = i].pc = "count"
                             /\ [AtDesk EXCEPT !.pc = "count", !.id = i].id = i
<1>1. clerks[c] \in Desks
  BY DEF LearnedInv
<1>2. AtDesk \in Desks /\ AtDesk.pc = "idle"
  BY DEF AtDesk, Desks, NoProcedure
<1>3. [clerks[c] EXCEPT !.pc = "find"] \in Desks /\ [clerks[c] EXCEPT !.pc = "find"].pc = "find"
  BY <1>1 DEF Desks
<1>4. ASSUME NEW k \in Candidates
      PROVE  /\ [AtDesk EXCEPT !.pc = "insert", !.on = k] \in Desks
             /\ [AtDesk EXCEPT !.pc = "insert", !.on = k].pc = "insert"
             /\ [AtDesk EXCEPT !.pc = "insert", !.on = k].on = k
  BY <1>2 DEF Desks
<1>5. ASSUME NEW i \in Nat
      PROVE  /\ [AtDesk EXCEPT !.pc = "count", !.id = i] \in Desks
             /\ [AtDesk EXCEPT !.pc = "count", !.id = i].pc = "count"
             /\ [AtDesk EXCEPT !.pc = "count", !.id = i].id = i
  BY <1>2 DEF Desks
<1> QED
  BY <1>1, <1>2, <1>3, <1>4, <1>5

LEMMA CreateKeeps ==
    ASSUME ProceduresAssumption, LearnedInv, CreateEpisode
    PROVE  LearnedInv'
<1>1. PICK e \in Episode : episodes' = Append(episodes, e)
  BY DEF CreateEpisode, ProceduresAssumption
<1>2. episodes \in Seq(Episode) /\ procedures' \in Seq(ProcRows) /\ clerks' \in [Clerks -> Desks]
      /\ UNCHANGED <<procedures, clerks, uncounted>>
  BY DEF CreateEpisode, LearnedInv
<1>3. episodes' \in Seq(Episode) /\ \A f \in DOMAIN episodes : f \in DOMAIN episodes' /\ episodes'[f] = episodes[f]
  BY <1>1, <1>2
<1>4. Ages
  BY <1>2 DEF Ages
<1>5. \A i \in DOMAIN procedures : Recalled(procedures'[i]) /\ procedures'[i].counter >= Threshold => Awaited(i)'
  BY <1>2 DEF LearnedInv, Awaited
<1> QED
  BY <1>2, <1>3, <1>4, <1>5, AgesKeeps

LEMMA SubmitKeeps ==
    ASSUME LearnedInv, NEW c \in Clerks, SubmitCandidate(c)
    PROVE  LearnedInv'
<1>0. PICK known \in SUBSET Successful :
         \E e \in known :
            /\ IsAccepted(CandidateOf(GroupWith(known, e), e))
            /\ Seat(c, [AtDesk EXCEPT !.pc = "insert", !.on = CandidateOf(GroupWith(known, e), e)])
  BY DEF SubmitCandidate
<1>1. PICK e \in known :
         /\ IsAccepted(CandidateOf(GroupWith(known, e), e))
         /\ Seat(c, [AtDesk EXCEPT !.pc = "insert", !.on = CandidateOf(GroupWith(known, e), e)])
  BY <1>0
<1> PICK group : group = GroupWith(known, e)
  OBVIOUS
<1> PICK k : k = CandidateOf(group, e)
  OBVIOUS
<1>2. episodes \in Seq(Episode) /\ known \subseteq DOMAIN episodes /\ e \in DOMAIN episodes
      /\ \A d \in known : episodes[d].good
  BY DEF LearnedInv, Successful
<1>3. group \subseteq known /\ \A d \in group : episodes[d].subject = episodes[e].subject
  BY DEF GroupWith
<1>4. /\ k.by = group /\ k.subject = episodes[e].subject /\ k.way = episodes[e].way
      /\ k.state = "candidate" /\ Cardinality(group) >= 2
      /\ \A d \in group : episodes[d].trusted
  BY <1>1 DEF CandidateOf, IsAccepted
<1>5. episodes[e] \in Episode /\ DOMAIN episodes = 1 .. Len(episodes) /\ Len(episodes) \in Nat
  BY <1>2
<1>6. IsFiniteSet(group)
  <2>1. IsFiniteSet(DOMAIN episodes)
    BY <1>5, FS_Interval
  <2>2. group \subseteq DOMAIN episodes
    BY <1>2, <1>3
  <2> QED
    BY <2>1, <2>2, FS_Subset
<1>7. PICK d \in group, f \in group : d # f
  BY <1>4, <1>6, TwoOfThem
<1>8. IsEarned(k.by, k.subject)
  BY <1>2, <1>3, <1>4, <1>7 DEF IsEarned
<1>9. k \in Candidates
  <2>1. k = [subject |-> episodes[e].subject, way |-> episodes[e].way, by |-> group, state |-> "candidate"]
    BY <1>4 DEF CandidateOf
  <2>2. group \subseteq Nat /\ episodes[e].subject \in Subjects /\ episodes[e].way \in Ways
    BY <1>2, <1>3, <1>5 DEF Episode
  <2> QED
    BY <2>1, <2>2 DEF Candidates
<1>10. clerks[c].pc = "idle" /\ UNCHANGED <<episodes, procedures, uncounted>>
  BY DEF SubmitCandidate, Does
<1> PICK n \in Desks : n = [AtDesk EXCEPT !.pc = "insert", !.on = k]
  BY <1>9, DesksAre
<1>11. Seat(c, n) /\ n.pc = "insert" /\ n.on = k
  BY <1>1, <1>9, DesksAre
<1> QED
  BY <1>8, <1>9, <1>10, <1>11, SeatKeeps

LEMMA InsertKeeps ==
    ASSUME LearnedInv, NEW c \in Clerks, InsertProcedure(c)
    PROVE  LearnedInv'
<1> PICK k : k = clerks[c].on
  OBVIOUS
<1> PICK p : p = NewProcedure(k)
  OBVIOUS
<1> PICK x : x = Len(procedures) + 1
  OBVIOUS
<1>1. /\ UNCHANGED <<episodes, uncounted>> /\ clerks[c].pc = "insert"
      /\ \/ Clashing(k) = {} /\ procedures' = Append(procedures, p) /\ Seat(c, AtDesk)
         \/ Seat(c, [clerks[c] EXCEPT !.pc = "find"]) /\ UNCHANGED procedures
  BY DEF InsertProcedure, Does
<1>2. CASE Seat(c, [clerks[c] EXCEPT !.pc = "find"]) /\ UNCHANGED procedures
  BY <1>1, <1>2, DesksAre, SeatKeeps
<1>3. CASE Clashing(k) = {} /\ procedures' = Append(procedures, p) /\ Seat(c, AtDesk)
  <2>1. k \in Candidates /\ IsEarned(k.by, k.subject)
    BY <1>1 DEF LearnedInv, IsEarned
  <2>2. p \in ProcRows /\ p.subject = k.subject /\ p.way = k.way /\ p.by = k.by /\ p.state = "active"
        /\ ~p.retired /\ p.counter = 0
    <3>1. k.subject \in Subjects /\ k.way \in Ways /\ k.by \in SUBSET Nat
      BY <2>1 DEF Candidates
    <3> QED
      BY <3>1 DEF NewProcedure, ProcRows, ProcStates, NoProcedure
  <2>3. procedures \in Seq(ProcRows) /\ clerks \in [Clerks -> Desks] /\ episodes \in Seq(Episode)
    BY DEF LearnedInv
  <2>4. /\ procedures' \in Seq(ProcRows) /\ procedures'[x] = p /\ x \notin DOMAIN procedures
        /\ DOMAIN procedures' = DOMAIN procedures \cup {x}
        /\ \A i \in DOMAIN procedures : procedures'[i] = procedures[i]
    BY <1>3, <2>2, <2>3
  <2>5. /\ clerks' \in [Clerks -> Desks] /\ clerks'[c].pc = "idle"
        /\ \A d \in Clerks : d # c => clerks'[d] = clerks[d]
    BY <1>3, <2>3, DesksAre DEF Seat
  <2>6. \A by, subject : IsEarned(by, subject) => IsEarned(by, subject)'
    BY <1>1, EarnedStays
  <2>7. ASSUME NEW d \in Clerks
        PROVE  /\ clerks'[d].pc = "insert" => clerks'[d].on \in Candidates
                                             /\ IsEarned(clerks[d].on.by, clerks[d].on.subject)'
               /\ clerks'[d].pc = "count" => clerks'[d].id \in DOMAIN procedures'
    <3>1. CASE d = c
      BY <2>5, <3>1
    <3>2. CASE d # c
      <4>1. clerks'[d] = clerks[d]
        BY <2>5, <3>2
      <4>2. clerks[d].pc = "insert" => IsEarned(clerks[d].on.by, clerks[d].on.subject)'
        BY <1>1, <4>1 DEF LearnedInv, IsEarned
      <4> QED
        BY <2>4, <4>1, <4>2 DEF LearnedInv
    <3> QED
      BY <3>1, <3>2
  <2>8. ASSUME NEW i \in DOMAIN procedures'
        PROVE  /\ IsEarned(procedures[i].by, procedures[i].subject)'
               /\ ~procedures'[i].retired => procedures'[i].state = "active"
               /\ Recalled(procedures'[i]) /\ procedures'[i].counter >= Threshold => Awaited(i)'
    <3>1. CASE i = x
      <4>1. IsEarned(procedures[i].by, procedures[i].subject)'
        BY <1>1, <2>1, <2>2, <2>4, <3>1 DEF IsEarned
      <4>2. ~(procedures'[i].counter >= Threshold)
        BY <2>2, <2>4, <3>1, ProceduresAssumption DEF ProceduresAssumption
      <4> QED
        BY <2>2, <2>4, <3>1, <4>1, <4>2
    <3>2. CASE i # x
      <4>1. i \in DOMAIN procedures /\ procedures'[i] = procedures[i]
        BY <2>4, <3>2
      <4>2. IsEarned(procedures[i].by, procedures[i].subject)'
        <5> PICK by, subject : by = procedures[i].by /\ subject = procedures[i].subject
          OBVIOUS
        <5>1. IsEarned(by, subject)
          BY <4>1 DEF LearnedInv, IsEarned
        <5>2. IsEarned(by, subject)'
          BY <2>6, <5>1
        <5> QED
          BY <4>1, <5>2 DEF IsEarned
      <4>3. Awaited(i) => Awaited(i)'
        BY <1>1, <2>5 DEF Awaited
      <4> QED
        BY <4>1, <4>2, <4>3 DEF LearnedInv
    <3> QED
      BY <3>1, <3>2
  <2>9. (\A i, j \in DOMAIN procedures :
            /\ ~procedures[i].retired /\ ~procedures[j].retired
            /\ procedures[i].subject = procedures[j].subject /\ procedures[i].way = procedures[j].way
            => i = j)'
    <3>1. \A i \in DOMAIN procedures :
            ~(~procedures[i].retired /\ procedures[i].subject = k.subject /\ procedures[i].way = k.way)
      BY <1>3 DEF Clashing
    <3> QED
      BY <2>2, <2>4, <3>1 DEF LearnedInv
  <2> QED
    BY <1>1, <2>3, <2>4, <2>5, <2>7, <2>8, <2>9 DEF LearnedInv
<1> QED
  BY <1>1, <1>2, <1>3

\* A row that changes on its own.
LEMMA RowKeeps ==
    ASSUME LearnedInv, NEW i \in DOMAIN procedures, NEW p \in ProcRows, procedures' = [procedures EXCEPT ![i] = p],
           p.subject = procedures[i].subject, p.way = procedures[i].way, p.by = procedures[i].by,
           p.retired \/ (p.retired = procedures[i].retired /\ p.state = procedures[i].state),
           UNCHANGED <<episodes, clerks, uncounted>>, p.counter = procedures[i].counter
    PROVE  LearnedInv'
<1>1. /\ Ages /\ procedures' \in Seq(ProcRows)
      /\ procedures'[i] = p /\ \A j \in DOMAIN procedures : j # i => procedures'[j] = procedures[j]
  BY RowAges
<1>2. ASSUME NEW j \in DOMAIN procedures, Recalled(procedures'[j]), procedures'[j].counter >= Threshold
      PROVE  Awaited(j)'
  BY <1>1, <1>2 DEF LearnedInv, Recalled, Awaited
<1> QED
  BY <1>1, <1>2, AgesKeeps DEF LearnedInv

LEMMA RowIs ==
    ASSUME LearnedInv, NEW i \in DOMAIN procedures
    PROVE  procedures[i] \in ProcRows /\ i \in Nat
<1>1. procedures \in Seq(ProcRows)
  BY DEF LearnedInv
<1> QED
  BY <1>1

LEMMA RetireKeeps ==
    ASSUME LearnedInv, NEW i \in DOMAIN procedures, RetireProcedure(i)
    PROVE  LearnedInv'
<1> PICK q \in ProcRows : q = procedures[i]
  BY RowIs
<1> PICK p : p = RetiredProcedure(q)
  OBVIOUS
<1>1. procedures' = [procedures EXCEPT ![i] = p] /\ UNCHANGED <<episodes, clerks, uncounted>>
  BY DEF RetireProcedure
<1>2. CASE q.state = "retired"
  BY <1>1, <1>2, RowKeeps DEF RetiredProcedure
<1>3. CASE q.state # "retired"
  <2>1. p = [q EXCEPT !.state = "retired", !.retired = TRUE]
    BY <1>3 DEF RetiredProcedure
  <2>2. p \in ProcRows /\ p.subject = q.subject /\ p.way = q.way /\ p.by = q.by /\ p.retired /\ p.counter = q.counter
    BY <2>1 DEF ProcRows, ProcStates
  <2> QED
    BY <1>1, <2>2, RowKeeps
<1> QED
  BY <1>2, <1>3

LEMMA SupersedeKeeps ==
    ASSUME LearnedInv, NEW old \in DOMAIN procedures, NEW new \in {NoProcedure} \cup DOMAIN procedures,
           SupersedeProcedure(old, new)
    PROVE  LearnedInv'
<1> PICK q \in ProcRows : q = procedures[old]
  BY RowIs
<1> PICK version : version = q.version + 1
  OBVIOUS
<1> PICK p : p = [q EXCEPT !.state = "superseded", !.retired = TRUE, !.next = new]
  OBVIOUS
<1> PICK left : left = [procedures EXCEPT ![old].state = "superseded", ![old].retired = TRUE, ![old].next = new]
  OBVIOUS
<1>1. /\ procedures' = IF new \in DOMAIN procedures THEN [left EXCEPT ![new].version = version] ELSE left
      /\ UNCHANGED <<episodes, clerks, uncounted>>
  BY DEF SupersedeProcedure
<1>2. new \in Nat /\ version \in Nat /\ procedures \in Seq(ProcRows)
  BY RowIs DEF NoProcedure, ProcRows, LearnedInv
<1>3. /\ p \in ProcRows /\ p.subject = q.subject /\ p.way = q.way /\ p.by = q.by /\ p.retired
      /\ p.counter = q.counter
  BY <1>2 DEF ProcRows, ProcStates
<1>4. left = [procedures EXCEPT ![old] = p]
  BY <1>2
<1>5. left \in Seq(ProcRows) /\ DOMAIN left = DOMAIN procedures /\ left[old] = p
      /\ \A j \in DOMAIN procedures : j # old => left[j] = procedures[j]
  BY <1>2, <1>3, <1>4
<1>6. CASE new \notin DOMAIN procedures
  <2>1. procedures' = [procedures EXCEPT ![old] = p]
    BY <1>1, <1>4, <1>6
  <2>2. UNCHANGED <<episodes, clerks, uncounted>>
    BY <1>1
  <2> QED
    BY <1>3, <2>1, <2>2, RowKeeps
<1>7. CASE new \in DOMAIN procedures
  <2> PICK r \in ProcRows : r = left[new]
    BY <1>5, <1>7
  <2> PICK s : s = [r EXCEPT !.version = version]
    OBVIOUS
  <2>1. /\ s \in ProcRows /\ s.subject = r.subject /\ s.way = r.way /\ s.by = r.by /\ s.retired = r.retired
        /\ s.counter = r.counter /\ s.state = r.state
    BY <1>2 DEF ProcRows
  <2>2. procedures' = [left EXCEPT ![new] = s]
    BY <1>1, <1>5, <1>7
  <2>3. /\ procedures' \in Seq(ProcRows) /\ DOMAIN procedures' = DOMAIN procedures
        /\ procedures'[new] = s /\ \A j \in DOMAIN procedures : j # new => procedures'[j] = left[j]
    BY <1>5, <1>7, <2>1, <2>2
  <2>4. ASSUME NEW j \in DOMAIN procedures
        PROVE  /\ procedures'[j].subject = procedures[j].subject /\ procedures'[j].way = procedures[j].way
               /\ procedures'[j].by = procedures[j].by /\ procedures'[j].counter = procedures[j].counter
               /\ procedures'[j].retired
                  \/ (procedures'[j].retired = procedures[j].retired /\ procedures'[j].state = procedures[j].state)
    <3>1. /\ left[j].subject = procedures[j].subject /\ left[j].way = procedures[j].way
          /\ left[j].by = procedures[j].by /\ left[j].counter = procedures[j].counter
          /\ left[j].retired \/ (left[j].retired = procedures[j].retired /\ left[j].state = procedures[j].state)
      <4>1. CASE j = old
        BY <1>3, <1>5, <4>1
      <4>2. CASE j # old
        BY <1>5, <4>2
      <4> QED
        BY <4>1, <4>2
    <3>2. CASE j = new
      BY <2>1, <2>3, <3>1, <3>2
    <3>3. CASE j # new
      BY <2>3, <3>1, <3>3
    <3> QED
      BY <3>2, <3>3
  <2>5. Ages
    BY <2>3, <2>4 DEF Ages
  <2>6. ASSUME NEW j \in DOMAIN procedures, Recalled(procedures'[j]), procedures'[j].counter >= Threshold
        PROVE  Awaited(j)'
    <3>1. Recalled(procedures[j]) /\ procedures[j].counter >= Threshold
      BY <2>4, <2>6 DEF Recalled
    <3> QED
      BY <1>1, <3>1 DEF LearnedInv, Awaited
  <2>7. episodes' \in Seq(Episode) /\ clerks' \in [Clerks -> Desks]
        /\ \A f \in DOMAIN episodes : f \in DOMAIN episodes' /\ episodes'[f] = episodes[f]
    BY <1>1 DEF LearnedInv
  <2>8. \A c \in Clerks : clerks'[c] = clerks[c]
    BY <1>1
  <2> QED
    BY <2>3, <2>5, <2>6, <2>7, <2>8, AgesKeeps
<1> QED
  BY <1>6, <1>7

LEMMA CountKeeps ==
    ASSUME LearnedInv, NEW c \in Clerks, NEW i \in DOMAIN procedures, CountEvidence(c, i)
    PROVE  LearnedInv'
<1> PICK q \in ProcRows : q = procedures[i]
  BY RowIs
<1> PICK p : p = [q EXCEPT !.counter = @ + 1]
  OBVIOUS
<1>1. /\ clerks[c].pc = "idle" /\ procedures' = [procedures EXCEPT ![i].counter = @ + 1]
      /\ Seat(c, [AtDesk EXCEPT !.pc = "count", !.id = i]) /\ UNCHANGED <<episodes, uncounted>>
  BY DEF CountEvidence, Does
<1>2. i \in Nat /\ procedures \in Seq(ProcRows) /\ clerks \in [Clerks -> Desks] /\ q.counter + 1 \in Nat
  BY RowIs DEF LearnedInv, ProcRows
<1>3. /\ p \in ProcRows /\ p.subject = q.subject /\ p.way = q.way /\ p.by = q.by /\ p.retired = q.retired
      /\ p.state = q.state
  BY <1>2 DEF ProcRows
<1>4. procedures' = [procedures EXCEPT ![i] = p]
  BY <1>1, <1>2
<1>5. /\ Ages /\ procedures' \in Seq(ProcRows)
      /\ procedures'[i] = p /\ \A j \in DOMAIN procedures : j # i => procedures'[j] = procedures[j]
  BY <1>3, <1>4, RowAges
<1>6. /\ clerks' \in [Clerks -> Desks] /\ clerks'[c].pc = "count" /\ clerks'[c].id = i
      /\ \A d \in Clerks : d # c => clerks'[d] = clerks[d]
  BY <1>1, <1>2, DesksAre DEF Seat
<1>7. ASSUME NEW j \in DOMAIN procedures, Recalled(procedures'[j]), procedures'[j].counter >= Threshold
      PROVE  Awaited(j)'
  <2>1. CASE j = i
    BY <1>6, <2>1 DEF Awaited
  <2>2. CASE j # i
    <3>1. Awaited(j)
      BY <1>5, <1>7, <2>2 DEF LearnedInv
    <3> QED
      BY <1>1, <1>6, <3>1 DEF Awaited
  <2> QED
    BY <2>1, <2>2
<1>8. \A d \in Clerks : clerks'[d] = clerks[d] \/ (clerks'[d].pc = "count" /\ clerks'[d].id \in DOMAIN procedures)
  BY <1>6
<1>9. episodes' \in Seq(Episode) /\ \A f \in DOMAIN episodes : f \in DOMAIN episodes' /\ episodes'[f] = episodes[f]
  BY <1>1 DEF LearnedInv
<1> QED
  BY <1>5, <1>6, <1>7, <1>8, <1>9, AgesKeeps

LEMMA QuarantineKeeps ==
    ASSUME LearnedInv, NEW c \in Clerks, QuarantineProcedure(c)
    PROVE  LearnedInv'
<1> PICK i : i = clerks[c].id
  OBVIOUS
<1>1. /\ clerks[c].pc = "count" /\ i \in DOMAIN procedures
      /\ procedures' = [procedures EXCEPT ![i] = QuarantinedProcedure(@)]
      /\ Seat(c, AtDesk) /\ UNCHANGED <<episodes, uncounted>>
  BY DEF QuarantineProcedure, Does, LearnedInv
<1> PICK q \in ProcRows : q = procedures[i]
  BY <1>1, RowIs
<1> PICK p : p = QuarantinedProcedure(q)
  OBVIOUS
<1>2. procedures \in Seq(ProcRows) /\ clerks \in [Clerks -> Desks]
  BY DEF LearnedInv
<1>3. /\ p \in ProcRows /\ p.subject = q.subject /\ p.way = q.way /\ p.by = q.by
      /\ p.retired \/ (p.retired = q.retired /\ p.state = q.state)
      /\ ~(Recalled(p) /\ p.counter >= Threshold)
  <2>1. CASE q.counter < Threshold \/ q.state \in {"retired", "superseded"}
    <3>1. p = q
      BY <2>1 DEF QuarantinedProcedure
    <3>2. q.counter \in Nat /\ Threshold \in Nat
      BY ProceduresAssumption DEF ProcRows, ProceduresAssumption
    <3> QED
      BY <2>1, <3>1, <3>2 DEF Recalled
  <2>2. CASE ~(q.counter < Threshold \/ q.state \in {"retired", "superseded"})
    <3>1. p = [q EXCEPT !.state = "quarantined", !.retired = TRUE]
      BY <2>2 DEF QuarantinedProcedure
    <3>2. p \in ProcRows /\ p.subject = q.subject /\ p.way = q.way /\ p.by = q.by /\ p.retired
      BY <3>1 DEF ProcRows, ProcStates
    <3> QED
      BY <3>2 DEF Recalled
  <2> QED
    BY <2>1, <2>2
<1>4. procedures' = [procedures EXCEPT ![i] = p]
  BY <1>1
<1>5. /\ Ages /\ procedures' \in Seq(ProcRows)
      /\ procedures'[i] = p /\ \A j \in DOMAIN procedures : j # i => procedures'[j] = procedures[j]
  BY <1>1, <1>3, <1>4, RowAges
<1>6. /\ clerks' \in [Clerks -> Desks] /\ clerks'[c].pc = "idle"
      /\ \A d \in Clerks : d # c => clerks'[d] = clerks[d]
  BY <1>1, <1>2, DesksAre DEF Seat
<1>7. ASSUME NEW j \in DOMAIN procedures, Recalled(procedures'[j]), procedures'[j].counter >= Threshold
      PROVE  Awaited(j)'
  <2>1. j # i
    BY <1>3, <1>5, <1>7
  <2>2. Awaited(j)
    BY <1>5, <1>7, <2>1 DEF LearnedInv
  <2> QED
    BY <1>1, <1>6, <2>1, <2>2 DEF Awaited
<1>8. \A d \in Clerks : clerks'[d] = clerks[d] \/ clerks'[d].pc = "idle"
  BY <1>6
<1>9. episodes' \in Seq(Episode) /\ \A f \in DOMAIN episodes : f \in DOMAIN episodes' /\ episodes'[f] = episodes[f]
  BY <1>1 DEF LearnedInv
<1> QED
  BY <1>5, <1>6, <1>7, <1>8, <1>9, AgesKeeps

LEMMA LeaveKeeps ==
    ASSUME LearnedInv, NEW c \in Clerks, FindProcedure(c) \/ StopProcedures(c)
    PROVE  LearnedInv'
<1>1. /\ Seat(c, AtDesk) /\ UNCHANGED <<episodes, procedures>>
      /\ clerks[c].pc = "count" => uncounted' = uncounted \cup {clerks[c].id}
      /\ clerks[c].pc # "count" => UNCHANGED uncounted
  BY DEF FindProcedure, StopProcedures, Does
<1>2. AtDesk \in Desks /\ AtDesk.pc \notin {"insert", "count"}
  BY DesksAre
<1> QED
  BY <1>1, <1>2, SeatKeeps

LEMMA LearnedNextInv == ProceduresAssumption /\ LearnedInv /\ [ProceduresNext]_procVars => LearnedInv'
<1> SUFFICES ASSUME ProceduresAssumption, LearnedInv, [ProceduresNext]_procVars PROVE LearnedInv'
  OBVIOUS
<1>1. CASE UNCHANGED procVars
  BY <1>1 DEF procVars, LearnedInv, IsEarned, Awaited
<1> QED
  BY <1>1, CreateKeeps, SubmitKeeps, InsertKeeps, RetireKeeps, SupersedeKeeps, CountKeeps, QuarantineKeeps, LeaveKeeps
     DEF ProceduresNext

LEMMA LearnedInitInv == ProceduresAssumption /\ ProceduresInit => LearnedInv
<1> SUFFICES ASSUME ProceduresAssumption, ProceduresInit PROVE LearnedInv
  OBVIOUS
<1>1. AtDesk \in Desks /\ AtDesk.pc = "idle"
  BY DEF AtDesk, Desks, NoProcedure
<1>2. procedures \in Seq(ProcRows) /\ DOMAIN procedures = {} /\ episodes \in Seq(Episode)
  BY DEF ProceduresInit, ProceduresAssumption
<1>3. clerks \in [Clerks -> Desks] /\ \A c \in Clerks : clerks[c].pc = "idle"
  BY <1>1 DEF ProceduresInit
<1> QED
  BY <1>2, <1>3 DEF LearnedInv

LEMMA LearnedIsEarned == LearnedInv => ProceduresAreEarned
<1> SUFFICES ASSUME LearnedInv PROVE ProceduresAreEarned
  OBVIOUS
<1>1. \A i \in DOMAIN procedures : Recalled(procedures[i]) <=> ~procedures[i].retired
  BY DEF LearnedInv, Recalled
<1>2. \A i \in DOMAIN procedures :
         \E d, e \in procedures[i].by :
            d # e /\ \A f \in {d, e} : /\ episodes[f].good /\ episodes[f].trusted
                                       /\ episodes[f].subject = procedures[i].subject
  BY DEF LearnedInv, IsEarned
<1>3. \A i, j \in DOMAIN procedures :
         /\ Recalled(procedures[i]) /\ Recalled(procedures[j])
         /\ procedures[i].subject = procedures[j].subject /\ procedures[i].way = procedures[j].way
         => i = j
  BY <1>1 DEF LearnedInv
<1>4. \A i \in DOMAIN procedures : i \in Clashing(procedures[i]) => Recalled(procedures[i])
  BY <1>1 DEF Clashing
<1>5. WaysAreLearnedOnce
  BY <1>2, <1>3, <1>4 DEF WaysAreLearnedOnce
<1>6. EnoughIsQuarantined
  BY DEF LearnedInv, EnoughIsQuarantined, Awaited, Does
<1> QED
  BY <1>5, <1>6 DEF ProceduresAreEarned

LEMMA ProceduresStayEarned == ProceduresSpec => []ProceduresAreEarned
  BY LearnedInitInv, LearnedNextInv, LearnedIsEarned, ProceduresAssumption, PTL DEF ProceduresSpec
----------------------------------------------------------------------------
(* Aliases and relations *)

\* An entry that may be written: of subjects of the realm.
MayBe(realm, e) ==
    \/ e.kind = "alias" /\ e.key \in Aliases /\ InScope(realm, e.to)
    \/ e.kind = "relation" /\ InScope(realm, e.from) /\ InScope(realm, e.to)

Positions == UNION {DOMAIN f.entries : f \in SemanticFiles}
Reviews == [pc: {"none", "write", "done", "failed"}, realm: {f.realm : f \in SemanticFiles} \cup {Unnamed},
            plan: SUBSET [at: Positions, entry: AllEntries], applied: SUBSET AllEntries,
            present: SUBSET AllEntries, rejected: SUBSET AllEntries]

Accounted(c) == reviews[c].applied \cup reviews[c].present

\* An import has only to write what it may; what it reports might have been written, and is said.
ReviewStands(c) ==
    /\ \A x \in reviews[c].plan : MayBe(reviews[c].realm, x.entry)
    /\ \A e \in Accounted(c) : MayBe(reviews[c].realm, e) /\ Says(reviews[c].realm, e)

OneHasWritten ==
    \A c, d \in Curators : c # d /\ reviews[c].realm = reviews[d].realm =>
        reviews[c].applied \cap reviews[d].applied = {}

CuratedInv ==
    /\ beings \subseteq Beings
    /\ aliases \in [Realms -> [Aliases -> Beings \cup {Unnamed}]]
    /\ reviews \in [Curators -> Reviews]
    /\ NothingLeavesItsRealm /\ OneHasWritten
    /\ \A c \in Curators : ReviewStands(c)

\* Subjects, names and relations are only added.
Adds ==
    /\ beings \subseteq beings' /\ beings' \subseteq Beings /\ relations \subseteq relations'
    /\ aliases' \in [Realms -> [Aliases -> Beings \cup {Unnamed}]]
    /\ \A realm \in Realms, k \in Aliases :
          aliases[realm][k] # Unnamed => aliases'[realm][k] = aliases[realm][k]

LEMMA InRealm ==
    ASSUME NEW realm, NEW s, beings \subseteq Beings, InScope(realm, s)
    PROVE  realm \in Realms /\ s # Unnamed /\ s \in Beings
BY SemanticsAssumption DEF InScope, Realms

\* What might be written still might, and what is said still is.
LEMMA SaidStays ==
    ASSUME beings \subseteq Beings, Adds, NEW realm, NEW e, MayBe(realm, e)
    PROVE  /\ MayBe(realm, e)'
           /\ Says(realm, e) => Says(realm, e)'
<1>1. MayBe(realm, e)'
  BY DEF MayBe, InScope, Adds
<1>2. ASSUME e.kind = "alias", Says(realm, e) PROVE Says(realm, e)'
  <2>1. e.key \in Aliases /\ InScope(realm, e.to) /\ aliases[realm][e.key] = e.to
    BY <1>2 DEF MayBe, Says
  <2>2. realm \in Realms /\ e.to # Unnamed
    BY <2>1, InRealm
  <2> QED
    BY <1>2, <2>1, <2>2 DEF Says, Adds
<1>3. ASSUME e.kind = "relation", Says(realm, e) PROVE Says(realm, e)'
  BY <1>3 DEF Says, Adds, Tie
<1> QED
  BY <1>1, <1>2, <1>3 DEF MayBe

LEMMA CuratedBegins == SemanticsInit => CuratedInv
<1> SUFFICES ASSUME SemanticsInit PROVE CuratedInv
  OBVIOUS
<1>1. NoReview \in Reviews
  BY DEF NoReview, Reviews
<1>2. /\ reviews \in [Curators -> Reviews]
      /\ \A c \in Curators : reviews[c].plan = {} /\ reviews[c].applied = {} /\ reviews[c].present = {}
  BY <1>1 DEF SemanticsInit, NoReview
<1>3. aliases \in [Realms -> [Aliases -> Beings \cup {Unnamed}]] /\ beings \subseteq Beings
  BY SemanticsAssumption DEF SemanticsInit
<1>4. NothingLeavesItsRealm
  BY DEF SemanticsInit, NothingLeavesItsRealm
<1>5. OneHasWritten /\ \A c \in Curators : ReviewStands(c)
  BY <1>2 DEF OneHasWritten, ReviewStands, Accounted
<1> QED
  BY <1>2, <1>3, <1>4, <1>5 DEF CuratedInv

\* An import that is as it was says what it said.
LEMMA OthersStay ==
    ASSUME CuratedInv, Adds, NEW c \in Curators, reviews'[c] = reviews[c]
    PROVE  ReviewStands(c)'
<1>1. \A e : MayBe(reviews[c].realm, e) =>
          /\ MayBe(reviews[c].realm, e)'
          /\ Says(reviews[c].realm, e) => Says(reviews[c].realm, e)'
  <2> SUFFICES ASSUME NEW realm, NEW e, realm = reviews[c].realm, MayBe(realm, e)
               PROVE  /\ MayBe(realm, e)'
                      /\ Says(realm, e) => Says(realm, e)'
    OBVIOUS
  <2> QED
    BY SaidStays DEF CuratedInv
<1> QED
  BY <1>1 DEF CuratedInv, Accounted, ReviewStands

\* It is enough to look at the import that moves.
LEMMA OneMoves ==
    ASSUME CuratedInv, Adds, NEW c \in Curators, reviews' \in [Curators -> Reviews],
           \A d \in Curators \ {c} : reviews'[d] = reviews[d],
           ReviewStands(c)', NothingLeavesItsRealm',
           \A d \in Curators \ {c} : reviews'[c].realm = reviews[d].realm =>
               reviews'[c].applied \cap reviews[d].applied = {}
    PROVE  CuratedInv'
<1>1. ASSUME NEW d \in Curators PROVE ReviewStands(d)'
  BY OthersStay
<1>2. OneHasWritten'
  BY DEF OneHasWritten, CuratedInv
<1> QED
  BY <1>1, <1>2 DEF CuratedInv, Adds

\* Where nothing is added, nothing leaves its realm.
LEMMA NothingAdded ==
    ASSUME CuratedInv, UNCHANGED <<beings, aliases, relations>>
    PROVE  Adds /\ NothingLeavesItsRealm'
<1>1. Adds
  BY DEF Adds, CuratedInv
<1>2. NothingLeavesItsRealm'
  BY DEF NothingLeavesItsRealm, CuratedInv, InScope
<1> QED
  BY <1>1, <1>2

LEMMA CreateSubjectCurates ==
    ASSUME CuratedInv, NEW s \in Beings, CreateSubject(s)
    PROVE  CuratedInv'
<1>1. Adds
  BY DEF CreateSubject, Adds, CuratedInv
<1>2. NothingLeavesItsRealm'
  BY DEF NothingLeavesItsRealm, CuratedInv, InScope, CreateSubject
<1>3. ASSUME NEW c \in Curators PROVE ReviewStands(c)'
  BY <1>1, OthersStay DEF CreateSubject
<1>4. OneHasWritten'
  BY DEF OneHasWritten, CuratedInv, CreateSubject
<1> QED
  BY <1>1, <1>2, <1>3, <1>4 DEF CuratedInv, CreateSubject, Adds

\* What the preview means to write may be written, and what it finds is said.
LEMMA VerdictIsTrue ==
    ASSUME CuratedInv, NEW f \in SemanticFiles, NEW e \in ToSet(f.entries),
           Verdict(f.realm, e) \in {"plan", "present"}
    PROVE  MayBe(f.realm, e) /\ (Verdict(f.realm, e) = "present" => Says(f.realm, e))
<1>1. e.complete \in BOOLEAN /\ e.kind \in {"alias", "relation"} /\ (e.kind = "alias" => e.key \in Aliases)
  BY SemanticsAssumption
<1>2. e.complete
  BY <1>1 DEF Verdict
<1>3. CASE e.kind = "alias"
  BY <1>1, <1>2, <1>3 DEF Verdict, MayBe, Says
<1>4. CASE e.kind = "relation"
  BY <1>1, <1>2, <1>4 DEF Verdict, MayBe, Says
<1> QED
  BY <1>1, <1>3, <1>4

LEMMA PreviewEntriesCurates ==
    ASSUME CuratedInv, NEW c \in Curators, NEW f \in SemanticFiles, PreviewEntries(c, f)
    PROVE  CuratedInv'
<1> DEFINE Judged(v) == {e \in ToSet(f.entries) : Verdict(f.realm, e) = v}
           plan == {[at |-> i, entry |-> f.entries[i]] : i \in {j \in DOMAIN f.entries : f.entries[j] \in Judged("plan")}}
           review == [NoReview EXCEPT !.pc = "write", !.realm = f.realm, !.plan = plan,
                                      !.present = Judged("present"), !.rejected = Judged("rejected")]
<1>1. Adds /\ NothingLeavesItsRealm'
  BY NothingAdded DEF PreviewEntries
<1>2. reviews' = [reviews EXCEPT ![c] = review]
  BY DEF PreviewEntries
<1>3. ToSet(f.entries) \subseteq AllEntries /\ DOMAIN f.entries \subseteq Positions
  BY DEF AllEntries, EntriesOf, Positions
<1>4. plan \in SUBSET [at: Positions, entry: AllEntries]
  BY <1>3
<1> HIDE DEF plan
<1>5. review \in Reviews /\ review.realm = f.realm /\ review.plan = plan
      /\ review.applied = {} /\ review.present = Judged("present")
  BY <1>3, <1>4 DEF Reviews, NoReview
<1>6. reviews' \in [Curators -> Reviews] /\ reviews'[c] = review
      /\ \A d \in Curators \ {c} : reviews'[d] = reviews[d]
  BY <1>2, <1>5 DEF CuratedInv
<1>7. \A x \in plan : MayBe(f.realm, x.entry)
  BY VerdictIsTrue DEF plan
<1>8. \A e \in Judged("present") : MayBe(f.realm, e) /\ Says(f.realm, e)
  BY VerdictIsTrue
<1>9. ReviewStands(c)'
  <2>1. \A x \in reviews'[c].plan : MayBe(f.realm, x.entry)'
    BY <1>5, <1>6, <1>7 DEF PreviewEntries, MayBe, InScope
  <2>2. \A e \in reviews'[c].applied \cup reviews'[c].present : MayBe(f.realm, e)' /\ Says(f.realm, e)'
    BY <1>5, <1>6, <1>8 DEF PreviewEntries, MayBe, InScope, Says
  <2> QED
    BY <1>5, <1>6, <2>1, <2>2 DEF ReviewStands, Accounted
<1> QED
  BY <1>1, <1>5, <1>6, <1>9, OneMoves

\* The next entry of a plan is noted as written or as present.
Noted(c, x, new) ==
    [[reviews[c] EXCEPT !.plan = @ \ {x}] EXCEPT !.applied = IF new THEN @ \cup {x.entry} ELSE @,
                                                !.present = IF new THEN @ ELSE @ \cup {x.entry}]

LEMMA NotedIsKept ==
    ASSUME CuratedInv, NEW c \in Curators, NEW x \in reviews[c].plan, NEW new \in BOOLEAN
    PROVE  /\ Noted(c, x, new) \in Reviews /\ Noted(c, x, new).realm = reviews[c].realm
           /\ Noted(c, x, new).plan \subseteq reviews[c].plan
           /\ Noted(c, x, new).applied \subseteq reviews[c].applied \cup (IF new THEN {x.entry} ELSE {})
           /\ Noted(c, x, new).applied \cup Noted(c, x, new).present = Accounted(c) \cup {x.entry}
<1>1. reviews[c] \in Reviews
  BY DEF CuratedInv
<1>2. x.entry \in AllEntries
  BY <1>1 DEF Reviews
<1>3. CASE new = TRUE
  BY <1>1, <1>2, <1>3 DEF Noted, Reviews, Accounted
<1>4. CASE new = FALSE
  BY <1>1, <1>2, <1>4 DEF Noted, Reviews, Accounted
<1> QED
  BY <1>3, <1>4

\* It is said now, and noted as written only if it was not said before.
LEMMA NotedIsTrue ==
    ASSUME CuratedInv, Adds, NothingLeavesItsRealm', NEW c \in Curators, NEW x \in reviews[c].plan,
           NEW new \in BOOLEAN, reviews' = [reviews EXCEPT ![c] = Noted(c, x, new)],
           NEW realm, realm = reviews[c].realm, NEW e, e = x.entry,
           Says(realm, e)', new => ~Says(realm, e)
    PROVE  CuratedInv'
<1> DEFINE review == Noted(c, x, new)
<1>1. /\ review \in Reviews /\ review.realm = realm /\ review.plan \subseteq reviews[c].plan
      /\ review.applied \subseteq reviews[c].applied \cup (IF new THEN {e} ELSE {})
      /\ review.applied \cup review.present = Accounted(c) \cup {e}
  BY NotedIsKept
<1> HIDE DEF review
<1>2. /\ reviews' \in [Curators -> Reviews] /\ reviews'[c] = review
      /\ \A d \in Curators \ {c} : reviews'[d] = reviews[d]
  BY <1>1 DEF CuratedInv, review
<1>3. \A y : MayBe(realm, y) => MayBe(realm, y)' /\ (Says(realm, y) => Says(realm, y)')
  BY SaidStays DEF CuratedInv
<1>4. \A y \in review.plan : MayBe(realm, y.entry)'
  BY <1>1, <1>3 DEF CuratedInv, ReviewStands
<1>5. \A y \in Accounted(c) \cup {e} : MayBe(realm, y)' /\ Says(realm, y)'
  BY <1>3 DEF CuratedInv, ReviewStands
<1>6. ReviewStands(c)'
  BY <1>1, <1>2, <1>4, <1>5 DEF ReviewStands, Accounted
<1>7. ASSUME NEW d \in Curators \ {c}, review.realm = reviews[d].realm
      PROVE  review.applied \cap reviews[d].applied = {}
  <2>1. reviews[c].applied \cap reviews[d].applied = {}
    BY <1>1, <1>7 DEF CuratedInv, OneHasWritten
  <2>2. e \in reviews[d].applied => Says(realm, e)
    BY <1>1, <1>7 DEF CuratedInv, ReviewStands, Accounted
  <2> QED
    BY <1>1, <2>1, <2>2
<1> QED
  BY <1>2, <1>6, <1>7, OneMoves

\* A name that is free goes to a subject of the realm; a name that is taken stays where it is.
LEMMA NamedAdds ==
    ASSUME CuratedInv, NEW realm, NEW e, e.key \in Aliases, InScope(realm, e.to),
           UNCHANGED <<beings, relations>>, aliases' = Named(realm, e)
    PROVE  /\ Adds /\ NothingLeavesItsRealm'
           /\ aliases' # aliases => aliases[realm][e.key] # e.to
           /\ aliases[realm][e.key] = e.to => aliases'[realm][e.key] = e.to
<1>1. realm \in Realms /\ e.to # Unnamed /\ e.to \in Beings
  BY InRealm DEF CuratedInv
<1> DEFINE key == e.key
<1>2. aliases \in [Realms -> [Aliases -> Beings \cup {Unnamed}]] /\ key \in Aliases
  BY DEF CuratedInv
<1>3. CASE aliases[realm][key] # Unnamed
  <2>1. aliases' = aliases
    BY <1>1, <1>2, <1>3 DEF Named
  <2> QED
    BY <2>1, NothingAdded
<1>4. CASE aliases[realm][key] = Unnamed
  <2>1. /\ aliases' \in [Realms -> [Aliases -> Beings \cup {Unnamed}]]
        /\ aliases'[realm][key] = e.to
        /\ \A r \in Realms, k \in Aliases : ~(r = realm /\ k = key) => aliases'[r][k] = aliases[r][k]
    BY <1>1, <1>2, <1>4 DEF Named
  <2>2. Adds
    BY <1>4, <2>1 DEF Adds, CuratedInv
  <2>3. NothingLeavesItsRealm'
    BY <1>1, <2>1 DEF NothingLeavesItsRealm, CuratedInv, InScope
  <2> QED
    BY <1>1, <1>4, <2>1, <2>2, <2>3
<1> QED
  BY <1>3, <1>4

LEMMA RelatedAdds ==
    ASSUME CuratedInv, NEW realm, NEW e, InScope(realm, e.from), InScope(realm, e.to),
           UNCHANGED <<beings, aliases>>, relations' = Related(realm, e)
    PROVE  /\ Adds /\ NothingLeavesItsRealm' /\ Tie(realm, e) \in relations'
           /\ relations' # relations => Tie(realm, e) \notin relations
<1>1. Adds /\ Tie(realm, e) \in relations' /\ (relations' # relations => Tie(realm, e) \notin relations)
  BY DEF Adds, Related, CuratedInv
<1>2. NothingLeavesItsRealm'
  BY DEF NothingLeavesItsRealm, CuratedInv, InScope, Related, Tie
<1> QED
  BY <1>1, <1>2

\* An import that ends reports what it did.
LEMMA EndsTrue ==
    ASSUME CuratedInv, Adds, NothingLeavesItsRealm', NEW c \in Curators, NEW review \in Reviews,
           reviews' = [reviews EXCEPT ![c] = review], NEW realm, realm = reviews[c].realm,
           review.plan \subseteq reviews[c].plan, review.applied \subseteq reviews[c].applied,
           review.present \subseteq reviews[c].present,
           review.realm = realm \/ review.plan \cup review.applied \cup review.present = {}
    PROVE  CuratedInv'
<1>1. /\ reviews' \in [Curators -> Reviews] /\ reviews'[c] = review
      /\ \A d \in Curators \ {c} : reviews'[d] = reviews[d]
  BY DEF CuratedInv
<1>2. \A y : MayBe(realm, y) => MayBe(realm, y)' /\ (Says(realm, y) => Says(realm, y)')
  BY SaidStays DEF CuratedInv
<1>3. \A x \in review.plan : MayBe(realm, x.entry)'
  BY <1>2 DEF CuratedInv, ReviewStands
<1>4. \A e \in review.applied \cup review.present : MayBe(realm, e)' /\ Says(realm, e)'
  BY <1>2 DEF CuratedInv, ReviewStands, Accounted
<1>5. ReviewStands(c)'
  BY <1>1, <1>3, <1>4 DEF ReviewStands, Accounted
<1>6. \A d \in Curators \ {c} : review.realm = reviews[d].realm => review.applied \cap reviews[d].applied = {}
  BY DEF CuratedInv, OneHasWritten
<1> QED
  BY <1>1, <1>5, <1>6, OneMoves

LEMMA WriteEntryCurates ==
    ASSUME CuratedInv, NEW c \in Curators, WriteEntry(c)
    PROVE  CuratedInv'
<1>1. PICK x \in reviews[c].plan : WriteEntry(c)!(x)
  BY DEF WriteEntry
<1> DEFINE rest == [reviews[c] EXCEPT !.plan = @ \ {x}]
           failed == [rest EXCEPT !.pc = "failed"]
<1>2. PICK realm, e : realm = reviews[c].realm /\ e = x.entry
  OBVIOUS
<1>3. MayBe(realm, e)
  BY <1>2 DEF CuratedInv, ReviewStands
<1>4. failed \in Reviews /\ failed.realm = realm /\ failed.plan \subseteq reviews[c].plan
      /\ failed.applied = reviews[c].applied /\ failed.present = reviews[c].present
  BY <1>2 DEF CuratedInv, Reviews
<1>5. CASE e.kind = "alias"
  <2>1. /\ aliases' = Named(realm, e) /\ UNCHANGED <<beings, relations>>
        /\ reviews' = [reviews EXCEPT ![c] =
                          IF aliases'[realm][e.key] # e.to THEN failed ELSE Noted(c, x, aliases' # aliases)]
    BY <1>1, <1>2, <1>5 DEF Noted
  <2>2. e.key \in Aliases /\ InScope(realm, e.to)
    BY <1>3, <1>5 DEF MayBe
  <2>3. /\ Adds /\ NothingLeavesItsRealm'
        /\ aliases' # aliases => aliases[realm][e.key] # e.to
        /\ aliases[realm][e.key] = e.to => aliases'[realm][e.key] = e.to
    BY <2>1, <2>2, NamedAdds
  <2>4. CASE aliases'[realm][e.key] # e.to
    <3>1. reviews' = [reviews EXCEPT ![c] = failed]
      BY <2>1, <2>4
    <3> HIDE DEF failed
    <3> QED
      BY <1>2, <1>4, <2>3, <3>1, EndsTrue
  <2>5. CASE aliases'[realm][e.key] = e.to
    <3>1. PICK new \in BOOLEAN : new = (aliases' # aliases)
      OBVIOUS
    <3>2. reviews' = [reviews EXCEPT ![c] = Noted(c, x, new)]
      BY <2>1, <2>5, <3>1
    <3>3. Says(realm, e)' /\ (new => ~Says(realm, e))
      BY <1>5, <2>3, <2>5, <3>1 DEF Says
    <3> QED
      BY <1>2, <2>3, <3>2, <3>3, NotedIsTrue
  <2> QED
    BY <2>4, <2>5
<1>6. CASE e.kind = "relation"
  <2>1. /\ relations' = Related(realm, e) /\ UNCHANGED <<beings, aliases>>
        /\ reviews' = [reviews EXCEPT ![c] = Noted(c, x, relations' # relations)]
    BY <1>1, <1>2, <1>6 DEF Noted
  <2>2. InScope(realm, e.from) /\ InScope(realm, e.to)
    BY <1>3, <1>6 DEF MayBe
  <2>3. /\ Adds /\ NothingLeavesItsRealm' /\ Tie(realm, e) \in relations'
        /\ relations' # relations => Tie(realm, e) \notin relations
    BY <2>1, <2>2, RelatedAdds
  <2>4. PICK new \in BOOLEAN : new = (relations' # relations)
    OBVIOUS
  <2>5. reviews' = [reviews EXCEPT ![c] = Noted(c, x, new)]
    BY <2>1, <2>4
  <2>6. Says(realm, e)' /\ (new => ~Says(realm, e))
    BY <1>6, <2>3, <2>4 DEF Says, Tie
  <2> QED
    BY <1>2, <2>3, <2>5, <2>6, NotedIsTrue
<1> QED
  BY <1>1, <1>2, <1>5, <1>6

LEMMA ReportReviewCurates ==
    ASSUME CuratedInv, NEW c \in Curators, ReportReview(c)
    PROVE  CuratedInv'
<1> DEFINE review == [reviews[c] EXCEPT !.pc = "done"]
<1>1. Adds /\ NothingLeavesItsRealm'
  BY NothingAdded DEF ReportReview
<1>2. review \in Reviews /\ review.realm = reviews[c].realm /\ review.plan = reviews[c].plan
      /\ review.applied = reviews[c].applied /\ review.present = reviews[c].present
  BY DEF CuratedInv, Reviews
<1>3. reviews' = [reviews EXCEPT ![c] = review]
  BY DEF ReportReview
<1> HIDE DEF review
<1> QED
  BY <1>1, <1>2, <1>3, EndsTrue

LEMMA KillReviewCurates ==
    ASSUME CuratedInv, NEW c \in Curators, KillReview(c)
    PROVE  CuratedInv'
<1>1. Adds /\ NothingLeavesItsRealm'
  BY NothingAdded DEF KillReview
<1>2. NoReview \in Reviews /\ NoReview.plan = {} /\ NoReview.applied = {} /\ NoReview.present = {}
  BY DEF NoReview, Reviews
<1>3. reviews' = [reviews EXCEPT ![c] = NoReview]
  BY DEF KillReview
<1> QED
  BY <1>1, <1>2, <1>3, EndsTrue

LEMMA CuratedStays == CuratedInv /\ [SemanticsNext]_semanticVars => CuratedInv'
<1> SUFFICES ASSUME CuratedInv, [SemanticsNext]_semanticVars PROVE CuratedInv'
  OBVIOUS
<1>1. CASE UNCHANGED semanticVars
  BY <1>1 DEF semanticVars, CuratedInv, NothingLeavesItsRealm, InScope, OneHasWritten, ReviewStands, MayBe,
              Accounted, Says
<1> QED
  BY <1>1, CreateSubjectCurates, PreviewEntriesCurates, WriteEntryCurates, ReportReviewCurates,
     KillReviewCurates DEF SemanticsNext

\* Whatever others import, what an import reports is so, once, and of one realm
\* (apply_semantic_import, insert_or_get_subject_alias, insert_or_get_relation).
LEMMA SemanticsStay == SemanticsSpec => []SemanticsHold
<1>1. CuratedInv => SemanticsHold
  BY DEF CuratedInv, SemanticsHold, ReportsHold, ReviewStands, Accounted, OneHasWritten
<1> QED
  BY <1>1, CuratedBegins, CuratedStays, PTL DEF SemanticsSpec
----------------------------------------------------------------------------
(* Types *)

\* The phases of a message keep what it has stored, or let go of it.
LEMMA PhasesKeepItem ==
    ASSUME NEW k \in Posts
    PROVE  NextPhase(k).item \in {k.item, NoEvidence} /\ NextMessage(k).item = NoEvidence
<1>1. /\ k = [pc |-> k.pc, request |-> k.request, at |-> k.at, item |-> k.item, stored |-> k.stored]
  BY DEF Posts
<1>2. NextMessage(k).item = NoEvidence
  BY <1>1 DEF NextMessage
<1> QED
  BY <1>1, <1>2 DEF NextPhase

\* Evidence is only added.
LEMMA IntakeTypeOn ==
    ASSUME IntakeTypeOK, WritesInv, WritesInv', DOMAIN evidence \subseteq DOMAIN evidence',
           cited' \subseteq DOMAIN evidence',
           \A t \in Topics : claims'[t] = claims[t] \/ claims'[t].by \in {NoEvidence} \cup DOMAIN evidence',
           \A c \in Clients : clients'[c] = clients[c] \/ clients'[c].item \in {NoEvidence} \cup DOMAIN evidence'
    PROVE  IntakeTypeOK'
<1>1. evidence' \in Seq([kind: DOMAIN Phases, topic: Topics \cup {NoTopic}])
  BY DEF WritesInv, WritesType, EvidenceRows
<1>2. claims' \in [Topics -> ClaimRows] /\ \A t \in Topics : claims'[t].by \in {NoEvidence} \cup DOMAIN evidence'
  BY DEF WritesInv, WritesType, IntakeTypeOK
<1>3. claims' \in [Topics -> [state: {"none", "active", "archived"}, by: {NoEvidence} \cup DOMAIN evidence']]
  <2>1. ASSUME NEW t \in Topics
        PROVE  claims'[t] \in [state: {"none", "active", "archived"}, by: {NoEvidence} \cup DOMAIN evidence']
    BY <1>2 DEF ClaimRows
  <2> QED
    BY <1>2, <2>1
<1>4. \A c \in Clients : clients'[c].item \in {NoEvidence} \cup DOMAIN evidence'
  BY DEF IntakeTypeOK
<1> QED
  BY <1>1, <1>3, <1>4 DEF IntakeTypeOK

LEMMA IntakeStepTyped ==
    ASSUME IntakeTypeOK, WritesInv, WritesInv', [IntakeNext]_intakeVars
    PROVE  IntakeTypeOK'
<1>1. /\ evidence \in Seq(EvidenceRows) /\ claims \in [Topics -> ClaimRows] /\ clients \in [Clients -> Posts]
      /\ cited \subseteq DOMAIN evidence
      /\ \A t \in Topics : claims[t].by \in {NoEvidence} \cup DOMAIN evidence
      /\ \A c \in Clients : clients[c] \in Posts /\ clients[c].item \in {NoEvidence} \cup DOMAIN evidence
  BY DEF WritesInv, WritesType, IntakeTypeOK
<1>2. ASSUME NEW c \in Clients, NEW n, Sends(c, n), n.item \in {NoEvidence} \cup DOMAIN evidence'
      PROVE  \A d \in Clients : clients'[d] = clients[d] \/ clients'[d].item \in {NoEvidence} \cup DOMAIN evidence'
  BY <1>1, <1>2 DEF Sends
<1>3. ASSUME NEW c \in Clients, NEW n, Sends(c, n), n.item \in {NoEvidence, clients[c].item},
             UNCHANGED <<evidence, cited, claims>>
      PROVE  IntakeTypeOK'
  BY <1>1, <1>2, <1>3, IntakeTypeOn
<1>4. ASSUME NEW c \in Clients PROVE NextMessage(clients[c]).item = NoEvidence
                                     /\ NextPhase(clients[c]).item \in {clients[c].item, NoEvidence}
  BY <1>1, PhasesKeepItem
<1>5. ASSUME NEW c \in Clients, Post(c) PROVE IntakeTypeOK'
  <2>1. PICK r \in Requests :
           Sends(c, [AtRest EXCEPT !.request = r, !.pc = IF r.messages = << >> THEN "answered"
                                                         ELSE FirstPhase(r.messages[1])])
    BY <1>5 DEF Post
  <2> QED
    BY <1>3, <1>5, <2>1 DEF Post, AtRest
<1>6. ASSUME NEW c \in Clients, RefuseMessage(c) \/ LayTrail(c) PROVE IntakeTypeOK'
  <2>1. Sends(c, NextMessage(clients[c])) \/ Sends(c, NextPhase(clients[c]))
    BY <1>6 DEF RefuseMessage, LayTrail
  <2>2. UNCHANGED <<evidence, cited, claims>>
    BY <1>6 DEF RefuseMessage, LayTrail
  <2> QED
    BY <1>3, <1>4, <2>1, <2>2
<1>7. ASSUME NEW c \in Clients, StoreEvidence(c) PROVE IntakeTypeOK'
  <2> PICK e : e = Len(evidence) + 1
    OBVIOUS
  <2>1. DOMAIN evidence' = DOMAIN evidence \cup {e} /\ e \in Nat
    BY <1>1, <1>7 DEF StoreEvidence
  <2> PICK k : k = [clients[c] EXCEPT !.item = e, !.stored = Append(@, e)]
    OBVIOUS
  <2>2. k \in Posts /\ k.item = e
    <3> PICK s : s = Append(clients[c].stored, e)
      OBVIOUS
    <3>1. s \in Seq(Nat)
      BY <1>1, <2>1 DEF Posts
    <3>2. k = [clients[c] EXCEPT !.item = e, !.stored = s]
      OBVIOUS
    <3> QED
      BY <1>1, <2>1, <3>1, <3>2 DEF Posts
  <2>3. Sends(c, NextPhase(k)) /\ UNCHANGED <<cited, claims>>
    BY <1>7 DEF StoreEvidence
  <2>4. NextPhase(k).item \in {NoEvidence} \cup DOMAIN evidence'
    BY <2>1, <2>2, PhasesKeepItem
  <2> QED
    BY <1>1, <1>2, <2>1, <2>3, <2>4, IntakeTypeOn
<1>8. ASSUME NEW c \in Clients, CiteTurn(c) PROVE IntakeTypeOK'
  <2>1. clients[c].item \in DOMAIN evidence
    BY <1>8 DEF CiteTurn, Works, WritesInv, PostInv, Storing
  <2>2. UNCHANGED <<evidence, claims>> /\ cited' = cited \cup {clients[c].item} /\ Sends(c, NextPhase(clients[c]))
    BY <1>8 DEF CiteTurn
  <2>3. \A d \in Clients : clients'[d] = clients[d] \/ clients'[d].item \in {NoEvidence} \cup DOMAIN evidence'
    BY <1>1, <1>2, <1>4, <2>2
  <2> QED
    BY <1>1, <2>1, <2>2, <2>3, IntakeTypeOn
<1>9. ASSUME NEW c \in Clients, FindClaim(c) PROVE IntakeTypeOK'
  <2>1. [clients[c] EXCEPT !.pc = "insert"].item = clients[c].item
    BY <1>1 DEF Posts
  <2>2. Sends(c, NextPhase(clients[c])) \/ Sends(c, [clients[c] EXCEPT !.pc = "insert"])
    BY <1>9 DEF FindClaim
  <2>3. UNCHANGED <<evidence, cited, claims>>
    BY <1>9 DEF FindClaim
  <2> QED
    BY <1>3, <1>4, <2>1, <2>2, <2>3
<1>10. ASSUME NEW c \in Clients, InsertClaim(c) PROVE IntakeTypeOK'
  <2>1. clients[c].item \in DOMAIN evidence
    BY <1>10 DEF InsertClaim, Works, WritesInv, PostInv, Storing
  <2>2. UNCHANGED <<evidence, cited>>
    BY <1>10 DEF InsertClaim
  <2> PICK k : k = [clients[c] EXCEPT !.pc = "record"]
    OBVIOUS
  <2>3. k \in Posts /\ k.item = clients[c].item /\ [clients[c] EXCEPT !.pc = "failed"].item = clients[c].item
    BY <1>1 DEF Posts, Pcs
  <2>4. Sends(c, NextPhase(k)) \/ Sends(c, [clients[c] EXCEPT !.pc = "failed"])
    BY <1>10 DEF InsertClaim
  <2>5. \A d \in Clients : clients'[d] = clients[d] \/ clients'[d].item \in {NoEvidence} \cup DOMAIN evidence'
    BY <1>1, <1>2, <2>2, <2>3, <2>4, PhasesKeepItem
  <2>6. \A t \in Topics : claims'[t] = claims[t] \/ claims'[t].by \in {NoEvidence} \cup DOMAIN evidence'
    BY <1>1, <1>10, <2>1, <2>2 DEF InsertClaim
  <2> QED
    BY <1>1, <2>2, <2>5, <2>6, IntakeTypeOn
<1>11. ASSUME NEW c \in Clients, EndPost(c) \/ BreakPost(c) PROVE IntakeTypeOK'
  <2>1. AtRest.item = NoEvidence /\ [clients[c] EXCEPT !.pc = "failed"].item = clients[c].item
    BY <1>1 DEF AtRest, Posts
  <2>2. Sends(c, AtRest) \/ Sends(c, [clients[c] EXCEPT !.pc = "failed"])
    BY <1>11 DEF EndPost, BreakPost
  <2>3. UNCHANGED <<evidence, cited, claims>>
    BY <1>11 DEF EndPost, BreakPost
  <2> QED
    BY <1>3, <2>1, <2>2, <2>3
<1>12. ASSUME NEW t \in Topics, ForgetTopic(t) PROVE IntakeTypeOK'
  <2>1. UNCHANGED <<evidence, cited, clients>>
    BY <1>12 DEF ForgetTopic
  <2>2. claims[t] \in ClaimRows /\ [claims[t] EXCEPT !.state = "archived"].by = claims[t].by /\ NoClaimRow.by = NoEvidence
    BY <1>1 DEF ClaimRows, NoClaimRow
  <2>3. \/ claims' = [claims EXCEPT ![t] = [claims[t] EXCEPT !.state = "archived"]]
        \/ claims' = [claims EXCEPT ![t] = NoClaimRow]
    BY <1>1, <1>12 DEF ForgetTopic
  <2>4. \A s \in Topics : claims'[s] = claims[s] \/ claims'[s].by \in {NoEvidence} \cup DOMAIN evidence'
    BY <1>1, <2>1, <2>2, <2>3
  <2> QED
    BY <1>1, <2>1, <2>4, IntakeTypeOn
<1>13. CASE UNCHANGED intakeVars
  BY <1>1, <1>13, IntakeTypeOn DEF intakeVars
<1> QED
  BY <1>5, <1>6, <1>7, <1>8, <1>9, <1>10, <1>11, <1>12, <1>13 DEF IntakeNext

LEMMA IntakeTyped == IntakeSpec => []IntakeTypeOK
<1>1. IntakeInit => IntakeTypeOK
  BY DEF IntakeInit, IntakeTypeOK, AtRest, NoClaimRow, NoEvidence
<1>2. IntakeTypeOK /\ WritesInv /\ WritesInv' /\ [IntakeNext]_intakeVars => IntakeTypeOK'
  BY IntakeStepTyped
<1> QED
  BY <1>1, <1>2, IntakeInitInv, IntakeNextInv, IntakeAssumption, PTL DEF IntakeSpec

LEMMA McpTyped == McpSpec => []McpTypeOK
<1>1. McpInv => McpTypeOK
  <2> SUFFICES ASSUME McpInv PROVE McpTypeOK
    OBVIOUS
  <2>1. \A n \in DOMAIN said : said[n] \in McpRows /\ SaidTruly(said[n])
    BY DEF McpInv
  <2>2. \A n \in DOMAIN said : said[n].line \in Lines /\ said[n].answer.did \in Offered \cup {Nothing}
    BY <2>1 DEF McpRows, SaidTruly
  <2> QED
    BY <2>2 DEF McpInv, McpTypeOK
<1> QED
  BY <1>1, McpInvStays, McpInitInv, McpAssumption, PTL DEF McpSpec

LEMMA FilesTyped == SyncSpec => []SyncTypeOK
<1>1. SyncInv => SyncTypeOK
  BY DEF SyncInv
<1> QED
  BY <1>1, SyncInitInv, SyncInvStays, PTL DEF SyncSpec

\* What the rows and callers of procedures refer to is there.
ProceduresRefer ==
    /\ Len(episodes) <= MaxEpisodes
    /\ \A i \in DOMAIN procedures : procedures[i].by \subseteq 1 .. MaxEpisodes
    /\ \A c \in Clerks : /\ clerks[c].id \in {NoProcedure} \cup DOMAIN procedures
                         /\ clerks[c].pc = "insert" => clerks[c].on.by \subseteq 1 .. MaxEpisodes
    /\ stops \in 0 .. MaxStops /\ uncounted \subseteq DOMAIN procedures

\* Learnt keep their evidence, and one caller moves at most.
LEMMA ReferencesStay ==
    ASSUME LearnedInv, ProceduresRefer, UNCHANGED episodes,
           DOMAIN procedures' = DOMAIN procedures, \A i \in DOMAIN procedures : procedures'[i].by = procedures[i].by,
           \A c \in Clerks :
              \/ clerks'[c] = clerks[c]
              \/ /\ clerks'[c].id \in {NoProcedure} \cup DOMAIN procedures
                 /\ clerks'[c].pc = "insert" => clerks'[c].on.by \subseteq 1 .. MaxEpisodes,
           stops' \in 0 .. MaxStops, uncounted' \subseteq DOMAIN procedures
    PROVE  ProceduresRefer'
  BY DEF ProceduresRefer

LEMMA ReferencesAreKept ==
    ASSUME ProceduresAssumption, LearnedInv, ProceduresRefer, [ProceduresNext]_procVars
    PROVE  ProceduresRefer'
<1>1. /\ episodes \in Seq(Episode) /\ procedures \in Seq(ProcRows) /\ clerks \in [Clerks -> Desks]
      /\ DOMAIN procedures = 1 .. Len(procedures) /\ Len(procedures) \in Nat
      /\ DOMAIN episodes = 1 .. Len(episodes) /\ Len(episodes) \in Nat /\ MaxEpisodes \in Nat
      /\ \A i \in DOMAIN procedures : procedures[i] \in ProcRows
  BY DEF LearnedInv, ProceduresAssumption
<1>2. ASSUME NEW c \in Clerks, NEW n, Seat(c, n), n.id \in {NoProcedure} \cup DOMAIN procedures,
             n.pc # "insert" \/ n.on.by \subseteq 1 .. MaxEpisodes
      PROVE  \A d \in Clerks : \/ clerks'[d] = clerks[d]
                               \/ /\ clerks'[d].id \in {NoProcedure} \cup DOMAIN procedures
                                  /\ clerks'[d].pc = "insert" => clerks'[d].on.by \subseteq 1 .. MaxEpisodes
  BY <1>1, <1>2 DEF Seat
<1>3. AtDesk.id = NoProcedure /\ AtDesk.pc = "idle"
  BY DEF AtDesk
<1>4. CASE CreateEpisode
  <2>1. PICK e : episodes' = Append(episodes, e)
    BY <1>4 DEF CreateEpisode
  <2>2. Len(episodes') <= MaxEpisodes /\ UNCHANGED <<procedures, clerks, stops, uncounted>>
    BY <1>1, <1>4, <2>1 DEF CreateEpisode
  <2> QED
    BY <2>2 DEF ProceduresRefer
<1>5. ASSUME NEW c \in Clerks, SubmitCandidate(c) PROVE ProceduresRefer'
  <2>1. PICK found \in SUBSET Successful : \E e \in found :
           Seat(c, [AtDesk EXCEPT !.pc = "insert", !.on = CandidateOf(GroupWith(found, e), e)])
    BY <1>5 DEF SubmitCandidate
  <2>2. PICK e \in found : Seat(c, [AtDesk EXCEPT !.pc = "insert", !.on = CandidateOf(GroupWith(found, e), e)])
    BY <2>1
  <2> PICK k : k = CandidateOf(GroupWith(found, e), e)
    OBVIOUS
  <2>3. k.by \subseteq DOMAIN episodes
    BY DEF CandidateOf, GroupWith, Successful
  <2>4. k.by \subseteq 1 .. MaxEpisodes
    BY <1>1, <2>3 DEF ProceduresRefer
  <2> PICK n : n = [AtDesk EXCEPT !.pc = "insert", !.on = k]
    OBVIOUS
  <2>5. n.id = NoProcedure /\ n.on = k
    BY DEF AtDesk
  <2>6. Seat(c, n) /\ UNCHANGED <<episodes, procedures, stops, uncounted>>
    BY <1>5, <2>2 DEF SubmitCandidate
  <2> QED
    BY <1>2, <2>4, <2>5, <2>6, ReferencesStay DEF ProceduresRefer
<1>6. ASSUME NEW c \in Clerks, InsertProcedure(c) PROVE ProceduresRefer'
  <2>1. UNCHANGED <<episodes, stops, uncounted>> /\ clerks[c].pc = "insert"
    BY <1>6 DEF InsertProcedure, Does
  <2>2. CASE Clashing(clerks[c].on) = {}
    <3> PICK p : p = NewProcedure(clerks[c].on)
      OBVIOUS
    <3>1. p.by \subseteq 1 .. MaxEpisodes
      BY <2>1 DEF NewProcedure, ProceduresRefer
    <3>2. procedures' = Append(procedures, p) /\ Seat(c, AtDesk)
      BY <1>6, <2>2 DEF InsertProcedure
    <3>3. DOMAIN procedures \subseteq DOMAIN procedures'
          /\ \A i \in DOMAIN procedures' : procedures'[i] = p \/ (i \in DOMAIN procedures /\ procedures'[i] = procedures[i])
      BY <1>1, <3>2
    <3>4. \A i \in DOMAIN procedures' : procedures'[i].by \subseteq 1 .. MaxEpisodes
      BY <3>1, <3>3 DEF ProceduresRefer
    <3> QED
      BY <1>2, <1>3, <2>1, <3>2, <3>3, <3>4 DEF ProceduresRefer
  <2>3. CASE Clashing(clerks[c].on) # {}
    <3> PICK n : n = [clerks[c] EXCEPT !.pc = "find"]
      OBVIOUS
    <3>1. n.pc = "find" /\ n.id = clerks[c].id
      BY <1>1 DEF Desks
    <3>2. Seat(c, n) /\ UNCHANGED procedures
      BY <1>6, <2>3 DEF InsertProcedure
    <3> QED
      BY <1>2, <2>1, <3>1, <3>2, ReferencesStay DEF ProceduresRefer
  <2> QED
    BY <2>2, <2>3
<1>7. ASSUME NEW c \in Clerks, FindProcedure(c) \/ StopProcedures(c) PROVE ProceduresRefer'
  <2>1. Seat(c, AtDesk) /\ UNCHANGED <<episodes, procedures>>
    BY <1>7 DEF FindProcedure, StopProcedures
  <2>2. stops' \in 0 .. MaxStops
    BY <1>7 DEF FindProcedure, StopProcedures, ProceduresRefer, ProceduresAssumption
  <2>3. uncounted' \subseteq DOMAIN procedures
    BY <1>7 DEF FindProcedure, StopProcedures, ProceduresRefer, LearnedInv, Does
  <2> QED
    BY <1>2, <1>3, <2>1, <2>2, <2>3, ReferencesStay
<1>8. ASSUME NEW i \in DOMAIN procedures, NEW p, p.by = procedures[i].by, procedures' = [procedures EXCEPT ![i] = p]
      PROVE  DOMAIN procedures' = DOMAIN procedures /\ \A j \in DOMAIN procedures : procedures'[j].by = procedures[j].by
  BY <1>8
<1>9. ASSUME NEW c \in Clerks, QuarantineProcedure(c) PROVE ProceduresRefer'
  <2> PICK i : i = clerks[c].id
    OBVIOUS
  <2> PICK p : p = QuarantinedProcedure(procedures[i])
    OBVIOUS
  <2>1. i \in DOMAIN procedures
    BY <1>9 DEF QuarantineProcedure, Does, LearnedInv
  <2>2. p.by = procedures[i].by
    BY <1>1, <2>1 DEF QuarantinedProcedure, ProcRows
  <2>3. procedures' = [procedures EXCEPT ![i] = p] /\ Seat(c, AtDesk) /\ UNCHANGED <<episodes, stops, uncounted>>
    BY <1>9 DEF QuarantineProcedure
  <2> QED
    BY <1>2, <1>3, <1>8, <2>1, <2>2, <2>3, ReferencesStay DEF ProceduresRefer
<1>10. ASSUME NEW c \in Clerks, NEW i \in DOMAIN procedures, CountEvidence(c, i) PROVE ProceduresRefer'
  <2> PICK p : p = [procedures[i] EXCEPT !.counter = @ + 1]
    OBVIOUS
  <2> PICK n : n = [AtDesk EXCEPT !.pc = "count", !.id = i]
    OBVIOUS
  <2>1. p.by = procedures[i].by /\ n.pc = "count" /\ n.id = i
    BY <1>1 DEF ProcRows, AtDesk
  <2>2. procedures' = [procedures EXCEPT ![i] = p] /\ Seat(c, n) /\ UNCHANGED <<episodes, stops, uncounted>>
    BY <1>10 DEF CountEvidence
  <2> QED
    BY <1>2, <1>8, <2>1, <2>2, ReferencesStay DEF ProceduresRefer
<1>11. ASSUME NEW i \in DOMAIN procedures, RetireProcedure(i) PROVE ProceduresRefer'
  <2> PICK p : p = RetiredProcedure(procedures[i])
    OBVIOUS
  <2>1. p.by = procedures[i].by
    BY <1>1 DEF RetiredProcedure, ProcRows
  <2>2. procedures' = [procedures EXCEPT ![i] = p] /\ UNCHANGED <<episodes, clerks, stops, uncounted>>
    BY <1>11 DEF RetireProcedure
  <2> QED
    BY <1>8, <2>1, <2>2, ReferencesStay DEF ProceduresRefer
<1>12. ASSUME NEW i \in DOMAIN procedures, NEW j, SupersedeProcedure(i, j) PROVE ProceduresRefer'
  <2> PICK p : p = [procedures[i] EXCEPT !.state = "superseded", !.retired = TRUE, !.next = j]
    OBVIOUS
  <2> PICK left : left = [procedures EXCEPT ![i] = p]
    OBVIOUS
  <2> PICK v : v = procedures[i].version + 1
    OBVIOUS
  <2>1. /\ left = [procedures EXCEPT ![i].state = "superseded", ![i].retired = TRUE, ![i].next = j]
    BY <1>1
  <2>2. p.by = procedures[i].by
    BY <1>1 DEF ProcRows
  <2>3. DOMAIN left = DOMAIN procedures /\ \A k \in DOMAIN procedures : left[k].by = procedures[k].by
    BY <1>1, <2>2
  <2>4. \A k \in DOMAIN procedures : left[k] = p \/ left[k] = procedures[k]
    BY <1>1
  <2>5. procedures' = IF j \in DOMAIN procedures THEN [left EXCEPT ![j] = [left[j] EXCEPT !.version = v]] ELSE left
    BY <1>12, <2>1, <2>3 DEF SupersedeProcedure
  <2>6. j \in DOMAIN procedures => [left[j] EXCEPT !.version = v].by = left[j].by
    BY <1>1, <2>4 DEF ProcRows
  <2>7. DOMAIN procedures' = DOMAIN procedures /\ \A k \in DOMAIN procedures : procedures'[k].by = procedures[k].by
    BY <2>3, <2>5, <2>6
  <2> QED
    BY <1>12, <2>7, ReferencesStay DEF ProceduresRefer, SupersedeProcedure
<1>13. CASE UNCHANGED procVars
  BY <1>13, ReferencesStay DEF procVars, ProceduresRefer
<1> QED
  BY <1>4, <1>5, <1>6, <1>7, <1>9, <1>10, <1>11, <1>12, <1>13 DEF ProceduresNext

LEMMA ProceduresTyped == ProceduresSpec => []ProceduresTypeOK
<1>1. LearnedInv /\ ProceduresRefer => ProceduresTypeOK
  <2> SUFFICES ASSUME LearnedInv, ProceduresRefer PROVE ProceduresTypeOK
    OBVIOUS
  <2> DEFINE Learnt == [subject: Subjects, way: Ways, by: SUBSET (1 .. MaxEpisodes),
                      state: {"active", "retired", "superseded", "quarantined"},
                      retired: BOOLEAN, version: Nat, next: Nat, counter: Nat]
  <2>1. procedures \in Seq(Learnt)
    <3>1. procedures \in Seq(ProcRows) /\ \A i \in DOMAIN procedures : procedures[i] \in ProcRows
      BY DEF LearnedInv
    <3>2. \A i \in DOMAIN procedures : procedures[i] \in Learnt
      BY <3>1 DEF ProcRows, ProcStates, ProceduresRefer
    <3> HIDE DEF Learnt
    <3> QED
      BY <3>1, <3>2
  <2>2. \A c \in Clerks : clerks[c].pc \in {"idle", "insert", "find", "count"}
    BY DEF LearnedInv, Desks
  <2> QED
    BY <2>1, <2>2 DEF LearnedInv, ProceduresRefer, ProceduresTypeOK
<1>2. ProceduresAssumption /\ ProceduresInit => ProceduresRefer
  BY DEF ProceduresAssumption, ProceduresInit, ProceduresRefer, AtDesk
<1>3. ProceduresAssumption /\ LearnedInv /\ ProceduresRefer /\ [ProceduresNext]_procVars => ProceduresRefer'
  BY ReferencesAreKept
<1> QED
  BY <1>1, <1>2, <1>3, LearnedInitInv, LearnedNextInv, ProceduresAssumption, PTL DEF ProceduresSpec

\* Relations are those that some file says.
RelationsAreTied ==
    /\ relations \subseteq [realm: Realms, from: Beings, to: Beings,
                            type: {e.type : e \in {x \in AllEntries : x.kind = "relation"}}]
    /\ reads \in 0 .. MaxReads /\ stopped \in 0 .. MaxStopped

LEMMA TiesStay ==
    ASSUME SemanticsAssumption, CuratedInv, RelationsAreTied, [SemanticsNext]_semanticVars
    PROVE  RelationsAreTied'
<1>1. CASE UNCHANGED relations
  <2>1. /\ UNCHANGED reads \/ (reads < MaxReads /\ reads' = reads + 1)
        /\ UNCHANGED stopped \/ (stopped < MaxStopped /\ stopped' = stopped + 1)
    <3>1. ASSUME NEW c \in Curators, NEW f \in SemanticFiles, PreviewEntries(c, f)
          PROVE  UNCHANGED stopped /\ reads < MaxReads /\ reads' = reads + 1
      BY <3>1 DEF PreviewEntries
    <3>2. ASSUME NEW c \in Curators, WriteEntry(c) \/ ReportReview(c) PROVE UNCHANGED <<reads, stopped>>
      BY <3>2 DEF WriteEntry, ReportReview
    <3>3. ASSUME NEW c \in Curators, KillReview(c)
          PROVE  UNCHANGED reads /\ stopped < MaxStopped /\ stopped' = stopped + 1
      BY <3>3 DEF KillReview
    <3>4. ASSUME NEW s \in Beings, CreateSubject(s) PROVE UNCHANGED <<reads, stopped>>
      BY <3>4 DEF CreateSubject
    <3>5. CASE UNCHANGED semanticVars
      BY <3>5 DEF semanticVars
    <3> QED
      BY <3>1, <3>2, <3>3, <3>4, <3>5 DEF SemanticsNext
  <2>2. reads' \in 0 .. MaxReads /\ stopped' \in 0 .. MaxStopped
    BY <2>1 DEF SemanticsAssumption, RelationsAreTied
  <2> QED
    BY <1>1, <2>2 DEF RelationsAreTied
<1>2. CASE ~UNCHANGED relations
  <2>1. PICK c \in Curators : WriteEntry(c)
    BY <1>2 DEF SemanticsNext, CreateSubject, PreviewEntries, ReportReview, KillReview, semanticVars
  <2>2. PICK x \in reviews[c].plan : x.entry.kind = "relation" /\ relations' = Related(reviews[c].realm, x.entry)
    BY <1>2, <2>1 DEF WriteEntry
  <2> PICK realm, e : realm = reviews[c].realm /\ e = x.entry
    OBVIOUS
  <2>3. MayBe(realm, e) /\ e.kind = "relation" /\ beings \subseteq Beings
    BY <2>2 DEF CuratedInv, ReviewStands
  <2>4. e.from \in Beings /\ e.to \in Beings /\ realm \in Realms
    BY <2>3 DEF MayBe, InScope, Realms
  <2>5. e \in AllEntries
    BY <2>2 DEF CuratedInv, Reviews
  <2>6. relations' = relations \cup {Tie(realm, e)}
    BY <2>2 DEF Related
  <2>7. UNCHANGED <<reads, stopped>>
    BY <2>1 DEF WriteEntry
  <2> QED
    BY <2>3, <2>4, <2>5, <2>6, <2>7 DEF RelationsAreTied, Tie
<1> QED
  BY <1>1, <1>2

LEMMA SemanticsTyped == SemanticsSpec => []SemanticsTypeOK
<1>1. CuratedInv /\ RelationsAreTied => SemanticsTypeOK
  <2> SUFFICES ASSUME CuratedInv, RelationsAreTied, NEW c \in Curators
               PROVE  /\ reviews[c].pc \in {"none", "write", "done", "failed"}
                      /\ reviews[c].realm \in {f.realm : f \in SemanticFiles} \cup {Unnamed}
                      /\ {x.entry : x \in reviews[c].plan} \cup reviews[c].applied
                            \cup reviews[c].present \cup reviews[c].rejected \subseteq AllEntries
    BY DEF CuratedInv, RelationsAreTied, SemanticsTypeOK
  <2>1. reviews[c] \in Reviews
    BY DEF CuratedInv
  <2> QED
    BY <2>1 DEF Reviews
<1>2. SemanticsAssumption /\ SemanticsInit => RelationsAreTied
  BY DEF SemanticsAssumption, SemanticsInit, RelationsAreTied
<1>3. SemanticsAssumption /\ CuratedInv /\ RelationsAreTied /\ [SemanticsNext]_semanticVars => RelationsAreTied'
  BY TiesStay
<1> QED
  BY <1>1, <1>2, <1>3, CuratedBegins, CuratedStays, SemanticsAssumption, PTL DEF SemanticsSpec
----------------------------------------------------------------------------
(* Together *)

\* A behaviour of the records is one of each part.
LEMMA RecordsAreEachPart ==
    RecordsSpec => /\ BundlesSpec /\ SyncSpec /\ PatchSpec /\ ProceduresSpec /\ RecallSpec /\ IntakeSpec
                   /\ ChatsSpec /\ SemanticsSpec /\ GitSpec /\ PccSpec /\ McpSpec
<1>1. RecordsInit => /\ BundlesInit /\ SyncInit /\ PatchInit /\ ProceduresInit /\ RecallInit /\ IntakeInit
                     /\ ChatsInit /\ SemanticsInit /\ GitInit /\ PccInit /\ McpInit
  BY DEF RecordsInit
<1>2. [RecordsNext]_<<part, bundleVars, syncVars, patchVars, procVars, recallVars, intakeVars, chatVars,
                      semanticVars, gitVars, pccVars, mcpVars>> =>
         /\ [BundlesNext]_bundleVars /\ [SyncNext]_syncVars /\ [PatchNext]_patchVars
         /\ [ProceduresNext]_procVars /\ [RecallNext]_recallVars /\ [IntakeNext]_intakeVars
         /\ [ChatsNext]_chatVars /\ [SemanticsNext]_semanticVars /\ [GitNext]_gitVars
         /\ [PccNext]_pccVars /\ [McpNext]_mcpVars
  BY DEF RecordsNext, Still
<1> QED
  BY <1>1, <1>2, PTL DEF RecordsSpec, BundlesSpec, SyncSpec, PatchSpec, ProceduresSpec, RecallSpec, IntakeSpec,
                         ChatsSpec, SemanticsSpec, GitSpec, PccSpec, McpSpec

\* What clients write is there when they are told so: rows in memory stand on the evidence that made
\* them (turns, conclusions and checkpoint in src/src/service.rs), whatever requests
\* interleave, fail half way or come again; and a session of MCP serves nothing before its greeting
\* and answers what it did (handle_message in src/src/mcp.rs).
THEOREM WritesStayTrue == RecordsSpec => []WritesAreTrue
<1>1. RowsStandOnEvidence /\ AnswersAreTrue /\ SessionsAreOrderly => WritesAreTrue
  BY DEF WritesAreTrue
<1> QED
  BY <1>1, RecordsAreEachPart, AnswersStayTrue, SessionsStayOrderly, PTL

\* What is curated stays true: a procedure in use rests on two trusted successes of its subject, is
\* the only one of its way, and does not outlive the counter-evidence that has been counted
\* (insert_or_get_procedure, record_procedure_counter_evidence in src/src/store.rs); and what an import of aliases and relations
\* reports is so, once, and of one realm (apply_semantic_import in src/src/semantic_import.rs).
THEOREM CuratedStaysTrue == RecordsSpec => []CuratedIsTrue
<1>1. ProceduresAreEarned /\ SemanticsHold => CuratedIsTrue
  BY DEF CuratedIsTrue
<1> QED
  BY <1>1, RecordsAreEachPart, ProceduresStayEarned, SemanticsStay, PTL
=============================================================================
