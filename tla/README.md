# TLA+ models of codex-memoryd

codex-memoryd is a local memory daemon for coding agents: a Rust library over one SQLite
database, reached through a CLI, an HTTP server, MCP and a few thin adapters. This directory
holds models of the parts whose correctness depends on order: who writes what between two
steps of somebody else. Paths below are relative to the repository; `store.rs` is
`src/src/store.rs` as the map in `PROJECT.json` writes it.

## 1. The system

| part | state it keeps | operations | what is hard |
|---|---|---|---|
| record store (`store.rs`) | `memory_records`, `memory_sources`, FTS, mutation counter | upsert, archive, delete, quarantine, promote, patch archive and restore, withdraw a source | upsert reads on one connection and writes in a later transaction; two hashes in one UNIQUE column; archived rows come back by four different ways |
| consolidation (`store.rs`, `consolidation/`) | `consolidation_proposals`, `consolidation_target_revisions`, keys in record metadata | persist, apply, undo, withdraw | proposals are made against rows that have changed by the time they are applied, and undone against rows that changed again |
| Dreamer scheduler (`dream.rs`, `service.rs`, `server.rs`) | the cursor in `dream_runs`, logical rowids, mutation sequence | a tick: pin a frontier, five bounded queries, adopt or send, record | every query is its own transaction; bands must neither overlap nor leave a gap; the cursor must not pass what a failed tick left |
| dream jobs and providers (`provider.rs`, `service.rs`) | `dream_jobs`, `dream_runs` | run, retry, charge, promote observations | concurrent callers under one daily ceiling; answers that were billed and refused |
| memory patches (`service.rs`) | patch ids in record metadata | preview, apply, roll back | an apply is a store call a row, a rollback two transactions; both may be cut off and come again |
| native runtime (`native_runtime*`) | PID file, identity file, lock; a container | up, down, restart, status, upgrade | PID reuse, two callers, a crash between spawn and PID file; a container that is replaced between two commands |
| portable bundles (`portable_bundle.rs`) | receipts, origin mappings | export, preview, apply | plan and apply see different stores; bundles come back to where they came from |
| imports (`ingest.rs`, `chatgpt_export_import.rs`, `git_import.rs`, `pcc_import.rs`, `semantic_import.rs`) | `sync_cursors`, sources, turns, episodes, a manifest file, a cursor held by the caller | sync, import, replay | repeated, overlapping and half-finished runs over inputs that change |
| write endpoints (`service.rs`) | evidence, ledger, records | turns, conclusions, checkpoint | several transactions a message, and a client that tries again |
| procedures, aliases, relations (`store.rs`) | lifecycle states | apply, retire, supersede, counter-evidence; reviewed import | unique indexes decide between callers who have looked before |
| recall and search (`recall.rs`) | none | recall, search, pages | five snapshots in one answer |
| MCP (`mcp.rs`) | phase of a session | one line at a time | two lifecycles on one connection |
| backup, opening and migration (`backup.rs`, `store.rs`) | files, schema | create, verify, restore, open | a crash between the steps of a restore; an old store opened by two processes |
| policy, configuration, status, export, evaluation, adapters | none of their own | read, report | pure functions, or I/O |

How they meet. Every writer shares `memory_records`; SQLite lets one of them write at a time,
but reads on pooled connections happen between other writers' transactions. Consolidation and
the scheduler communicate through two counters: rows that become eligible again take the next
value of `active_memory_mutation_counter`, and every inserted row takes the next logical rowid
(migration 0015); the scheduler's bands are ranges of both. A tick persists and applies
proposals itself (`apply_governed_deterministic_batch`, `service.rs:2964`), or asks a provider
whose answer another call promotes to records. Imports and endpoints end in the upsert that
Consolidation models with its read outside the transaction. Each module takes of the others
what it sees of them: other writers are actions of its own.

What makes each part correct, in a sentence: *consolidation* never destroys an edit it did not
see, in either direction, and can always be taken back as a whole; *the store* keeps one row per
hash and its supersession links form chains; *the scheduler* shows every piece of evidence to
the Dreamer once, and at last, and its cursor passes nothing that was not adopted or sent;
*jobs* end, and overspend by no more than one answer a caller; *patches* roll back to what was
there; *the runtime* signals only the process it started and says "up" only of what it was asked
for; *bundles and imports* do what was previewed, once, and hold what they say they hold;
*endpoints* answer truly and leave no row without its evidence; *procedures* are learned once
from two trusted successes; *recall* accounts for each match once; *restores and upgrades* lose
nothing.

`PROJECT.json` lists all components with what is left out of each, and the hazards with the
properties that cover them.

## 2. The modules

    ProposalLedger            abstract: what a reader of consolidation_proposals relies on
    Consolidation             memory_records, proposals, and every writer of them
      ConsolidationProperties, ConsolidationProofs, MCConsolidation
    SchedulerScan             the scheduler's cursor, its runners, and the writers it scans
      SchedulerProperties, SchedulerProofs, MCScheduler
    DreamTicks (+Properties)  what a tick does with its window: adopt it, or cut and send it
    DreamJobs (+Properties)   dreams and jobs: rows, attempts, costs
    ProviderPromotion         where evidence may be sent, and what answers become
      MCDreams, DreamProofs   the scan, the ticks, the jobs and the promotions
    NativeLifecycle           up, down, restart and status over files, lock and process handles
      NativeProperties
    Containers                the same commands and upgrade over Docker or Podman
    Backup                    backup, verification and restore around a daemon
    Upgrades                  the opening of stores of any age, with writers and scans
      MCHost, HostProofs      the daemon, the container, backups and upgrades
    PortableBundles (+Props)  bundles between two stores
    SyncImport (+Properties)  local files
    ChatExports (+Properties) ChatGPT exports
    GitImport                 commits and exported items
    PccReplay                 streams of captured sessions
    Semantics                 aliases and relations
    Procedures                procedures learned from episodes
    PatchLifecycle (+Props)   patches
    Intake                    the write endpoints
    Recall                    recall, search, pages
    McpServer                 sessions of MCP
      MCRecords, RecordsProofs, ImportProofs, RecallProofs, BundleProofs
                              all of these

A module's properties are at its end, after "What ... promises", or in a module of the same
name with "Properties" where the module is the base of proofs or checked alone. Within an MC
module the models share no state. A behaviour of `MCDreams`, `MCHost` or `MCRecords` is that of
one of them, chosen at the start by the variable `part`, while the others stay as they began:
one run then covers as many instances as would be runs of their own, and a property of one part
says nothing in the behaviours of another.

### Consolidation

A variable per table (`records`, `proposals`, `withdrawn`, `seq`, and the two revision columns
`proposed` and `applied`), one for the write lock (`lock`), one for the uncommitted view of the
apply transaction (`work`), one for what each upsert has read (`writer`). `edited` and `known`
are history, read by no guard.

| action | code |
|---|---|
| `Persist` | `persist_consolidation_batch`: INSERT ... ON CONFLICT DO NOTHING and the targets' revisions |
| `BeginApply`, `AdoptNext`, `CommitApply`, `AbortApply` | `apply_consolidation_proposal` inside `transaction_immediate`, one decision a step; an error or a crash is `AbortApply` |
| `Undo` | `undo_consolidation_proposal` |
| `Withdraw` | `withdraw_consolidation_source` |
| `UpsertRead`, then `UpsertMerge` or `UpsertInsert` | `upsert_record`: lookup on its own connection, then the write |
| `Forget`, `Delete`, `PatchArchive`, `PatchRestore`, `Quarantine`, `Promote` | the store methods of those names |

Abstractions. One profile, workspace and repository. `updated_at` is the number of updates
(`ver`): the code only compares it with `created_at` and digests it. Two updates within the
clock's resolution are thus told apart, which the code does not promise; timestamps carry
nanoseconds. A revision digest is the tuple it digests. A content hash is the content itself,
or its norm: hashing is injective here. Calls that fail change nothing and are disabled actions.
Left out: `supersede_record` and `invalidate_record`, which only tests call, and upserts that
set a temporal or trust state of their own.

### SchedulerScan

`rows` are rows of any scanned table with their timestamp, logical rowid and mutation sequence;
`saved` is the row `scheduled_dream_cursor` returns; `run[r]` is what runner `r` has read so far.
A run is `Begin` (saved cursor and time), `Pin` (`scheduler_cursor_for_run`, one transaction),
one `Read` per query in the order of `dream::run` and `build_evidence_window`, and `Record`
(`scheduler_watermark_after`, `record_dream_run`) or `Abandon`. Between any two of them the
clock may tick and writers may insert, change, retire or delete rows. `seen` and the field
`late` of a cursor are history.

Abstractions. Timestamps are small numbers, so that ties and rows stamped past a band's end
happen; turns carry a time their client chose, all other rows the time of their arrival. A batch
is full when its row budget is spent; the byte and token budget of command providers is left
out. So are cursors written by older releases, simulated clocks, and the gates that only delay
a run (idle window, short sessions). `Abandon` stands at the end of a run: before that it has
only read. The lookup of rowids, the frontier and the insert into `dream_runs`, three short
transactions in the code, are the one step `Record`: an insert between the lookup and the
frontier is an insert before `Record`; a delete there leaves a position that still has its
rowid, which is a `Record` before the delete.

### DreamTicks, DreamJobs, ProviderPromotion

| action | code |
|---|---|
| `Select`, `Filter`, `PersistBatch`, `ApplyBatch` | `scheduled_dream` with automatic adoption: the window, `filter_applied_scheduled_candidates`, `apply_governed_deterministic_batch` in its two store calls |
| `Size`, `RecordTick`, `LoseTick` | the loop that halves a window until the provider takes it; `record_dream_run` with the new cursor; a call that fails, a process that ends |
| `Arrive`, `UndoBatch`, `ForgetClaim` | new evidence, an operator's undo, a user's forget |
| `Ask`, `BeginJob`, `PreviewRun`, `Attempt`, `Charge`, `Audit` | `dream`, `run_dream_job_inner`, `execute_preview` and its attempts, the costs, the audit rows |
| `SettleDream`, `SettleJob`, `Mark`, `Expire`, `GiveUp` | the ends of a dream or a job, deadlines and losses; `TimePasses` is the clock of the daily ceiling |
| `PreviewAnswer`, `TakeAnswer` | `resolve_dream_provider`, `append_provider_candidates`, `generate_observations` |
| `Observe`, `FindContent`, `InsertContent`, `ArchiveRetired`, `Note`, `EndAnswer`, `CutShort` | `promote_provider_observations`, a store call a step |
| `Leave`, `Withdraw` | a promoter that is not heard of again, a user who archives or deletes |

`DreamTicks` takes the scan as given: evidence is a sequence and the cursor a prefix of it. A
proposal is its set of candidates. The call of a provider is a choice of its outcomes.

### NativeLifecycle

A manager (`mgr[m]`) is one run of a command: its program counter and what it has read. The rest
of the state is what managers share: the two files, the `flock`, the kernel's process table
(`procs`, `parent`), the bind address (`endpoint`) and the boot id.

| action | code |
|---|---|
| `Command`, `Acquire` | `up`, `down`, `restart`, `native_process::lock`; `status` goes without the lock |
| `ReadPid`, `ReadIdentity`, `OpenHandle`, `ReadTicks`, `ReadMarker`, `CheckAgain` | the reads of `inspect_inner`, in its order: two files, pidfd, boot id and start time, marker, and once more the pidfd |
| `Report`, `Refuse` | `native_process_state`; the refusal of an unverified PID |
| `CheckBind`, `RemovePid`, `RemoveIdentity`, `Spawn`, `SpawnFails`, `Capture`, `CaptureFails` | `up_native` to the captured identity |
| `ReceiveAck`, `AckTimesOut` | `wait_for_startup_ack` |
| `WriteIdentity`, `WritePid`, `WriteFails`, `RemoveFails` | `write`, `clear` |
| `Terminate`, `WaitExit` | `terminate_and_wait` |
| `Ready`, `ReadyTimesOut` | `wait_for_health`, `wait_for_ready` |
| `Acknowledge`, `Serve` | the daemon: `acknowledge_startup`, `serve` |
| `Crash`, `Exit`, `StrangerStarts`, `StrangerListens`, `Reboot` | outside the code |

Abstractions. A process is a model value, and a daemon also stands for the random marker in its
environment: markers are never guessed. A pidfd is the process it was opened for. A child whose
manager has not ended keeps its number when it dies, as a zombie; `std::process::Child` is never
waited for. Start times are clock ticks, and one value of them is the hard case: everything has
started at the same tick. Ten polls of a loop are one step. `faults` counts crashes, reboots and failed
writes; a call that times out is no fault. Left out: modes and owners of the files, malformed
contents, the checks before a launch (they only refuse), and the contents of HTTP answers.

### Containers, Backup, Upgrades

| action | code |
|---|---|
| `Call`, `Look`, `Verify`, `AskRunning`, `Bind`, `Start`, `RunNew`, `Wait` | `up_container`, each a command of Docker or Podman: `container_exists`, `ensure_container_database_mount`, `container_running`, `ensure_bind_available`, start or run, `wait_for_ready` |
| `StopBox`, `Pull` | `down_container`, `upgrade` |
| `Removed`, `Dies`, `OtherComes`, `OtherGoes`, `ClientWrites` | an operator, the container engine, another server, a client |
| `StartBackup`, `CopyBackup`, `WriteManifest`, `VerifyBackup` | `backup create`, `backup verify` |
| `PreviewRestore`, `StartRestore`, `CopyTarget`, `StartReplace`, `ReplaceTarget`, `RemoveSidecars`, `CheckTarget`, `EndCommand` | `restore_preview`, `restore_apply`, a file operation a step |
| `StartDaemon`, `CommitData`, `StopDaemon`, `KillDaemon`, `InstallBinary`, `KillCommand` | the daemon, upgrades of the binary, and what may happen to either |
| `Begin`, `RunScript`, `LookFor`, `Add`, `NumberRows`, `Probe`, `Breaks` | `Store::open` and `migrate`, a statement a step |
| `Insert`, `Delete`, `Scan` | writers of any build, and the scheduler's scan |

A file of `Backup` is a schema generation and the commits it holds, or torn. `Upgrades` lets one
column stand for those added together and one stream of sources for the five.

### PortableBundles

`Export`, `PreviewImport` and `ApplyImport` are `export_write`, `import_preview` and
`import_apply`, each one transaction over one of two stores; `Remember`, `Supersede`, `Touch` and
`Erase` are the other writers. A plan (`Plan`) is compared by its decisions, as the code compares
its digest. Bodies stand for digests, references for UUIDs. `ImportedIsSharedOn` is the property
of finding 6.

### The imports

| module | actions | code |
|---|---|---|
| `SyncImport` | `StartSync`, `RejectFile`, `FindSource`, `StoreSource`, `CountRows`, `StoreChunk`, `ArchiveStale`, `FinishSync`, `BreakSync`; `EditFile`, `ForgetChunk` | `run_sync`, a store call a step |
| `ChatExports` | `BeginImport`, `WritePending`, `CommitImport`, `PublishManifest`, `FailImport`, `KillImport` | `chatgpt_export_import::run`: one transaction, a pending file inside it, a rename after it |
| `GitImport` | `BeginRun`, `LookUp`, `InsertEpisode`, `RecordAccepted`, `RecordRejected`, `StopRun`; `GitCommit`, `EditItem` | `git_import::run`, a store call a step; of an item the place is looked up, of a commit its hash |
| `PccReplay` | `Replay`, `ReplayLost` | `pcc_import::run_reader`: a pure function of file and cursor, by lines (`Consume`), torn, endless and trailing ones among them; the state is what the caller keeps of the receipts |
| `Semantics` | `PreviewEntries`, `WriteEntry`, `ReportReview`, `KillReview`, `CreateSubject` | `apply_semantic_import`, entry by entry, after a preview; `Reached` is `relation_expanded_subjects` as a function, compared with `Near` |

Content is a set of chunks, a list of messages, of trailers, or of captured lines; each is told
apart by what the code hashes.

### Procedures, PatchLifecycle, Intake, Recall, McpServer

| module | actions | code |
|---|---|---|
| `Procedures` | `SubmitCandidate`, `InsertProcedure`, `FindProcedure`, `CountEvidence`, `QuarantineProcedure`, `RetireProcedure`, `SupersedeProcedure`, `StopProcedures`; `CreateEpisode` | `procedures_preview` and `procedures_apply` with `INSERT OR IGNORE` and the look after it; counter-evidence in two statements |
| `PatchLifecycle` | `BeginPatch`, `BeginDream`, `ReadCandidates`, `AdoptCandidate`, `RetireSuperseded`, `FinishDream`, `ReadRollback`, `WithdrawCreated`, `RestoreArchived`, `StopReview`; `OthersWrite` | `patch_apply`, `dream --apply`, `patch_rollback` |
| `Intake` | `Post`, `RefuseMessage`, `StoreEvidence`, `CiteTurn`, `LayTrail`, `FindClaim`, `InsertClaim`, `EndPost`, `BreakPost`; `ForgetTopic` | `turns`, `conclusions`, `checkpoint`, a store call a step |
| `Recall` | `BeginRecall`, `CountOmitted`, `SearchPool`, `ListPool`, `PackFacts`, `EndRecall`, `ReadPage`; `Write` | `recall` with its five snapshots; pages of search, an offset each, over rows that are written. `shifted` is history: which way writes have moved the listing since its first page |
| `McpServer` | `Read` | `run_stdio`: one line, in either lifecycle |

Left out everywhere: wording, scores beyond their order, wall-clock times beyond what is compared,
and checks that only refuse. The head of each module says what else.

## 3. The runs

| run | bounds | shows |
|---|---|---|
| `batches` | four ids, four claims, two batches out of five payloads with two decisions or two targets, 1 edit a row, no upserts | types; supersession is mutual and ends; withdrawal reaches applied proposals; the table refines `ProposalLedger`; undo takes a supersession back whole, commits keep their claims, what comes back into use is resequenced |
| `race` | three ids, one batch, one upsert thread, a claim whose norm is another claim | no third row of a claim; apply and undo never touch rows edited since |
| `dreams` | scan: one record and one turn, batches of one, two instants, one mutation; ticks: three rows in any of five kinds, one undo, one fault; jobs: two callers, one job id, two inputs, ceiling 1, costs 1 and 2; promotion: two promoters, two homes, two answers | what a finished band claims was selected or was late, nothing is selected twice, every row is at last selected; ticks cover what was handled, and at last everything whose window can be finished; jobs end, costs stay and stay bounded; answers are used within their limits |
| `native` | two managers, two daemons, one stranger, two process numbers, one start time, two faults, one reboot; containers: two callers, three databases of which one is a link, one swap; backup: two commits, two schemas, three commands, two kills; upgrades: two openers, stores of three ages, three inserts, one failure | signals go to own daemons; a recorded live daemon is never taken for stopped; without faults none is lost and none is refused without cause (`DaemonsAreAccountedFor`); "up" is said of what was asked for (`UpTellsTheTruth`); restores and upgrades lose nothing (`RestoresLoseNothing`, `UpgradesAreWhole`) |
| `native_live` | two managers, one daemon, one stranger, one number, one fault, one reboot | every command returns |
| `records` | two of each kind of caller, inputs as defined in `MCRecords`, one or two faults a part | bundles (`BundlesAreTrue`), files (`FilesAreHeld`), patches (`RollbackUndoesApply`), procedures, aliases and relations (`CuratedIsTrue`), recall and the subjects within reach (`RecallIsTrue`), what the pages of a listing show of each row while others are written (`PagesShowOnce`), endpoints and MCP sessions (`WritesAreTrue`), chats, git and replayed sessions (`ImportsAreKept`; of git: places are taken once, and what is stored was said there), and previews (`ImportsAreAsShown`) do as their modules say |
| `stale_merge` | violated: `MergeKeepsMetadata` | finding 1 |
| `withdrawn_returns` | violated: `WithdrawnRowsNeedFreshEvidence` | finding 2 |
| `chats` | violated: `NothingIsPassedOver` | finding 3 |
| `wedged` | violated: `PagesAreConsumed` | finding 4 |
| `reverted_file` | violated: `MemoryFollowsFiles` | finding 5 |
| `reexport` | violated: `ImportedIsSharedOn` | finding 6 |

Deadlock is not checked where the bounds let a behaviour end: the edits of Consolidation are
bounded by `MaxVer` and its proposals are used up; jobs, promotions and evidence run out in
`dreams` and `wedged`, calls in `records`, `reexport` and `reverted_file`. It is checked in
`native`, `native_live` and `chats`, where another command or run may always begin.

Why the bounds are enough to be interesting. A circle of supersession needs two rows and two
batches; an undo that meets a later edit needs one of each; two decisions of one batch interfere
with two. A page boundary needs two rows of one table and a batch of one; a gap between bands
needs a row inserted while a band is open, one mutation and a second instant. A race of commands
needs two managers; a wrong signal needs a number that a stranger takes over from a daemon, at
the same tick; an orphan needs a second daemon started beside the first; a half-written record
needs one fault and its recovery a second. A ceiling is overshot by two callers who have both
looked; a restore loses something by being cut off and begun again; a number is given twice by a
store opened while a row is deleted. An import races with one other, and comes again a third time
after a failure. Callers of one kind are symmetric, as are daemons and process numbers; runs that
check liveness take no symmetry. In `records` the
first object is in the first of the two stores, and the first file differs from the second in one
way only (`FirstInA`, `FilesApart`): the rest is the same with the names changed. The theorems below
lift what they state from these bounds.

Findings, each a counterexample of a few steps.

1. An upsert that has read a row, and writes it after an apply or a patch committed, puts the
   old metadata back. The undo of that batch then retires the replacement and leaves the old
   row superseded.
2. Withdrawing a source invalidates only active rows. A row archived at that moment returns
   afterwards, by undo or patch rollback, with the withdrawn source as its evidence.
3. Imported chat turns are picked from a page of their own after records have taken part of the
   budget; the position of `visible_turns` then jumps down to the chat turn, past turns for
   which the run had no room.
4. The filter for what is already adopted looks without a repository, the apply stores with one.
   A window with two claims of one repository and room for one candidate applies the first again
   at every tick, and the cursor never moves.
5. A file that goes back to a content it was taken in with before is skipped, and the rows of
   the content in between stay.
6. A memory that arrives alone keeps the names of what was not sent with it, and lists them again
   when it is exported, also beside the memory they name: a file with both is refused.

Seen while modelling, and said in the modules rather than in a run: a row stored before the
frontier was read but stamped past the band's end is in no band (`dream.rs:1296`, `1656`;
`OnlyLateRowsAreMissed` excepts it); an upgrade of the container keeps the container, and so the
old image (`native_runtime.rs:437`, `699`); two processes that open one old store may fail each
other on a duplicate column; `backup verify` migrates the backup after its digest was taken
(`backup.rs:209`); rejected turns are told apart by session, place and code (`service.rs:650`);
`supersede_procedure` lets a procedure supersede itself or be superseded by an older one
(`store.rs:2771`; `SuccessorsAreNewer`); a search with a query ignores its offset
(`recall.rs:1372`); one conversation cannot be imported into a second profile; two git imports
at once store an episode twice, and one that is killed between episode and ledger leaves no
ledger row (`git_import.rs:242`); an exported item is known by its reference and the place of a trailer
in it (`git_import.rs:229`), so that an item which is given a trailer before the others loses the new
one for good and has the last of the old ones stored a second time (`PlacesAreTaken` says no more of
items than that their places are held); the cursor of a listing is an offset into rows ordered by
`updated_at` (`recall.rs:1372`, `store.rs:3912`), so that a row which nobody touches is shown twice
when another one is written between two pages, and passed over when another one is archived,
quarantined or deleted (the two exceptions of `PagesShowOnce`); a readiness answer names a database
and a scope and no process, so that a server of the same two which takes the address between the
trial and the child answers in the child's place (`native_runtime.rs:630`): strangers do so in
NativeLifecycle, and nothing is claimed of their answers; a replayed record the policy refuses holds the cursor; a
promotion killed between insert and archive leaves both rows in use (`service.rs:5245`); an undo
looks for what a batch superseded only among archived rows (`store.rs:1223`), so that a row which a
second rollback of an older patch has taken out of the archive is passed over while its replacement
is archived, where `docs/dreamer-consolidation.md:23` has an undo refuse what has changed.

Two more came out of proofs that did not go through. A memory may name as elsewhere what another one
is here, and then the two cannot be exported together (`validate_external_refs`,
`portable_bundle.rs:1799`); `SharedIsReadable` excepts it. `delete_records` (`store.rs:3745`) leaves
the links of other rows to what it deletes, so it is enough that an erased memory comes back in a
bundle under the name it had. It also happens without a name that came back: B exports a memory; A
takes it in, supersedes it and exports only the successor; B takes that in, changes it and exports
it; A erases its successor and takes B's in, and that names as elsewhere a memory A holds. And of
two overlapping `patch_apply` of one run the second passes the check of the run's id
(`service.rs:3257`) before the first has written, and `dream::run` reads again after it: it
supersedes rows the patch itself has created, and a rollback restores those too.
`RollbackUndoesApply` takes such a patch as disturbed (`IsOvertaken`).

**Fairness.** The scan's part of `DreamsFairness` assumes that the daemon's loop keeps ticking
(`server.rs:488`: weak fairness of a run's steps) and that a run which is begun again and again
is at last recorded (strong fairness of `Record`). The latter excludes an operator whose
`max_candidates` or runtime limit is hit at every tick: then the code keeps the cursor by design.
For ticks and jobs it assumes only that their steps are taken: the next store call is made, the
provider answers, fails or times out. Whatever an operator, a user or a fault may do is assumed
never to happen.

For the native runtime `FairSpec` assumes that a command runs on (weak fairness of its steps; the
waits have deadlines in the code, so a step is always there) and that `flock` serves its waiters
(strong fairness of `Acquire`). Nothing is assumed of daemons and strangers: they may never
acknowledge, answer or end.

**Slips.** A definition marked "Slip" is the one below it with a plausible mistake: a swapped
argument, one side of a link forgotten, a guard or a comparison dropped, a reset that does not
happen, a lookup that is too narrow or too wide, two steps in the other order. `PROJECT.json`
pairs each with the property that notices it.

## 4. The proofs

Eight modules, checked by `tlapm`. The assumptions are those named in the modules
(`ConstantsAssumption`, `NormAssumption`, `PayloadsAssumption`, `SeedAssumption`,
`NoRevAssumption`, `ScanAssumption`, `LifecycleAssumption`, `ContainersAssumption`,
`BackupAssumption`, `UpgradesAssumption`, `SyncImportAssumption`, `IntakeAssumption`,
`McpAssumption`, `ProceduresAssumption`, `SemanticsAssumption`, `DreamTicksAssumption`,
`DreamJobsAssumption`, `PromotionAssumption`, `PortableBundlesAssumption`, `ChatExportsAssumption`,
`ConversationsAssumption`, `GitAssumption`, `PccAssumption`, `ProducerAssumption`,
`PatchLifecycleAssumption`, `RecallAssumption`): bounds are numbers, null values are none of the
values they stand beside, normalising twice is normalising once, and a store starts with one row a
hash. TLC evaluates each of them in the runs. What they say beyond that:

* A caller remembers at least as many keys as a page has records: both numbers are 1024 in
  `pcc_import.rs:28` and `:32`. With fewer, a key is forgotten on the page it came with.
* Outside the code: the producer of captured sessions ends a stream with its one summary, and no two
  streams lead to one cursor; two exports of a conversation that have turns share one, since a
  conversation only grows.
* Finite, as they are in any store: callers of dream jobs and their costs (the bound of the ceiling
  counts them), rows of recall, subjects, cursors, the sources a text rests on. Of the other
  sets no size is assumed.

| theorem | property | for every |
|---|---|---|
| `ConsolidationProofs!TypeCorrect` | `TypeOK` | rows, claims, payloads, batches, writers |
| `ClaimsKeepTwoRowsAtMost` | `ClaimsHaveTwoRowsAtMost` | the same |
| `WithdrawalReachesProposals` | `NoAppliedProposalCitesWithdrawn` | the same |
| `ImplementsLedger` | `Ledger` (refinement of `ProposalLedger`) | the same |
| `SupersessionStaysMutual`, `SupersessionAlwaysEnds` | `SupersessionIsMutual`, `SupersessionEnds` | the same |
| `AppliesRejectChangedTargets`, `CommitsKeepTheirClaims`, `UndosPreserveLaterEdits`, `UndosTakeBackWholeSupersessions`, `ReactivationsAreSequenced` | the five action properties of Consolidation | the same |
| `SchedulerProofs!TypeCorrect` | `TypeOK` of the scheduler | rows, stages, runners, batch |
| `FinishedBandsAreCovered` | `OnlyLateRowsAreMissed` | the same, without imported chat turns |
| `BoundariesAreSelectedOnce` | `NothingIsSelectedTwice` | the same, chat turns too, one runner |
| `HostProofs!TypeCorrect` | `TypeOK` of the native runtime | managers, daemons, strangers, numbers, ticks, faults |
| `SignalsReachOwnDaemons` | `OnlyOwnDaemonsAreSignalled` | the same |
| `StoppedIsTrue` | `StoppedMeansNoneIsRecorded` | the same |
| `NoneIsLostByRaces` | `DaemonsAreAccountedFor` | the same |
| `UpIsTrue` | `UpTellsTheTruth` | the same; callers, databases and links, scopes, swaps |
| `NothingIsLostByRestores` | `RestoresLoseNothing` | commits, schemas, commands, kills |
| `OpeningsAreWhole` | `UpgradesAreWhole` | openers, sources, ages, failures |
| `HostIsTyped` | `HostTypeOK` | all of these |
| `CursorPassesWhatWasHandled` | `CoveredWasHandled` | tickers, claims, repositories, rows, limits, faults |
| `UndoneBatchesStayUndone` | `UndoneIsNotReplayed` | the same |
| `AnswersStayBounded` | `AnswersAreBounded` | callers, requests, costs, ceiling, hours, giving up; promoters, homes, answers, endpoints, limits, faults |
| `RefusedCostsAreKept` | `RefusedCostsStay` | the jobs of these |
| `DreamsAreTyped` | `DreamsTypeOK` | all of these |
| `FilesStayHeld` | `FilesAreHeld` | callers, files, chunks, edits, faults |
| `WritesStayTrue` | `WritesAreTrue` | clients, requests, topics, faults; lines, tools and versions of MCP |
| `CuratedStaysTrue` | `CuratedIsTrue` | callers, episodes, thresholds; curators, files, subjects, names |
| `ImportsStayKept` | `ImportsAreKept` | importers, exports, conversations, homes, crashes; commits, items, trailers, kills; cursors, streams, losses |
| `RollbacksUndo` | `RollbackUndoesApply` | reviewers, runs, facts, rules, failures |
| `PagesShowAll` | `PagesShowOnce` | rows, orders, limits of a page, writes between pages |
| `RecallStaysTrue` | `RecallIsTrue` | the same, pools, budgets, modes; subjects, relations, depths |
| `BundlesStayTrue` | `BundlesAreTrue` | stores, texts, sources, bundles, edits |
| `ImportsDoAsShown` | `ImportsAreAsShown` | the same |
| `RecordsAreTyped` | `RecordsTypeOK` | all of `records` |

So every property of a passing run is a theorem, but for the three that speak of liveness.

### Consolidation

* `TypeCorrect`: `TypeOK`, itself inductive, by one lemma per action.
* `ClaimsKeepTwoRowsAtMost`: the inductive form is `Keyed`, of the tables and of the view of an
  open apply: hashes are unique, and a row's hash is its claim or its claim's norm. The lookups
  outside the transaction do not matter: the UNIQUE index decides at the insert.
* `WithdrawalReachesProposals`: strengthened from applied to waiting proposals, and by
  `LockedIsValidated`: while an apply is open the write lock keeps the withdrawal out, so what
  it commits was not rejected meanwhile.
* `ImplementsLedger`: each action maps to a ledger step or a stutter; `CommitApply` needs
  `LockedIsValidated` too.
* `SupersessionStaysMutual` and `SupersessionAlwaysEnds`: neither is inductive. Both need that a
  current row is superseded by nobody, that what an undo reads back (or a stale upsert writes)
  is a current row's state, and that free ids supersede nothing, of tables and view alike
  (`Chained`). `Settles` says when a change of one row adds no link; the only step that adds
  links is `Replace`, whose new row is current and hence the end of its chain.
* The five action properties compare a step with what happened before it, and share the invariant
  `Revised`. Its first half, `ProposalsHold`, says of every revision that was frozen at
  persist or at apply that its row has had it, and that a row edited since has it no longer
  (`Frozen`, `Settled`); this holds because versions only grow (`Ages`), and because a deleted row
  never comes back under its id. The second half, `ViewHolds`, ties the uncommitted view to the
  tables row by row while an apply is open: only the open apply has changed a row the view changed,
  and each decision behind the current one has a row that keeps its claim and its evidence
  (`Kept`). An apply that finds a frozen revision has therefore found an untouched row, and an
  undo that finds its own revision restores or archives nothing anybody edited.

### Scheduler

* `TypeCorrect`: above all a run never takes more rows than its batch has room for. The inductive
  form `Typed` adds that rowids are given from the counter and in use once (`Numbered`), so that
  rows of equal time are ordered (`AheadIsOrder`) and a page of n rows has at most n
  (`PageHasRoom`, by growing the page from its front), and that only a run that reads has a stage
  left to read (`Staged`).
* `FinishedBandsAreCovered` (if no imported chat turns compete for the batch; with them positions
  pass rows over, finding 3). The invariant `Covered` says of every cursor, saved or held by a
  run, that rows behind it or passed by its positions were taken (`BehindTaken`, `PassedTaken`),
  and of every run that its window has no gaps (`Ordered`) and that a table it left room for is
  exhausted (`Exhaustive`). Each is stated of rows as they stand now, so the heart of it is
  `Steady`: a row that a writer touches either leaves the scan or carries a rowid or mutation
  sequence past everything any cursor has read. That is why several runners, restarts and
  abandoned runs do no harm: an older cursor that is saved over a newer one is still a sound
  cursor.
* `BoundariesAreSelectedOnce` (for one runner: two that begin from one saved cursor read the same
  band and both record it, as TLC shows with a second one; and until a row is deleted, since a
  position whose row is gone is rewound). `Once` says that what was selected and may still be
  selected is spent: behind a completed band, or claimed by the current one and passed in it
  (`SeenIsSpent`). For that a band opens behind the frontiers and the mutation counter the last one
  ended at (`BandIsOnward`), a position moves past all a full run took (`MovesOnward`), a changed
  record the band claims was there when it began (`ChangedAreClaimed`), and nothing was recorded
  since the run read the cursor (`Forward`). `Steady` again makes a touched row another version.

### Ticks, jobs, promotions

`DreamProofs` extends `MCDreams`: a behaviour of the dreams is one of each part
(`DreamsAreTheirParts`), and each part has an invariant of its own, inductive in every interleaving
of its actors: `TicksInv`, `JobsHold` with `CostsAreCovered`, and `PromotionInv`.

* `CursorPassesWhatWasHandled`: a tick's window begins at a cursor there has been and lies within the
  evidence there is (`InWindow`), so a tick that records moves the cursor from what was handled over
  what it handled, wherever other ticks have moved it meanwhile. With automatic adoption,
  `WillBeAdopted` says what it handled: the claims of the window that are not adopted yet are in
  the proposal it holds, unless there was no room for all of them, and then the cursor stays.
  That a row of the window leads to a candidate at all, one for each claim and the first ones if
  there is room (`CandidatesHaveRows`, `AllAreFirst`), is a fact about the model's operators. With
  a command provider, `WasSent` says that what is to be recorded was sent, or is one row that was
  too long (`BytesOfOne`). A batch that is undone afterwards takes nothing back: what was
  adopted once was handled.
* `UndoneBatchesStayUndone`: an owner changes to a batch only when that is applied for the
  first time, since `Applies` asks for its status in the same transaction.

* `RefusedCostsAreKept`: the row of a refused answer has an id made of the number of its request.
  `RequestsAreApart` says that no two requests under way have one number and that none has yet
  written under the ids it will use, so `INSERT OR REPLACE` replaces no such row.
* `AnswersStayBounded`, the ceiling: the plain bound on what is kept is not inductive, since every
  caller past its check may add an answer. `CostsAreCovered` counts what the callers have under way
  too: what was kept in the last day and what is about to be, together, exceed the ceiling by one
  answer for each caller but one. A caller whose answer passes the check finds what is on record
  plus its own cost within the ceiling, and each of the others has one answer under way at most;
  replacing a row, recording what is under way and the passing of time only take away. Sums over
  sets are the recursion of `MapThenSumSet`; that it has a solution, that the solution is the same
  in a larger set, and what adding and removing an element does (`SumsExist`, `SumsAgree`,
  `CostsAdd`, `CostWithOneMore`, `CostOfBoth`) is shown from a smallest counterexample, because the
  subsets of a finite set are well-founded.
* `AnswersStayBounded`, the promotions: `PromotionInv` says that a promoter about to retire rows has
  put the record in their place whose `supersedes` names them (`Replaces`), and that what a record
  names is older than it; so whatever is cut short, failed or withdrawn, a retired row has a later
  one of its home that names it. As long as nobody interferes, what is superseded is out or some
  promoter is about to take it out (`SupersededIsAwaited`). A candidate's evidence, the limit and
  the endpoint are facts about the operators of a preview (`AppendedFits`, `PreviewAnswerKeeps`).

### Native runtime

The first part of `HostProofs`.

* `TypeCorrect` and `SignalsReachOwnDaemons`. That the handle is a daemon when `Terminate` runs is
  not inductive: the handle is opened by number, and the marker is compared with whatever has that
  number later. The invariant `Sound` says that a number has one holder (`Distinct`), that a
  manager's handle once was under the number it read, and that past the marker check a handle that
  still lives is the marked daemon (`Fits`). `Aging` carries it over every step of everybody else:
  what lives keeps its number and tick, what has ended does not return. So the handle is to be
  taken first, as the comment in `inspect_inner` demands, and looked at last.
* `StoppedIsTrue`. The lock keeps the files as its holder read them (`Locked`: who writes holds
  it; `Knows`: what the holder read is what is there). An identity, in a file or in a manager's
  hands, stays true of its daemon while that lives (`Truthful`: from `Capture` on, since what
  lives keeps number, tick and boot). So each look that ends in "stopped" would have found a
  recorded live daemon (`RecordedIsFound`). The invariant of both is `Guarded`.
* `NoneIsLostByRaces`, and the native half of `UpIsTrue`. Both speak of behaviours without a crash,
  a reboot or a failed write, however many deadlines pass and whatever daemons and strangers do.
  Neither property is inductive; the invariant is `Orderly`: `Guarded`, and `Steady` as long as
  `faults` is 0. `Steady` says who may have a child (`Children`: the holder of the lock, between
  `Spawn` and the end of its command, and it is its handle), that a daemon that acknowledged or
  serves is a child or in the files (`NoneIsLost`), that the files disagree only between two
  writes of the holder (`FilesAgree`), that a PID file without an identity is older than any daemon
  (`FilesAreOld`), and place by place what the holder can rely on (`Kept`): the files are gone
  before a launch, nothing serves but the handle until the command is over, and a look that ends in
  "running" has the recorded daemon in its hands. The number that makes a command refuse is then a
  stranger's, since one number has one holder. A fault ends all this: what was spawned and not yet
  written down is an orphan, and the runtime says so by refusing.

### Containers, backups, upgrades

`HostProofs` extends `MCHost`; its other parts are about these three. The parts share no variable,
so a behaviour of the composition is one of each part's own specification (`HostIsEachPart`), and
what is proved of a part holds of the run.

* `UpIsTrue`, the container: `BoxInv` says of each call what its looks have told it (`Seen`),
  as long as nobody swaps containers behind its back, and that the managed server and another one
  do not both run. From that, whatever `Start` or `RunNew` starts is mounted as asked, and what
  `Wait` ends on runs for the database and the scope of its call.
* `NothingIsLostByRestores`: `BackupInv` follows the file through a restore. What is to be replaced
  has been copied, a restore that has replaced and not yet checked has the backup in place, and
  the journal beside the file belongs to it or is gone. A kill leaves each of these as it is.
* `OpeningsAreWhole`: the script of `migrate` runs in order and a statement finds what those before
  it made (`NeedsComeFirst`, `Sane`), whoever else is at the same store; an opener fails only of a
  column that another one added after the look (`crowded`). `NumbersInv` says that the counter is
  past every number given and every position scanned.
* `HostIsTyped`: from the types of the four parts.

### Records

`RecordsProofs` extends `MCRecords`, and `RecordsAreEachPart` says, as in `HostProofs`, that a
behaviour of the composition is one of each of its eleven parts. `ImportProofs`, `RecallProofs` and
`BundleProofs` extend it, each the one before.

* `FilesStayHeld`: `SyncInv` says of each run where it is in its file (`AtFile`) and what it has
  stored of it (`AtChunks`): a source that is known stands for rows of all its chunks, and a run
  that was alone with its file has seen every row of it, so that the rows it archives are the
  stale ones and no others. A second run at the same file makes the first one not alone, for good.
* `WritesStayTrue`, the endpoints: `WritesInv` says what each caller has behind it at each of its
  calls, so that a row is written only after the evidence it names, and what is in an answer
  has been stored by that request or was there. The MCP session: `McpInv` ties the phase of the
  connection to what has been answered on it (`SaidTruly`, `OneGreeting`).
* `CuratedStaysTrue`, the procedures: `LearnedInv` says that what a caller holds while it is about to
  insert is earned already, of episodes that are never changed, that a row which is not retired is
  active, so that the row the index puts in the way of a new one is one that recall returns, and
  that a row past the threshold is awaited: by a caller that has counted and not yet looked, or by
  the call after one that was cut off. Aliases and relations: `CuratedInv` says that what an
  import has left to write is of subjects of its realm. Subjects, names and relations are only
  added (`Adds`), so what a report says goes on being said (`SaidStays`), and what was said is
  found present by whoever comes later, which is why only one of two imports has written it.
* `RecordsAreTyped`: from the types of the eleven parts, most of which are in the invariants here; a
  procedure's sources are episodes (`ProceduresRefer`), and relations are of known subjects
  (`RelationsAreTied`).

In `ImportProofs`:

* `ImportsStayKept`, the chats: `ChatsInv` says of the committed book, and of the draft of each
  import, that sources and turns go together, that a turn has a session of its home, and that a
  session came with all turns of some export (`IsBook`). The two files are not in the
  transaction: as long as no two imports overlapped, the pending manifest is that of the one
  import on its way, and what a published one names is in the book (`ManifestInv`).
* The commits: `GitInv` says of each import that all before its place is taken (`ARun`). That
  a trailer is taken once (`OnceInv`) holds of imports that are never two at once, and the row whose
  ledger entry is missing is then the newest one of the import that is about to write it. What an import
  has found was said by its source, and no edition unsays it (`SaidInv`), so what it stores was said too.
* The replays: a line ends a file, is at fault, or holds back, takes in or sums up
  (`LineDoes`), and a stream read without fault was read as it is (`WellRead`). From where a caller
  stands one way leads back, since no two streams lead to one cursor; `PccInv` says that there is a
  set of cursors which nothing on the way back leaves, and that their streams are all read
  (`IsTheWay`). A replay adds its cursor to the set, and the property's walk back stays in it.
* `RollbacksUndo`: `IsSound`, of each patch that nobody has disturbed: what was in use is in use
  or archived by it, and what else is in use it created (`Stands`); an apply under way retires
  nothing the patch itself has created (`ApplyFits`); a rollback under way knows of all there is
  to undo (`UndoFits`). An id is that of a preview of certain rows, so that a row of the preview which
  is unchanged was not made by the patch (`Minted`).

In `RecallProofs`:

* `RecallStaysTrue`: five queries see five moments. `RecallInv` says that what was counted or taken
  so far is still so of the rows nobody has written since (`CountsStand`, `PoolStands`). That LIMIT
  returns the best, that two limits in a row return what one of their sum does (`Continues`), and that a
  fact is packed with all that outrank it, are lemmas about orders and first rows.
* `PagesShowAll`: the pages so far show each row that nobody has written if it comes before the cursor,
  unless a write took another row out, and show it at most once, and not if it comes after the cursor,
  unless a write brought another row to the front (`ShowsOnce`); on the last page nothing comes after
  (`ShowsAll`). What a write does to the others'
  places in the listing is `OthersShift`: it moves none of them, unless it brings a row in or to the
  front, up, and unless it takes one out, down.
* `Reached` against `Near`, a part of `RecallIsTrue`: `Reached` visits subjects in a queue and stops at
  a number of them, `Near` is a set by distance. `IsWalk` says of every prefix of the visits that the
  queue is in the order of distance and that what follows a visited subject is in it; so all that is
  nearer than what is to be visited has been seen (`NearerIsSeen`), nothing is found at a distance
  that is not its own, and what the limit leaves out is no nearer than what is in.

In `BundleProofs`, the invariant `BundlesInv`, of any number of stores:

* A store has one object for a key, links both ways, and what is not current was superseded
  (`StoreStands`). A name that an object ever had is this object's or nobody's, and a source never
  goes away (`KeyStands`); what came in under a reference is what some bundle carried under it
  (`OriginStands`). A bundle is as whole as a store (`HasOneOfEach`, `LinksAreWhole`). What a memory
  names as elsewhere, or is linked to, is or was a memory (`NamedIsMemory`), so it is no name of a
  source beside it.
* `BundlesStayTrue`: all but one of its parts are a look at the invariant. `SharedIsReadable` needs
  that no name is that of two objects of a store (`NoNameIsShared`), and then that each envelope of an
  export says of its object what the store does (`IsMemoryOf`).
* `ImportsDoAsShown`: what is created by an import is new and what it uses again was there
  (`IsAsPlanned`), since the transaction makes the plan again and compares it with the one shown.

### Only model-checked

Liveness: `WorkEnds` (`EveryRowIsSelected` and `JobsEnd`), `EvidenceIsCovered` and `CommandsEnd`. It
rests on fairness, whose rules need ENABLED, which the provers do not have. The six properties
of the findings are false.

## 5. Plan

What is left: liveness, once a prover has ENABLED, and hybrid retrieval, once it is more than a
score: it keeps no state today.

Not modelled, because no order of steps can break them: the write policy (a function of the text),
configuration, status and doctor (reads), export, evaluation and benchmarks (reports over a
snapshot), agent adapters (files written once), wording and scoring of answers, and the routing of
HTTP requests.
