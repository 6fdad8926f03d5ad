-------------------------------- MODULE Backup --------------------------------
(***************************************************************************)
(* Backup, verification and restore of a store (src/src/backup.rs), and    *)
(* the opening of stores they rest on (open and migrate in                 *)
(* src/src/store.rs).  An operator runs one command at a time; the daemon  *)
(* is started, stopped and killed around them, and not started while a     *)
(* restore runs, as restore_apply demands.  Binaries are upgraded.         *)
(*                                                                         *)
(* A file is known by its schema generation and the commits it holds; one  *)
(* written in part is not whole.  SQLite's journal (-wal) holds what the   *)
(* database would be with it; opened over another file than its own it may *)
(* make anything of it.  One place for backups, one target.  A removal of  *)
(* a sidecar that fails, which the code ignores, is left out.              *)
(* A definition marked "Slip" is the next one with a mistake in it.        *)
(***************************************************************************)
EXTENDS Integers, FiniteSets

CONSTANTS
    Missing,                                    \* no such file
    MaxCommits, MaxSchema, MaxCommands, MaxKills    \* bounds

ASSUME BackupAssumption ==
    /\ MaxCommits \in Nat /\ MaxSchema \in Nat \ {0} /\ MaxCommands \in Nat /\ MaxKills \in Nat

Data == SUBSET (1 .. MaxCommits)
Database == [schema: 1 .. MaxSchema, data: Data, whole: BOOLEAN]
Journal == [schema: 1 .. MaxSchema, data: Data, ours: BOOLEAN]

VARIABLES
    binary,         \* STORAGE_SCHEMA_VERSION of the binary installed
    live, journal,  \* the database and its -wal file
    serving,        \* the daemon runs
    backup, manifest,   \* the copy and the file its manifest describes
    priors,         \* the safety copies
    operator,       \* where the command under way is
    lastCommit, commands, kills,
    replaced        \* what the database held, without a journal, when a restore replaced it

backupVars == <<binary, live, journal, serving, backup, manifest, priors, operator,
                lastCommit, commands, kills, replaced>>

BackupInit ==
    /\ binary = 1 /\ live = [schema |-> 1, data |-> {}, whole |-> TRUE] /\ journal = Missing
    /\ serving = FALSE
    /\ backup = Missing /\ manifest = Missing /\ priors = {}
    /\ operator = "idle"
    /\ lastCommit = 0 /\ commands = 0 /\ kills = 0
    /\ replaced = {}

Torn(f) == IF f = Missing THEN [schema |-> 1, data |-> {}, whole |-> FALSE] ELSE [f EXCEPT !.whole = FALSE]

\* What may be found in the database when it is opened.
Openings ==
    IF journal = Missing \/ live = Missing THEN {live}
    ELSE IF journal.ours THEN {[live EXCEPT !.schema = journal.schema, !.data = journal.data]}
    ELSE {[live EXCEPT !.data = d] : d \in {live.data, journal.data}} \cup {Torn(live)}

\* Store::open replays every migration, and writes the version of the binary even over a
\* newer one.
Migrated(f) == [f EXCEPT !.schema = binary]

Usable(f) == f # Missing /\ f.whole
----------------------------------------------------------------------------
(* The daemon *)

Daemon == UNCHANGED <<binary, backup, manifest, priors, operator, commands, replaced>>

StartDaemon ==
    /\ ~serving /\ operator = "idle"
    /\ \E f \in Openings :
          /\ Usable(f)
          /\ journal' = [schema |-> binary, data |-> f.data, ours |-> TRUE]
    /\ serving' = TRUE
    /\ UNCHANGED <<live, lastCommit, kills>> /\ Daemon

CommitData ==
    /\ serving /\ lastCommit < MaxCommits
    /\ lastCommit' = lastCommit + 1
    /\ journal' = [journal EXCEPT !.data = @ \cup {lastCommit'}]
    /\ UNCHANGED <<live, serving, kills>> /\ Daemon

\* The last connection to close writes the journal back and removes it.
StopDaemon ==
    /\ serving /\ serving' = FALSE
    /\ live' \in Openings /\ journal' = Missing
    /\ UNCHANGED <<lastCommit, kills>> /\ Daemon

KillDaemon ==
    /\ serving /\ kills < MaxKills
    /\ serving' = FALSE /\ kills' = kills + 1
    /\ UNCHANGED <<live, journal, lastCommit>> /\ Daemon

InstallBinary ==
    /\ ~serving /\ operator = "idle" /\ binary < MaxSchema
    /\ binary' = binary + 1
    /\ UNCHANGED <<live, journal, serving, lastCommit, kills, backup, manifest, priors, operator, commands, replaced>>
----------------------------------------------------------------------------
(* Commands *)

Begins == operator = "idle" /\ commands < MaxCommands /\ commands' = commands + 1
OperatorActs == UNCHANGED <<binary, serving, lastCommit, kills>>

\* A command opens the database and closes it at its end; a daemon keeps it open.
OpensLive ==
    IF serving THEN UNCHANGED <<live, journal>>
    ELSE \E f \in Openings : Usable(f) /\ live' = Migrated(f) /\ journal' = Missing

\* backup create: the copy, over whatever is there ...
StartBackup ==
    /\ Begins /\ OpensLive
    /\ backup' = Torn(backup)
    /\ operator' = "copy"
    /\ OperatorActs /\ UNCHANGED <<manifest, priors, replaced>>

CopyBackup ==
    /\ operator = "copy"
    /\ backup' \in Openings
    /\ operator' = "manifest"
    /\ OperatorActs /\ UNCHANGED <<live, journal, commands, manifest, priors, replaced>>

\* ... and then the manifest.
WriteManifest ==
    /\ operator = "manifest"
    /\ manifest' = backup
    /\ operator' = "idle"
    /\ OperatorActs /\ UNCHANGED <<live, journal, commands, backup, priors, replaced>>

\* verify_backup: the manifest states the version of the binary that wrote it twice.
IsGood == Usable(backup) /\ manifest = backup

\* The backup is opened, thus migrated, after its digest was taken.
OpensBackup == backup' = IF Usable(backup) THEN Migrated(backup) ELSE backup

VerifyBackup ==
    /\ Begins /\ manifest # Missing
    /\ OpensBackup
    /\ OperatorActs /\ UNCHANGED <<live, journal, operator, manifest, priors, replaced>>

\* restore_preview verifies, and opens the target to count its rows.
PreviewRestore ==
    /\ Begins /\ manifest # Missing
    /\ OpensBackup
    /\ IF live = Missing THEN UNCHANGED <<live, journal>> ELSE OpensLive
    /\ OperatorActs /\ UNCHANGED <<operator, manifest, priors, replaced>>

\* restore_apply verifies, ...
StartRestore ==
    /\ Begins /\ ~serving /\ manifest # Missing
    /\ OpensBackup
    /\ operator' = IF IsGood THEN "safety" ELSE "idle"
    /\ OperatorActs /\ UNCHANGED <<live, journal, manifest, priors, replaced>>

\* Slip: the safety copies have one name.
PriorsOver == {live}

\* ... copies the target, the main file alone, under a name of its own, ...
Priors == IF live = Missing THEN priors ELSE priors \cup {live}

CopyTarget ==
    /\ operator = "safety"
    /\ priors' = Priors
    /\ operator' = "replace"
    /\ OperatorActs /\ UNCHANGED <<live, journal, commands, backup, manifest, replaced>>

\* ... writes the backup over it in place, ...
Disowned == IF journal = Missing THEN Missing ELSE [journal EXCEPT !.ours = FALSE]

StartReplace ==
    /\ operator = "replace"
    /\ live' = Torn(live)
    /\ replaced' = IF journal = Missing /\ Usable(live) THEN replaced \cup {live.data} ELSE replaced
    /\ journal' = Disowned
    /\ operator' = "replacing"
    /\ OperatorActs /\ UNCHANGED <<commands, backup, manifest, priors>>

ReplaceTarget ==
    /\ operator = "replacing"
    /\ live' = backup
    /\ operator' = "sidecars"
    /\ OperatorActs /\ UNCHANGED <<journal, commands, backup, manifest, priors, replaced>>

\* Slip: the journal of the former target stays.
JournalKept == journal

\* ... removes the sidecars, ...
JournalLeft == Missing

RemoveSidecars ==
    /\ operator = "sidecars"
    /\ journal' = JournalLeft
    /\ operator' = "check"
    /\ OperatorActs /\ UNCHANGED <<live, commands, backup, manifest, priors, replaced>>

\* ... and opens what is there now.
CheckTarget ==
    /\ operator = "check"
    /\ \E f \in Openings :
          IF Usable(f) THEN /\ live' = Migrated(f) /\ journal' = Missing
                            /\ operator' = "restored"
          ELSE operator' = "idle" /\ UNCHANGED <<live, journal>>
    /\ OperatorActs /\ UNCHANGED <<commands, backup, manifest, priors, replaced>>

EndCommand ==
    /\ operator = "restored"
    /\ operator' = "idle"
    /\ OperatorActs /\ UNCHANGED <<live, journal, commands, backup, manifest, priors, replaced>>

\* A command dies anywhere; the manifest, too, may be cut off.
KillCommand ==
    /\ operator \notin {"idle", "restored"} /\ kills < MaxKills
    /\ kills' = kills + 1
    /\ operator' = "idle"
    /\ manifest' \in IF operator = "manifest" THEN {manifest, Missing} ELSE {manifest}
    /\ UNCHANGED <<binary, live, journal, serving, backup, priors, lastCommit, commands, replaced>>

BackupNext ==
    \/ StartDaemon \/ CommitData \/ StopDaemon \/ KillDaemon \/ InstallBinary
    \/ StartBackup \/ CopyBackup \/ WriteManifest \/ VerifyBackup \/ PreviewRestore
    \/ StartRestore \/ CopyTarget \/ StartReplace \/ ReplaceTarget \/ RemoveSidecars \/ CheckTarget
    \/ EndCommand \/ KillCommand

BackupSpec == BackupInit /\ [][BackupNext]_backupVars
----------------------------------------------------------------------------
(* What backup and restore promise (src/src/backup.rs, tests/backup_restore.rs). *)

\* The files and the command under way stay within their types.
BackupTypeOK ==
    /\ binary \in 1 .. MaxSchema
    /\ live \in Database /\ journal \in Journal \cup {Missing}
    /\ backup \in Database \cup {Missing} /\ manifest \in Database \cup {Missing}
    /\ priors \subseteq Database
    /\ operator \in {"idle", "copy", "manifest", "safety", "replace", "replacing", "sidecars",
                     "check", "restored"}
    /\ replaced \subseteq Data

\* However often restores are cut off and begun again, each database that was closed in
\* order and that a restore wrote over is still there whole, as a safety copy; and a restore
\* that ends well leaves what was verified, whatever journal the former database had left.
RestoresLoseNothing ==
    /\ \A d \in replaced : \E f \in priors : f.whole /\ f.data = d
    /\ operator = "restored" => live.whole /\ journal = Missing /\ live.data = backup.data
=============================================================================
