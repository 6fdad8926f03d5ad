-------------------------------- MODULE MCHost --------------------------------
(* What happens on one machine: the managed daemon and the managed container, *)
(* backups and restores, and the opening of stores of any age; each on its    *)
(* own instance.  The models share no state, so a behaviour is that of one of *)
(* them, chosen at the start.                                                 *)
EXTENDS NativeProperties, Containers, Backup, Upgrades, TLC

CONSTANTS m1, m2, dir1, dir2, file1, file2, scope1, scope2

VARIABLE part

MCCommands == {"up", "down", "restart", "status"}

\* Two databases of one name and one of another, which is a link to the first.
MCLinkOf ==
    [d \in Stores |-> IF d = [place |-> dir2, name |-> file2] THEN [place |-> dir1, name |-> file1] ELSE d]
Asks(place, name, scope) == [db |-> [place |-> place, name |-> name], scope |-> scope]
MCSettings == {Asks(dir1, file1, scope1), Asks(dir2, file1, scope1), Asks(dir2, file2, scope2)}

\* Two managers, callers, process numbers or daemons can change places: nothing tells them apart.
MCSymmetry == Permutations(Managers) \cup Permutations(Daemons) \cup Permutations(Pids) \cup Permutations(Ticks)

HostInit ==
    /\ part \in {"daemon", "container", "backup", "upgrade"}
    /\ Init /\ ContainersInit /\ BackupInit /\ UpgradesInit
    /\ part # "daemon" => pidfile = None /\ identity = None
    /\ part # "container" => stored = [d \in Stores |-> {}]
    /\ part # "upgrade" => file = {}

Still(name, v) == part # name => UNCHANGED v

HostNext ==
    /\ UNCHANGED part
    /\ Still("daemon", vars) /\ Still("container", boxVars) /\ Still("backup", backupVars)
    /\ Still("upgrade", upgradeVars)
    /\ \/ part = "daemon" /\ Next
       \/ part = "container" /\ ContainersNext
       \/ part = "backup" /\ BackupNext
       \/ part = "upgrade" /\ UpgradesNext
       \/ part # "daemon" /\ UNCHANGED <<boxVars, backupVars, upgradeVars>>   \* their bounds end

\* Files, calls and rows have the types declared for them, in the part that runs.
HostTypeOK ==
    CASE part = "daemon" -> TypeOK
      [] part = "container" -> ContainersTypeOK
      [] part = "backup" -> BackupTypeOK
      [] part = "upgrade" -> UpgradesTypeOK

\* A command that says it is up has brought up what it was asked for, as a process or as a container.
UpTellsTheTruth == [][OnlyTheAskedIsStarted /\ UpIsUpForTheAsked]_boxVars /\ UpAnswersForOurs

HostSpec == HostInit /\ [][HostNext]_<<part, vars, boxVars, backupVars, upgradeVars>>
=============================================================================
