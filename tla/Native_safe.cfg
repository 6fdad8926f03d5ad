SPECIFICATION HostSpec
CONSTANTS
    Managers = {m1, m2}
    Commands <- MCCommands
    Daemons = {d1, d2}
    Strangers = {s1}
    Pids = {p1, p2}
    Ticks = {t1}
    MaxBoot = 1
    MaxFaults = 2
    None = None
    m1 = m1
    m2 = m2
    dir1 = dir1
    dir2 = dir2
    file1 = file1
    file2 = file2
    scope1 = scope1
    scope2 = scope2
    Callers = {m1, m2}
    Places = {dir1, dir2}
    Names = {file1, file2}
    LinkOf <- MCLinkOf
    Scopes = {scope1, scope2}
    Settings <- MCSettings
    NoServer = NoServer
    MaxSwaps = 1
    Missing = Missing
    MaxCommits = 2
    MaxSchema = 2
    MaxCommands = 3
    MaxKills = 2
    Openers = {m1, m2}
    Sources = {row1, row2}
    Ages = {0, 4, 14}
    MaxInserts = 3
    MaxFailures = 1
SYMMETRY MCSymmetry
INVARIANTS
    TypeOK
    StoppedMeansNoneIsRecorded
    DaemonsAreAccountedFor
    HostTypeOK
    RestoresLoseNothing
    UpgradesAreWhole
PROPERTIES
    OnlyOwnDaemonsAreSignalled
    UpTellsTheTruth
