SPECIFICATION RecordsSpec
CONSTANTS
    Parts = {"bundles", "files", "patches", "procedures", "recall", "intake", "chats", "semantics",
             "git", "replay", "sessions"}
    A = A
    B = B
    f1 = f1
    k1 = k1
    tx = tx
    ty = ty
    src = src
    fact1 = fact1
    fact2 = fact2
    fact3 = fact3
    p1 = p1
    p2 = p2
    s1 = s1
    s2 = s2
    u1 = u1
    u2 = u2
    b1 = b1
    b2 = b2
    b3 = b3
    b4 = b4
    owns = owns
    uses = uses
    Curators = {p1, p2}
    Beings = {b1, b2, b3, b4}
    RealmOf <- MCRealmOf
    KeyOf <- MCKeyOf
    FirstBeings = {b1, b2, b4}
    Aliases = {u1}
    SemanticFiles <- MCSemanticFiles
    Unnamed = Unnamed
    MostReached = 2
    MaxReads = 3
    MaxStopped = 1
    Instances = {A, B}
    Texts = {tx, ty}
    Sources = {src}
    RestsOn <- MCRestsOn
    Gone = Gone
    MaxIds = 4
    MaxBundles = 2
    MaxEdits = 1
    Syncs = {p1, p2}
    Files = {f1, f2}
    Chunks = {k1, k2}
    Nowhere = Nowhere
    MaxSyncs = 2
    MaxChanges = 1
    MaxBreaks = 1
    Reviewers = {p1, p2}
    Facts = {fact1, fact2, fact3}
    Rules <- MCRules
    FirstFacts = {fact1, fact3}
    Contested = {fact1}
    NoPatch = NoPatch
    MaxTurns = 1
    MaxDreams = 2
    Clerks = {p1, p2}
    Subjects = {s1, s2}
    Ways = {tx}
    Told <- MCTold
    FirstTold <- MCFirstTold
    Threshold = 2
    MaxEpisodes = 3
    MaxProcedures = 2
    MaxVersion = 2
    MaxCounts = 2
    MaxStops = 1
    Rows = {1, 2, 3, 4, 5}
    KindOf <- MCKinds
    FirstRows = {1, 2, 3, 4}
    Never = Never
    Now = 1
    Pool = 4
    Budget = 3
    MostFacts = 2
    PageLimit = 1
    MaxMoves = 2
    MaxRecalls = 1
    Clients = {p1, p2}
    Topics = {u1, u2}
    NoTopic = NoTopic
    Requests <- MCRequests
    MaxPosts = 3
    MaxStored = 3
    MaxBreakdowns = 1
    MaxForgets = 1
    Importers = {p1, p2}
    Homes = {s1, s2}
    Exports <- MCExports
    Selections <- MCSelections
    Legacy = Legacy
    Large = 2
    NoManifest = NoManifest
    MaxImports = 3
    MaxCrashes = 2
    GitImporters = {p1, p2}
    CommitBodies <- MCCommits
    ItemBodies <- MCItems
    MostScanned = 1
    MaxRuns = 3
    MaxKills = 1
    Streams <- MCStreams
    NoCursor = "none"
    MostLines = 7
    MostRecords = 3
    MostKeys = 3
    MaxFiles = 4
    MaxLost = 1
    Lines <- MCLines
    Modern = "2026-07-28"
    Older = {"2025-11-25", "2025-06-18"}
    NoVersion = "none"
    Nothing = "nothing"
    MaxLines = 4
SYMMETRY MCSymmetry
INVARIANTS
    RecordsTypeOK
    BundlesAreTrue
    FilesAreHeld
    CuratedIsTrue
    RecallIsTrue
    WritesAreTrue
    ImportsAreKept
PROPERTIES
    ImportsAreAsShown
    RollbackUndoesApply
    PagesShowOnce
CHECK_DEADLOCK FALSE
