SPECIFICATION DreamsSpec
CONSTANTS
    m1 = m1
    t1 = t1
    c1 = c1
    c2 = c2
    Rows = {m1, t1}
    TableOf <- MCTables
    Chats = {}
    Stages <- MCStages
    Runners = {d}
    Base = 1
    MaxBatch = 1
    MaxTime = 2
    MaxMut = 1
    NoPos = NoPos
    NoId = NoId
    Callers = {a, b}
    Jobs = {j}
    Inputs = {i1, i2}
    Kinds = {"dream", "provider"}
    Costs = {1, 2}
    MaxCost = 2
    Ceiling = 1
    MaxCalls = 2
    Day = 0
    MaxHours = 1
    MaxAsked = 2
    MaxLost = 1
    NoJob = NoJob
    NoRun = NoRun
    Tickers = {d}
    Claims = {c1, c2}
    Repos = {1}
    Arrivals <- MCArrivals
    NoClaim = NoClaim
    Unresolved = Unresolved
    MaxWindow = 2
    MaxCandidates = 1
    MaxBytes = 2
    MaxEvidence = 3
    MaxUndone = 1
    MaxFaults = 1
    k1 = k1
    k2 = k2
    k3 = k3
    h1 = h1
    h2 = h2
    e1 = e1
    e2 = e2
    e3 = e3
    Promoters = {p1, p2}
    Homes = {h1, h2}
    FirstStored <- MCFirst
    Answers <- MCAnswers
    Endpoints = {e1, e2, e3}
    OnHttps = {e1}
    OnThisHost = {e2}
    Configured <- MCConf
    Requested <- MCReq
    Unset = Unset
    MaxTaken = 2
    MaxRowsStored = 3
    MaxAnswers = 2
    MaxTroubles = 1
INVARIANTS
    TypeOK
    DreamsTypeOK
    OnlyLateRowsAreMissed
    AnswersAreBounded
    CoveredWasHandled
PROPERTIES
    NothingIsSelectedTwice
    WorkEnds
    RefusedCostsStay
    UndoneIsNotReplayed
    EvidenceIsCovered
CHECK_DEADLOCK FALSE
