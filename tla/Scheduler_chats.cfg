SPECIFICATION Spec
CONSTANTS
    m1 = m1
    t1 = t1
    t2 = t2
    t3 = t3
    Rows = {m1, t1, t2, t3}
    TableOf <- MCTables
    Chats = {t1}
    Stages <- MCStages
    Runners = {d}
    Base = 0
    MaxBatch = 3
    MaxTime = 1
    MaxMut = 0
    NoPos = NoPos
    NoId = NoId
INVARIANTS
    NothingIsPassedOver
