SPECIFICATION Spec
CONSTANTS
    r1 = r1
    r2 = r2
    n1 = n1
    n2 = n2
    c1 = c1
    c2 = c2
    c3 = c3
    c4 = c4
    s1 = s1
    s2 = s2
    Ids = {r1, n1}
    Claims = {c1, c3}
    Sources = {s1, s2}
    Batches = {b1, b2}
    Writers = {}
    Payloads <- MCChain
    Norm <- MCPlain
    Seed <- MCOne
    NoId = NoId
    NoClaim = NoClaim
    NoBatch = NoBatch
    NoRev = NoRev
    MaxVer = 3
PROPERTIES
    WithdrawnRowsNeedFreshEvidence
CHECK_DEADLOCK FALSE
