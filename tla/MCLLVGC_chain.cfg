CONSTANTS
    v1 = v1
    v2 = v2
    s1 = s1
    s2 = s2
    NoName = NoName
    Vols = {v1}
    Snaps = {s1, s2}
    SourceOf <- AllOfV1
    PVs <- NoPVs
    VSCs <- ContentOfS1
    InitUid <- NothingYet
    InitLast = 0
    RetainAcked = {v1}
    MaxUid = 2
    Grace = 0
    MaxReclaims = 2
    MaxAge = 1
    MinInterval = 0
    SweepInterval = 1
    Backlog = 1
    Attempts = 1
    Meddlers = {}
    MaxInterrupts = 0
SPECIFICATION Spec
INVARIANTS ConfirmedUnreferenced
