CONSTANTS
    v1 = v1
    v2 = v2
    s1 = s1
    s2 = s2
    NoName = NoName
    Vols = {v1, v2}
    Snaps = {}
    SourceOf <- AllOfV1
    PVs <- NoPVs
    VSCs <- NoVSCs
    InitUid <- NothingYet
    InitLast = 0
    RetainAcked = {}
    MaxUid = 2
    Grace = 3
    MaxReclaims = 2
    MaxAge = 1
    MinInterval = 1
    SweepInterval = 4
    Backlog = 1
    Attempts = 1
    Meddlers = {}
    MaxInterrupts = 1
SPECIFICATION Spec
INVARIANTS WakesWhenDue
SYMMETRY Twins
