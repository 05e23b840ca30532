CONSTANTS
    v1 = v1
    v2 = v2
    s1 = s1
    s2 = s2
    NoName = NoName
    Vols = {v1}
    Snaps = {}
    SourceOf <- AllOfV1
    PVs <- OneByHandle
    VSCs <- NoVSCs
    InitUid <- NothingYet
    InitLast = 0
    RetainAcked = {}
    MaxUid = 2
    Grace = 1
    MaxReclaims = 2
    MaxAge = 1
    MinInterval = 0
    SweepInterval = 1
    Backlog = 1
    Attempts = 2
    Meddlers = {"driver", "operator"}
    MaxInterrupts = 1
SPECIFICATION Spec
INVARIANTS TypeOK ConfirmedUnreferenced
PROPERTIES KeepsTheRecord OnlyRequestedDeletions
