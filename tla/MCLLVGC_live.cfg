CONSTANTS
    v1 = v1
    v2 = v2
    s1 = s1
    s2 = s2
    NoName = NoName
    Vols = {v1}
    Snaps = {s1, s2}
    SourceOf <- AllOfV1
    PVs <- NoPVs
    VSCs <- NoVSCs
    InitUid <- AllThere
    InitLast = 3
    RetainAcked = {}
    MaxUid = 3
    Grace = 0
    MaxReclaims = 1
    MaxAge = 0
    MinInterval = 1
    SweepInterval = 1
    Backlog = 1
    Attempts = 1
    Meddlers = {}
    MaxInterrupts = 0
SPECIFICATION FairSpec
PROPERTIES CompletePicture ReclaimedEventually
