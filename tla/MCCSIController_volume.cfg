CONSTANTS
    g1 = g1
    g2 = g2
    LVGs = {g1, g2}
    Extent <- Extents
    Published <- PartlyKnown
    DefaultExtent = 4
    Binding = "Immediate"
    Preferred = g1
    LvmType = "Thick"
    Cleanup = TRUE
    Request = 3
    Requests = {5}
    MaxFree = 8
    MaxUid = 2
    Limit = 2
SPECIFICATION FairSpec
INVARIANTS TypeOK DeletedIsReleased BoundIsLive CapacityHonest
CHECK_DEADLOCK FALSE
PROPERTIES ReleasedIsReclaimed
