CONSTANTS
    g1 = g1
    g2 = g2
    LVGs = {g1, g2}
    Extent <- Extents
    Published <- PartlyKnown
    DefaultExtent = 4
    Binding = "Immediate"
    Preferred = g1
    LvmType = "Thick"
    Cleanup = TRUE
    Request = 3
    Requests = {5, 7}
    MaxFree = 8
    MaxUid = 1
    Limit = 3
SPECIFICATION Spec
PROPERTIES CleanedBeforeRemoval
CHECK_DEADLOCK FALSE
