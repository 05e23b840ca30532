CONSTANTS
    Extent = 2
    SourceSizes = {3, 6}
    Requests = {0, 3, 5}
    MaxUid = 2
    Limit = 2
SPECIFICATION FairSpec
INVARIANTS TypeOK ReadyIsLive ReportedSize RestoredIsNotEmpty
PROPERTIES DeletedIsReclaimed
CHECK_DEADLOCK FALSE
