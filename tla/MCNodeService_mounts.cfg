CONSTANTS
    t1 = t1
    t2 = t2
    c1 = c1
    c2 = c2
    Targets = {t1, t2}
    ReadOnly = {t2}
    Calls = {c1, c2}
    Late = FALSE
    MaxSize = 2
    MaxStack = 4
    MaxFaults = 2
SPECIFICATION FairSpec
INVARIANTS TypeOK NoStackedMounts AsAnswered SizeHonest
PROPERTIES NeverReformatted KeepsPromise UnmountedEventually PublishedEventually
CHECK_DEADLOCK FALSE
