CONSTANTS
    n1 = n1
    n2 = n2
    a = a
    b = b
    c1 = c1
    Nodes = {n1, n2}
    LVGs = {a, b}
    Home <- OneEach
    LSCs = {c1}
    MaxChanges = 2
    MaxFaults = 1
SPECIFICATION FairSpec
INVARIANTS TypeOK MarkedIsManaged
PROPERTIES UsedKeepsLabel LabelsSettle
