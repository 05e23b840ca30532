CONSTANTS
    g1 = g1
    g2 = g2
    p1 = p1
    p2 = p2
    wipe = wipe
    hot = hot
    cold = cold
    team = team
    None = None
    LVGs = {g1, g2}
    Pools = {p1, p2}
    Methods = {wipe}
    Labels = {team}
    LVGStates <- OnlyOneHot
    Specs <- TwoWays
    LabelSets <- NoLabels
    Configs <- OnlyPlain
    Attempts = 2
    Lag = "short"
    Upgraded <- LeftByOldRelease
    Meddlers = {"holder"}
    MaxGen = 2
    MaxLives = 1
    MaxChanges = 0
    MaxRestarts = 0
SPECIFICATION FairSpec
INVARIANTS TypeOK
PROPERTIES VerdictMatchesSpec GenerationObserved DeletionCompletes GaugeSettles
CHECK_DEADLOCK FALSE
