CONSTANTS
    g1 = g1
    g2 = g2
    p1 = p1
    p2 = p2
    wipe = wipe
    hot = hot
    cold = cold
    team = team
    None = None
    LVGs = {g1, g2}
    Pools = {p1, p2}
    Methods = {wipe}
    Labels = {team}
    LVGStates <- Regrouped
    Specs <- ThinOrNamed
    LabelSets <- TeamOrNot
    Configs <- AllConfigs
    Attempts = 1
    Lag = "none"
    Upgraded = {}
    Meddlers = {"foreign"}
    MaxGen = 1
    MaxLives = 1
    MaxChanges = 1
    MaxRestarts = 1
SPECIFICATION FairSpec
PROPERTIES KeptInSync NothingLeftBehind
CHECK_DEADLOCK FALSE
