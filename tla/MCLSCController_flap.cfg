CONSTANTS
    g1 = g1
    g2 = g2
    p1 = p1
    p2 = p2
    wipe = wipe
    hot = hot
    cold = cold
    team = team
    None = None
    LVGs = {g1, g2}
    Pools = {p1, p2}
    Methods = {wipe}
    Labels = {team}
    LVGStates <- SecondJoins
    Specs <- OneWay
    LabelSets <- NoLabels
    Configs <- OnlyPlain
    Attempts = 2
    Lag = "short"
    Upgraded = {}
    Meddlers = {}
    MaxGen = 1
    MaxLives = 1
    MaxChanges = 2
    MaxRestarts = 0
SPECIFICATION FairSpec
PROPERTIES KeptInSync
CHECK_DEADLOCK FALSE
