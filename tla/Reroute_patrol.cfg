SPECIFICATION FairSpec
CONSTANTS
    NGu = 2
    Incident = {i}
    Dated = {i}
    User = {u}
    NoXY = NoXY
    None = None
    WipesGraph = FALSE
    ModelBound = TRUE
    MaxMsgs = 1
    MaxMoves = 1
    MaxFaults = 1
    MaxCrashes = 1
PROPERTIES NearUserAlerted
CHECK_DEADLOCK FALSE
