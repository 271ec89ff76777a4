SPECIFICATION FairSpec
CONSTANTS
    NGu = 1
    Incident = {i}
    Dated = {i}
    User = {u}
    NoXY = NoXY
    None = None
    WipesGraph = FALSE
    ModelBound = TRUE
    MaxMsgs = 1
    MaxMoves = 0
    MaxFaults = 1
    MaxCrashes = 0
PROPERTIES FoundUserAlerted
CHECK_DEADLOCK FALSE
