SPECIFICATION Spec
CONSTANTS
    NGu = 2
    Incident = {i, j}
    Dated = {i}
    User = {u}
    NoXY = NoXY
    None = None
    WipesGraph = FALSE
    ModelBound = TRUE
    MaxMsgs = 2
    MaxMoves = 0
    MaxFaults = 1
    MaxCrashes = 1
INVARIANTS AlertBeforeRoute LifetimePending
PROPERTIES Notified
CHECK_DEADLOCK FALSE
