SPECIFICATION Spec
CONSTANTS
    NGu = 2
    Incident = {i, j}
    Dated = {i, j}
    User = {u}
    NoXY = NoXY
    None = None
    WipesGraph = FALSE
    ModelBound = TRUE
    MaxMsgs = 2
    MaxMoves = 0
    MaxFaults = 0
    MaxCrashes = 0
INVARIANTS RouteLivesToItsEnd
CHECK_DEADLOCK FALSE
