SPECIFICATION Spec
CONSTANTS
    NGu = 1
    Incident = {i}
    Dated = {i}
    User = {u, v}
    NoXY = NoXY
    None = None
    WipesGraph = TRUE
    ModelBound = TRUE
    MaxMsgs = 1
    MaxMoves = 1
    MaxFaults = 1
    MaxCrashes = 1
INVARIANTS TypeOK MarkedInHand FindsBounded
PROPERTIES BatchEnds
SYMMETRY UserSymmetry
CHECK_DEADLOCK FALSE
