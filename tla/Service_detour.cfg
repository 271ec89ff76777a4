SPECIFICATION Spec
CONSTANTS
    MaxSignals = 1
    MaxFailures = 0
    Core <- MCCore
    FakeIds = {"12345"}
    Unknown = "unknown"
    Fare <- MCFare
    Master <- MCMaster
    Platform <- MCPlatform
    Name <- MCName
    Line <- MCLine
    Subway <- MCSubway
    Barred <- MCBarred
    Links <- MCLinks
    Passages = {}
    Footprints <- MCFootprints
    Trips <- MCTrips
    Station = "Q"
    ModelBound = TRUE
    NoNode = NoNode
    NoGraph = NoGraph
INVARIANT DetourAvoidsIncident
CHECK_DEADLOCK FALSE
