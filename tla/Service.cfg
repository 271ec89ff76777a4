SPECIFICATION FairSpec
CONSTANTS
    MaxSignals = 2
    MaxFailures = 1
    Core <- MCCore
    FakeIds = {"12345"}
    Unknown = "unknown"
    Fare <- MCFare
    Master <- MCMaster
    Platform <- MCPlatform
    Name <- MCName
    Line <- MCLine
    Subway <- MCSubway
    Barred <- MCBarred
    Links <- MCLinks
    Passages = {}
    Footprints <- MCFootprints
    Trips <- MCTrips
    Station = "Q"
    ModelBound = TRUE
    NoNode = NoNode
    NoGraph = NoGraph
INVARIANTS TypeOK WorkersReady OneSnapshot ServerClosesAll MinutesConserved RoutesConnected RoutesDiffer RidesShown FareFits FirstAvoids
PROPERTIES StopsOnSignal
CHECK_DEADLOCK FALSE
