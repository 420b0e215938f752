CONSTANTS
    ip1 = ip1
    ip2 = ip2
    NoAddr = NoAddr
    MaxId = 3
    NodeId <- MCNodeId
    Addr = {ip1, ip2}
    Worker = {w1, w2}
    Disc = disc
    Requests <- AllRequests
    Arrivals <- CoreArrivals
    Dead = {2}
    InitMap <- MCInitMap
    MaxCalls = 3
    MaxCrashes = 1
SPECIFICATION Spec
SYMMETRY WorkersAlike
INVARIANTS
    TypeOK
    OfferIsTheRing
    StatusAgrees
    DiskFollowsMap
PROPERTIES
    ReadersSeeOneMap
    RestartKeepsMap
    ImplementsDirectory
CHECK_DEADLOCK FALSE
