CONSTANTS
    ip1 = ip1
    ip2 = ip2
    NoAddr = NoAddr
    MaxId = 3
    NodeId <- MCNodeId
    Addr = {ip1, ip2}
    Worker = {w1, w2}
    Disc = disc
    Requests <- LiveRequests
    Arrivals <- CoreArrivals
    Dead = {}
    InitMap <- MCInitMap
    MaxCalls = 3
    MaxCrashes = 0
SPECIFICATION FairSpec
INVARIANTS
    IdleHoldsNothing
PROPERTIES
    EveryRequestIsAnswered
CHECK_DEADLOCK FALSE
