CONSTANTS
    ip1 = ip1
    ip2 = ip2
    NoAddr = NoAddr
    MaxId = 3
    NodeId <- MCNodeId
    Addr = {ip1, ip2}
    Worker = {w1, w2}
    Disc = disc
    Requests <- StallRequests
    Arrivals <- CoreArrivals
    Dead = {}
    InitMap <- MCInitMap
    MaxCalls = 2
    MaxCrashes = 0
SPECIFICATION Spec
PROPERTIES
    OnlyDeadAreFailed
CHECK_DEADLOCK FALSE
