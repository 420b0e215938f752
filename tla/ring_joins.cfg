CONSTANTS
    MaxId = 9
    Node = {0, 3, 5}
    PingLimit = 3
    Calm = {}
    Prompt = TRUE
    Losable = {"Discovery"}
    MaxStarts = 3
    MaxLeaves = 0
    MaxCrashes = 0
    MaxLosses = 1
SPECIFICATION FairSpec
PROPERTIES
    RingHeals
CHECK_DEADLOCK FALSE
