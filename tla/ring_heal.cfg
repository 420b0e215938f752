CONSTANTS
    MaxId = 9
    Node = {0, 3, 5}
    PingLimit = 3
    Calm = {"start", "leave", "crash"}
    Prompt = TRUE
    Losable = {"Ping", "PingAck"}
    MaxStarts = 4
    MaxLeaves = 1
    MaxCrashes = 1
    MaxLosses = 1
SPECIFICATION FairSpec
PROPERTIES
    RingHeals
    CrashIsDetected
    OutcastsStop
CHECK_DEADLOCK FALSE
