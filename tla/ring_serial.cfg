CONSTANTS
    MaxId = 9
    Node = {0, 3, 5, 9}
    PingLimit = 3
    Calm = {"start", "leave", "crash"}
    Prompt = TRUE
    Losable = {"Ping", "PingAck"}
    MaxStarts = 5
    MaxLeaves = 3
    MaxCrashes = 0
    MaxLosses = 2
SPECIFICATION Spec
INVARIANTS
    TypeOK
    QuietRingIsClosed
PROPERTIES
    OnlyFailedAreReported
CHECK_DEADLOCK FALSE
