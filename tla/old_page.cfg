CONSTANTS
    undefined = undefined
    Unknown = Unknown
    MaxId = 3
    Node = {1, 2}
    Limit = 2
    Calls = {1, 2, 3}
    MaxEvents = 3
SPECIFICATION FairSpec
INVARIANTS
    TableIsWhole
PROPERTIES
    TableShowsTheRing
