CONSTANTS
    null = null
    undefined = undefined
    MaxId = 3
    Node = {1, 2}
    Holds <- TwoHold
    HashOf <- HashOfDocs
    Limit = 2
    Calls = {1, 2, 3, 4}
    MaxEvents = 3
SPECIFICATION FairSpec
INVARIANTS
    TypeOK
    KnowsTheMapping
    RequestsBounded
    ScreenIsCurrent
PROPERTIES
    ShowsTheRing
