\* Four nodes, of which one has no files, that join, leave, crash and come back,
\* and two files that users create, change and delete, one change at a time;
\* within a change the jobs, transfers and agents of all nodes overlap, and one
\* crash is reported twice.
CONSTANTS
    w = w
    x = x
    y = y
    z = z
    MaxId = 7
    Node = {1, 3, 5, 7}
    File = {w, x, y, z}
    Hash <- MCHash
    Local <- MCLocal
    Changeable <- MCChangeable
    CreateAlone = FALSE
    Calm = {"start", "leave", "crash", "create", "modify", "delete"}
    Prompt = TRUE
    MaxStarts = 5
    MaxLeaves = 2
    MaxCrashes = 2
    MaxRepeats = 1
    MaxEdits = 2
SPECIFICATION FairSpec
INVARIANTS
    TypeOK
    ReplicasInPlace
    NoStrays
    ReplicaSurvives
    AgentPassesOnce
PROPERTIES
    SettlesDown
CHECK_DEADLOCK FALSE
