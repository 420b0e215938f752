CONSTANTS
    a = a
    b = b
    c = c
    Node = {1, 2, 3}
    File = {a, b, c}
    Folders <- MCFolders
    Additions <- MCAdditions
    Lockable <- MCLockable
    Deletable <- MCDeletable
    Calm = {"start", "lock", "unlock", "add", "delete"}
    Overlap = {"lock", "unlock"}
    Losable = {}
    MaxCalls = 3
    MaxLosses = 0
SPECIFICATION FairSpec
INVARIANTS
    TypeOK
    LockIsExclusive
    HoldersAreKnown
PROPERTIES
    ListsAgree
    DeletionSticks
    GetIsAnswered
    CallsReturn
\* Agents whose write lock is never given back wait for ever.
CHECK_DEADLOCK FALSE
