CONSTANTS
    a = a
    b = b
    c = c
    Node = {1, 2, 3}
    File = {a}
    Folders <- SameFolders
    Additions <- Nothing
    Lockable <- SameLockable
    Deletable <- Nothing
    Calm = {"start"}
    Overlap = {"lock", "unlock", "delete"}
    Losable = {"lock", "unlock"}
    MaxCalls = 2
    MaxLosses = 1
SPECIFICATION FairSpec
PROPERTIES
    LocksAgree
