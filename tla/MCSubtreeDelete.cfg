CONSTANTS
    f = f
    a = a
    b = b
    d1 = d1
    d2 = d2
    top = top
    Folders <- OneFolder
    Sessions <- TwoSessions
    Ops <- TwoOps
    Top <- top
    InitialParent <- FolderAndSession
    MaxRevision = 1
    MaxBeside = 1
    MaxUpsets = 1
SPECIFICATION FairSpec
INVARIANTS
    DeletionInv
    UsersAreSafe
PROPERTIES
    MarkedCompletes
CHECK_DEADLOCK FALSE
