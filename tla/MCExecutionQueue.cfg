CONSTANTS
    j1 = j1
    j2 = j2
    a = a
    b = b
    NoOwner = NoOwner
    NoJob = NoJob
    Jobs <- MCJobs
    Owners <- MCOwners
    MaxGeneration = 2
SPECIFICATION Spec
SYMMETRY Symmetry
INVARIANTS
    QueueInv
PROPERTIES
    OutcomeFinal
    StartsInOrder
    ImplementsThreadQueue
CHECK_DEADLOCK FALSE
