CONSTANTS
    s1 = s1
    s2 = s2
    c1 = c1
    c2 = c2
    NoClient = NoClient
    Sessions <- TwoSessions
    Clients <- TwoClients
    MaxDepth = 2
    MaxLateCancels = 1
SPECIFICATION FairSpec
INVARIANTS
    AdmissionInv
    DeletedStaysEmpty
    SleepHasCause
PROPERTIES
    DeletionEnds
