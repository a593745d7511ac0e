CONSTANTS
    r1 = r1
    r2 = r2
    t1 = t1
    t2 = t2
    c1 = c1
    c2 = c2
    p1 = p1
    p2 = p2
    Requests <- TwoRequests
    Thread <- TwoThreads
    Order <- ThreadOrder
    Clients <- TwoClients
    Policies <- TwoPolicies
    MaxChanges = 3
    MaxLists = 4
    MaxUpdates = 2
    MaxStarts = 1
SPECIFICATION PolicySpec
SYMMETRY Symmetry
INVARIANTS
    PolicyInv
PROPERTIES
    UpdateIsFresh
CHECK_DEADLOCK FALSE
