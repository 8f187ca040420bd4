CONSTANTS
    c1 = c1
    c2 = c2
    c3 = c3
    c4 = c4
    i1 = i1
    i2 = i2
    p1 = p1
    p2 = p2
    Clients <- MCClients
    Ids <- MCIds
    Pages <- MCPages
    Resolve <- MCResolve
    NoId = NoId
    MaxLoads = 2
SPECIFICATION Spec
CHECK_DEADLOCK FALSE
INVARIANTS Consistent NoStaleClient EventsTellTheTruth
PROPERTIES WaitEnds
