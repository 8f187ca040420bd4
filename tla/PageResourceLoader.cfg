CONSTANTS
    l1 = l1
    l2 = l2
    l3 = l3
    l4 = l4
    k1 = k1
    k2 = k2
    Loads <- MCLoads
    Keys <- MCKeys
    KeyOf <- MCKeyOf
    MaxConcurrentLoads = 2
    NoLoad = NoLoad
SPECIFICATION Spec
CHECK_DEADLOCK FALSE
INVARIANTS TypeOK AccountsBalance WaitsOnlyWhenFull RespectedUnlessCrossed
PROPERTIES OutcomeIsFinal EveryLoadEnds
