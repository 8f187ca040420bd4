CONSTANTS
    MaxCalls = 3
    MaxPauses = 0
    Conditions = {c1, c2}
    MaxEdits = 3
    MaxRefreshes = 1
SPECIFICATION BreakpointSpec
CHECK_DEADLOCK FALSE
INVARIANTS BreakpointConsistent
PROPERTIES UpdateEnds
