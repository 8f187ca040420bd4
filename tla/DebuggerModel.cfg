CONSTANTS
    MaxCalls = 5
    MaxPauses = 2
SPECIFICATION Spec
CHECK_DEADLOCK FALSE
INVARIANTS Consistent PauseAgrees
