CONSTANTS
    Timeout = 3
    MaxCalls = 5
SPECIFICATION Spec
CHECK_DEADLOCK FALSE
INVARIANTS Consistent ResolvedMeansRan
PROPERTIES Throttled EveryPromiseResolves
