CONSTANTS
    Root = root
    Children = {child}
    Proxy = proxy
    Calls = {c1, c2, c3}
    LongPollingCalls = {c3}
    Scripts = {s1}
SPECIFICATION Spec
CHECK_DEADLOCK FALSE
INVARIANTS TypeOK InOnePlace CountCoversOutstanding
PROPERTIES ScriptsRunWhenQuiet ScriptsRunIfCountersExact ImplementsCallContract
