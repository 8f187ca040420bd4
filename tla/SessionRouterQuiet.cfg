CONSTANTS
    Root = root
    Children = {child}
    Proxy = proxy
    Calls = {c1, c2}
    LongPollingCalls = {c2}
    Scripts = {s1}
SPECIFICATION Spec
CHECK_DEADLOCK FALSE

PROPERTIES ScriptsRunOnceQuiet
