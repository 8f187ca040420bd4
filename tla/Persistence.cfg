CONSTANTS
    v0 = v0
    v1 = v1
    e = e
    Contents = {v0, v1, e}
    Original = v0
    Empty = e
    MaxEvents = 3
    MaxAttempts = 2
SPECIFICATION Spec
CHECK_DEADLOCK FALSE
INVARIANTS Consistent DiskFollowed ModifiedIsTrue BoundFilesAgree
PROPERTIES UnsavedIsKept FileSettles
