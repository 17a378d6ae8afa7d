CONSTANTS
    Rows = 3
    PageSize = 2
    MaxRestart = 1
SPECIFICATION Spec
INVARIANT MarkIsComplete
CHECK_DEADLOCK FALSE
