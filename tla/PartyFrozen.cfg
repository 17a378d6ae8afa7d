CONSTANTS
    MaxLine = 3
    MaxForget = 1
SPECIFICATION Spec
PROPERTY Republished
CHECK_DEADLOCK FALSE
