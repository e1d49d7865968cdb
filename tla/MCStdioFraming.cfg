SPECIFICATION Spec
CONSTANTS
    Message <- MCMessage
    Other <- MCOther
    MaxItems = 3
INVARIANT EveryMessageOnce
CHECK_DEADLOCK FALSE
