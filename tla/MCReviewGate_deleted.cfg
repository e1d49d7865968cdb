SPECIFICATION WorkingSpec
CONSTANTS
    Call = {c1}
    FailOpen = TRUE
    MaxSessions = 2
PROPERTIES
    DeletedSessionIsReplaced
CHECK_DEADLOCK FALSE
