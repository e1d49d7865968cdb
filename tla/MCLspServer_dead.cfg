SPECIFICATION CallingSpec
CONSTANTS
    Call = {c1}
    MaxClients = 2
PROPERTIES
    DeadClientIsReplaced
CHECK_DEADLOCK FALSE
