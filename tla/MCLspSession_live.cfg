SPECIFICATION FairSpec
CONSTANTS
    Call = {c1}
    Uri = {u1}
    Initialize = Initialize
    Shutdown = Shutdown
    NoAsker = NoAsker
    MaxEvents = 2
PROPERTIES
    CallsReturn
    ServerRequestsAreReplied
CHECK_DEADLOCK FALSE
