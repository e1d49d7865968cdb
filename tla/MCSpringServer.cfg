SPECIFICATION SpringFairSpec
CONSTANTS
    Call = {c1, c2}
    MaxClients = 3
INVARIANTS
    TypeOK
    OneStartAtATime
    FailedStartIsForgotten
    CallsShareAReadyClient
PROPERTIES
    ReadyClientIsKept
    CallsReturn
    SigtermIsObeyed
    ImplementsClientLife
    CutIsOnlyInherited
    NeverUnderARunningServer
CHECK_DEADLOCK FALSE
