SPECIFICATION FairSpec
CONSTANTS
    Count = 3
    Limit = 2
    MaxRuns = 3
INVARIANTS
    TypeOK
    OneLanePerModule
    FinishedIsSettled
PROPERTIES
    DocumentsStay
    RunEnds
CHECK_DEADLOCK FALSE
