SPECIFICATION Spec
CONSTANTS
    Count = 3
    Limit = 2
    MaxRuns = 2
INVARIANTS
    FinishedIsWhole
CHECK_DEADLOCK FALSE
