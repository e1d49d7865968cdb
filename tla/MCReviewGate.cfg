SPECIFICATION FairSpec
CONSTANTS
    Call = {c1, c2}
    FailOpen = TRUE
    MaxSessions = 2
INVARIANTS
    TypeOK
    NoReviewOfReview
    RunsAreCleared
PROPERTIES
    ImplementsGatedCall
    HookReturns
CHECK_DEADLOCK FALSE
