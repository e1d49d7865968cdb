SPECIFICATION FairSpec
CONSTANTS
    SqlRequest = {q1, q2}
    LogRequest = {l1}
    Nobody = Nobody
INVARIANTS
    OnlyRowsAreThrown
    SessionsEndWithTheirCalls
    LocksEndWithTheirStatements
PROPERTIES
    ImplementsReportedQuery
    AcceptedIsAnswered
CHECK_DEADLOCK FALSE
