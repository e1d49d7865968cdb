SPECIFICATION Spec
CONSTANTS
    Call = {c1, c2}
    Uri = {u1}
    Initialize = Initialize
    Shutdown = Shutdown
    NoAsker = NoAsker
    MaxEvents = 1
SYMMETRY Symmetry
INVARIANTS
    TypeOK
    DeadMeansNothingPending
    UnsettledIsPending
    AnswersReachTheirAsker
    DocumentsInOrder
    QueriesSeeFreshText
PROPERTIES
    CrashHasCause
    ImplementsRequestTable
    ImplementsClientLife
CHECK_DEADLOCK FALSE
