SPECIFICATION FairSpec
CONSTANTS
    MaxCalls = 2
    MaxRetries = 2
    RecvTimeout = 1
    RetryBackoff = 1
    GlobalOverride = 4
INVARIANTS
    TypeOK
    AtMostOnce
    HonestOutcome
    KeptSocketIsClean
    OverrunBounded
PROPERTIES
    NoLateDeparture
    CallReturns
    ImplementsSubmission
CHECK_DEADLOCK FALSE
