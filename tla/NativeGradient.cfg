SPECIFICATION Spec
CONSTANTS
    Gates <- SomeGates
    MaxOps = 3
    MaxParams = 2
INVARIANTS
    TypeOK
    AgreesWithBind
    GradientIsExact
    PendingWorkIsSafe
    FreedOnExit
CHECK_DEADLOCK FALSE
