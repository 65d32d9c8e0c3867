SPECIFICATION Spec
CONSTANTS
    MaxRestarts = 2
    MaxIterations = 3
    Finite = {0, 1}
    Tolerance = 1
    GradientBatch = 3
INVARIANTS
    TypeOK
    ResultOfOnePoint
    StopsAtFirstPlateau
    BestIsLowest
CHECK_DEADLOCK FALSE
