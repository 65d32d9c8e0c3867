SPECIFICATION BSpec
CONSTANTS
    MaxCalls = 2
    MaxRetries = 2
    RecvTimeout = 1
    RetryBackoff = 5
    GlobalOverride <- Unset
    Widths = {1, 2}
    Gates = {x, u}
    Exotic = {u}
    CpuLimit = 1
    Environments <- TwoEnvironments
    MaxCircuits = 2
    MaxGates = 1
INVARIANTS
    BTypeOK
    NoSilentSimulation
    WithinGlobalTimeout
    DefaultNeverFires
PROPERTIES
    ImplementsContract
CHECK_DEADLOCK FALSE
