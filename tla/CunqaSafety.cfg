SPECIFICATION Spec
CONSTANTS
    Vqpus = {1, 2}
    Capacity <- Widest1
    Widths = {1, 2}
    Translatable = {plain}
    Exotic = {exotic}
    CpuLimit = 1
    Interrupts = FALSE
    MaxDeaths = 1
    MaxCircuits = 2
    MaxGates = 1
    MaxSamples = 2
INVARIANTS
    TypeOK
    FallbackHoldsCircuit
PROPERTIES
    ImplementsContract
CHECK_DEADLOCK FALSE
