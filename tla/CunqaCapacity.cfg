SPECIFICATION FairSpec
CONSTANTS
    Vqpus = {1, 2}
    Capacity <- Widest1
    Widths = {1, 2}
    Translatable = {plain}
    Exotic = {}
    CpuLimit = 1
    Interrupts = FALSE
    MaxDeaths = 0
    MaxCircuits = 2
    MaxGates = 1
    MaxSamples = 2
INVARIANTS
    FitsVqpu
CHECK_DEADLOCK FALSE
