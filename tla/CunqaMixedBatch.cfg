SPECIFICATION FairSpec
CONSTANTS
    Vqpus = {1, 2}
    Capacity <- Wide
    Widths = {1, 2}
    Translatable = {plain}
    Exotic = {}
    CpuLimit = 1
    Interrupts = FALSE
    MaxDeaths = 1
    MaxCircuits = 3
    MaxGates = 1
    MaxSamples = 2
INVARIANTS
    BatchNotMixed
CHECK_DEADLOCK FALSE
