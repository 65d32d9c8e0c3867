SPECIFICATION FairSpec
CONSTANTS
    Vqpus = {1, 2}
    Capacity <- Wide
    Widths = {1, 2}
    Translatable = {plain}
    Exotic = {exotic}
    CpuLimit = 1
    Interrupts = TRUE
    MaxDeaths = 0
    MaxCircuits = 2
    MaxGates = 1
    MaxSamples = 2
INVARIANTS
    RunsAtMostTwice
PROPERTIES
    SampleReturns
CHECK_DEADLOCK FALSE
