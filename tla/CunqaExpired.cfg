SPECIFICATION FairSpec
CONSTANTS
    Vqpus = {1, 2}
    Capacity <- Wide
    Widths = {1, 2}
    Translatable = {plain}
    Exotic = {}
    CpuLimit = 1
    Interrupts = FALSE
    MaxDeaths = 1
    MaxCircuits = 1
    MaxGates = 1
    MaxSamples = 1
PROPERTIES
    SampleReturns
CHECK_DEADLOCK FALSE
