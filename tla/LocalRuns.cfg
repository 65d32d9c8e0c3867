SPECIFICATION Spec
CONSTANTS
    MaxQubits = 3
    Grain = 2
    Widths = {1, 2, 3, 4}
    GateSet <- SomeGates
    Readable = {0, 2}
    Recipes <- SomeRecipes
    Thetas <- SomeThetas
    Hamiltonians <- SomeHamiltonians
    MaxCalls = 2
    MaxRuns = 2
INVARIANTS
    TypeOK
    WorkItemsIndependent
    ReadsTheCircuit
    AnsatzAsDocumented
    TranslationIsExact
PROPERTIES
    ImplementsSimulator
CHECK_DEADLOCK FALSE
