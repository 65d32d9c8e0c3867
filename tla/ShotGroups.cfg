SPECIFICATION Spec
CONSTANTS
    Qubits = {0, 1}
    MaxTerms = 4
INVARIANTS
    TypeOK
    Partition
    RotationServesAll
    NoGroupToSpare
    EveryTermCounted
CHECK_DEADLOCK FALSE
