SPECIFICATION Spec
CONSTANTS
    Texts <- LeafTexts
    Replies <- FourObjects
INVARIANTS
    TypeOK
    RoundTrip
CHECK_DEADLOCK FALSE
