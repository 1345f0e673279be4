SPECIFICATION Spec
CONSTANTS
    DefaultLength = 3
    ReadAhead = 3
    MaxBytes = 9
INVARIANTS
    TypeOK
    StreamIntact
    ReadTargetValid
    GrowthBounded
CHECK_DEADLOCK FALSE
