SPECIFICATION Spec
CONSTANTS
    Spare = 2
    MaxTries = 8
    Own = 2
    MaxSize = 6
INVARIANTS
    OwnedMapIsCurrent
    FailureHasReason
PROPERTIES
    BootDecides
