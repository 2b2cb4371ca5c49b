\* Four records, three calls, no spurious wakeup.
SPECIFICATION Spec
CONSTANTS
    Sizes <- MCSizes
    VAL_LENGTH = 2
    Base = 2
    MaxCalls = 3
    MaxSpurious = 0
INVARIANT
    ReturnsRecords
CHECK_DEADLOCK FALSE
