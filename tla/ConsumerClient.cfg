\* Four records, four calls, one spurious wakeup.
SPECIFICATION FairSpec
CONSTANTS
    Sizes <- MCSizes
    VAL_LENGTH = 2
    Base = 2
    MaxCalls = 4
    MaxSpurious = 1
INVARIANTS
    TypeOK
    CursorOnFrame
    SuccessiveRecords
PROPERTIES
    RecordStable
    ConsumeReturns
\* The application may stop calling, and the threads may wait for each other.
CHECK_DEADLOCK FALSE
