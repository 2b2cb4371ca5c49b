\* Three records in a ring of four, one spurious wakeup.
SPECIFICATION BytesSpec
CONSTANTS
    BACKLOG = 4
    MaxRecords = 3
    MaxSpurious = 1
    Lengths <- MCLengths
INVARIANTS
    BytesTypeOK
    ServerSurvives
PROPERTY
    ImplementsTopic
\* The client's program ends.
CHECK_DEADLOCK FALSE
