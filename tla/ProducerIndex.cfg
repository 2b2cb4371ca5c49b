\* One record more than the ring has slots, never more than BACKLOG unsent.
SPECIFICATION Spec
CONSTANTS
    BACKLOG = 2
    MaxRecords = 3
    MaxSpurious = 0
INVARIANT
    LooksAtHeadOfList
CHECK_DEADLOCK FALSE
