\* No spurious wakeup and fewer records than slots.
SPECIFICATION Spec
CONSTANTS
    BACKLOG = 4
    MaxRecords = 3
    MaxSpurious = 0
INVARIANT
    SignalRemovesFromWaiting
CHECK_DEADLOCK FALSE
