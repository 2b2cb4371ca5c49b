\* Two records more than the ring has slots, one spurious wakeup.
SPECIFICATION FairSpec
CONSTANTS
    BACKLOG = 3
    MaxRecords = 5
    MaxSpurious = 1
INVARIANTS
    TypeOK
    InOrderDelivery
    DoneMeansAllDelivered
    NoFlushAtDisconnect
    OverflowOnlyWhenFull
    TerminateMeansDelivered
PROPERTIES
    BuffersStable
    DeliveredEventually
    TerminateReturnsOrHangs
\* The process ends, by terminate or by a crash.
CHECK_DEADLOCK FALSE
