\* Two threads with two calls each; one spurious wakeup, of a thread or of the poller.
SPECIFICATION FairSpec
CONSTANTS
    t1 = t1
    t2 = t2
    Threads <- MCThreads
    Lengths <- MCLengths
    VAL_LENGTH = 2
    Base = 3
    Calls = 2
    MaxSpurious = 1
INVARIANTS
    TypeOK
    CursorOnFrame
    PublishedInOrder
PROPERTIES
    NullOnlySpuriously
    ConsumeReturns
\* The process ends, crashes or hangs.
CHECK_DEADLOCK FALSE
