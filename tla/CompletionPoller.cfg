\* Up to five completions in a queue of two entries, three are handled again after
\* an overrun.
SPECIFICATION FairSpec
CONSTANTS
    c1 = c1
    c2 = c2
    c3 = c3
    Conns <- MCConns
    Device <- MCDevice
    Cqe = 2
    MaxCompletions = 5
    MaxRepeats = 3
INVARIANTS
    TypeOK
    NeverWaitsInVain
    HandledOnceInOrder
PROPERTIES
    EventuallyHandled
\* The poller waits when there is nothing more to complete.
CHECK_DEADLOCK FALSE
