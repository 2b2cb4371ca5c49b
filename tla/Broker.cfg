\* Two producers of two records and one, a consumer, at most one crash; the
\* completion queue has just the entries that suffice.
SPECIFICATION FairSpec
CONSTANTS
    p1 = p1
    p2 = p2
    Producers <- MCProducers
    Quota <- MCQuota
    Consumers = {c1}
    Cqe = 5
    MaxCrashes = 1
INVARIANTS
    TypeOK
    CqNeverOverflows
    FreedOnlyUnderSend
    
PROPERTIES
    ImplementsTopic
    OneMessageInFlight
    Served
\* The clients come and go once.
CHECK_DEADLOCK FALSE
