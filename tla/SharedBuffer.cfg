\* Three connections in any order and five writes.
SPECIFICATION FairSpec
CONSTANTS
    c1 = c1
    c2 = c2
    c3 = c3
    Conns <- MCConns
    Writes = 5
INVARIANTS
    TypeOK
    HarmOnlyToLate
PROPERTIES
    EarlyClientsFollow
\* The clients come and go once.
CHECK_DEADLOCK FALSE
