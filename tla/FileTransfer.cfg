\* Three clients and three names, two descriptors, at most one crash.
SPECIFICATION FairSpec
CONSTANTS
    c1 = c1
    c2 = c2
    c3 = c3
    Clients <- MCClients
    Chunks <- MCChunks
    n1 = n1
    n2 = n2
    n3 = n3
    Names = {n1, n2, n3}
    Namings <- MCNamings
    OldNames = {n3}
    Fds = {0, 1}
    MaxCrashes = 1
INVARIANTS
    TypeOK
    DeathHasCause
PROPERTIES
    CopiesAreFaithful
    TransferEnds
\* The transfers end, or the server does.
CHECK_DEADLOCK FALSE
