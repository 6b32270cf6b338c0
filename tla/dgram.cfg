SPECIFICATION FairSpec
CONSTANTS
    Servers = {"s1", "s2"}
    Clients = {"c1", "c2"}
    Asking = {TRUE, FALSE}
    MaxQueue = 1
    MaxKills = 1
    None = None
INVARIANTS
    TypeOK
    AbandonedByRival
    StrayOnlyToNewer
PROPERTIES
    ImplementsMailbox
    ServerServed
    ClientEnds
CHECK_DEADLOCK FALSE
