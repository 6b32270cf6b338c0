SPECIFICATION FairSpec
CONSTANTS
    Servers = {"s1", "s2"}
    Clients = {"c1", "c2"}
    Inet = {TRUE, FALSE}
    MaxQueue = 1
    MaxKills = 1
    None = None
INVARIANTS
    TypeOK
    ResetByRival
    SuccessMeansExchange
    OneListener
PROPERTIES
    EveryClientEnds
    ServerServed
CHECK_DEADLOCK FALSE
