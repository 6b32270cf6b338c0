SPECIFICATION Spec
CONSTANTS
    Servers = {"s1"}
    Clients = {"c1", "c2"}
    Asking = {TRUE}
    MaxQueue = 1
    MaxKills = 0
    None = None
INVARIANTS
    ReplyToRequester
CHECK_DEADLOCK FALSE
