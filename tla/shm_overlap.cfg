SPECIFICATION FairSpec
CONSTANTS
    Runs = {"a", "b"}
    Prog <- SafeAndThread
    MaxTry = 1
    Overlap = TRUE
    MaxKills = 1
    NoId = NoId
INVARIANTS
    WaitsForHolder
PROPERTIES
    EveryRunEnds
CHECK_DEADLOCK FALSE
