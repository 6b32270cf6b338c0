SPECIFICATION Spec
CONSTANTS
    Runs = {"a", "b"}
    Prog <- SafeAndThread
    MaxTry = 2
    Overlap = FALSE
    MaxKills = 2
    NoId = NoId
INVARIANTS
    TypeOK
    MutualExclusion
    NoLostUpdate
    UndoIsHolding
    RemovedAfterUse
PROPERTIES
    ImplementsGuardedCounter
CHECK_DEADLOCK FALSE
