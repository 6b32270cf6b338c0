SPECIFICATION Spec
CONSTANTS
    Runs = {"a", "b"}
    Prog <- TwoSafe
    MaxTry = 1
    Overlap = TRUE
    MaxKills = 0
    NoId = NoId
INVARIANTS
    BinarySemaphore
CHECK_DEADLOCK FALSE
