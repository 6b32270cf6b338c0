SPECIFICATION Spec
CONSTANTS
    Runs = {"a"}
    Prog <- OneUnsafe
    MaxTry = 6
    Overlap = FALSE
    MaxKills = 1
    NoId = NoId
INVARIANTS
    LossBounded
CHECK_DEADLOCK FALSE
