SPECIFICATION MapSpec
CONSTANTS
    MapPrograms = {"anon"}
    MapWriters = {"w"}
    MapReaders = {"r"}
    Child = "w"
    Parent = "r"
    Rounds = 3
    MapMaxFaults = 0
    NoPid = NoPid
INVARIANTS
    ParentReads
CHECK_DEADLOCK FALSE
