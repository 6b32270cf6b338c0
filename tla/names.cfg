SPECIFICATION NamesSpec
CONSTANTS
    FifoWriters = {"w1", "w2"}
    FifoReaders = {"r1", "r2"}
    FifoMaxKills = 1
    NoFifo = NoFifo
    MqSenders = {"s1", "s2", "s3"}
    MqReceivers = {"r1", "r2"}
    MqRoom = 2
    MqMaxFaults = 2
    NoMsg = NoMsg
    Sharers = {"a", "b"}
    Exclusives = {"x", "y"}
    MaxRuns = 2
    LockMaxFaults = 1
INVARIANTS
    NamesTypeOK
    RivalToBlame
    NothingLost
    ExclusiveAlone
PROPERTIES
    EndsOrWaits
CHECK_DEADLOCK FALSE
