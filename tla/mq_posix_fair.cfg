SPECIFICATION FairSpec
CONSTANTS
    Senders = {"s0", "s1", "s2"}
    Receivers = {"r1", "r2"}
    Removers = {"rm"}
    Arg <- OneRefused
    UIntMod = 8
    PrioMax = 4
    MaxMsg = 1
    MaxFaults = 1
    None = None
PROPERTIES
    EverybodyServed
CHECK_DEADLOCK FALSE
