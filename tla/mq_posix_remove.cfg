SPECIFICATION Spec
CONSTANTS
    Senders = {"s0", "s1", "s2"}
    Receivers = {"r1", "r2"}
    Removers = {"rm"}
    Arg <- ThreeArgs
    UIntMod = 8
    PrioMax = 4
    MaxMsg = 2
    MaxFaults = 1
    None = None
INVARIANTS
    TypeOK
    Accounted
    InOrder
    OneQueue
PROPERTIES
    ImplementsMailbox
CHECK_DEADLOCK FALSE
