SPECIFICATION ProgramsSpec
CONSTANTS
    MapPrograms = {"file", "shm", "anon"}
    MapWriters = {"w1", "w2"}
    MapReaders = {"r"}
    Child = "w1"
    Parent = "r"
    Rounds = 3
    MapMaxFaults = 1
    NoPid = NoPid
    ThreadPrograms = {"sleep", "join", "unsafe", "safe"}
    Lags = {0, 1}
    MaxTry = 2
    NoThread = NoThread
    TreePrograms = {"pipe", "fork", "exec", "forkexec", "wait"}
    TreeMaxFaults = 2
    NoStatus = NoStatus
    SigPrograms = {"signal", "sigaction"}
    Senders = {"s1", "s2", "s3"}
    NoInfo = NoInfo
    FilePrograms = {"text_high", "text_low", "binary_high", "binary_low", "pos_high",
                    "pos_low", "link"}
    FileRuns = {"r1", "r2", "r3"}
    Width = 2
    FileMaxFaults = 1
    NoRun = NoRun
INVARIANTS
    ProgramsTypeOK
    MappingRight
    MainLast
    CounterResult
    WaitTellsTruth
    HandledRight
    FilesRight
PROPERTIES
    ProgramsProgress
CHECK_DEADLOCK FALSE
