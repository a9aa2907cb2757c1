CONSTANTS
    Timeout = 2
    Wrap = 8
    Burst = 2
    Files = {3}
    Names = {"f"}
    Lines = {"execps2", "execiop", "reset", "benchmark", "quit", "other"}
    BenchLen = 1
    MaxNest = 2
    Faults = {"meta", "die", "unplug", "cross"}
SPECIFICATION FairSpec
INVARIANTS
    TypeOK
    InStep
    SentOnce
    NotLeftBehind
    ClosedOnce
    HeldOpen
PROPERTIES
    ExchangeEnds
    CommandSent
CHECK_DEADLOCK FALSE
