CONSTANTS
    N = 3
    LineBuf = 5
    MaxArgv = 1
    MaxLine = 5
    MaxText = 3
    MaxBoth = 5
    MaxGram = 3
    Failures = 2
    Files <- SomeFiles
SPECIFICATION Spec
INVARIANTS
    TypeOK
    LogInOrder
    WholeLine
    ArgsFound
CHECK_DEADLOCK FALSE
