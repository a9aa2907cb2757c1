CONSTANTS
    Chunk = 2
    MaxSize = 4
    Faults = {"die", "short", "wrong", "long"}
    Jobs = {"get", "put", "ls", "one", "remove", "format", "sync", "umount"}
SPECIFICATION Spec
INVARIANTS
    TypeOK
    InStep
    OwnResult
CHECK_DEADLOCK FALSE
