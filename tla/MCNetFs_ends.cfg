CONSTANTS
    Chunk = 2
    MaxSize = 5
    Faults = {"short"}
    Jobs = {"get", "put", "ls", "one", "remove", "format", "sync", "umount"}
SPECIFICATION FairSpec
INVARIANTS
    CopyFaithful
PROPERTIES
    CommandEnds
CHECK_DEADLOCK FALSE
