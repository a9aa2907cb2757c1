CONSTANTS
    Chunk = 2
    MaxSize = 3
    Faults = {"die"}
    Jobs = {"put"}
SPECIFICATION Spec
INVARIANTS
    CopyFaithful
CHECK_DEADLOCK FALSE
