CONSTANTS
    Handles = {5}
    Dirs = {20}
    Segment = 2
    MaxBytes = 3
    WriteFails = "any"
    Silent = {}
SPECIFICATION Spec
INVARIANTS
    FrameKept
CHECK_DEADLOCK FALSE
