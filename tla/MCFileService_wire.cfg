CONSTANTS
    Handles = {5, 6}
    Dirs = {20}
    Segment = 2
    MaxBytes = 3
    WriteFails = "last"
    Silent = {"dopen", "read"}
SPECIFICATION FairSpec
INVARIANTS
    TypeOK
    FrameKept
    OneReply
    WriteAccounted
    HeldOpen
    OnlyOrphansGoAstray
PROPERTIES
    ImplementsRpc
    Answered
CHECK_DEADLOCK FALSE
