CONSTANTS
    Used = {"eeexec", "iopexec", "dumpmem", "dumpreg", "viewmem", "gsexec", "reset"}
    MaxFd = 8
    JunkBits = {0, 1, 5, 6}
    Strays = {0, 3, 4, 5, 6, 7}
    MaxLog = 2
    Writes = 2
SPECIFICATION Spec
INVARIANTS
    HandedToPksh
CHECK_DEADLOCK FALSE
