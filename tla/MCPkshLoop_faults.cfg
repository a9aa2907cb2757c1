CONSTANTS
    NStd = 3
    MaxFd = 8
    MaxClients = 5
    Tools = {}
    LogInConfig = TRUE
    NetfsAtStart = FALSE
    Failures = {"late", "immediate"}
    CliUsed = {"execiop", "reset", "exception", "netfs", "cp", "logfile", "logstdout", "quit"}
    ReqUsed = {}
    Strays = {1, 6}
    AnyTime = FALSE
SPECIFICATION Spec
INVARIANTS
    LinkMovesOnlyIf
    OwnedNumbers
VIEW DescriptorView
CHECK_DEADLOCK FALSE
