CONSTANTS
    NStd = 3
    MaxFd = 8
    MaxClients = 5
    Tools = {t1}
    LogInConfig = FALSE
    NetfsAtStart = TRUE
    Failures = {"late"}
    CliUsed = {"execee"}
    ReqUsed = {"execee", "execiop", "dumpmem", "gsexec", "reset", "unknown"}
    Strays = {8}
    AnyTime = FALSE
SPECIFICATION ReturnSpec
INVARIANTS
    TypeOK
    LinkWatched
    NeverStuck
    NoBlindRead
    PromptHonest
    NothingUnasked
    SlotsOwned
PROPERTIES
    ExecAfterResetOnly
    Reconnects
CHECK_DEADLOCK FALSE
