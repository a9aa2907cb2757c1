CONSTANTS
    NStd = 3
    MaxFd = 9
    MaxClients = 6
    Tools = {t1, t2}
    LogInConfig = FALSE
    NetfsAtStart = FALSE
    Failures = {"late"}
    CliUsed = {}
    ReqUsed = {"reset"}
    Strays = {}
    AnyTime = FALSE
SPECIFICATION FairSpec
PROPERTIES
    ToolServed
CHECK_DEADLOCK FALSE
