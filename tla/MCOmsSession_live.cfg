\* Production build with the browser's delivery of close events and timers.
CONSTANTS
    OrderIds = {"o1"}
    ExecIds = {"e1"}
    Symbols = {"EURUSD", "GBPUSD"}
    AccountNames = {"ACC1"}
    Qtys = {40}
    Pxs = {12}
    BookStamps = {"b1"}
    MaxExecutions = 1
    Sockets = {s1, s2, s3}
    Timers = {t1, t2}
    NoSocket = NoSocket
    NoTimer = NoTimer
    NoSymbol = NoSymbol
    StrictMode = FALSE
    ServerMsgs <- MCServerMsgs
SPECIFICATION FairSpec
PROPERTY
    ConnectionRetried
