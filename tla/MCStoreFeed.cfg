\* Two orders, four reports, a log of MAX_EXECUTIONS = 2 fed three reports.
CONSTANTS
    OrderIds = {"o1", "o2"}
    ExecIds = {"e1", "e2", "e3", "e4"}
    Symbols = {"EURUSD", "GBPUSD"}
    AccountNames = {"ACC1"}
    Qtys = {0, 40}
    Pxs = {12, 13}
    BookStamps = {"b1"}
    MaxExecutions = 2
    FeedOrders <- MCFeedOrders
    FeedSnapshots <- MCFeedSnapshots
    FeedExecs <- MCFeedExecs
    FeedBound = 3
    UpdateBound = 3
SPECIFICATION Spec
INVARIANTS
    ExecutionLogNewestFirst
    PositionsMatchReference
    OrderMapLastWriteWins
