\* Every stake at risk is resolved, through restarts and failing and late settlements,
\* and every step is a step of the book.
SPECIFICATION FairSpec
CONSTANTS
    t1 = t1
    t2 = t2
    t3 = t3
    r1 = r1
    NoRun = NoRun
    NoTicket = NoTicket
    Multiplier <- TenTimes
    Trades = {t1, t2}
    Runs = {}
    Accounts = {"real"}
    RealAccounts = {"real"}
    Symbols = {"FPX100"}
    Prices = {900, 1000}
    Directions = {"BUY"}
    Kinds = {"SCALED"}
    Stakes = {5}
    Durations = {1}
    RunLengths = {2}
    Edges = {1100}
    ProfitMultiple = 3
    BarrierOffset = 5
    PayoutBps = 3860
    StartBalance = 8
    RetryDelay = 1
    Faults = {"crash", "rpcError", "settleReplyLost", "lateSettle"}
    MaxRestarts = 1
INVARIANTS
    NoStrandedTrade
PROPERTIES
    ImplementsBook
    EveryTradeSettles
