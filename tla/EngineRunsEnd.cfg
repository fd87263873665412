\* A run no call of which fails after its legs have opened is never left alone, and ends.
SPECIFICATION FairSpec
CONSTANTS
    t1 = t1
    t2 = t2
    t3 = t3
    r1 = r1
    NoRun = NoRun
    NoTicket = NoTicket
    Multiplier <- TenTimes
    Trades = {t1, t2}
    Runs = {r1}
    Accounts = {"real"}
    RealAccounts = {"real"}
    Symbols = {"FPX100"}
    Prices = {900, 1000}
    Directions = {"BUY"}
    Kinds = {"SCALED"}
    Stakes = {5}
    Durations = {1}
    RunLengths = {2}
    Edges = {1100}
    ProfitMultiple = 3
    BarrierOffset = 5
    PayoutBps = 3860
    StartBalance = 10
    RetryDelay = 1
    Faults = {"placeReplyLost"}
    MaxRestarts = 0
PROPERTIES
    EveryRunEnds
