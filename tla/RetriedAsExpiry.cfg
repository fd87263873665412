\* A stop-out whose settlement fails is retried, and booked, as an expiry.
SPECIFICATION Spec
CONSTANTS
    t1 = t1
    t2 = t2
    t3 = t3
    r1 = r1
    NoRun = NoRun
    NoTicket = NoTicket
    Multiplier <- TenTimes
    Trades = {t1, t2}
    Runs = {}
    Accounts = {"real"}
    RealAccounts = {"real"}
    Symbols = {"FPX100"}
    Prices = {900, 1000}
    Directions = {"BUY", "SELL"}
    Kinds = {"SCALED"}
    Stakes = {5}
    Durations = {3}
    RunLengths = {2}
    Edges = {1100}
    ProfitMultiple = 3
    BarrierOffset = 5
    PayoutBps = 3860
    StartBalance = 8
    RetryDelay = 1
    Faults = {"rpcError"}
    MaxRestarts = 1
SYMMETRY TradeSymmetry
INVARIANTS
    ExpiryNotEarly
