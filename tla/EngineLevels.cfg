\* Both directions, both exit levels, both products and both accounts, with crashes: what
\* closes a trade is what the row says closed it.
SPECIFICATION Spec
CONSTANTS
    t1 = t1
    t2 = t2
    t3 = t3
    r1 = r1
    NoRun = NoRun
    NoTicket = NoTicket
    Multiplier <- TenTimes
    Trades = {t1}
    Runs = {}
    Accounts = {"real", "demo"}
    RealAccounts = {"real"}
    Symbols = {"FPX100"}
    Prices = {600, 900, 1000, 1400}
    Directions = {"BUY", "SELL"}
    Kinds = {"SCALED", "DIGITAL"}
    Stakes = {5}
    Durations = {2}
    RunLengths = {2}
    Edges = {1100}
    ProfitMultiple = 3
    BarrierOffset = 5
    PayoutBps = 3860
    StartBalance = 8
    RetryDelay = 1
    Faults = {"crash", "lateSettle"}
    MaxRestarts = 2
INVARIANTS
    LevelsWatched
    ExitMatchesReason
