\* Two trades by hand or as the legs of a run, under every fault: whatever is lost,
\* money adds up, nothing is settled twice, legs take turns and the run reports them.
SPECIFICATION Spec
CONSTANTS
    t1 = t1
    t2 = t2
    t3 = t3
    r1 = r1
    NoRun = NoRun
    NoTicket = NoTicket
    Multiplier <- TenTimes
    Trades = {t1, t2}
    Runs = {r1}
    Accounts = {"real"}
    RealAccounts = {"real"}
    Symbols = {"FPX100"}
    Prices = {800, 1000}
    Directions = {"BUY"}
    Kinds = {"SCALED"}
    Stakes = {5}
    Durations = {1}
    RunLengths = {2}
    Edges = {1100}
    ProfitMultiple = 3
    BarrierOffset = 5
    PayoutBps = 3860
    StartBalance = 8
    RetryDelay = 1
    Faults = {"crash", "rpcError", "settleReplyLost", "placeReplyLost", "runReplyLost", "lateSettle", "latePlace", "loadFails"}
    MaxRestarts = 1
SYMMETRY TradeSymmetry
INVARIANTS
    TypeOK
    MoneyConserved
    LossBounded
    SingleSettler
    RunHonest
PROPERTIES
    SettledOnce
