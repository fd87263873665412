\* One transaction met by two callbacks, two sweeps and its own failing start,
\* under every fault.
SPECIFICATION Spec
CONSTANTS
    x1 = x1
    x2 = x2
    h1 = h1
    h2 = h2
    w1 = w1
    w2 = w2
    NoTx = NoTx
    NoCall = NoCall
    Txs = {x1}
    Users = {"u1"}
    Amounts = {3, 5}
    StartBalance = 4
    Kinds = {"DEPOSIT", "WITHDRAWAL"}
    Handlers = {h1, h2}
    Sweepers = {w1, w2}
    PageSize = 25
    MaxDeliveries = 2
    MaxRestarts = 1
    Faults = {"crash", "unreachable", "statusFails", "rpcError", "replyLost"}
SYMMETRY PaymentSymmetry
INVARIANTS
    BalancesAddUp
    CreditedOnlyIfPaid
PROPERTIES
    FinishedOnce
CHECK_DEADLOCK FALSE
