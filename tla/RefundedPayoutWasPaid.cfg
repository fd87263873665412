\* A payout whose answer is lost is refunded, and paid.
SPECIFICATION Spec
CONSTANTS
    x1 = x1
    x2 = x2
    h1 = h1
    h2 = h2
    w1 = w1
    w2 = w2
    NoTx = NoTx
    NoCall = NoCall
    Txs = {x1}
    Users = {"u1"}
    Amounts = {3}
    StartBalance = 4
    Kinds = {"WITHDRAWAL"}
    Handlers = {h1}
    Sweepers = {w1}
    PageSize = 25
    MaxDeliveries = 1
    MaxRestarts = 1
    Faults = {"unreachable"}
SYMMETRY PaymentSymmetry
INVARIANTS
    RefundedPayoutUnpaid
CHECK_DEADLOCK FALSE
