\* Two transactions of one account: everything pending is resolved in the end, though a
\* page of the sweep holds one row only.
SPECIFICATION FairSpec
CONSTANTS
    x1 = x1
    x2 = x2
    h1 = h1
    h2 = h2
    w1 = w1
    w2 = w2
    NoTx = NoTx
    NoCall = NoCall
    Txs = {x1, x2}
    Users = {"u1"}
    Amounts = {3}
    StartBalance = 6
    Kinds = {"DEPOSIT", "WITHDRAWAL"}
    Handlers = {h1}
    Sweepers = {w1}
    PageSize = 1
    MaxDeliveries = 0
    MaxRestarts = 1
    Faults = {"crash", "rpcError"}
PROPERTIES
    EveryTxEnds
CHECK_DEADLOCK FALSE
