\* A screen opened before or after logging in, one leg after a trade placed by hand,
\* under every fault: settled positions leave it, and are announced once.
SPECIFICATION FairSpec
CONSTANTS
    Trades = {"t1", "t2"}
    Legs = {"t2"}
    MaxLoads = 2
    MaxFaults = 1
    Faults = {"socket", "request", "overtake"}
INVARIANTS
    ScreenTypeOK
    ToldOnce
PROPERTIES
    GhostsLeave
CHECK_DEADLOCK FALSE
