\* A settlement the page did not hear of, whose position a list took off the screen.
SPECIFICATION FairSpec
CONSTANTS
    Parts = {"account"}
    PayoutCap = 20
    ReopenLevel = 10
    PayoutMinBase = 5
    DayDeposits = {3, 6}
    DayRatios = {5, 15, 25}
    MaxDays = 2
    MaxFailedReads = 1
    Seats = {1, 2}
    BookStakes = {1}
    MaxProfitMultiple = 2
    PositionShare = 67
    MaxStake = 3
    Floats = {0, 4}
    MaxCash = 1
    MaxFloatMoves = 1
    DeployEdge = 1100
    ConsoleEdges = {0, 500}
    StrayEdges = {8000}
    EdgeReads = {1, 2}
    MaxEdgeMoves = 3
    RigSlots = {1, 2}
    RigUsers = {"v"}
    RigNames = {"v"}
    Rtp = 40
    AccountRate = 85
    DemoRate = 70
    RigStakes = {2}
    RigWins = {1}
    LargestPayout = 3
    MaxDecisions = 2
    MaxBoots = 2
    DigitalEdge = 500
    ScaledEdges = {0, 1100}
    PassEdges = {0, 300, 2000}
    TicketStakes = {333, 1001}
    Mids = {1000, 997}
    Exits = {1, 700, 950, 989, 990, 991, 992, 993, 994, 995, 996, 997, 998, 999, 1000, 1001, 1003, 1007, 1050, 1400}
    ScaledMultiplier = 10
    MostMultiple = 3
    BarrierSteps = 1
    PageSize = 3
    MaxEpochs = 3
    MaxRestarts = 1
    Weathers = {{"crash"}, {"crash", "rpcError", "late"}, {"slow", "replyLost", "loadFails"}, {"slow", "rpcError"}}
    PathOf <- MadePath
    Seeds = {1, 2}
    BasePrice = 1000
    TicksPerEpoch = 2
    PaperIds = {1, 2}
    PaperStakes = {3}
    Durations <- OfferedDurations
    PaperMultiplier = 10
    PaperEdge = 1100
    PaperMost = 3
    StartingBalance = 7
    MaxClosed = 1
    CallTicks = 1
    MaxClock = 4
    ShadowIds = {1, 2}
    ShadowPrices = {1000, 880, 1300}
    ShadowStake = 3
    ShadowMultiplier = 10
    ShadowEdge = 1100
    ShadowMost = 2
    ShadowBalance = 7
    Modes = {"live", "synthetic"}
    FeedPrices = {1000, 1010}
    FirstPrice = 1000
    Frames = {1, 2}
    MaxBars = 3
    SnapNum = 5
    SnapDen = 1000
    MaxSecond = 4
    Lag = 2
    Markets = {"FPX100", "FPX50"}
    DefaultMarket = "FPX100"
    Remembered = "FPX50"
    DigitRoom = 2
    MaxInFlight = 1
    MaxSwitches = 1
    MaxMishaps = 1
    Accts = {"a"}
    PageFaults = {}
    MaxPageFaults = 1
    MaxEntries = 2
    MaxChanges = 2
    MaxAsks = 1
    MaxArriving = 2
    ReplayPath <- MadeAgain
    ReplaySeeds = {1, 2}
    ReplayBase = 1000
    EpochTicks = 4
    ReplayHorizons = {1, 3}
    ReplayMultiplier = 10
    ReplayEdge = 1100
    ReplayMost = 3
    SampleTicks = 2
    KnobChoices <- AskedKnobs
    MaxLived = 3
    MaxCuts = 1
    LiveTicket <- ProductionTicket
    OwnTickets <- SandboxTickets
    QuotedPrices = {1000}
    ConformStake = 7
    AdapterKinds <- AllAdapters
    KeyForms = {"basic", "raw", "revoked"}
    MaxNotices = 2
    Builds = {1, 2}
    FilesOf <- TwoBuilds
    Precached = {"icon"}
    Runtime = {}
    Codes = {"c"}
    CodeEdges = {300, 2500}
    CodeHours = {1}
    CodeLimits = {1}
    MaxEdgeSteps = 1
    MaxPlacements = 1
    RunLegs = 2
    MaxLostQuotes = 1
PROPERTIES
    SettlementRepaired
CHECK_DEADLOCK FALSE
