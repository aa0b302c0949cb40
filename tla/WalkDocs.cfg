CONSTANTS
    AtrPeriod = 2
    SlopeLookback = 2
    FastPeriod = 2
    SlowPeriod = 3
    Unit = 100
    InitialCash = 1000
    CostWindow = 6
    FeeAndSpread = 6
    OrderNotional = 300
    Pairs <- MCPairs
    Grid <- MCGrid
    DefaultParams <- MCDefault
    DefaultCost = 2
    MinBars = 12
    MinHoldout = 6
    MinFirstTrain = 8
    MinValidation = 3
    ShortlistSize = 3
    MinTradesFloor = 1
    MinOosTrades = 2
    LowFreqMa = 3
    Year = 12
    Penalty = 150
    MinVerifiedTrades = 2
    MinHoldoutTrades = 1
    WaveNames = {"climb", "breaks", "gap", "wide"}
    Segments = 5
    Base = 40
SPECIFICATION Spec
INVARIANTS NeighboursAreTried NoStopWasMissed StopsWereKnown CostIsBlind SkippedIsUnfilled
CHECK_DEADLOCK FALSE
