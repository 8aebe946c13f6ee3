SPECIFICATION DeskSpec
CONSTANTS
    t1 = t1
    t2 = t2
    BaseRisk = 200000
    MinRisk = 50000
    MaxRisk = 250000
    MaxPositionUsd = 300
    MaxTokenUsd = 350
    MaxTotalUsd = 380
    MaxStrategyPct = 80
    MaxSlippageBps = 300
    MinLiquidityUsd = 15000
    MaxConcurrent = 2
    MaxDailyLossUsd = 100
    MaxWeeklyLossUsd = 300
    MaxDrawdownPct = 30
    EmergencyDrawdownPct = 60
    DustUsd = 10
    MarketMinLiquidity = 10000
    Candidates <- ThePoor
    Securities <- OnlyNoData
    Pools <- ThePools
    Series <- OnlyUp
    Drawdowns = {25}
    Records <- OnlyWins
    CoinPrices = {9600, 10100}
    MaxSeries = 8
    Core <- TheCore
    EquityUsd = 1000
    Token = {t1, t2}
    AiStrategy = "ai-autonomous"
    CopyProfiles = {"copytrade-scalp", "copytrade-shortterm"}
    Looks <- TheLooks
    JevScores = {40}
    Prices = {1, 2}
    StartUsd = 1000
    MaxAiOpen = 1
    MaxCopies = 1
    MaxSlots = 1
    MaxOpened = 2
    w1 = w1
    w2 = w2
    AiCycle = 1
    AiTimeout = 1
    JevTimeout = 1
    VetoReview = 1
    ToolRounds = 1
    CostCap = 1
    MaxActions = 2
    DayLength = 2
    MaxClock = 2
    MaxMade = 2
    MaxQueue = 2
    MaxFaults = 1
    MaxBoots = 2
    Intent = {"i1","i2"}
    Caller = {"c1","c2"}
    MaxMemory = 1
    MaxGrants = 3
    MaxFailures = 2
    Wallet = {w1,w2}
    PageSize = 2
    SeenRing = 1
    MaxSignalAge = 2
    MaxCopyTime = 3
    MaxRestarts = 1
    RawReplies <- TheReplies
    Swaps <- TheSwaps
CHECK_DEADLOCK FALSE
INVARIANT NoDataNoTrade
