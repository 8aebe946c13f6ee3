SPECIFICATION WatchSpec
CONSTANTS
    t1 = t1
    s1 = s1
    copy = copy
    r1 = r1
    r2 = r2
    Tok = {t1}
    Strat = {s1}
    Copy = copy
    Run = {r1, r2}
    MaxWatchlist = 1
    MaxCopySlots = 1
    MaxScreens = 2
    MaxRestored = 1
    MaxEntries = 2
    Watcher = {"monitor", "ai"}
    PriceTtl = 1
    DepthTtl = 1
    RetryAfter = 1
    MaxQuoteTime = 2
    Signaller = {"core"}
    x = x
    y = y
    Asset = {x, y}
    Horizon = 1
    Batch = 1
    GateSamples = 1
    GateWindow = 2
    GateRefresh = 1
    MaxEvidenceTime = 2
    MaxRows = 2
    MaxListed = 1
    MaxCrashes = 1
    p1 = p1
    NoPos = NoPos
    Pos = {p1}
    t = t
    Tokens = {t}
    TokenOf <- OneToken
    Size = 3
    MaxStop = 2
    MaxOrders = 3
    MaxFaults = 2
    MaxLate = 1
INVARIANTS FreshDecision
PROPERTIES
    RejectedRevived
    ObserveEnds
    OutcomesEvaluated
    FillsDrain
CHECK_DEADLOCK FALSE
