SPECIFICATION Spec
CONSTANTS
    t1 = t1
    t2 = t2
    s1 = s1
    s2 = s2
    copy = copy
    r1 = r1
    r2 = r2
    Tok = {t1, t2}
    Strat = {s1}
    Copy = copy
    Run = {r1, r2}
    MaxWatchlist = 1
    MaxCopySlots = 1
    MaxScreens = 2
    MaxRestored = 1
    MaxEntries = 1
INVARIANTS TypeOK WatchlistBounded ClosedQueued OneSlotPerStrategy
PROPERTIES SecurityFinal
SYMMETRY Interchangeable
CHECK_DEADLOCK FALSE
