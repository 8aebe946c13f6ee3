SPECIFICATION Spec
CONSTANTS
    t1 = t1
    t2 = t2
    s1 = s1
    s2 = s2
    copy = copy
    r1 = r1
    r2 = r2
    Tok = {t1}
    Strat = {s1}
    Copy = copy
    Run = {r1}
    MaxWatchlist = 1
    MaxCopySlots = 0
    MaxScreens = 2
    MaxRestored = 0
    MaxEntries = 2
PROPERTIES NeverReentered
CHECK_DEADLOCK FALSE
