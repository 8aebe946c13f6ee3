SPECIFICATION FairSpec
CONSTANTS
    p1 = p1
    p2 = p2
    r1 = r1
    r2 = r2
    Pos = {p1}
    Req = {r1, r2}
    Fifo = FALSE
    MaxCommands = 3
    MaxFaults = 0
    MaxCrashes = 1
INVARIANTS KillSurvives
CHECK_DEADLOCK FALSE
