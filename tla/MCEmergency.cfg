SPECIFICATION FairSpec
CONSTANTS
    p1 = p1
    p2 = p2
    r1 = r1
    r2 = r2
    Pos = {p1, p2}
    Req = {r1, r2}
    Fifo = TRUE
    MaxCommands = 2
    MaxFaults = 1
    MaxCrashes = 1
INVARIANTS TypeOK KillSurvives SettledPersisted OneLateEntry
PROPERTIES StopKeepsExits
CHECK_DEADLOCK FALSE
