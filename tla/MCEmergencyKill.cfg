SPECIFICATION FairSpec
CONSTANTS
    p1 = p1
    p2 = p2
    r1 = r1
    r2 = r2
    Pos = {p1}
    Req = {r1, r2}
    Fifo = TRUE
    MaxCommands = 1
    MaxFaults = 0
    MaxCrashes = 0
PROPERTIES KillKeepsExits
CHECK_DEADLOCK FALSE
