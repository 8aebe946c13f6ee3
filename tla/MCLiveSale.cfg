SPECIFICATION Spec
CONSTANTS
    p1 = p1
    p2 = p2
    NoPos = NoPos
    Pos = {p1}
    Size = 2
    MaxTx = 4
    MaxTightens = 3
    MaxFaults = 0
    MaxCrashes = 1
    MaxLate = 0
INVARIANT UnknownNeverResold
CHECK_DEADLOCK FALSE
