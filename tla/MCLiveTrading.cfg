SPECIFICATION Spec
CONSTANTS
    p1 = p1
    p2 = p2
    NoPos = NoPos
    Pos = {p1}
    Size = 2
    MaxTx = 4
    MaxTightens = 3
    MaxFaults = 2
    MaxCrashes = 1
    MaxLate = 1
INVARIANTS TypeOK UnresolvedNotExecutable TokensAccounted ClosedSold
PROPERTIES RowFinal
CHECK_DEADLOCK FALSE
