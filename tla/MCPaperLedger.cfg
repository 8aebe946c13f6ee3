SPECIFICATION Spec
CONSTANTS
  p1 = p1
  p2 = p2
  NoPos = NoPos
  Pos = {p1, p2}
  t = t
  Tokens = {t}
  TokenOf <- OneToken
  Size = 3
  MaxStop = 2
  MaxOrders = 4
  MaxFaults = 2
  MaxCrashes = 1
  MaxLate = 1
SYMMETRY PosSymmetry
INVARIANTS TypeOK DurableReconciled RowRestorable BookReconciled LedgerComplete HeadAcceptable OnlyHeadBuys SettledAgree ExitsDurable ExposureManaged
PROPERTIES DurableRatchet ClosedFinal WriteBehindImplemented
