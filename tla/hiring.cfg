SPECIFICATION PagesSpec
CONSTANTS
  Calls = {c1, c2}
  Amounts <- SmallAmounts
  Milestones = {m1, m2}
  NoAmount = NoAmount
  None = None
  MaxWork = 2
  MaxMoves = 2
  MaxFaults = 1
SYMMETRY Symmetry
INVARIANTS
  DealNeedsBothParties
  PagesCanBeRelied
PROPERTIES
  ClosedDealIsFrozen
  MilestoneFitsBudget
CHECK_DEADLOCK FALSE
