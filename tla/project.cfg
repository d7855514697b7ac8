SPECIFICATION Spec
CONSTANTS
  u1 = u1
  u2 = u2
  u3 = u3
  old = old
  new = new
  Urls = {u1, u2, u3}
  Titles = {old, new}
  None = None
  Seeds <- MCSeeds
  MaxWork = 3
  MaxMoves = 3
  MaxCreated = 2
  MaxFaults = 1
SYMMETRY Symmetry
INVARIANTS
  PageInv
  QuietPageIsTrue
  UploadsAreKept
CHECK_DEADLOCK FALSE
