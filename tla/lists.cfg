SPECIFICATION ListsSpec
CONSTANTS
  Calls = {c1, c2, c3}
  NoRead = NoRead
  MaxWrites = 1
  Backends = {"memory", "warm", "cold", "failing"}
  Versioned = TRUE
  Projects = {p1, p2}
  MaxPosts = 2
  MaxPresses = 4
  MaxLosses = 1
  Deeds = {"browse", "like"}
  Filters = {all, web}
  Queries = {q1, q2}
  Nothing = Nothing
  MaxPage = 2
  MaxWire = 3
  MaxMoves = 2
  MaxChanges = 1
  MaxFaults = 1
INVARIANTS
  BrowseInv
PROPERTIES
  ReadsAreSettled
  StaleReadsEnd
  BrowseSettles
CHECK_DEADLOCK FALSE
