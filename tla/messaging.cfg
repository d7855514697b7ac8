SPECIFICATION Spec
CONSTANTS
  People = {anna, ben}
  First = anna
  Threads = {t1, t2}
  Calls = {c1, c2}
  None = None
  MaxCalls = 4
  MaxMessages = 2
SYMMETRY Symmetry
INVARIANTS
  ReadTogether
  UnreadIsReachable
  MailLogFollowsProvider
CHECK_DEADLOCK FALSE
