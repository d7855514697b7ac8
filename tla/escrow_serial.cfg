SPECIFICATION PagesSpec
CONSTANTS
  Calls = {c1}
  FundKeys = {f1, f2}
  TransferKeys = {t1, t2}
  RefundKeys = {r1}
  Disputes = {d1}
  NoId = NoId
  FailingSteps <- NoSteps
  None = None
  Mixes <- AllMixes
  MaxWork = 2
  MaxPolls = 2
  MaxAccounts = 2
INVARIANTS
  FundingInv
  PaidOutOnce
PROPERTIES
  ChargeFundsMilestone
  EventsAreProcessed
CHECK_DEADLOCK FALSE
