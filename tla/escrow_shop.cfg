SPECIFICATION PartsSpec
CONSTANTS
  Calls = {c1, c2}
  FundKeys = {f1}
  TransferKeys = {t1}
  RefundKeys = {r1}
  Disputes = {d1}
  NoId = NoId
  FailingSteps <- AllSteps
  i1 = i1
  i2 = i2
  Items = {i1, i2}
  Slots = {c1, c2}
  Nothing = Nothing
  Seeds <- MCSeeds
  Instants <- MCInstants
  Classes <- MCClasses
  Prices = {100}
  Carts <- MCCarts
  MaxClock = 8
SYMMETRY Symmetry
INVARIANTS
  StatusBackedByStripe
  RowsBackedByStripe
  EventHandledOnce
  OpenDisputeBlocksRelease
  CachesAreRecent
  DiscountsHaveAWindow
  ShopInv
  BlueprintIsCoherent
PROPERTIES
  RowsFollowLifecycle
CHECK_DEADLOCK FALSE
