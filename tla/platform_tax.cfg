SPECIFICATION PlatformSpec
CONSTANTS
  i1 = i1
  i2 = i2
  Items = {i1, i2}
  Slots = {c1, c2}
  Nothing = Nothing
  Seeds <- MCSeeds
  Instants <- MCInstants
  Classes <- MCClasses
  Prices = {100}
  Carts <- MCCarts
  MaxClock = 8
SYMMETRY SlotSymmetry
INVARIANT TaxIsAskedOnce
CHECK_DEADLOCK FALSE
