SPECIFICATION AccountSpec
CONSTANTS
  Calls = {c1, c2}
  VerifyLinks = {v1}
  ResetLinks = {r1}
  NoLink = NoLink
  MaxSecond = 1
  MaxRevocations = 2
  None = None
  p1 = p1
  p2 = p2
  plain = plain
  Passwords = {p1, p2, plain}
  Weak = {plain}
  Mixes <- MCMixes
SYMMETRY Symmetry
INVARIANTS
  SignedInMeansVouched
  RevocationMissesOnlySignIns
  PasswordIsKnown
  AccountInv
CHECK_DEADLOCK FALSE
