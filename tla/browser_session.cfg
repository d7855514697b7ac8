SPECIFICATION Spec
CONSTANTS
  Tabs = {t1, t2}
  Users = {ann, bob}
  None = None
  Calls = {c1, c2}
  Kinds = {"get", "upload", "session", "login", "logout", "logout_all"}
  MaxCalls = 4
  MaxTokens = 3
SYMMETRY Symmetry
INVARIANTS
  SessionInv
  RequestsAreServed
CHECK_DEADLOCK FALSE
