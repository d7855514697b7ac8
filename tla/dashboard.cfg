SPECIFICATION BoardSpec
CONSTANTS
  Users = {u1, u2}
  Calls = {c1, c2, c3}
  Nobody = Nobody
  Seeds <- MCSeeds
  MaxCalls = 3
  Tabs = {t1, t2}
  None = None
  Rows <- MCRows
  Accounts = {"mine", "second"}
  Edits <- MCEdits
  Desks = {d1, d2}
  Mixes <- MCMixes
SYMMETRY Symmetry
INVARIANTS
  LikesMatchRows
  EngagementInv
  SettingsInv
  BoardInv
PROPERTIES
  EngagementNeverCostsRank
CHECK_DEADLOCK FALSE
