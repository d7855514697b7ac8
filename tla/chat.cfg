SPECIFICATION ChatFairSpec
CONSTANTS
  MyThreads = {t1, t2}
  NoThread = NoThread
  PageSize = 1
  MaxStored = 2
  MaxRequests = 2
  MaxTurns = 1
INVARIANTS
  ChatInv
PROPERTY
  ViewSettles
