SPECIFICATION LockFreeSpec
CONSTANTS
  Pushers = {p1, p2}
  Poppers = {c1, c2}
  Values = {a, b}
  None = none
  Capacity = 2
  MaxPos = 5
  Requested = 3
  MaxPushed = 7
  PoolThreads = {t1, t2, t3}
  BlocksPerSlab = 1
  kMaxSlabs = 2
  Generations = 4
SYMMETRY Symmetry
INVARIANT BlocksAccounted
PROPERTIES ImplementsFifo SpscFifo RefusalsHaveReason
