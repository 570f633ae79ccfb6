SPECIFICATION Spec
CONSTANTS
  t1 = t1
  t2 = t2
  t3 = t3
  u1 = u1
  Clients = {c1}
  Workers = {w1}
  Tasks <- MCTasks
  Child <- Chain
  None = none
  Capacity = 2
  Width = 8
INVARIANT NothingLost
