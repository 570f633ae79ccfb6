SPECIFICATION RuntimeSpec
CONSTANTS
  NumSlots = 2
  TickMs = 10
  TimeoutMs = 30
  Connections = {1, 2}
  None = 0
  Reregister = TRUE
  MaxTimer = 4
  TimerSlots = 3
  Delays = {0, 5, 20, 30, 45, 70}
  MaxTimers = 4
  t1 = t1
  t2 = t2
  t3 = t3
  u1 = u1
  Clients = {c1}
  Workers = {w1, w2}
  Capacity = 2
  Width = 8
  Callers = {c1, c2}
  MaxRecords = 3
  Observers = {o1, o2}
  Values = {1, 2, 4}
  MaxCount = 3
  Partitions = {1, 2, 3}
  VirtualNodes = {0, 1}
  MaxHash = 5
INVARIANTS TasksAccounted InOrder 
PROPERTIES SilenceReported FiresOnTime PoolProgress LoggerProgress RemapMinimal
CHECK_DEADLOCK FALSE
