SPECIFICATION NetworkSpec
CONSTANTS
  c1 = c1
  c2 = c2
  Clients = {c1, c2}
  Requests <- MCRequests
  OneWay = {c2}
  Fds = {1, 2}
  Modes <- MCModes
  BufCap = 2
  PayloadBytes = {c1, c2}
  Radix = 2
  kMaxFrameSize = 1
  None = none
  Frames = 3
  capacity = 2
  interval = 1
  delay = 1
  LastTime = 4
  Confirmations = 2
  Headroom = 13
  Burst = 2
  Window = 3
  LossUnits = 8
  LossThreshold = 2
  Sizes = {2}
  Received = {6}
  MaxPackets = 2
  MaxSamples = 2
  MaxDrains = 3
  MaxTime = 3
INVARIANTS RequestsInOrder  TablesAgree HeardOrConcealed BudgetKept
PROPERTIES EndsWithReason ConnectionsProgress NackAnswered PlayoutGoesOn NoOscillation
CHECK_DEADLOCK FALSE
