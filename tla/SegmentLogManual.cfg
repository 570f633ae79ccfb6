SPECIFICATION FairSpec
CONSTANTS
  Producers = {p1, p2}
  Payloads = {a, b}
  Oversized = huge
  Empty = empty
  Blank = blank
  SegCap = 2
  PerMessage = FALSE
  Faults = {"kill", "power", "io"}
  MsyncCoversEntry = TRUE
  MaxOffset = 3
  MaxBatch = 2
  MaxSegs = 3
  MaxFaults = 2
PROPERTIES ImplementsDurableLog LogProgress
