SPECIFICATION Spec
CONSTANTS
  Producers = {p1}
  Payloads = {a}
  Oversized = huge
  Empty = empty
  Blank = blank
  SegCap = 1
  PerMessage = TRUE
  Faults = {"kill"}
  MsyncCoversEntry = FALSE
  MaxOffset = 3
  MaxBatch = 1
  MaxSegs = 3
  MaxFaults = 1
INVARIANT EntryBeforeAck
