SPECIFICATION Spec
CONSTANTS
  Producers = {p1, p2}
  Payloads = {a, b}
  Oversized = huge
  Empty = empty
  Blank = blank
  SegCap = 2
  PerMessage = TRUE
  Faults = {"power", "io"}
  MsyncCoversEntry = FALSE
  MaxOffset = 4
  MaxBatch = 2
  MaxSegs = 3
  MaxFaults = 2
SYMMETRY Symmetry
INVARIANTS TypeOK AckedSurvive 
PROPERTIES AppendOnly ImplementsDurableLog
