SPECIFICATION Spec
CONSTANTS
  Producers = {q1, q2}
  NumPartitions = 1
  Groups = {g1}
  GroupSize = 1
  MaxLag = 1
  MaxPoll = 2
  Kinds = {"batch"}
  MaxBatch = 2
  PerMessage = TRUE
  Faults = {"kill", "power", "stop"}
  MaxFaults = 1
  MaxOffset = 5
  Unset = unset
SYMMETRY Symmetry
INVARIANTS LagBounded CommittedSeen 
PROPERTY CommitsAdvance
