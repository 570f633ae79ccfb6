SPECIFICATION FairSpec
CONSTANTS
  Producers = {q1}
  NumPartitions = 2
  Groups = {g1}
  GroupSize = 2
  MaxLag = 1
  MaxPoll = 1
  Kinds = {"one"}
  MaxBatch = 1
  PerMessage = TRUE
  Faults = {}
  MaxFaults = 0
  MaxOffset = 2
  Unset = unset
PROPERTIES NoDoubleDelivery 
