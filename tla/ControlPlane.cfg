SPECIFICATION FairSpec
CONSTANTS
  n1 = n1
  n2 = n2
  n3 = n3
  b1 = b1
  b2 = b2
  u1 = u1
  u2 = u2
  p1 = p1
  p2 = p2
  Nodes = {n1, n2, n3}
  NoNode = none
  Joiners = {n3}
  Voters = {n1, n2}
  FirstLeader = n1
  Prelude <- MCPrelude
  Recorded <- MCRecorded
  Connected = {b1, b2}
  Threshold = 2
  Brokers = {b1, b2}
  Topics = {t1}
  Parts = {1}
  Users <- MCUsers
  Pools <- MCPools
  Endpoints <- MCEndpoints
  Skew <- MCSkew
  Scenarios <- MCScenarios
  kMaxAttempts = 2
  MaxLog = 8
  MaxTime = 2
INVARIANTS ReplicasAgree ServedAgrees JoinedIsMember
PROPERTIES ImplementsService LeaderBecomesKnown
CHECK_DEADLOCK FALSE
