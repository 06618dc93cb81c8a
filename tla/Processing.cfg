SPECIFICATION Spec
CONSTANTS
  p1 = p1
  p2 = p2
  Nobody = Nobody
  Deliveries = {1, 2}
  Partitions = {p1}
  PartitionOf <- OnePartition
  OutputCounts = {0, 2}
  HandlerAttempts = 2
  PublishAttempts = 2
  Settings <- MCSettings
  MaxStarts = 3
  MaxRevokes = 1
INVARIANTS OutputsInv StateFollowsOutputs AppliedOnce SeesLastCommit RevokedIsStale
PROPERTY JobEnds
CHECK_DEADLOCK FALSE
