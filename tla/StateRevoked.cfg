SPECIFICATION Spec
CONSTANTS
  p1 = p1
  p2 = p2
  Nobody = Nobody
  Deliveries = {1, 2}
  Partitions = {p1, p2}
  PartitionOf <- TwoPartitions
  OutputCounts = {0, 1}
  HandlerAttempts = 2
  PublishAttempts = 2
  Settings <- MCStateful
  MaxStarts = 3
  MaxRevokes = 1
INVARIANT RevokedIsStale

CHECK_DEADLOCK FALSE
