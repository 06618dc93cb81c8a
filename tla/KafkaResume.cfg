SPECIFICATION Spec
CONSTANTS
  p1 = p1
  p2 = p2
  Partitions <- OnePartition
  Records <- Gap
  Configs <- Limited
  MaxAssigns = 2
  Nobody = Nobody
INVARIANT ResumedIsFetched
CHECK_DEADLOCK FALSE
