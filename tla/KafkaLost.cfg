SPECIFICATION Spec
CONSTANTS
  p1 = p1
  p2 = p2
  Partitions <- OnePartition
  Records <- Gap
  Configs <- Unlimited
  MaxAssigns = 2
  Nobody = Nobody
INVARIANT NextAssignmentResumes
CHECK_DEADLOCK FALSE
