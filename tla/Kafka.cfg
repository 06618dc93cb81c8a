SPECIFICATION Spec
CONSTANTS
  p1 = p1
  p2 = p2
  Partitions <- OnePartition
  Records <- Gap
  Configs <- Settings
  MaxAssigns = 2
  Nobody = Nobody
INVARIANTS KafkaInv NothingSkipped HandoffIsComplete PauseSurvives
PROPERTY CallbackReturns
CHECK_DEADLOCK FALSE
