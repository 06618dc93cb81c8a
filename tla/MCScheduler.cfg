SPECIFICATION Spec
CONSTANTS
  k1 = k1
  k2 = k2
  l1 = l1
  l2 = l2
  NoKey = NoKey
  NoLane = NoLane
  Keys <- MCKeys
  Lanes <- MCLanes
  Limit = 2
  MaxDeliveries = 4
SYMMETRY MCSymmetry
INVARIANTS LaneExclusive NoStrandedLane PausedWhileLoaded UnfinishedExact SchedulerInv
PROPERTY LaneOrder
CHECK_DEADLOCK FALSE
