SPECIFICATION MCSpec
CONSTANTS
  k1 = k1
  k2 = k2
  NoKey = NoKey
  NoLane = NoLane
  Keys <- MCKeys
  Lanes <- MCKeys
  LanesOf <- SourceOrder
  Limit = 2
  MaxDeliveries = 3
  Concurrency = 2
  MaxInFlight = 3
  MaxAttempts = 1
  CanPause = TRUE
  StopsOnShutdown = TRUE
  MaxTakenBack = 0
  TasksFail = TRUE
INVARIANTS RuntimeInv StartsNothingAfterLoss CleanEndSettlesAll
PROPERTY KeepsPromise
