SPECIFICATION ComponentsSpec
CONSTANTS
  m1 = m1
  m2 = m2
  None = None
  Subscriptions <- MCRewriting
  Logs <- MCLogs
  Concurrency = 2
  Attempts = 2
  N = 3
  Scopes <- MCScopes
  ScopeOf <- BatchScopes
  Undecodable = {}
  MaxBatch = 2
  MaxAttempts = 2
  Aborts = TRUE
INVARIANT AppliedIsHeld
CHECK_DEADLOCK FALSE
