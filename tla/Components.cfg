SPECIFICATION ComponentsSpec
CONSTANTS
  m1 = m1
  m2 = m2
  None = None
  Subscriptions <- MCSubscriptions
  Logs <- MCLogs
  Concurrency = 2
  Attempts = 2
  N = 3
  Scopes <- MCScopes
  ScopeOf <- BatchScopes
  Undecodable = {}
  MaxBatch = 2
  MaxAttempts = 2
  Aborts = TRUE
INVARIANTS SharedStateInOrder ScopeInOrder AppliedIsHeld SqsLeases SqsKeepsInvisible
  BusLocks BusConnection PulsarReceives SessionsSettle ProbesTell SinksComplete BatchesHold
  CoversEarlierUntilAbort 
CHECK_DEADLOCK FALSE
