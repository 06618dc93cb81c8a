SPECIFICATION LiveSpec
CONSTANTS
  s1 = s1
  s2 = s2
  N = 2
  Scopes <- MCScopes
  ScopeOf <- TwoScopes
  Undecodable = {}
  MaxBatch = 2
  MaxAttempts = 2
  Aborts = TRUE
  k1 = k1
  k2 = k2
  NoKey = NoKey
  NoLane = NoLane
  a1 = a1
  a2 = a2
  a3 = a3
  Requests <- MCItems
  Jobs <- MCItems
  Workers <- MCThreads
  Queue = 1
INVARIANTS ChannelHandsOver AnswerTellsOutcome NoCallLost
PROPERTIES StopsComplete WaitsAreAnswered
CHECK_DEADLOCK FALSE
