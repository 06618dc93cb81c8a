SPECIFICATION Spec
CONSTANTS
  s1 = s1
  s2 = s2
  N = 3
  Scopes <- MCScopes
  ScopeOf <- TwoScopes
  Undecodable = {3}
  MaxBatch = 2
  MaxAttempts = 2
  Aborts = FALSE
INVARIANT CommitCoversEarlier
