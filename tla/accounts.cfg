SPECIFICATION Spec
CONSTANTS
  t1 = t1
  t2 = t2
  k1 = k1
  k2 = k2
  e1 = e1
  v1 = v1
  Tokens <- MCTokens
  Codes <- MCCodes
  CodeCount = 1
  Sessions <- MCSessions
  Carries <- MCCarries
  MaxRevocations = 2
  None = None
SYMMETRY Symmetry
CHECK_DEADLOCK FALSE
INVARIANTS TypeOK AcceptedSessionsAreCurrent TrailCountsVersions  RecoveryOpensOnce
PROPERTY TokenPromise
