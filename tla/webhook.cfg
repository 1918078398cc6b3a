CONSTANTS
  Messages = {m1, m2}
  Nonces = {n1, n2}
  Requests = {r1, r2}
  Skew = 3
  TTL = 6
  MaxAhead = 1
  MaxDelay = 1
  MaxFaults = 1
  None = None
SPECIFICATION Spec
INVARIANTS
  TypeOK
  AdmittedOnce
  OnlySignedSpend
  ReplaysAreReplays
SYMMETRY Symmetry
CHECK_DEADLOCK FALSE
