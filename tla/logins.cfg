CONSTANTS
  Emails = {e1}
  Hosts = {h1}
  Requests = {r1, r2}
  MaxAttempts = 2
  Lockout = 2
  MaxFaults = 1
  None = None
SPECIFICATION FairSpec
INVARIANTS
  TypeOK
  OverlapIsBounded
  AnswersAreCounted
CHECK_DEADLOCK FALSE
PROPERTIES
  WindowsOnlyRunOut
  LocksEndUnlessFault
