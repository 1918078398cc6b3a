SPECIFICATION Spec
CONSTANTS
  marks_obtained = marks_obtained
  is_absent = is_absent
  v1 = v1
  v2 = v2
  Keys = {k1}
  Fields <- MCFields
  Values <- MCValues
  Sessions = {s1}
  MaxLines = 2
  NoRow = NoRow
  NoConflict = NoConflict
  Unread = Unread
  Unsaid = Unsaid
INVARIANTS TypeOK UnansweredDisagreementIsPending
PROPERTIES ErpPreservesAnalyticsValues VerdictStands
