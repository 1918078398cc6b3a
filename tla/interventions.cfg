SPECIFICATION Spec
CONSTANTS
  adm = adm
  tea = tea
  stu = stu
  c1 = c1
  c2 = c2
  t1 = t1
  n1 = n1
  s1 = s1
  s2 = s2
  Students = {stu}
  Cases <- MCCases
  Tasks <- MCTasks
  Staff <- MCStaff
  Admins = {adm}
  Scope <- MCScope
  Notes = {n1}
  Requests <- MCRequests
  Sessions <- MCSessions
  MaxCommits = 5
  None = None
SYMMETRY Symmetry
CHECK_DEADLOCK FALSE
INVARIANTS TypeOK TrailExplainsStatus CompletedOnce
PROPERTY TerminalTasksStayTerminal
