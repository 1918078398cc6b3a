SPECIFICATION Spec
CONSTANTS
  g = g
  A = A
  B = B
  math = math
  art = art
  u1 = u1
  u2 = u2
  adm1 = adm1
  adm2 = adm2
  n1 = n1
  n2 = n2
  id1 = id1
  Grades = {g}
  Sections <- MCSections
  Subjects <- MCSubjects
  Users <- MCUsers
  Admissions <- MCAdmissions
  Notes <- MCNotes
  Ids = {id1}
  GradeOf <- MCGradeOf
  FileLines <- MCFileLines
  MaxLines = 3
  MaxBundles = 2
  MaxApplies = 4
  None = None
SYMMETRY Symmetry
CHECK_DEADLOCK FALSE
INVARIANTS TypeOK LinksMatchRoles LinksLandOrWarn Converges
