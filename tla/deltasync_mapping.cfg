SPECIFICATION FairSpec
CONSTANTS
  b1 = b1
  b2 = b2
  bad = bad
  c1 = c1
  c2 = c2
  old = old
  new = new
  m1 = m1
  m2 = m2
  Bundles <- MCBundles
  Codes <- MCCodes
  Invalid <- MCInvalid
  Refusable <- MCRefusable
  Students <- MCStudents
  Enrolled <- MCEnrolled
  Lines <- MCLines
  LinesOf <- MCLinesOf
  CodeOf <- MCCodeOf
  StudentOf <- MCStudentOf
  Fits <- MCFits
  Enrols <- MCEnrols
  Assessments <- MCAssessments
  Admins = {a1}
  SyncJobs = {s1}
  PushJobs = {}
  Live = FALSE
  MaxExports = 1
  MaxFaults = 0
  NoCode = NoCode
  NoAssessment = NoAssessment
  NoBundle = NoBundle
PROPERTIES HeldScoresLand
