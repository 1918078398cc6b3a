SPECIFICATION Spec
CONSTANTS
  ana = ana
  ben = ben
  gita = gita
  None = None
  Students = {1, 2, 3}
  Subjects = {1, 2}
  Teachers = {ana, ben}
  Guardians = {gita}
  Section <- MCSection
  Term <- MCTerm
  Paper <- MCPaper
  Day <- MCDay
  CurrentYear = 2
  Worlds <- MCWorlds
  Asked <- MCAsked
  Exported <- MCExported
  Visits <- MCVisits
  Followed <- MCFollowed
  Written <- MCWritten
  MaxChanges = 1
CHECK_DEADLOCK FALSE
INVARIANTS TypeOK NamedAreKnown AnswersRestOnReadable NumbersCohere OneVerdict CardsKeepToTheirPage
