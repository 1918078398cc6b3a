--------------------------- MODULE BundleApplyProofs ---------------------------
(***************************************************************************)
(* Type correctness of BundleApply, that its links match roles, that a     *)
(* users line lands or is reported, and that a bundle settles, for any     *)
(* tables, bundles and bounds.                                             *)
(*                                                                         *)
(* The invariant needs what a session's queries have to do with what it    *)
(* will flush: nothing it finds is missing there, and no role it does not  *)
(* find is waiting to be flushed, else a second line for a new login could *)
(* change the role a link relies on.                                       *)
(*                                                                         *)
(* That a bundle settles (Converges) rests on a summary of what the lines  *)
(* read so far have done to the tables the session began with (Sums), on   *)
(* what stands after r applications (Levels), and, for bundles that are    *)
(* refused, on every application going the same way (Follows).             *)
(***************************************************************************)
EXTENDS BundleApply, SequenceTheorems, TLAPS

(* What the session finds is in what it will flush.                        *)
Ahead(s) ==
  /\ s.seen.teachers \subseteq s.mem.teachers
  /\ \A a \in Admissions : s.seen.student[a] # None => s.mem.student[a] # None
  /\ Len(s.seen.remarks) <= Len(s.mem.remarks)

Held(s) == s \in Session /\ RolesHold(s.mem) /\ Ahead(s)

RolesFlushed(s) == ~s.failed => s.seen.role = s.mem.role

SesInv == Held(ses) /\ ses.failed = FALSE /\ ses.seen.role = ses.mem.role

FileInv ==
  /\ stage = "reading" => round < MaxApplies
  /\ stage = "reading" /\ round = 0 => pos = Len(file)
  /\ stage = "idle" /\ round = 0 => file = << >>

IInv == TypeOK /\ RolesHold(db) /\ SesInv /\ FileInv

-----------------------------------------------------------------------------
(* Flushing keeps what is held, and from then on nothing is pending.       *)
LEMMA FlushedHeld ==
  ASSUME NEW s, Held(s)
  PROVE  /\ Held(Flushed(s)) /\ RolesFlushed(Flushed(s))
         /\ Flushed(s).mem = s.mem /\ (s.failed => Flushed(s).failed)
<1>1. CASE s.twice \/ SharedUser(s.mem)
  BY <1>1 DEF Held, Ahead, Flushed, RolesFlushed, Session
<1>2. CASE ~(s.twice \/ SharedUser(s.mem))
  <2>1. Flushed(s) = [s EXCEPT !.seen = s.mem]
    BY <1>2 DEF Flushed
  <2>2. s.mem \in Tables /\ s \in Session
    BY DEF Held, Session
  <2>3. Flushed(s) \in Session /\ Flushed(s).mem = s.mem /\ Flushed(s).seen = s.mem
        /\ Flushed(s).failed = s.failed
    BY <2>1, <2>2 DEF Session
  <2>4. Len(s.mem.remarks) \in Nat
    BY <2>2, LenProperties DEF Tables
  <2>5. Ahead(Flushed(s))
    BY <2>3, <2>4 DEF Ahead
  <2> QED
    BY <2>3, <2>5 DEF Held, RolesFlushed
<1> QED
  BY <1>1, <1>2

(* A line's report changes no table.                                       *)
LEMMA WarnedHeld ==
  ASSUME NEW s, Held(s), NEW p \in 1..MaxLines
  PROVE  /\ Held(Warned(s, p)) /\ (RolesFlushed(s) => RolesFlushed(Warned(s, p)))
         /\ Warned(s, p).mem = s.mem /\ Warned(s, p).seen = s.seen
         /\ Warned(s, p).failed = s.failed
BY DEF Held, Ahead, Warned, Session, RolesFlushed

(* Changing the pending tables: the change must be typed, keep the links   *)
(* right and not take away what queries find.                              *)
LEMMA MemHeld ==
  ASSUME NEW s, Held(s), NEW t \in Session, t.seen = s.seen,
         RolesHold(t.mem),
         s.mem.teachers \subseteq t.mem.teachers,
         \A a \in Admissions : s.mem.student[a] # None => t.mem.student[a] # None,
         Len(s.mem.remarks) <= Len(t.mem.remarks)
  PROVE  Held(t)
<1>1. s \in Session /\ s.seen \in Tables /\ s.mem \in Tables /\ t.mem \in Tables
  BY DEF Held, Session
<1>2. Len(s.seen.remarks) \in Nat /\ Len(s.mem.remarks) \in Nat /\ Len(t.mem.remarks) \in Nat
  BY <1>1, LenProperties DEF Tables
<1>3. \A a \in Admissions : s.seen.student[a] # None => t.mem.student[a] # None
  BY DEF Held, Ahead
<1>4. s.seen.teachers \subseteq t.mem.teachers
  BY DEF Held, Ahead
<1>5. Len(s.seen.remarks) <= Len(t.mem.remarks)
  <2>1. Len(s.seen.remarks) <= Len(s.mem.remarks) BY DEF Held, Ahead
  <2> QED BY <1>2, <2>1
<1>6. Ahead(t)
  BY <1>3, <1>4, <1>5 DEF Ahead
<1> QED
  BY <1>6 DEF Held

(* Tables with the same roles, teachers, students and assignments keep them.*)
LEMMA SameRoles ==
  ASSUME NEW m, NEW n, RolesHold(m), n.role = m.role, n.teachers = m.teachers,
         n.student = m.student, n.taught = m.taught
  PROVE  RolesHold(n)
BY DEF RolesHold

Kept(s) == Held(s) /\ RolesFlushed(s)

LEMMA GradeKept ==
  ASSUME NEW s, Kept(s), NEW g \in Grades
  PROVE  Kept(GradeFor(s, g))
<1> PICK t : t = [s EXCEPT !.mem.grades = @ \cup {g}]
  OBVIOUS
<1>1. s \in Session /\ s.mem \in Tables
  BY DEF Kept, Held, Session
<1>2. /\ t \in Session /\ t.seen = s.seen /\ t.failed = s.failed
      /\ t.mem.role = s.mem.role /\ t.mem.teachers = s.mem.teachers
      /\ t.mem.student = s.mem.student /\ t.mem.taught = s.mem.taught
      /\ t.mem.remarks = s.mem.remarks
  BY <1>1 DEF Session, Tables
<1>3. Len(s.mem.remarks) \in Nat /\ RolesHold(t.mem)
  <2>1. s.mem.remarks \in Seq(RemarkRow) BY <1>1 DEF Tables
  <2>2. Len(s.mem.remarks) \in Nat BY <2>1, LenProperties
  <2>3. RolesHold(s.mem) BY DEF Kept, Held
  <2>4. RolesHold(t.mem) BY <1>2, <2>3, SameRoles
  <2> QED BY <2>2, <2>4
<1>4. Kept(t)
  <2>1. Held(s)
    BY DEF Kept
  <2>2. Len(s.mem.remarks) <= Len(t.mem.remarks)
    BY <1>2, <1>3
  <2>3. Held(t)
    BY <1>2, <1>3, <2>1, <2>2, MemHeld
  <2> QED
    BY <1>2, <2>3 DEF Kept, RolesFlushed
<1> QED
  BY <1>4, FlushedHeld DEF GradeFor, Kept

LEMMA SubjectKept ==
  ASSUME NEW s, Kept(s), NEW j \in Subjects
  PROVE  Kept(SubjectFor(s, j))
<1> PICK t : t = [s EXCEPT !.mem.subjects = @ \cup {j}]
  OBVIOUS
<1>1. s \in Session /\ s.mem \in Tables
  BY DEF Kept, Held, Session
<1>2. /\ t \in Session /\ t.seen = s.seen /\ t.failed = s.failed
      /\ t.mem.role = s.mem.role /\ t.mem.teachers = s.mem.teachers
      /\ t.mem.student = s.mem.student /\ t.mem.taught = s.mem.taught
      /\ t.mem.remarks = s.mem.remarks
  BY <1>1 DEF Session, Tables
<1>3. Len(s.mem.remarks) \in Nat /\ RolesHold(t.mem)
  <2>1. s.mem.remarks \in Seq(RemarkRow) BY <1>1 DEF Tables
  <2>2. Len(s.mem.remarks) \in Nat BY <2>1, LenProperties
  <2>3. RolesHold(s.mem) BY DEF Kept, Held
  <2>4. RolesHold(t.mem) BY <1>2, <2>3, SameRoles
  <2> QED BY <2>2, <2>4
<1>4. Kept(t)
  <2>1. Held(s)
    BY DEF Kept
  <2>2. Len(s.mem.remarks) <= Len(t.mem.remarks)
    BY <1>2, <1>3
  <2>3. Held(t)
    BY <1>2, <1>3, <2>1, <2>2, MemHeld
  <2> QED
    BY <1>2, <2>3 DEF Kept, RolesFlushed
<1> QED
  BY <1>4, FlushedHeld DEF SubjectFor, Kept

LEMMA SectionKept ==
  ASSUME NEW s, Kept(s), NEW c \in Sections
  PROVE  Kept(SectionFor(s, c))
<1> PICK t : t = [s EXCEPT !.mem.sections = @ \cup {c}, !.twice = s.twice \/ c \in s.mem.sections]
  OBVIOUS
<1>1. s \in Session /\ s.mem \in Tables
  BY DEF Kept, Held, Session
<1>2. /\ t \in Session /\ t.seen = s.seen /\ t.failed = s.failed
      /\ t.mem.role = s.mem.role /\ t.mem.teachers = s.mem.teachers
      /\ t.mem.student = s.mem.student /\ t.mem.taught = s.mem.taught
      /\ t.mem.remarks = s.mem.remarks
  BY <1>1 DEF Session, Tables
<1>3. Len(s.mem.remarks) \in Nat /\ RolesHold(t.mem)
  <2>1. s.mem.remarks \in Seq(RemarkRow) BY <1>1 DEF Tables
  <2>2. Len(s.mem.remarks) \in Nat BY <2>1, LenProperties
  <2>3. RolesHold(s.mem) BY DEF Kept, Held
  <2>4. RolesHold(t.mem) BY <1>2, <2>3, SameRoles
  <2> QED BY <2>2, <2>4
<1>4. Kept(t)
  <2>1. Held(s)
    BY DEF Kept
  <2>2. Len(s.mem.remarks) <= Len(t.mem.remarks)
    BY <1>2, <1>3
  <2>3. Held(t)
    BY <1>2, <1>3, <2>1, <2>2, MemHeld
  <2> QED
    BY <1>2, <2>3 DEF Kept, RolesFlushed
<1> QED
  BY <1>4 DEF SectionFor

(* No line of school_structure.csv touches a role or a link.               *)
LEMMA StructureKept ==
  ASSUME NEW s, Kept(s), NEW l \in Lines, l.file = "structure"
  PROVE  Kept(StructureLine(s, l))
<1>1. l.section \in Sections /\ l.subject \in Subjects
  BY DEF Lines
<1>2. GradeOf[l.section] \in Grades
  BY <1>1, LinesAssumption
<1> QED
  BY <1>1, <1>2, GradeKept, SubjectKept, SectionKept DEF StructureLine

(* A user who exists keeps the role; a new one is not yet in any link.     *)
LEMMA UserKept ==
  ASSUME NEW s, Kept(s), s.failed = FALSE, NEW u \in Users, NEW r \in Roles
  PROVE  Kept(UserFor(s, u, r))
<1> PICK t : t = [s EXCEPT !.mem.role[u] = r]
  OBVIOUS
<1>1. s \in Session /\ s.mem \in Tables /\ s.seen.role = s.mem.role
  BY DEF Kept, Held, Session, RolesFlushed
<1>2. /\ t.mem.role = [s.mem.role EXCEPT ![u] = r] /\ t.mem.teachers = s.mem.teachers
      /\ t.mem.student = s.mem.student /\ t.mem.taught = s.mem.taught
      /\ t.mem.remarks = s.mem.remarks /\ t.seen = s.seen
  BY <1>1 DEF Session, Tables
<1>3. t \in Session
  BY <1>1, <1>2 DEF Session, Tables, Opt
<1>4. Len(s.mem.remarks) \in Nat
  BY <1>1, LenProperties DEF Tables
<1>7. CASE s.seen.role[u] = None
  <2>1. s.mem.role \in [Users -> Opt(Roles)] /\ s.mem.role[u] = None
    BY <1>1, <1>7 DEF Tables
  <2>2. \A v \in Users : s.mem.role[v] # None => t.mem.role[v] = s.mem.role[v]
    BY <2>1, <1>2
  <2>3. None \notin Roles
    BY LinesAssumption
  <2>4. s.mem.student \in [Admissions -> StudentRow \cup {None}]
        /\ s.mem.taught \in [Sections \X Subjects -> Opt(Users)]
        /\ s.mem.teachers \subseteq Users
    BY <1>1 DEF Tables
  <2>5. RolesHold(s.mem)
    BY DEF Kept, Held
  <2>6. ASSUME NEW a \in Admissions, t.mem.student[a] # None
        PROVE  /\ t.mem.student[a].user # None => t.mem.role[t.mem.student[a].user] = "student"
               /\ t.mem.student[a].guardian # None => t.mem.role[t.mem.student[a].guardian] = "parent"
    <3>1. t.mem.student[a].user \in Opt(Users) /\ t.mem.student[a].guardian \in Opt(Users)
      BY <2>4, <2>6, <1>2 DEF StudentRow
    <3>2. "student" # None /\ "parent" # None
      BY <2>3 DEF Roles
    <3> QED
      BY <3>1, <3>2, <2>2, <2>5, <2>6, <1>2 DEF RolesHold, Opt
  <2>7. ASSUME NEW v \in t.mem.teachers PROVE t.mem.role[v] = "teacher"
    <3>1. "teacher" # None
      BY <2>3 DEF Roles
    <3> QED
      BY <3>1, <2>2, <2>4, <2>5, <1>2 DEF RolesHold
  <2>8. RolesHold(t.mem)
    BY <2>6, <2>7, <2>5, <1>2 DEF RolesHold
  <2>9. Held(t)
    <3>1. Held(s)
      BY DEF Kept
    <3>2. Len(s.mem.remarks) <= Len(t.mem.remarks)
      BY <1>2, <1>4
    <3> QED
      BY <1>2, <1>3, <2>8, <3>1, <3>2, MemHeld
  <2> QED
    BY <2>9, <1>7, FlushedHeld DEF UserFor, Kept
<1>8. CASE s.seen.role[u] # None
  BY <1>8 DEF UserFor
<1> QED
  BY <1>7, <1>8

-----------------------------------------------------------------------------
(* A change of links alone that keeps them right.                          *)
LEMMA LinksKept ==
  ASSUME NEW s, Kept(s), NEW t \in Session, t.seen = s.seen, t.failed = s.failed,
         t.mem.role = s.mem.role, t.mem.teachers = s.mem.teachers,
         t.mem.remarks = s.mem.remarks, RolesHold(t.mem),
         \A a \in Admissions : s.mem.student[a] # None => t.mem.student[a] # None
  PROVE  Kept(t)
<1>1. Held(s) /\ s.mem \in Tables
  BY DEF Kept, Held, Session
<1>2. Len(s.mem.remarks) <= Len(t.mem.remarks)
  BY <1>1, LenProperties DEF Tables
<1>3. Held(t)
  BY <1>1, <1>2, MemHeld
<1> QED
  BY <1>3 DEF Kept, RolesFlushed

(* A student line links a student only to a login of that role.            *)
LEMMA StudentKept ==
  ASSUME NEW s, Kept(s), NEW p \in 1..MaxLines, NEW l \in Lines, l.file = "users",
         s.mem.role[l.user] = "student"
  PROVE  Kept(LinkStudent(s, l, p))
<1>1. /\ l.user \in Users /\ l.adm \in Opt(Admissions) /\ l.section \in Opt(Sections)
      /\ l.user # None
  BY LinesAssumption DEF Lines
<1>2. /\ s \in Session /\ s.mem \in Tables /\ s.seen \in Tables /\ RolesHold(s.mem)
      /\ Ahead(s) /\ None \notin StudentRow
  BY LinesAssumption DEF Kept, Held, Session
<1>3. s.mem.student \in [Admissions -> StudentRow \cup {None}]
  BY <1>2 DEF Tables
<1>4. CASE l.adm # None /\ s.seen.student[l.adm] # None
  <2>r. PICK r : r = [s.mem.student[l.adm] EXCEPT !.user = l.user]
    OBVIOUS
  <2>t. PICK t : t = [s EXCEPT !.mem.student[l.adm].user = l.user]
    OBVIOUS
  <2>1. l.adm \in Admissions /\ s.mem.student[l.adm] \in StudentRow
    BY <1>1, <1>2, <1>3, <1>4 DEF Ahead, Opt
  <2>2. r \in StudentRow /\ r.user = l.user /\ r.guardian = s.mem.student[l.adm].guardian
    BY <1>1, <2>1, <2>r DEF StudentRow, Opt
  <2>3. /\ t.mem.student = [s.mem.student EXCEPT ![l.adm] = r]
        /\ t.seen = s.seen /\ t.failed = s.failed
        /\ t.mem.role = s.mem.role /\ t.mem.teachers = s.mem.teachers
        /\ t.mem.taught = s.mem.taught /\ t.mem.remarks = s.mem.remarks
    BY <1>2, <2>r, <2>t DEF Session, Tables
  <2>4. t.mem.student \in [Admissions -> StudentRow \cup {None}]
    BY <1>3, <2>1, <2>2, <2>3
  <2>5. t \in Session
    BY <1>2, <2>4, <2>t DEF Session, Tables
  <2>6. \A a \in Admissions :
          t.mem.student[a] = IF a = l.adm THEN r ELSE s.mem.student[a]
    BY <1>3, <2>3
  <2>7. s.mem.student[l.adm] # None
    BY <1>2, <2>1
  <2>8. RolesHold(t.mem)
    BY <1>1, <1>2, <2>1, <2>2, <2>3, <2>6, <2>7 DEF RolesHold
  <2>9. \A a \in Admissions : s.mem.student[a] # None => t.mem.student[a] # None
    BY <1>2, <2>2, <2>6
  <2>10. Kept(t)
    BY <2>3, <2>5, <2>8, <2>9, LinksKept
  <2> QED
    BY <1>4, <2>10, <2>t DEF LinkStudent
<1>5. CASE l.adm # None /\ s.seen.student[l.adm] = None /\ l.section \in s.seen.sections
  <2>r. PICK r : r = [user |-> l.user, guardian |-> None, section |-> l.section]
    OBVIOUS
  <2>t. PICK t : t = [s EXCEPT !.mem.student[l.adm] = r]
    OBVIOUS
  <2>1. l.adm \in Admissions /\ l.section \in Sections
    BY <1>1, <1>2, <1>5 DEF Opt, Tables
  <2>2. r \in StudentRow /\ r.user = l.user /\ r.guardian = None
    BY <1>1, <2>1, <2>r DEF StudentRow, Opt
  <2>3. /\ t.mem.student = [s.mem.student EXCEPT ![l.adm] = r]
        /\ t.seen = s.seen /\ t.failed = s.failed
        /\ t.mem.role = s.mem.role /\ t.mem.teachers = s.mem.teachers
        /\ t.mem.taught = s.mem.taught /\ t.mem.remarks = s.mem.remarks
    BY <1>2, <2>r, <2>t DEF Session, Tables
  <2>4. t.mem.student \in [Admissions -> StudentRow \cup {None}]
    BY <1>3, <2>1, <2>2, <2>3
  <2>5. t \in Session
    BY <1>2, <2>4, <2>t DEF Session, Tables
  <2>6. \A a \in Admissions :
          t.mem.student[a] = IF a = l.adm THEN r ELSE s.mem.student[a]
    BY <1>3, <2>3
  <2>8. RolesHold(t.mem)
    BY <1>1, <1>2, <2>1, <2>2, <2>3, <2>6 DEF RolesHold
  <2>9. \A a \in Admissions : s.mem.student[a] # None => t.mem.student[a] # None
    BY <1>2, <2>2, <2>6
  <2>10. Kept(t)
    BY <2>3, <2>5, <2>8, <2>9, LinksKept
  <2> QED
    BY <1>5, <2>10, <2>r, <2>t, FlushedHeld DEF LinkStudent, Kept
<1>6. CASE l.adm # None /\ s.seen.student[l.adm] = None /\ l.section \notin s.seen.sections
  BY <1>6, WarnedHeld DEF LinkStudent, Kept
<1>7. CASE l.adm = None
  BY <1>7 DEF LinkStudent
<1> QED
  BY <1>4, <1>5, <1>6, <1>7

(* A parent line likewise.                                                 *)
LEMMA ParentKept ==
  ASSUME NEW s, Kept(s), NEW p \in 1..MaxLines, NEW l \in Lines, l.file = "users",
         s.mem.role[l.user] = "parent"
  PROVE  Kept(LinkParent(s, l, p))
<1>1. l.user \in Users /\ l.adm \in Opt(Admissions) /\ l.user # None
  BY LinesAssumption DEF Lines
<1>2. /\ s \in Session /\ s.mem \in Tables /\ s.seen \in Tables /\ RolesHold(s.mem)
      /\ Ahead(s) /\ None \notin StudentRow
  BY LinesAssumption DEF Kept, Held, Session
<1>3. s.mem.student \in [Admissions -> StudentRow \cup {None}]
  BY <1>2 DEF Tables
<1>4. CASE l.adm # None /\ s.seen.student[l.adm] # None
  <2>r. PICK r : r = [s.mem.student[l.adm] EXCEPT !.guardian = l.user]
    OBVIOUS
  <2>t. PICK t : t = [s EXCEPT !.mem.student[l.adm].guardian = l.user]
    OBVIOUS
  <2>1. l.adm \in Admissions /\ s.mem.student[l.adm] \in StudentRow
    BY <1>1, <1>2, <1>3, <1>4 DEF Ahead, Opt
  <2>2. r \in StudentRow /\ r.guardian = l.user /\ r.user = s.mem.student[l.adm].user
    BY <1>1, <2>1, <2>r DEF StudentRow, Opt
  <2>3. /\ t.mem.student = [s.mem.student EXCEPT ![l.adm] = r]
        /\ t.seen = s.seen /\ t.failed = s.failed
        /\ t.mem.role = s.mem.role /\ t.mem.teachers = s.mem.teachers
        /\ t.mem.taught = s.mem.taught /\ t.mem.remarks = s.mem.remarks
    BY <1>2, <2>r, <2>t DEF Session, Tables
  <2>4. t.mem.student \in [Admissions -> StudentRow \cup {None}]
    BY <1>3, <2>1, <2>2, <2>3
  <2>5. t \in Session
    BY <1>2, <2>4, <2>t DEF Session, Tables
  <2>6. \A a \in Admissions :
          t.mem.student[a] = IF a = l.adm THEN r ELSE s.mem.student[a]
    BY <1>3, <2>3
  <2>7. s.mem.student[l.adm] # None
    BY <1>2, <2>1
  <2>8. RolesHold(t.mem)
    BY <1>1, <1>2, <2>1, <2>2, <2>3, <2>6, <2>7 DEF RolesHold
  <2>9. \A a \in Admissions : s.mem.student[a] # None => t.mem.student[a] # None
    BY <1>2, <2>2, <2>6
  <2>10. Kept(t)
    BY <2>3, <2>5, <2>8, <2>9, LinksKept
  <2> QED
    BY <1>4, <2>10, <2>t DEF LinkParent
<1>5. CASE l.adm # None /\ s.seen.student[l.adm] = None
  BY <1>5, WarnedHeld DEF LinkParent, Kept
<1>6. CASE l.adm = None
  BY <1>6 DEF LinkParent
<1> QED
  BY <1>4, <1>5, <1>6

LEMMA TeacherForKept ==
  ASSUME NEW s, Kept(s), NEW u \in Users, s.mem.role[u] = "teacher"
  PROVE  Kept(TeacherFor(s, u)) /\ u \in TeacherFor(s, u).mem.teachers
<1>t. PICK t : t = [s EXCEPT !.mem.teachers = @ \cup {u}]
  OBVIOUS
<1>1. /\ s \in Session /\ s.mem \in Tables /\ RolesHold(s.mem) /\ Ahead(s) /\ Held(s)
  BY DEF Kept, Held, Session
<1>2. /\ t \in Session /\ t.seen = s.seen /\ t.failed = s.failed
      /\ t.mem.role = s.mem.role /\ t.mem.teachers = s.mem.teachers \cup {u}
      /\ t.mem.student = s.mem.student /\ t.mem.taught = s.mem.taught
      /\ t.mem.remarks = s.mem.remarks
  BY <1>1, <1>t DEF Session, Tables
<1>3. RolesHold(t.mem)
  BY <1>1, <1>2 DEF RolesHold
<1>4. Len(s.mem.remarks) <= Len(t.mem.remarks)
  BY <1>1, <1>2, LenProperties DEF Tables
<1>5. Held(t)
  BY <1>1, <1>2, <1>3, <1>4, MemHeld
<1>6. CASE u \in s.seen.teachers
  BY <1>1, <1>6 DEF TeacherFor, Ahead
<1>7. CASE u \notin s.seen.teachers
  <2>1. TeacherFor(s, u) = Flushed(t)
    BY <1>7, <1>t DEF TeacherFor
  <2> QED
    BY <1>2, <1>5, <2>1, FlushedHeld DEF Kept
<1> QED
  BY <1>6, <1>7

(* Who is assigned has just been made a teacher.                           *)
LEMMA AssignKept ==
  ASSUME NEW s, Kept(s), NEW l, l.section \in Sections, l.subject \in Subjects,
         l.user \in s.mem.teachers
  PROVE  Kept(Assign(s, l))
<1>key. PICK key : key = <<l.section, l.subject>>
  OBVIOUS
<1>b. PICK b : b = (s.twice \/ (s.seen.taught[key] = None /\ s.mem.taught[key] # None))
  OBVIOUS
<1>t. PICK t : t = [s EXCEPT !.mem.taught[key] = l.user, !.twice = b]
  OBVIOUS
<1>1. /\ s \in Session /\ s.mem \in Tables /\ RolesHold(s.mem) /\ b \in BOOLEAN
      /\ key \in Sections \X Subjects
  BY <1>key, <1>b DEF Kept, Held, Session
<1>2. l.user \in Users /\ s.mem.taught \in [Sections \X Subjects -> Opt(Users)]
  BY <1>1 DEF Tables
<1>3. /\ t.mem.taught = [s.mem.taught EXCEPT ![key] = l.user]
      /\ t.seen = s.seen /\ t.failed = s.failed
      /\ t.mem.role = s.mem.role /\ t.mem.teachers = s.mem.teachers
      /\ t.mem.student = s.mem.student /\ t.mem.remarks = s.mem.remarks
  BY <1>1, <1>t DEF Session, Tables
<1>4. t.mem.taught \in [Sections \X Subjects -> Opt(Users)]
  BY <1>1, <1>2, <1>3 DEF Opt
<1>5. t \in Session
  BY <1>1, <1>4, <1>t DEF Session, Tables
<1>6. \A k \in Sections \X Subjects :
        t.mem.taught[k] = IF k = key THEN l.user ELSE s.mem.taught[k]
  BY <1>2, <1>3
<1>7. RolesHold(t.mem)
  BY <1>1, <1>3, <1>6 DEF RolesHold
<1>8. Kept(t)
  BY <1>3, <1>5, <1>7, LinksKept
<1> QED
  BY <1>8, <1>key, <1>b, <1>t DEF Assign

LEMMA LinkTeacherKept ==
  ASSUME NEW s, Kept(s), NEW p \in 1..MaxLines, NEW l \in Lines, l.file = "users",
         s.mem.role[l.user] = "teacher"
  PROVE  Kept(LinkTeacher(s, l, p))
<1>1. l.user \in Users /\ l.section \in Opt(Sections) /\ l.subject \in Opt(Subjects)
  BY DEF Lines
<1>t. PICK t : t = TeacherFor(s, l.user)
  OBVIOUS
<1>2. Kept(t) /\ l.user \in t.mem.teachers
  BY <1>1, <1>t, TeacherForKept
<1>3. CASE l.section # None /\ l.subject # None
           /\ l.section \in t.seen.sections /\ l.subject \in t.seen.subjects
  <2>1. l.section \in Sections /\ l.subject \in Subjects
    BY <1>1, <1>3 DEF Opt
  <2>2. Kept(Assign(t, l))
    BY <1>2, <2>1, AssignKept
  <2> QED
    BY <1>3, <1>t, <2>2 DEF LinkTeacher
<1>4. Kept(Warned(t, p))
  BY <1>2, WarnedHeld DEF Kept
<1> QED
  BY <1>2, <1>3, <1>4, <1>t DEF LinkTeacher

(* A line of users.csv keeps every link right.                             *)
LEMMA UserLineKept ==
  ASSUME NEW s, Kept(s), s.failed = FALSE, NEW p \in 1..MaxLines, NEW l \in Lines,
         l.file = "users"
  PROVE  Kept(UserLine(s, l, p))
<1>1. l.user \in Users /\ l.role \in Roles
  BY DEF Lines
<1>t. PICK t : t = UserFor(s, l.user, l.role)
  OBVIOUS
<1>2. Kept(t)
  BY <1>1, <1>t, UserKept
<1>3. Kept(Warned(t, p))
  BY <1>2, WarnedHeld DEF Kept
<1>4. CASE t.mem.role[l.user] = l.role
  <2>1. Kept(Link(t, l, p))
    BY <1>1, <1>2, <1>4, StudentKept, ParentKept, LinkTeacherKept DEF Link, Roles
  <2> QED
    BY <1>4, <1>t, <2>1 DEF UserLine
<1>5. CASE t.mem.role[l.user] # l.role
  BY <1>3, <1>5, <1>t DEF UserLine
<1> QED
  BY <1>4, <1>5

(* A remark touches no role and no link.                                   *)
LEMMA RemarksKept ==
  ASSUME NEW s, Kept(s), NEW R \in Seq(RemarkRow), Len(s.mem.remarks) <= Len(R)
  PROVE  Kept([s EXCEPT !.mem.remarks = R])
<1>t. PICK t : t = [s EXCEPT !.mem.remarks = R]
  OBVIOUS
<1>1. s \in Session /\ s.mem \in Tables /\ RolesHold(s.mem) /\ Held(s)
  BY DEF Kept, Held, Session
<1>2. /\ t \in Session /\ t.seen = s.seen /\ t.failed = s.failed
      /\ t.mem.role = s.mem.role /\ t.mem.teachers = s.mem.teachers
      /\ t.mem.student = s.mem.student /\ t.mem.taught = s.mem.taught
      /\ t.mem.remarks = R
  BY <1>1, <1>t DEF Session, Tables
<1>3. RolesHold(t.mem)
  BY <1>1, <1>2 DEF RolesHold
<1>4. Held(t)
  BY <1>1, <1>2, <1>3, MemHeld
<1>5. Kept(t)
  BY <1>2, <1>4 DEF Kept, RolesFlushed
<1> QED
  BY <1>5, <1>t

LEMMA RemarkLineKept ==
  ASSUME NEW s, Kept(s), NEW p \in 1..MaxLines, NEW l \in Lines, l.file = "remarks",
         NEW i, MayFind(s, l, i)
  PROVE  Kept(RemarkLine(s, l, p, i))
<1>1. l.adm \in Admissions /\ l.id \in Opt(Ids) /\ l.note \in Notes
  BY DEF Lines
<1>2. /\ s \in Session /\ s.mem \in Tables /\ s.seen \in Tables /\ Ahead(s)
  BY DEF Kept, Held, Session
<1>3. /\ s.mem.remarks \in Seq(RemarkRow) /\ s.seen.remarks \in Seq(RemarkRow)
  BY <1>2 DEF Tables
<1>4. Kept(Warned(s, p))
  BY WarnedHeld DEF Kept
<1>5. CASE i = 0
  <2>r. PICK row : row = [adm |-> l.adm, id |-> l.id, note |-> l.note]
    OBVIOUS
  <2>R. PICK R : R = Append(s.mem.remarks, row)
    OBVIOUS
  <2>1. row \in RemarkRow
    BY <1>1, <2>r DEF RemarkRow
  <2>2. R \in Seq(RemarkRow) /\ Len(s.mem.remarks) <= Len(R)
    BY <1>3, <2>1, <2>R, AppendProperties, LenProperties
  <2>3. Kept([s EXCEPT !.mem.remarks = R])
    BY <2>2, RemarksKept
  <2> QED
    BY <1>4, <1>5, <2>3, <2>r, <2>R DEF RemarkLine
<1>6. CASE i # 0
  <2>1. i \in DOMAIN s.seen.remarks
    BY <1>6 DEF MayFind
  <2>2. i \in 1..Len(s.mem.remarks)
    BY <1>2, <1>3, <2>1, LenProperties DEF Ahead
  <2>3. s.mem.remarks[i] \in RemarkRow
    BY <1>3, <2>2, ElementOfSeq
  <2>r. PICK row : row = [s.mem.remarks[i] EXCEPT !.note = l.note]
    OBVIOUS
  <2>R. PICK R : R = [s.mem.remarks EXCEPT ![i] = row]
    OBVIOUS
  <2>4. row \in RemarkRow
    BY <1>1, <2>3, <2>r DEF RemarkRow
  <2>5. R \in Seq(RemarkRow) /\ Len(R) = Len(s.mem.remarks)
    BY <1>3, <2>2, <2>4, <2>R, ExceptSeq
  <2>6. Len(s.mem.remarks) <= Len(R)
    BY <2>5, <1>3, LenProperties
  <2>7. Kept([s EXCEPT !.mem.remarks = R])
    BY <2>5, <2>6, RemarksKept
  <2>8. [s EXCEPT !.mem.remarks = R] = [s EXCEPT !.mem.remarks[i].note = l.note]
    BY <2>r, <2>R
  <2> QED
    BY <1>4, <1>6, <2>7, <2>8 DEF RemarkLine
<1> QED
  BY <1>5, <1>6

-----------------------------------------------------------------------------
LEMMA InitInv == Init => IInv
<1> SUFFICES ASSUME Init PROVE IInv
  OBVIOUS
<1>1. Empty \in Tables
  BY DEF Empty, Tables, Opt
<1>2. RolesHold(Empty)
  BY DEF Empty, RolesHold
<1>3. Opened(Empty) \in Session
  BY <1>1 DEF Opened, Session
<1>4. Held(ses)
  BY <1>1, <1>2, <1>3, LenProperties DEF Init, Held, Ahead, Opened, Empty
<1>5. SesInv
  BY <1>4 DEF Init, SesInv, Opened
<1>6. TypeOK
  BY <1>1, <1>3, LinesAssumption DEF Init, TypeOK, Outcomes
<1>7. FileInv
  BY DEF Init, FileInv
<1> QED
  BY <1>2, <1>5, <1>6, <1>7 DEF IInv, Init

(* A session opened on the committed tables.                               *)
LEMMA OpenedInv ==
  ASSUME NEW t \in Tables, RolesHold(t)
  PROVE  /\ Held(Opened(t)) /\ Opened(t).failed = FALSE
         /\ Opened(t).seen.role = Opened(t).mem.role
<1>1. Opened(t) \in Session /\ Opened(t).seen = t /\ Opened(t).mem = t
      /\ Opened(t).failed = FALSE
  BY DEF Opened, Session
<1>2. Len(t.remarks) \in Nat
  BY LenProperties DEF Tables
<1> QED
  BY <1>1, <1>2 DEF Held, Ahead

LEMMA AfterInv ==
  ASSUME IInv, NEW l \in FileLines, IsNext(l), NEW s, Kept(s), After(s, l)
  PROVE  IInv'
<1>1. /\ TypeOK /\ RolesHold(db) /\ db \in Tables /\ UNCHANGED <<db, bundles, before>>
      /\ stage = "reading" /\ pos < MaxLines /\ round < MaxApplies
      /\ file \in Seq(FileLines) /\ Len(file) \in Nat /\ pos \in Nat /\ round \in Nat
      /\ MaxApplies \in Nat /\ MaxLines \in Nat /\ s \in Session
  BY LinesAssumption, LenProperties DEF IInv, FileInv, TypeOK, After, IsNext, Kept, Held
<1>2. /\ file' \in Seq(FileLines) /\ Len(file') <= MaxLines
      /\ round = 0 => Len(file') = pos + 1
  <2>1. CASE round = 0
    <3>1. file' = Append(file, l) /\ pos = Len(file)
      BY <1>1, <2>1 DEF After, IInv, FileInv
    <3>2. file' \in Seq(FileLines) /\ Len(file') = pos + 1
      BY <1>1, <3>1, AppendProperties
    <3> QED
      BY <1>1, <3>2
  <2>2. CASE round # 0
    BY <1>1, <2>2 DEF After, TypeOK
  <2> QED
    BY <2>1, <2>2
<1>3. CASE s.failed
  <2>1. stage' = "idle" /\ outcome' = "refused" /\ ses' = Opened(db) /\ pos' = 0
        /\ round' = round + 1
    BY <1>3 DEF After
  <2>2. SesInv'
    BY <1>1, <2>1, OpenedInv DEF SesInv
  <2>3. TypeOK'
    BY <1>1, <1>2, <2>1, <2>2 DEF TypeOK, SesInv, Held, Outcomes
  <2>4. FileInv'
    BY <1>1, <2>1 DEF FileInv
  <2> QED
    BY <1>1, <2>2, <2>3, <2>4 DEF IInv
<1>4. CASE ~s.failed
  <2>1. ses' = s /\ pos' = pos + 1 /\ UNCHANGED <<stage, outcome, round>>
    BY <1>4 DEF After
  <2>2. s.failed = FALSE
    BY <1>1, <1>4 DEF Session
  <2>3. SesInv'
    BY <2>1, <2>2 DEF SesInv, Kept, RolesFlushed
  <2>4. TypeOK'
    BY <1>1, <1>2, <2>1 DEF TypeOK
  <2>5. FileInv'
    BY <1>1, <1>2, <2>1 DEF FileInv
  <2> QED
    BY <1>1, <2>3, <2>4, <2>5 DEF IInv
<1> QED
  BY <1>3, <1>4

LEMMA ReadInv ==
  ASSUME IInv, NEW l \in FileLines, NEW i,
         ReadStructure(l) \/ ReadUser(l) \/ ReadRemark(l, i)
  PROVE  IInv'
<1>1. l \in Lines
  BY LinesAssumption
<1>2. Kept(ses) /\ ses.failed = FALSE
  BY DEF IInv, SesInv, Kept, RolesFlushed
<1>3. IsNext(l) => pos + 1 \in 1..MaxLines
  BY LinesAssumption DEF IsNext, IInv, TypeOK
<1>4. CASE ReadStructure(l)
  BY <1>1, <1>2, <1>4, StructureKept, AfterInv DEF ReadStructure
<1>5. CASE ReadUser(l)
  <2>1. Kept(UserLine(ses, l, pos + 1))
    BY <1>1, <1>2, <1>3, <1>5, UserLineKept DEF ReadUser
  <2> QED
    BY <1>5, <2>1, AfterInv DEF ReadUser
<1>6. CASE ReadRemark(l, i)
  <2>1. Kept(RemarkLine(ses, l, pos + 1, i))
    BY <1>1, <1>2, <1>3, <1>6, RemarkLineKept DEF ReadRemark
  <2> QED
    BY <1>6, <2>1, AfterInv DEF ReadRemark
<1> QED
  BY <1>4, <1>5, <1>6

LEMMA CommitInv ==
  ASSUME IInv, Commit
  PROVE  IInv'
<1>s. PICK s : s = Flushed(ses)
  OBVIOUS
<1>1. /\ Held(ses) /\ Held(s) /\ RolesFlushed(s) /\ s.mem = ses.mem
      /\ s \in Session /\ s.mem \in Tables /\ RolesHold(s.mem)
  BY <1>s, FlushedHeld DEF IInv, SesInv, Held, Session
<1>2. /\ db \in Tables /\ RolesHold(db) /\ TypeOK
      /\ round \in Nat /\ round < MaxApplies /\ stage = "reading" /\ MaxApplies \in Nat
  BY LinesAssumption DEF IInv, TypeOK, Commit, FileInv
<1>3. /\ stage' = "idle" /\ pos' = 0 /\ round' = round + 1
      /\ UNCHANGED <<file, bundles, before>>
      /\ outcome' \in {"refused", "applied"}
      /\ ses' = IF s.failed THEN Opened(db) ELSE s
      /\ db' = IF s.failed THEN db ELSE s.mem
  BY <1>s DEF Commit
<1>4. db' \in Tables /\ RolesHold(db')
  BY <1>1, <1>2, <1>3
<1>5. SesInv'
  <2>1. CASE s.failed
    BY <2>1, <1>2, <1>3, OpenedInv DEF SesInv
  <2>2. CASE ~s.failed
    BY <2>2, <1>1, <1>3 DEF SesInv, RolesFlushed, Session
  <2> QED
    BY <2>1, <2>2
<1>6. TypeOK'
  BY <1>2, <1>3, <1>4, <1>5, LinesAssumption DEF TypeOK, SesInv, Held, Outcomes
<1>7. FileInv'
  BY <1>2, <1>3 DEF FileInv
<1>8. RolesHold(db)'
  BY <1>4 DEF RolesHold
<1> QED
  BY <1>5, <1>6, <1>7, <1>8 DEF IInv

LEMMA SessionEndsInv ==
  ASSUME IInv, Begin \/ Lost \/ NewBundle
  PROVE  IInv'
<1>1. db \in Tables /\ RolesHold(db) /\ TypeOK /\ MaxLines \in Nat /\ MaxApplies \in Nat
      /\ MaxBundles \in Nat /\ round \in Nat /\ bundles \in Nat
      /\ << >> \in Seq(FileLines) /\ Len(<< >>) = 0
  BY LinesAssumption DEF IInv, TypeOK
<1>2. db' = db /\ ses' = Opened(db) /\ before' = db
  BY DEF Begin, Lost, NewBundle
<1>3. SesInv'
  BY <1>1, <1>2, OpenedInv DEF SesInv
<1>4. TypeOK'
  <2>1. ses' \in Session
    BY <1>3 DEF SesInv, Held
  <2>2. CASE Begin
    BY <1>1, <1>2, <2>1, <2>2 DEF TypeOK, Begin
  <2>3. CASE Lost
    BY <1>1, <1>2, <2>1, <2>3 DEF TypeOK, Lost, Outcomes
  <2>4. CASE NewBundle
    BY <1>1, <1>2, <2>1, <2>4 DEF TypeOK, NewBundle, Outcomes
  <2> QED
    BY <2>2, <2>3, <2>4
<1>5. FileInv'
  BY <1>1 DEF FileInv, IInv, Begin, Lost, NewBundle
<1>6. RolesHold(db)'
  BY <1>1, <1>2 DEF RolesHold
<1> QED
  BY <1>3, <1>4, <1>5, <1>6 DEF IInv

LEMMA NextInv == IInv /\ [Next]_vars => IInv'
<1> SUFFICES ASSUME IInv, [Next]_vars PROVE IInv'
  OBVIOUS
<1>1. CASE Commit
  BY <1>1, CommitInv
<1>2. CASE Begin \/ Lost \/ NewBundle
  BY <1>2, SessionEndsInv
<1>3. ASSUME NEW l \in FileLines, NEW i,
             ReadStructure(l) \/ ReadUser(l) \/ ReadRemark(l, i)
      PROVE  IInv'
  BY <1>3, ReadInv
<1>4. CASE UNCHANGED vars
  BY <1>4 DEF vars, IInv, TypeOK, SesInv, FileInv, RolesHold, Held, Ahead
<1> QED
  BY <1>1, <1>2, <1>3, <1>4 DEF Next

(* Every reachable state is well typed, whatever the bundles and bounds.   *)
THEOREM BundleTypeCorrect == Spec => []TypeOK
<1>1. IInv => TypeOK
  BY DEF IInv
<1> QED
  BY InitInv, NextInv, <1>1, PTL DEF Spec

(* Whatever bundles are applied, in whatever order, lost or refused: links *)
(* match roles.                                                            *)
THEOREM LinksSound == Spec => []LinksMatchRoles
<1>1. IInv => LinksMatchRoles
  BY DEF IInv, LinksMatchRoles
<1> QED
  BY InitInv, NextInv, <1>1, PTL DEF Spec

-----------------------------------------------------------------------------
(* What a line that was not reported has linked stays linked until a later *)
(* line of the bundle relinks it, whatever is flushed in between.  A       *)
(* student the session does not find yet may be created anew, so a link    *)
(* counts from the moment its student is found.                            *)
Landed(s, l) ==
  /\ l.role = "student" /\ l.adm # None =>
       s.seen.student[l.adm] # None /\ s.mem.student[l.adm].user = l.user
  /\ l.role = "parent" /\ l.adm # None =>
       s.seen.student[l.adm] # None /\ s.mem.student[l.adm].guardian = l.user
  /\ l.role = "teacher" /\ l.section # None /\ l.subject # None =>
       s.mem.taught[<<l.section, l.subject>>] = l.user
  /\ l.role = "admin" => s.mem.role[l.user] = "admin"

LandedOrRelinked(s, n) ==
  \A p \in 1..n :
    file[p].file = "users" /\ p \notin s.warned =>
      \/ Landed(s, file[p])
      \/ \E q \in (p + 1)..n : q \notin s.warned /\ Relinks(file[q], file[p])

LandInv ==
  stage = "reading" =>
    pos <= Len(file) /\ ses.warned \subseteq 1..pos /\ LandedOrRelinked(ses, pos)

(* From s to t the links stay, but for the logins of the students A, the   *)
(* guardians of the students G and the teachers of the classes K.          *)
Stands(s, t, A, G, K) ==
  /\ \A a \in Admissions : s.seen.student[a] # None =>
       /\ t.seen.student[a] # None
       /\ a \notin A => t.mem.student[a].user = s.mem.student[a].user
       /\ a \notin G => t.mem.student[a].guardian = s.mem.student[a].guardian
  /\ \A k \in Sections \X Subjects : k \notin K => t.mem.taught[k] = s.mem.taught[k]
  /\ \A u \in Users : s.mem.role[u] # None => t.mem.role[u] = s.mem.role[u]

LEMMA StandsTrans ==
  ASSUME NEW s, NEW t, NEW v, NEW A, NEW G, NEW K,
         Stands(s, t, {}, {}, {}), Stands(t, v, A, G, K)
  PROVE  Stands(s, v, A, G, K)
<1>1. ASSUME NEW u \in Users, s.mem.role[u] # None
      PROVE  v.mem.role[u] = s.mem.role[u]
  BY <1>1 DEF Stands
<1>2. ASSUME NEW k \in Sections \X Subjects, k \notin K
      PROVE  v.mem.taught[k] = s.mem.taught[k]
  BY <1>2 DEF Stands
<1>3. ASSUME NEW a \in Admissions, s.seen.student[a] # None
      PROVE  /\ v.seen.student[a] # None
             /\ a \notin A => v.mem.student[a].user = s.mem.student[a].user
             /\ a \notin G => v.mem.student[a].guardian = s.mem.student[a].guardian
  BY <1>3 DEF Stands
<1> QED
  BY <1>1, <1>2, <1>3 DEF Stands

(* The same pending tables, and nothing is lost from sight.                *)
LEMMA StandsSame ==
  ASSUME NEW s, NEW t, t.mem.student = s.mem.student, t.mem.taught = s.mem.taught,
         t.mem.role = s.mem.role,
         \A a \in Admissions : s.seen.student[a] # None => t.seen.student[a] # None
  PROVE  Stands(s, t, {}, {}, {})
BY DEF Stands

(* A flush loses no link and reports no line.                              *)
LEMMA FlushedStands ==
  ASSUME NEW s \in Session,
         \A a \in Admissions : s.seen.student[a] # None => s.mem.student[a] # None
  PROVE  /\ Stands(s, Flushed(s), {}, {}, {}) /\ Flushed(s).warned = s.warned
         /\ ~Flushed(s).failed => Flushed(s).seen = s.mem
<1>2. CASE s.twice \/ SharedUser(s.mem)
  <2>1. Flushed(s) = [s EXCEPT !.failed = TRUE]
    BY <1>2 DEF Flushed
  <2>2. /\ Flushed(s).mem = s.mem /\ Flushed(s).seen = s.seen
        /\ Flushed(s).warned = s.warned /\ Flushed(s).failed
    BY <2>1 DEF Session
  <2> QED
    BY <2>2, StandsSame
<1>3. CASE ~(s.twice \/ SharedUser(s.mem))
  <2>1. Flushed(s) = [s EXCEPT !.seen = s.mem]
    BY <1>3 DEF Flushed
  <2>2. /\ Flushed(s).mem = s.mem /\ Flushed(s).seen = s.mem
        /\ Flushed(s).warned = s.warned
    BY <2>1 DEF Session
  <2>3. \A a \in Admissions : s.seen.student[a] # None => Flushed(s).seen.student[a] # None
    BY <2>2
  <2> QED
    BY <2>2, <2>3, StandsSame
<1> QED
  BY <1>2, <1>3

(* A line that only adds rows no link rests on, flushed or not.            *)
LEMMA PendingStands ==
  ASSUME NEW s, Held(s), NEW t \in Session, t.seen = s.seen, t.warned = s.warned,
         t.mem.student = s.mem.student, t.mem.taught = s.mem.taught,
         \A u \in Users : s.mem.role[u] # None => t.mem.role[u] = s.mem.role[u]
  PROVE  /\ Stands(s, t, {}, {}, {}) /\ Stands(s, Flushed(t), {}, {}, {})
         /\ Flushed(t).warned = s.warned
<1>1. Stands(s, t, {}, {}, {})
  BY DEF Stands
<1>2. Stands(t, Flushed(t), {}, {}, {}) /\ Flushed(t).warned = t.warned
  <2>1. \A a \in Admissions : t.seen.student[a] # None => t.mem.student[a] # None
    BY DEF Held, Ahead
  <2> QED
    BY <2>1, FlushedStands
<1> QED
  BY <1>1, <1>2, StandsTrans

LEMMA StandsSelf == ASSUME NEW s PROVE Stands(s, s, {}, {}, {})
BY DEF Stands

(* What stands has landed, unless it is what the line relinks.             *)
LEMMA LandedStands ==
  ASSUME NEW s, NEW t, NEW A, NEW G, NEW K, Stands(s, t, A, G, K),
         NEW l \in Lines, l.file = "users", Landed(s, l),
         l.role = "student" => l.adm \notin A,
         l.role = "parent" => l.adm \notin G,
         l.role = "teacher" => <<l.section, l.subject>> \notin K
  PROVE  Landed(t, l)
<1>1. /\ l.user \in Users /\ l.role \in Roles
      /\ l.adm # None => l.adm \in Admissions
      /\ l.section # None => l.section \in Sections
      /\ l.subject # None => l.subject \in Subjects
  BY DEF Lines, Opt
<1>2. "admin" # None
  BY LinesAssumption DEF Roles
<1>3. ASSUME l.role = "student", l.adm # None
      PROVE  t.seen.student[l.adm] # None /\ t.mem.student[l.adm].user = l.user
  <2>1. s.seen.student[l.adm] # None /\ s.mem.student[l.adm].user = l.user
    BY <1>3 DEF Landed
  <2> QED
    BY <1>1, <1>3, <2>1 DEF Stands
<1>4. ASSUME l.role = "parent", l.adm # None
      PROVE  t.seen.student[l.adm] # None /\ t.mem.student[l.adm].guardian = l.user
  <2>1. s.seen.student[l.adm] # None /\ s.mem.student[l.adm].guardian = l.user
    BY <1>4 DEF Landed
  <2> QED
    BY <1>1, <1>4, <2>1 DEF Stands
<1>5. ASSUME l.role = "teacher", l.section # None, l.subject # None
      PROVE  t.mem.taught[<<l.section, l.subject>>] = l.user
  <2>1. s.mem.taught[<<l.section, l.subject>>] = l.user
    BY <1>5 DEF Landed
  <2>2. <<l.section, l.subject>> \in Sections \X Subjects
    BY <1>1, <1>5
  <2> QED
    BY <1>5, <2>1, <2>2 DEF Stands
<1>6. ASSUME l.role = "admin" PROVE t.mem.role[l.user] = "admin"
  <2>1. s.mem.role[l.user] = "admin"
    BY <1>6 DEF Landed
  <2> QED
    BY <1>1, <1>2, <2>1 DEF Stands
<1> QED
  BY <1>3, <1>4, <1>5, <1>6 DEF Landed

-----------------------------------------------------------------------------
(* What each part of a line leaves standing.                               *)
LEMMA GradeStands ==
  ASSUME NEW s, Kept(s), NEW g \in Grades
  PROVE  Stands(s, GradeFor(s, g), {}, {}, {}) /\ GradeFor(s, g).warned = s.warned
<1>t. PICK t : t = [s EXCEPT !.mem.grades = @ \cup {g}]
  OBVIOUS
<1>1. s \in Session /\ Held(s)
  BY DEF Kept, Held
<1>2. /\ t \in Session /\ t.seen = s.seen /\ t.warned = s.warned
      /\ t.mem.student = s.mem.student /\ t.mem.taught = s.mem.taught
      /\ t.mem.role = s.mem.role
  BY <1>1, <1>t DEF Session, Tables
<1>3. Stands(s, Flushed(t), {}, {}, {}) /\ Flushed(t).warned = s.warned
  BY <1>1, <1>2, PendingStands
<1> QED
  BY <1>t, <1>3, StandsSelf DEF GradeFor

LEMMA SubjectStands ==
  ASSUME NEW s, Kept(s), NEW j \in Subjects
  PROVE  Stands(s, SubjectFor(s, j), {}, {}, {}) /\ SubjectFor(s, j).warned = s.warned
<1>t. PICK t : t = [s EXCEPT !.mem.subjects = @ \cup {j}]
  OBVIOUS
<1>1. s \in Session /\ Held(s)
  BY DEF Kept, Held
<1>2. /\ t \in Session /\ t.seen = s.seen /\ t.warned = s.warned
      /\ t.mem.student = s.mem.student /\ t.mem.taught = s.mem.taught
      /\ t.mem.role = s.mem.role
  BY <1>1, <1>t DEF Session, Tables
<1>3. Stands(s, Flushed(t), {}, {}, {}) /\ Flushed(t).warned = s.warned
  BY <1>1, <1>2, PendingStands
<1> QED
  BY <1>t, <1>3, StandsSelf DEF SubjectFor

LEMMA SectionStands ==
  ASSUME NEW s, Kept(s), NEW c \in Sections
  PROVE  Stands(s, SectionFor(s, c), {}, {}, {}) /\ SectionFor(s, c).warned = s.warned
<1>t. PICK t : t = [s EXCEPT !.mem.sections = @ \cup {c},
                             !.twice = s.twice \/ c \in s.mem.sections]
  OBVIOUS
<1>1. s \in Session /\ Held(s)
  BY DEF Kept, Held
<1>2. /\ t \in Session /\ t.seen = s.seen /\ t.warned = s.warned
      /\ t.mem.student = s.mem.student /\ t.mem.taught = s.mem.taught
      /\ t.mem.role = s.mem.role
  BY <1>1, <1>t DEF Session, Tables
<1>3. Stands(s, t, {}, {}, {}) /\ t.warned = s.warned
  BY <1>1, <1>2, PendingStands
<1> QED
  BY <1>t, <1>3, StandsSelf DEF SectionFor

LEMMA StructureStands ==
  ASSUME NEW s, Kept(s), NEW l \in Lines, l.file = "structure"
  PROVE  /\ Stands(s, StructureLine(s, l), {}, {}, {})
         /\ StructureLine(s, l).warned = s.warned
<1>1. l.section \in Sections /\ l.subject \in Subjects
  BY DEF Lines
<1>2. GradeOf[l.section] \in Grades
  BY <1>1, LinesAssumption
<1>t. PICK t : t = GradeFor(s, GradeOf[l.section])
  OBVIOUS
<1>v. PICK v : v = SubjectFor(t, l.subject)
  OBVIOUS
<1>3. Kept(t) /\ Stands(s, t, {}, {}, {}) /\ t.warned = s.warned
  BY <1>2, <1>t, GradeKept, GradeStands
<1>4. Kept(v) /\ Stands(t, v, {}, {}, {}) /\ v.warned = t.warned
  BY <1>1, <1>3, <1>v, SubjectKept, SubjectStands
<1>5. /\ Stands(v, SectionFor(v, l.section), {}, {}, {})
      /\ SectionFor(v, l.section).warned = v.warned
  BY <1>1, <1>4, SectionStands
<1>6. Stands(s, v, {}, {}, {})
  BY <1>3, <1>4, StandsTrans
<1>7. Stands(s, SectionFor(v, l.section), {}, {}, {})
  BY <1>5, <1>6, StandsTrans
<1> QED
  BY <1>3, <1>4, <1>5, <1>7, <1>t, <1>v DEF StructureLine

(* A new login takes a role nobody had: no role an earlier line gave goes. *)
LEMMA UserStands ==
  ASSUME NEW s, Kept(s), s.failed = FALSE, NEW u \in Users, NEW r \in Roles
  PROVE  Stands(s, UserFor(s, u, r), {}, {}, {}) /\ UserFor(s, u, r).warned = s.warned
<1>t. PICK t : t = [s EXCEPT !.mem.role[u] = r]
  OBVIOUS
<1>1. s \in Session /\ s.mem \in Tables /\ Held(s) /\ s.seen.role = s.mem.role
  BY DEF Kept, Held, Session, RolesFlushed
<1>2. /\ t.mem.role = [s.mem.role EXCEPT ![u] = r]
      /\ t.seen = s.seen /\ t.warned = s.warned
      /\ t.mem.student = s.mem.student /\ t.mem.taught = s.mem.taught
  BY <1>1, <1>t DEF Session, Tables
<1>3. t \in Session
  BY <1>1, <1>t, <1>2 DEF Session, Tables, Opt
<1>4. CASE s.seen.role[u] = None
  <2>1. s.mem.role \in [Users -> Opt(Roles)] /\ s.mem.role[u] = None
    BY <1>1, <1>4 DEF Tables
  <2>2. \A v \in Users : s.mem.role[v] # None => t.mem.role[v] = s.mem.role[v]
    BY <2>1, <1>2
  <2>3. Stands(s, Flushed(t), {}, {}, {}) /\ Flushed(t).warned = s.warned
    BY <1>1, <1>2, <1>3, <2>2, PendingStands
  <2> QED
    BY <1>4, <1>t, <2>3 DEF UserFor
<1>5. CASE s.seen.role[u] # None
  BY <1>5, StandsSelf DEF UserFor
<1> QED
  BY <1>4, <1>5

LEMMA TeacherStands ==
  ASSUME NEW s, Kept(s), NEW u \in Users
  PROVE  Stands(s, TeacherFor(s, u), {}, {}, {}) /\ TeacherFor(s, u).warned = s.warned
<1>t. PICK t : t = [s EXCEPT !.mem.teachers = @ \cup {u}]
  OBVIOUS
<1>1. s \in Session /\ Held(s)
  BY DEF Kept, Held
<1>2. /\ t \in Session /\ t.seen = s.seen /\ t.warned = s.warned
      /\ t.mem.student = s.mem.student /\ t.mem.taught = s.mem.taught
      /\ t.mem.role = s.mem.role
  BY <1>1, <1>t DEF Session, Tables
<1>3. Stands(s, Flushed(t), {}, {}, {}) /\ Flushed(t).warned = s.warned
  BY <1>1, <1>2, PendingStands
<1> QED
  BY <1>t, <1>3, StandsSelf DEF TeacherFor

LEMMA WarnedStands ==
  ASSUME NEW s, NEW t, s \in Session, t \in Session, Stands(s, t, {}, {}, {}),
         t.warned = s.warned, NEW p
  PROVE  Stands(s, Warned(t, p), {}, {}, {}) /\ Warned(t, p).warned = s.warned \cup {p}
<1>1. /\ Warned(t, p).mem = t.mem /\ Warned(t, p).seen = t.seen
      /\ Warned(t, p).warned = t.warned \cup {p}
  BY DEF Warned, Session
<1>2. Stands(t, Warned(t, p), {}, {}, {})
  BY <1>1, StandsSame
<1> QED
  BY <1>1, <1>2, StandsTrans

-----------------------------------------------------------------------------
(* A line of users.csv is reported and changes no link, or it lands and    *)
(* changes no link but the one it names.                                   *)
Logins(l) == IF l.role = "student" THEN {l.adm} ELSE {}
Guardians(l) == IF l.role = "parent" THEN {l.adm} ELSE {}
Classes(l) == IF l.role = "teacher" THEN {<<l.section, l.subject>>} ELSE {}

Reported(s, t, p) == t.warned = s.warned \cup {p} /\ Stands(s, t, {}, {}, {})

Lands(s, t, l) ==
  /\ t.warned = s.warned /\ (~t.failed => Landed(t, l))
  /\ Stands(s, t, Logins(l), Guardians(l), Classes(l))

LEMMA StandsWider ==
  ASSUME NEW s, NEW t, NEW A, NEW G, NEW K, Stands(s, t, {}, {}, {})
  PROVE  Stands(s, t, A, G, K)
BY DEF Stands

LEMMA StudentLands ==
  ASSUME NEW s, Kept(s), NEW p, NEW l \in Lines, l.file = "users", l.role = "student"
  PROVE  Reported(s, LinkStudent(s, l, p), p) \/ Lands(s, LinkStudent(s, l, p), l)
<1>1. /\ l.user \in Users /\ l.adm \in Opt(Admissions) /\ l.section \in Opt(Sections)
  BY DEF Lines
<1>2. /\ s \in Session /\ s.mem \in Tables /\ s.seen \in Tables /\ Held(s)
      /\ \A a \in Admissions : s.seen.student[a] # None => s.mem.student[a] # None
      /\ None \notin StudentRow
  BY LinesAssumption DEF Kept, Held, Session, Ahead
<1>3. s.mem.student \in [Admissions -> StudentRow \cup {None}]
  BY <1>2 DEF Tables
<1>4. CASE l.adm # None /\ s.seen.student[l.adm] # None
  <2>r. PICK r : r = [s.mem.student[l.adm] EXCEPT !.user = l.user]
    OBVIOUS
  <2>t. PICK t : t = [s EXCEPT !.mem.student[l.adm].user = l.user]
    OBVIOUS
  <2>1. l.adm \in Admissions /\ s.mem.student[l.adm] \in StudentRow
    BY <1>1, <1>2, <1>3, <1>4 DEF Opt
  <2>2. r.user = l.user /\ r.guardian = s.mem.student[l.adm].guardian
    BY <1>1, <2>1, <2>r DEF StudentRow
  <2>3. /\ t.mem.student = [s.mem.student EXCEPT ![l.adm] = r]
        /\ t.seen = s.seen /\ t.warned = s.warned
        /\ t.mem.role = s.mem.role /\ t.mem.taught = s.mem.taught
    BY <1>2, <2>r, <2>t DEF Session, Tables
  <2>4. \A a \in Admissions :
          t.mem.student[a] = IF a = l.adm THEN r ELSE s.mem.student[a]
    BY <1>3, <2>3
  <2>5. Landed(t, l)
    BY <1>4, <2>1, <2>2, <2>3, <2>4 DEF Landed
  <2>6. Stands(s, t, {l.adm}, {}, {})
    BY <2>2, <2>3, <2>4 DEF Stands
  <2>7. Lands(s, t, l)
    BY <2>3, <2>5, <2>6 DEF Lands, Logins, Guardians, Classes
  <2> QED
    BY <1>4, <2>7, <2>t DEF LinkStudent
<1>5. CASE l.adm # None /\ s.seen.student[l.adm] = None /\ l.section \in s.seen.sections
  <2>r. PICK r : r = [user |-> l.user, guardian |-> None, section |-> l.section]
    OBVIOUS
  <2>t. PICK t : t = [s EXCEPT !.mem.student[l.adm] = r]
    OBVIOUS
  <2>v. PICK v : v = Flushed(t)
    OBVIOUS
  <2>1. l.adm \in Admissions /\ l.section \in Sections
    BY <1>1, <1>2, <1>5 DEF Opt, Tables
  <2>2. r \in StudentRow /\ r.user = l.user /\ r # None
    BY <1>1, <1>2, <2>1, <2>r DEF StudentRow, Opt
  <2>3. /\ t.mem.student = [s.mem.student EXCEPT ![l.adm] = r]
        /\ t.seen = s.seen /\ t.warned = s.warned
        /\ t.mem.role = s.mem.role /\ t.mem.taught = s.mem.taught
    BY <1>2, <2>r, <2>t DEF Session, Tables
  <2>4. t.mem.student \in [Admissions -> StudentRow \cup {None}]
    BY <1>3, <2>1, <2>2, <2>3
  <2>5. t \in Session
    BY <1>2, <2>4, <2>t DEF Session, Tables
  <2>6. \A a \in Admissions :
          t.mem.student[a] = IF a = l.adm THEN r ELSE s.mem.student[a]
    BY <1>3, <2>3
  <2>7. Stands(s, t, {}, {}, {})
    BY <1>5, <2>3, <2>6 DEF Stands
  <2>8. \A a \in Admissions : t.seen.student[a] # None => t.mem.student[a] # None
    BY <1>2, <2>2, <2>3, <2>6
  <2>9. /\ Stands(t, v, {}, {}, {}) /\ v.warned = t.warned
        /\ ~v.failed => v.seen = t.mem
    BY <2>5, <2>8, <2>v, FlushedStands
  <2>10. v.mem = t.mem
    BY <2>5, <2>v DEF Flushed, Session
  <2>11. ~v.failed => Landed(v, l)
    BY <2>1, <2>2, <2>6, <2>9, <2>10 DEF Landed
  <2>12. Stands(s, v, {}, {}, {})
    BY <2>7, <2>9, StandsTrans
  <2>13. Lands(s, v, l)
    BY <2>3, <2>9, <2>11, <2>12, StandsWider DEF Lands
  <2> QED
    BY <1>5, <2>13, <2>r, <2>t, <2>v DEF LinkStudent
<1>6. CASE l.adm # None /\ s.seen.student[l.adm] = None /\ l.section \notin s.seen.sections
  <2>1. Reported(s, Warned(s, p), p)
    BY <1>2, StandsSelf, WarnedStands DEF Reported
  <2> QED
    BY <1>6, <2>1 DEF LinkStudent
<1>7. CASE l.adm = None
  <2>1. Landed(s, l) /\ Stands(s, s, Logins(l), Guardians(l), Classes(l))
    BY <1>7, StandsSelf, StandsWider DEF Landed
  <2> QED
    BY <1>7, <2>1 DEF LinkStudent, Lands
<1> QED
  BY <1>4, <1>5, <1>6, <1>7

LEMMA ParentLands ==
  ASSUME NEW s, Kept(s), NEW p, NEW l \in Lines, l.file = "users", l.role = "parent"
  PROVE  Reported(s, LinkParent(s, l, p), p) \/ Lands(s, LinkParent(s, l, p), l)
<1>1. l.user \in Users /\ l.adm \in Opt(Admissions)
  BY DEF Lines
<1>2. /\ s \in Session /\ s.mem \in Tables
      /\ \A a \in Admissions : s.seen.student[a] # None => s.mem.student[a] # None
  BY DEF Kept, Held, Session, Ahead
<1>3. s.mem.student \in [Admissions -> StudentRow \cup {None}]
  BY <1>2 DEF Tables
<1>4. CASE l.adm # None /\ s.seen.student[l.adm] # None
  <2>r. PICK r : r = [s.mem.student[l.adm] EXCEPT !.guardian = l.user]
    OBVIOUS
  <2>t. PICK t : t = [s EXCEPT !.mem.student[l.adm].guardian = l.user]
    OBVIOUS
  <2>1. l.adm \in Admissions /\ s.mem.student[l.adm] \in StudentRow
    BY <1>1, <1>2, <1>3, <1>4 DEF Opt
  <2>2. r.guardian = l.user /\ r.user = s.mem.student[l.adm].user
    BY <1>1, <2>1, <2>r DEF StudentRow
  <2>3. /\ t.mem.student = [s.mem.student EXCEPT ![l.adm] = r]
        /\ t.seen = s.seen /\ t.warned = s.warned
        /\ t.mem.role = s.mem.role /\ t.mem.taught = s.mem.taught
    BY <1>2, <2>r, <2>t DEF Session, Tables
  <2>4. \A a \in Admissions :
          t.mem.student[a] = IF a = l.adm THEN r ELSE s.mem.student[a]
    BY <1>3, <2>3
  <2>5. Landed(t, l)
    BY <1>4, <2>1, <2>2, <2>3, <2>4 DEF Landed
  <2>6. Stands(s, t, {}, {l.adm}, {})
    BY <2>2, <2>3, <2>4 DEF Stands
  <2>7. Lands(s, t, l)
    BY <2>3, <2>5, <2>6 DEF Lands, Logins, Guardians, Classes
  <2> QED
    BY <1>4, <2>7, <2>t DEF LinkParent
<1>5. CASE l.adm # None /\ s.seen.student[l.adm] = None
  <2>1. Reported(s, Warned(s, p), p)
    BY <1>2, StandsSelf, WarnedStands DEF Reported
  <2> QED
    BY <1>5, <2>1 DEF LinkParent
<1>6. CASE l.adm = None
  <2>1. Landed(s, l) /\ Stands(s, s, Logins(l), Guardians(l), Classes(l))
    BY <1>6, StandsSelf, StandsWider DEF Landed
  <2> QED
    BY <1>6, <2>1 DEF LinkParent, Lands
<1> QED
  BY <1>4, <1>5, <1>6

LEMMA TeacherLands ==
  ASSUME NEW s, Kept(s), NEW p, NEW l \in Lines, l.file = "users", l.role = "teacher",
         s.mem.role[l.user] = "teacher"
  PROVE  Reported(s, LinkTeacher(s, l, p), p) \/ Lands(s, LinkTeacher(s, l, p), l)
<1>1. l.user \in Users /\ l.section \in Opt(Sections) /\ l.subject \in Opt(Subjects)
  BY DEF Lines
<1>t. PICK t : t = TeacherFor(s, l.user)
  OBVIOUS
<1>2. /\ Kept(t) /\ s \in Session /\ t \in Session /\ t.mem \in Tables
      /\ Stands(s, t, {}, {}, {}) /\ t.warned = s.warned
  BY <1>1, <1>t, TeacherForKept, TeacherStands DEF Kept, Held, Session
<1>3. CASE l.section = None \/ l.subject = None
  <2>1. Landed(t, l) /\ Stands(s, t, Logins(l), Guardians(l), Classes(l))
    BY <1>2, <1>3, StandsWider DEF Landed
  <2> QED
    BY <1>2, <1>3, <1>t, <2>1 DEF LinkTeacher, Lands
<1>4. CASE /\ l.section # None /\ l.subject # None
           /\ l.section \notin t.seen.sections \/ l.subject \notin t.seen.subjects
  <2>1. Reported(s, Warned(t, p), p)
    BY <1>2, WarnedStands DEF Reported
  <2> QED
    BY <1>4, <1>t, <2>1 DEF LinkTeacher
<1>5. CASE /\ l.section # None /\ l.subject # None
           /\ l.section \in t.seen.sections /\ l.subject \in t.seen.subjects
  <2>key. PICK key : key = <<l.section, l.subject>>
    OBVIOUS
  <2>b. PICK b : b = (t.twice \/ (t.seen.taught[key] = None /\ t.mem.taught[key] # None))
    OBVIOUS
  <2>v. PICK v : v = [t EXCEPT !.mem.taught[key] = l.user, !.twice = b]
    OBVIOUS
  <2>1. key \in Sections \X Subjects
    BY <1>1, <1>5, <2>key DEF Opt
  <2>2. /\ v.mem.taught = [t.mem.taught EXCEPT ![key] = l.user]
        /\ v.seen = t.seen /\ v.warned = t.warned
        /\ v.mem.role = t.mem.role /\ v.mem.student = t.mem.student
    BY <1>2, <2>v DEF Session, Tables
  <2>3. t.mem.taught \in [Sections \X Subjects -> Opt(Users)]
    BY <1>2 DEF Tables
  <2>4. \A k \in Sections \X Subjects :
          v.mem.taught[k] = IF k = key THEN l.user ELSE t.mem.taught[k]
    BY <2>2, <2>3
  <2>5. v.mem.taught[<<l.section, l.subject>>] = l.user
    BY <2>1, <2>4, <2>key
  <2>6. Landed(v, l)
    BY <2>5 DEF Landed
  <2>7. Stands(t, v, {}, {}, {key})
    BY <2>2, <2>4 DEF Stands
  <2>8. Stands(s, v, {}, {}, {key})
    BY <1>2, <2>7, StandsTrans
  <2>9. Stands(s, v, Logins(l), Guardians(l), Classes(l))
    BY <2>8, <2>key DEF Logins, Guardians, Classes
  <2>10. Lands(s, v, l)
    BY <1>2, <2>2, <2>6, <2>9 DEF Lands
  <2>11. v = Assign(t, l)
    BY <2>v, <2>b, <2>key DEF Assign
  <2> QED
    BY <1>5, <1>t, <2>10, <2>11 DEF LinkTeacher
<1> QED
  BY <1>3, <1>4, <1>5

LEMMA UserLineLands ==
  ASSUME NEW s, Kept(s), s.failed = FALSE, NEW p, NEW l \in Lines, l.file = "users"
  PROVE  Reported(s, UserLine(s, l, p), p) \/ Lands(s, UserLine(s, l, p), l)
<1>1. l.user \in Users /\ l.role \in Roles
  BY DEF Lines
<1>t. PICK t : t = UserFor(s, l.user, l.role)
  OBVIOUS
<1>2. /\ Kept(t) /\ Stands(s, t, {}, {}, {}) /\ t.warned = s.warned
      /\ s \in Session /\ t \in Session
  BY <1>1, <1>t, UserKept, UserStands DEF Kept, Held
<1>3. CASE t.mem.role[l.user] # l.role
  <2>1. Reported(s, Warned(t, p), p)
    BY <1>2, WarnedStands DEF Reported
  <2> QED
    BY <1>3, <1>t, <2>1 DEF UserLine
<1>4. CASE t.mem.role[l.user] = l.role
  <2>v. PICK v : v = Link(t, l, p)
    OBVIOUS
  <2>1. Reported(t, v, p) \/ Lands(t, v, l)
    <3>1. CASE l.role = "student"
      BY <1>2, <2>v, <3>1, StudentLands DEF Link
    <3>2. CASE l.role = "parent"
      BY <1>2, <2>v, <3>2, ParentLands DEF Link
    <3>3. CASE l.role = "teacher"
      BY <1>2, <1>4, <2>v, <3>3, TeacherLands DEF Link
    <3>4. CASE l.role = "admin"
      <4>1. v = t
        BY <2>v, <3>4 DEF Link
      <4>2. Landed(t, l) /\ Stands(t, t, Logins(l), Guardians(l), Classes(l))
        BY <1>4, <3>4, StandsSelf, StandsWider DEF Landed
      <4> QED
        BY <4>1, <4>2 DEF Lands
    <3> QED
      BY <1>1, <3>1, <3>2, <3>3, <3>4 DEF Roles
  <2>2. Reported(s, v, p) \/ Lands(s, v, l)
    <3>1. CASE Reported(t, v, p)
      <4>1. v.warned = s.warned \cup {p} /\ Stands(t, v, {}, {}, {})
        BY <1>2, <3>1 DEF Reported
      <4>2. Stands(s, v, {}, {}, {})
        BY <1>2, <4>1, StandsTrans
      <4> QED
        BY <4>1, <4>2 DEF Reported
    <3>2. CASE Lands(t, v, l)
      <4>1. /\ v.warned = s.warned /\ (~v.failed => Landed(v, l))
            /\ Stands(t, v, Logins(l), Guardians(l), Classes(l))
        BY <1>2, <3>2 DEF Lands
      <4>2. Stands(s, v, Logins(l), Guardians(l), Classes(l))
        BY <1>2, <4>1, StandsTrans
      <4> QED
        BY <4>1, <4>2 DEF Lands
    <3> QED
      BY <2>1, <3>1, <3>2
  <2> QED
    BY <1>4, <1>t, <2>v, <2>2 DEF UserLine
<1> QED
  BY <1>3, <1>4

(* A remark links nothing.                                                 *)
LEMMA RemarkStands ==
  ASSUME NEW s, Kept(s), NEW p, NEW l, NEW i
  PROVE  \/ Reported(s, RemarkLine(s, l, p, i), p)
         \/ /\ RemarkLine(s, l, p, i).warned = s.warned
            /\ Stands(s, RemarkLine(s, l, p, i), {}, {}, {})
<1>1. s \in Session /\ s.mem \in Tables
  BY DEF Kept, Held, Session
<1>2. Reported(s, Warned(s, p), p)
  BY <1>1, StandsSelf, WarnedStands DEF Reported
<1>3. ASSUME NEW R PROVE LET t == [s EXCEPT !.mem.remarks = R]
                         IN t.warned = s.warned /\ Stands(s, t, {}, {}, {})
  <2>t. PICK t : t = [s EXCEPT !.mem.remarks = R]
    OBVIOUS
  <2>1. /\ t.seen = s.seen /\ t.warned = s.warned /\ t.mem.student = s.mem.student
        /\ t.mem.taught = s.mem.taught /\ t.mem.role = s.mem.role
    BY <1>1, <2>t DEF Session, Tables
  <2>2. Stands(s, t, {}, {}, {})
    BY <2>1, StandsSame
  <2> QED
    BY <2>1, <2>2, <2>t
<1>4. CASE s.seen.student[l.adm] # None /\ i = 0
  <2>R. PICK R : R = Append(s.mem.remarks, [adm |-> l.adm, id |-> l.id, note |-> l.note])
    OBVIOUS
  <2>1. RemarkLine(s, l, p, i) = [s EXCEPT !.mem.remarks = R]
    BY <1>4, <2>R DEF RemarkLine
  <2> QED
    BY <1>3, <2>1
<1>5. CASE s.seen.student[l.adm] # None /\ i # 0 /\ l.id # None
           /\ s.seen.remarks[i].adm = l.adm
  <2>R. PICK R : R = [s.mem.remarks EXCEPT ![i].note = l.note]
    OBVIOUS
  <2>1. [s EXCEPT !.mem.remarks = R] = [s EXCEPT !.mem.remarks[i].note = l.note]
    BY <2>R
  <2>2. RemarkLine(s, l, p, i) = [s EXCEPT !.mem.remarks = R]
    BY <1>5, <2>1 DEF RemarkLine
  <2> QED
    BY <1>3, <2>2
<1> QED
  BY <1>2, <1>4, <1>5, StandsSelf DEF RemarkLine

-----------------------------------------------------------------------------
(* What a line of any file does to the links before it.                    *)
Reads(s, t, l, p) ==
  \/ Reported(s, t, p)
  \/ l.file = "users" /\ Lands(s, t, l)
  \/ l.file # "users" /\ t.warned = s.warned /\ Stands(s, t, {}, {}, {})

LEMMA AllStand ==
  ASSUME NEW s, NEW t, Stands(s, t, {}, {}, {}),
         NEW l \in Lines, l.file = "users", Landed(s, l)
  PROVE  Landed(t, l)
<1> PICK N : N = {}
  OBVIOUS
<1>1. Stands(s, t, N, N, N)
  OBVIOUS
<1>2. l.adm \notin N /\ <<l.section, l.subject>> \notin N
  OBVIOUS
<1> QED
  BY <1>1, <1>2, LandedStands

(* A link another line names is relinked or stands.                        *)
LEMMA OtherLinkStands ==
  ASSUME NEW s, NEW t, NEW l \in Lines, l.file = "users", Lands(s, t, l),
         NEW k \in Lines, k.file = "users", Landed(s, k), ~Relinks(l, k)
  PROVE  Landed(t, k)
<1>1. Stands(s, t, Logins(l), Guardians(l), Classes(l))
  BY DEF Lands
<1>2. l.role # k.role \/ (l.role = "teacher" /\ (l.section # k.section \/ l.subject # k.subject))
      \/ (l.role # "teacher" /\ l.adm # k.adm)
  BY DEF Relinks
<1>3. k.role = "student" => k.adm \notin Logins(l)
  BY <1>2 DEF Logins
<1>4. k.role = "parent" => k.adm \notin Guardians(l)
  BY <1>2 DEF Guardians
<1>5. k.role = "teacher" => <<k.section, k.subject>> \notin Classes(l)
  BY <1>2 DEF Classes
<1> QED
  BY <1>1, <1>3, <1>4, <1>5, LandedStands

LEMMA LinesOfFile ==
  ASSUME TypeOK, NEW p \in 1..Len(file)
  PROVE  file[p] \in Lines
<1>1. file[p] \in FileLines
  BY ElementOfSeq DEF TypeOK
<1> QED
  BY <1>1, LinesAssumption

LEMMA ReadLands ==
  ASSUME IInv, LandInv, NEW l \in FileLines, IsNext(l), NEW s, After(s, l),
         Reads(ses, s, l, pos + 1)
  PROVE  LandInv'
<1> SUFFICES ASSUME stage' = "reading"
             PROVE  /\ pos' <= Len(file') /\ ses'.warned \subseteq 1..pos'
                    /\ LandedOrRelinked(ses, pos)'
  BY DEF LandInv
<1>1. /\ TypeOK /\ stage = "reading" /\ file \in Seq(FileLines) /\ Len(file) \in Nat
      /\ pos \in Nat /\ pos <= Len(file) /\ ses.warned \subseteq 1..pos
      /\ LandedOrRelinked(ses, pos) /\ l \in Lines /\ round \in Nat
  BY LenProperties, LinesAssumption DEF IInv, TypeOK, IsNext, LandInv
<1>2. ~s.failed /\ ses' = s /\ pos' = pos + 1
  BY DEF After
<1>3. /\ Len(file') \in Nat /\ pos + 1 <= Len(file') /\ file'[pos + 1] = l
      /\ \A q \in 1..pos : file'[q] = file[q]
  <2>1. CASE round = 0
    <3>1. file' = Append(file, l) /\ pos = Len(file)
      BY <1>1, <2>1 DEF After, IInv, FileInv
    <3> QED
      BY <1>1, <3>1, AppendProperties
  <2>2. CASE round # 0
    <3>1. file' = file /\ pos < Len(file) /\ l = file[pos + 1]
      BY <2>2 DEF After, IsNext
    <3> QED
      BY <1>1, <3>1
  <2> QED
    BY <2>1, <2>2
<1>4. s.warned \subseteq ses.warned \cup {pos + 1} /\ ses.warned \subseteq s.warned
  BY DEF Reads, Reported, Lands
<1>5. s.warned \subseteq 1..(pos + 1)
  BY <1>1, <1>4
<1>6. ASSUME NEW p \in 1..(pos + 1), file'[p].file = "users", p \notin s.warned
      PROVE  \/ Landed(s, file'[p])
             \/ \E q \in (p + 1)..(pos + 1) :
                  q \notin s.warned /\ Relinks(file'[q], file'[p])
  <2>1. CASE p = pos + 1
    <3>1. l.file = "users" /\ pos + 1 \notin s.warned
      BY <1>3, <1>6, <2>1
    <3>2. Lands(ses, s, l)
      BY <3>1 DEF Reads, Reported
    <3> QED
      BY <1>2, <1>3, <2>1, <3>2 DEF Lands
  <2>2. CASE p # pos + 1
    <3>1. p \in 1..pos /\ p \in 1..Len(file) /\ file'[p] = file[p]
      BY <1>1, <1>3, <2>2
    <3>2. file[p].file = "users" /\ p \notin ses.warned /\ file[p] \in Lines
      BY <1>1, <1>4, <1>6, <3>1, LinesOfFile
    <3>3. \/ Landed(ses, file[p])
          \/ \E q \in (p + 1)..pos : q \notin ses.warned /\ Relinks(file[q], file[p])
      BY <1>1, <3>1, <3>2 DEF LandedOrRelinked
    <3>4. CASE \E q \in (p + 1)..pos : q \notin ses.warned /\ Relinks(file[q], file[p])
      <4>1. PICK q \in (p + 1)..pos : q \notin ses.warned /\ Relinks(file[q], file[p])
        BY <3>4
      <4>2. q \in 1..pos /\ q # pos + 1 /\ q \in (p + 1)..(pos + 1)
        BY <1>1, <3>1
      <4>3. q \notin s.warned /\ file'[q] = file[q]
        BY <1>3, <1>4, <4>1, <4>2
      <4> QED
        BY <3>1, <4>1, <4>2, <4>3
    <3>5. CASE Landed(ses, file[p])
      <4>1. CASE Stands(ses, s, {}, {}, {})
        <5>1. Landed(s, file[p])
          BY <3>2, <3>5, <4>1, AllStand
        <5> QED
          BY <3>1, <5>1
      <4>2. CASE ~Stands(ses, s, {}, {}, {})
        <5>1. l.file = "users" /\ Lands(ses, s, l)
          BY <4>2 DEF Reads, Reported
        <5>2. pos + 1 \notin s.warned
          BY <1>1, <5>1 DEF Lands
        <5>3. CASE Relinks(l, file[p])
          <6>1. pos + 1 \in (p + 1)..(pos + 1)
            BY <1>1, <3>1
          <6>2. Relinks(file'[pos + 1], file'[p])
            BY <1>3, <3>1, <5>3
          <6> QED
            BY <5>2, <6>1, <6>2
        <5>4. CASE ~Relinks(l, file[p])
          <6>1. Landed(s, file[p])
            BY <1>1, <3>2, <3>5, <5>1, <5>4, OtherLinkStands
          <6> QED
            BY <3>1, <6>1
        <5> QED
          BY <5>3, <5>4
      <4> QED
        BY <4>1, <4>2
    <3> QED
      BY <3>3, <3>4, <3>5
  <2> QED
    BY <2>1, <2>2
<1>7. LandedOrRelinked(ses, pos)'
  BY <1>2, <1>6 DEF LandedOrRelinked
<1> QED
  BY <1>2, <1>3, <1>5, <1>7

LEMMA ReadLandInv ==
  ASSUME IInv, LandInv, NEW l \in FileLines, NEW i,
         ReadStructure(l) \/ ReadUser(l) \/ ReadRemark(l, i)
  PROVE  LandInv'
<1>1. l \in Lines
  BY LinesAssumption
<1>2. Kept(ses) /\ ses.failed = FALSE
  BY DEF IInv, SesInv, Kept, RolesFlushed
<1>3. CASE ReadStructure(l)
  <2>1. l.file = "structure" /\ IsNext(l) /\ After(StructureLine(ses, l), l)
    BY <1>3 DEF ReadStructure
  <2>2. Reads(ses, StructureLine(ses, l), l, pos + 1)
    BY <1>1, <1>2, <2>1, StructureStands DEF Reads
  <2> QED
    BY <2>1, <2>2, ReadLands
<1>4. CASE ReadUser(l)
  <2>1. l.file = "users" /\ IsNext(l) /\ After(UserLine(ses, l, pos + 1), l)
    BY <1>4 DEF ReadUser
  <2>2. Reads(ses, UserLine(ses, l, pos + 1), l, pos + 1)
    BY <1>1, <1>2, <2>1, UserLineLands DEF Reads
  <2> QED
    BY <2>1, <2>2, ReadLands
<1>5. CASE ReadRemark(l, i)
  <2>1. l.file = "remarks" /\ IsNext(l) /\ After(RemarkLine(ses, l, pos + 1, i), l)
    BY <1>5 DEF ReadRemark
  <2>2. Reads(ses, RemarkLine(ses, l, pos + 1, i), l, pos + 1)
    BY <1>2, <2>1, RemarkStands DEF Reads
  <2> QED
    BY <2>1, <2>2, ReadLands
<1> QED
  BY <1>3, <1>4, <1>5

(* What has landed is linked in the tables that are committed.             *)
LEMMA LandedLinked ==
  ASSUME NEW s, NEW l \in Lines, l.file = "users", Landed(s, l)
  PROVE  Linked(s.mem, l)
<1>1. l.role \in Roles
  BY DEF Lines
<1> QED
  BY <1>1 DEF Landed, Linked, Roles

LEMMA CommitLands ==
  ASSUME IInv, LandInv, Commit
  PROVE  LinksLandOrWarn'
<1> SUFFICES ASSUME outcome' = "applied",
                    NEW p \in 1..Len(file'), file'[p].file = "users", p \notin ses'.warned
             PROVE  \/ Linked(db', file'[p])
                    \/ \E q \in (p + 1)..Len(file') :
                         q \notin ses'.warned /\ Relinks(file'[q], file'[p])
  BY DEF LinksLandOrWarn
<1>s. PICK s : s = Flushed(ses)
  OBVIOUS
<1>1. /\ ~s.failed /\ ses' = s /\ db' = s.mem /\ file' = file
      /\ stage = "reading" /\ pos = Len(file) /\ TypeOK
  BY <1>s DEF Commit, IInv
<1>2. Held(ses) /\ ses \in Session
  BY DEF IInv, SesInv, Held
<1>3. s.mem = ses.mem /\ s.warned = ses.warned
  BY <1>2, <1>s DEF Flushed, Session
<1>4. file[p] \in Lines
  BY <1>1, LinesOfFile
<1>5. \/ Landed(ses, file[p])
      \/ \E q \in (p + 1)..pos : q \notin ses.warned /\ Relinks(file[q], file[p])
  BY <1>1, <1>3 DEF LandInv, LandedOrRelinked
<1>6. CASE Landed(ses, file[p])
  BY <1>1, <1>3, <1>4, <1>6, LandedLinked
<1>7. CASE \E q \in (p + 1)..pos : q \notin ses.warned /\ Relinks(file[q], file[p])
  BY <1>1, <1>3, <1>7
<1> QED
  BY <1>5, <1>6, <1>7

LEMMA LandNext ==
  ASSUME IInv, LandInv, LinksLandOrWarn, [Next]_vars
  PROVE  LandInv' /\ LinksLandOrWarn'
<1>1. ASSUME NEW l \in FileLines, NEW i,
             ReadStructure(l) \/ ReadUser(l) \/ ReadRemark(l, i)
      PROVE  LandInv' /\ LinksLandOrWarn'
  <2>1. LandInv'
    BY <1>1, ReadLandInv
  <2>2. stage' # "idle" \/ outcome' # "applied"
    <3>1. ASSUME NEW s, IsNext(l), After(s, l)
          PROVE  stage' # "idle" \/ outcome' # "applied"
      BY <3>1 DEF IsNext, After
    <3> QED
      BY <1>1, <3>1 DEF ReadStructure, ReadUser, ReadRemark
  <2> QED
    BY <2>1, <2>2 DEF LinksLandOrWarn
<1>2. CASE Commit
  <2>1. LandInv'
    BY <1>2 DEF Commit, LandInv
  <2> QED
    BY <1>2, <2>1, CommitLands
<1>3. CASE Begin
  <2>1. /\ stage' = "reading" /\ ses' = Opened(db) /\ pos' = 0 /\ file' = file
        /\ Opened(db).warned = {} /\ Len(file) \in Nat
    BY <1>3, LenProperties DEF Begin, Opened, IInv, TypeOK
  <2>2. LandInv'
    BY <2>1 DEF LandInv, LandedOrRelinked
  <2> QED
    BY <2>1, <2>2 DEF LinksLandOrWarn
<1>4. CASE Lost \/ NewBundle
  <2>1. stage' = "idle" /\ outcome' # "applied"
    BY <1>4 DEF Lost, NewBundle
  <2> QED
    BY <2>1 DEF LandInv, LinksLandOrWarn
<1>5. CASE UNCHANGED vars
  <2>1. UNCHANGED <<db, stage, ses, file, pos, outcome>>
    BY <1>5 DEF vars
  <2>2. LandInv'
    BY <2>1 DEF LandInv, LandedOrRelinked
  <2>3. LinksLandOrWarn'
    BY <2>1 DEF LinksLandOrWarn
  <2> QED
    BY <2>2, <2>3
<1> QED
  BY <1>1, <1>2, <1>3, <1>4, <1>5 DEF Next

(* Whatever bundles are applied: a line of users.csv that an applied bundle*)
(* did not report has linked what it names, or a later line of it did.     *)
THEOREM LinksLand == Spec => []LinksLandOrWarn
<1>1. Init => IInv /\ LandInv /\ LinksLandOrWarn
  <2>1. Init => LandInv /\ LinksLandOrWarn
    BY DEF Init, LandInv, LinksLandOrWarn
  <2> QED
    BY <2>1, InitInv
<1>2. IInv /\ LandInv /\ LinksLandOrWarn /\ [Next]_vars
      => (IInv /\ LandInv /\ LinksLandOrWarn)'
  BY NextInv, LandNext
<1> QED
  BY <1>1, <1>2, PTL DEF Spec

-----------------------------------------------------------------------------
(* Converges.  What one application does, up to line n of the file F, to   *)
(* the tables d it started from; t are the tables it will leave.           *)

(* The line names the login, the guardian or the teacher of key in t.      *)
Names(t, l, role, key) ==
  /\ l.file = "users" /\ l.role = role /\ t.role[l.user] = role
  /\ (IF role = "teacher" THEN <<l.section, l.subject>> ELSE l.adm) = key

Last(t, F, n, q, role, key) ==
  q \in 1..n /\ Names(t, F[q], role, key) /\ \A r \in (q + 1)..n : ~Names(t, F[r], role, key)

(* Sets of rows: what the lines ask for is there, and nothing else is new. *)
RowsLand(t, F, n) ==
  /\ \A p \in 1..n : F[p].file = "structure" =>
       /\ GradeOf[F[p].section] \in t.grades /\ F[p].subject \in t.subjects
       /\ F[p].section \in t.sections
  /\ \A p \in 1..n : F[p].file = "users" =>
       /\ t.role[F[p].user] # None
       /\ F[p].role = "teacher" /\ t.role[F[p].user] = "teacher" => F[p].user \in t.teachers

RowsAskedFor(d, t, F, n) ==
  /\ \A h \in t.grades : h \notin d.grades =>
       \E p \in 1..n : F[p].file = "structure" /\ GradeOf[F[p].section] = h
  /\ \A j \in t.subjects : j \notin d.subjects =>
       \E p \in 1..n : F[p].file = "structure" /\ F[p].subject = j
  /\ \A c \in t.sections : c \notin d.sections =>
       \E p \in 1..n : F[p].file = "structure" /\ F[p].section = c
  /\ \A u \in t.teachers : u \notin d.teachers =>
       \E p \in 1..n : /\ F[p].file = "users" /\ F[p].role = "teacher" /\ F[p].user = u
                       /\ t.role[u] = "teacher"
  /\ \A u \in Users : t.role[u] # d.role[u] =>
       d.role[u] = None /\ \E p \in 1..n : F[p].file = "users" /\ F[p].user = u

(* The session finds what was there, and every student it will flush.      *)
Finding(d, s) ==
  /\ d.grades \subseteq s.seen.grades /\ s.seen.grades \subseteq s.mem.grades
  /\ d.subjects \subseteq s.seen.subjects /\ s.seen.subjects \subseteq s.mem.subjects
  /\ d.sections \subseteq s.seen.sections /\ s.seen.sections \subseteq s.mem.sections
  /\ d.teachers \subseteq s.seen.teachers /\ s.seen.teachers \subseteq s.mem.teachers
  /\ s.seen.remarks = d.remarks
  /\ ~s.failed => \A a \in Admissions : s.seen.student[a] = None <=> s.mem.student[a] = None

(* The last line that names a link has set it, if its row was there.       *)
LinksLast(d, t, F, n) ==
  \A q \in 1..n :
    /\ \A a \in Admissions : Last(t, F, n, q, "student", a) /\ t.student[a] # None =>
         t.student[a].user = F[q].user
    /\ \A a \in Admissions : Last(t, F, n, q, "parent", a) /\ d.student[a] # None =>
         t.student[a].guardian = F[q].user
    /\ \A k \in d.sections \X d.subjects : Last(t, F, n, q, "teacher", k) =>
         t.taught[k] = F[q].user

(* A link no line has named is what it was.                                *)
LinksNamed(d, t, F, n) ==
  /\ \A a \in Admissions : d.student[a] # None =>
       /\ t.student[a] # None /\ t.student[a].section = d.student[a].section
       /\ \/ t.student[a].user = d.student[a].user
          \/ \E q \in 1..n : Last(t, F, n, q, "student", a)
       /\ \/ t.student[a].guardian = d.student[a].guardian
          \/ \E q \in 1..n : Last(t, F, n, q, "parent", a)
  /\ \A k \in Sections \X Subjects :
       \/ t.taught[k] = d.taught[k]
       \/ k \in t.sections \X t.subjects /\ \E q \in 1..n : Last(t, F, n, q, "teacher", k)

StudentsNamed(d, t, F, n) ==
  /\ \A a \in Admissions : t.student[a] # None /\ d.student[a] = None =>
       \E q \in 1..n : Names(t, F[q], "student", a) /\ F[q].section \in t.sections
  /\ \A a \in Admissions, q \in 1..n :
       Names(t, F[q], "student", a) /\ t.student[a] = None => F[q].section \notin d.sections

(* Remarks: those that were there keep their place and their key, and the  *)
(* last line of an external id has set the note; each new one is a line's  *)
(* that found none; and each line has found one or added one.              *)
Row(l) == [adm |-> l.adm, id |-> l.id, note |-> l.note]
IsRemark(l, i, a) == l.file = "remarks" /\ l.id = i /\ l.adm = a
LastRemark(F, n, q) ==
  F[q].file = "remarks" /\ \A r \in (q + 1)..n : ~IsRemark(F[r], F[q].id, F[q].adm)

Keyed(d, t) ==
  /\ Len(d.remarks) <= Len(t.remarks)
  /\ \A j \in 1..Len(d.remarks) : /\ t.remarks[j].adm = d.remarks[j].adm
                                  /\ t.remarks[j].id = d.remarks[j].id

NotesNamed(d, t, F, n) ==
  \A j \in 1..Len(d.remarks) :
    \/ t.remarks[j].note = d.remarks[j].note
    \/ \E q \in 1..n : /\ LastRemark(F, n, q) /\ F[q].id # None /\ F[q].id = d.remarks[j].id
                       /\ F[q].adm = d.remarks[j].adm /\ t.remarks[j].note = F[q].note

FoundIn(d, l, j) ==
  IF l.id # None THEN d.remarks[j].id = l.id
  ELSE d.remarks[j].adm = l.adm /\ d.remarks[j].note = l.note

RemarksAskedFor(d, t, F, n) ==
  \A j \in (Len(d.remarks) + 1)..Len(t.remarks) :
    \E q \in 1..n :
      /\ F[q].file = "remarks" /\ t.remarks[j] = Row(F[q]) /\ t.student[F[q].adm] # None
      /\ \A i \in 1..Len(d.remarks) : ~FoundIn(d, F[q], i)

RemarksLand(d, t, F, n) ==
  \A q \in 1..n : F[q].file = "remarks" /\ t.student[F[q].adm] # None =>
    \/ \E j \in (Len(d.remarks) + 1)..Len(t.remarks) : t.remarks[j] = Row(F[q])
    \/ \E j \in 1..Len(d.remarks) :
         /\ FoundIn(d, F[q], j)
         /\ F[q].id # None /\ d.remarks[j].adm = F[q].adm /\ LastRemark(F, n, q) =>
              t.remarks[j].note = F[q].note

Sorted(F, n) == \A p, q \in 1..n : p <= q => Rank(F[p]) <= Rank(F[q])
NoRemarkYet(d, t, F, n) ==
  (\A p \in 1..n : F[p].file # "remarks") => t.remarks = d.remarks

Sums(d, t, F, n) ==
  /\ RowsLand(t, F, n) /\ RowsAskedFor(d, t, F, n)
  /\ LinksLast(d, t, F, n) /\ LinksNamed(d, t, F, n) /\ StudentsNamed(d, t, F, n)
  /\ Keyed(d, t) /\ RemarksAskedFor(d, t, F, n)
  /\ IdsUnique(d) => NotesNamed(d, t, F, n) /\ RemarksLand(d, t, F, n)

(* A remark's student is there, so a line that names it is not passed over.*)
Remarked(t) == \A j \in 1..Len(t.remarks) : t.student[t.remarks[j].adm] # None

(* What an application of the whole file F need not do again.              *)
Created(d, F) == \A p \in 1..Len(F), a \in Admissions :
  Names(d, F[p], "student", a) /\ d.student[a] = None => F[p].section \notin d.sections
LoginsStand(d, F) == \A p \in 1..Len(F), a \in Admissions :
  Last(d, F, Len(F), p, "student", a) /\ d.student[a] # None => d.student[a].user = F[p].user
GuardiansStand(d, F) == \A p \in 1..Len(F), a \in Admissions :
  Last(d, F, Len(F), p, "parent", a) /\ d.student[a] # None => d.student[a].guardian = F[p].user
ClassesStand(d, F) == \A p \in 1..Len(F), k \in d.sections \X d.subjects :
  Last(d, F, Len(F), p, "teacher", k) => d.taught[k] = F[p].user
NotesStand(d, F) == \A p \in 1..Len(F) :
  F[p].file = "remarks" /\ F[p].id # None /\ d.student[F[p].adm] # None =>
    \E j \in 1..Len(d.remarks) :
      /\ d.remarks[j].id = F[p].id
      /\ d.remarks[j].adm = F[p].adm /\ LastRemark(F, Len(F), p) => d.remarks[j].note = F[p].note
PlainStand(d, F) == \A p \in 1..Len(F) :
  F[p].file = "remarks" /\ F[p].id = None /\ d.student[F[p].adm] # None =>
    \E j \in 1..Len(d.remarks) : d.remarks[j].adm = F[p].adm /\ d.remarks[j].note = F[p].note

(* What stands after r applications.  A link a line could not set waits for*)
(* the rows of another line, so each exception needs lines of as many kinds*)
(* as there were applications, and one more: a file of r lines has none.   *)
Levels(d, F, r) ==
  /\ RowsLand(d, F, Len(F)) /\ LoginsStand(d, F) /\ NotesStand(d, F)
  /\ \/ r = 1 /\ (\E p \in 1..Len(F) : F[p].file = "structure")
              /\ (\E p \in 1..Len(F) : F[p].file = "users")
     \/ Created(d, F) /\ ClassesStand(d, F)
  /\ \/ r = 1 /\ (\E p \in 1..Len(F) : F[p].file = "users" /\ F[p].role = "student")
              /\ (\E p \in 1..Len(F) : F[p].file = "users" /\ F[p].role = "parent")
     \/ r = 2 /\ (\E p \in 1..Len(F) : F[p].file = "structure")
              /\ (\E p \in 1..Len(F) : F[p].file = "users" /\ F[p].role = "student")
              /\ (\E p \in 1..Len(F) : F[p].file = "users" /\ F[p].role = "parent")
     \/ GuardiansStand(d, F)
  /\ \/ r = 1 /\ (\E p \in 1..Len(F) : F[p].file = "remarks" /\ F[p].id # None)
              /\ (\E p \in 1..Len(F) : F[p].file = "remarks" /\ F[p].id = None)
     \/ PlainStand(d, F)

(* Nothing waits any more.                                                 *)
Settled(d, F) ==
  /\ RowsLand(d, F, Len(F)) /\ Created(d, F)
  /\ LoginsStand(d, F) /\ GuardiansStand(d, F) /\ ClassesStand(d, F)
  /\ NotesStand(d, F) /\ PlainStand(d, F)

(* The invariant, of the application under way and of the tables.          *)
Reading == stage = "reading" =>
  /\ before = db /\ Finding(db, ses) /\ Sums(db, ses.mem, file, pos)
  /\ NoRemarkYet(db, ses.mem, file, pos)
Standing == Sorted(file, Len(file)) /\ Remarked(db)

-----------------------------------------------------------------------------
(* What each part of a line does to the rows.                              *)
LEMMA FlushedRows ==
  ASSUME NEW s \in Session
  PROVE  /\ Flushed(s).mem = s.mem /\ Flushed(s).twice = s.twice
         /\ Flushed(s) \in Session
         /\ Flushed(s).failed <=> s.failed \/ s.twice \/ SharedUser(s.mem)
         /\ Flushed(s).seen = s.seen \/ Flushed(s).seen = s.mem
         /\ ~Flushed(s).failed => Flushed(s).seen = s.mem
<1>1. CASE s.twice \/ SharedUser(s.mem)
  <2>1. Flushed(s) = [s EXCEPT !.failed = TRUE]
    BY <1>1 DEF Flushed
  <2> QED
    BY <1>1, <2>1 DEF Session
<1>2. CASE ~(s.twice \/ SharedUser(s.mem))
  <2>1. Flushed(s) = [s EXCEPT !.seen = s.mem]
    BY <1>2 DEF Flushed
  <2> QED
    BY <1>2, <2>1 DEF Session
<1> QED
  BY <1>1, <1>2

(* What a session will flush, when it has read no remark.                  *)
Unremarked(d, s) == Finding(d, s) /\ s.mem.remarks = d.remarks

LEMMA FlushedFinding ==
  ASSUME NEW d, NEW s, Unremarked(d, s), NEW t \in Session, t.seen = s.seen,
         s.failed => t.failed,
         s.mem.grades \subseteq t.mem.grades, s.mem.subjects \subseteq t.mem.subjects,
         s.mem.sections \subseteq t.mem.sections, s.mem.teachers \subseteq t.mem.teachers,
         t.mem.remarks = s.mem.remarks
  PROVE  Unremarked(d, Flushed(t)) /\ (s.failed => Flushed(t).failed)
<1>1. PICK v : v = Flushed(t)
  OBVIOUS
<1>2. /\ v.mem = t.mem /\ (v.failed <=> t.failed \/ t.twice \/ SharedUser(t.mem))
      /\ v.seen = t.seen \/ v.seen = t.mem
      /\ ~v.failed => v.seen = t.mem
  BY <1>1, FlushedRows
<1>3. Unremarked(d, v)
  BY <1>2 DEF Unremarked, Finding
<1> QED
  BY <1>1, <1>2, <1>3

SameRows(m, t) ==
  t.grades = m.grades /\ t.subjects = m.subjects /\ t.sections = m.sections
SameLogins(m, t) == t.role = m.role /\ t.teachers = m.teachers
SameLinks(m, t) == t.student = m.student /\ t.taught = m.taught

LEMMA GradeRows ==
  ASSUME NEW d, NEW s, Kept(s), Unremarked(d, s), NEW h \in Grades, NEW t, t = GradeFor(s, h)
  PROVE  /\ Kept(t) /\ Unremarked(d, t) /\ (s.failed => t.failed)
         /\ t.mem.grades = s.mem.grades \cup {h}
         /\ t.mem.subjects = s.mem.subjects /\ t.mem.sections = s.mem.sections
         /\ SameLogins(s.mem, t.mem) /\ SameLinks(s.mem, t.mem)
<1>1. Kept(t) /\ s \in Session /\ s.mem \in Tables
  BY GradeKept DEF Kept, Held, Session
<1>2. CASE h \in s.seen.grades
  <2>1. t = s /\ h \in s.mem.grades
    BY <1>2 DEF GradeFor, Unremarked, Finding
  <2> QED
    BY <1>1, <2>1 DEF SameLogins, SameLinks
<1>3. CASE h \notin s.seen.grades
  <2>v. PICK v : v = [s EXCEPT !.mem.grades = @ \cup {h}]
    OBVIOUS
  <2>1. /\ v \in Session /\ v.seen = s.seen /\ v.failed = s.failed
        /\ v.mem.grades = s.mem.grades \cup {h}
        /\ v.mem.subjects = s.mem.subjects /\ v.mem.sections = s.mem.sections
        /\ v.mem.role = s.mem.role /\ v.mem.teachers = s.mem.teachers
        /\ v.mem.student = s.mem.student /\ v.mem.taught = s.mem.taught
        /\ v.mem.remarks = s.mem.remarks
    BY <1>1, <2>v DEF Session, Tables
  <2>2. t = Flushed(v)
    BY <1>3, <2>v DEF GradeFor
  <2>3. Unremarked(d, t) /\ (s.failed => t.failed)
    BY <2>1, <2>2, FlushedFinding
  <2>4. t.mem = v.mem
    BY <2>1, <2>2, FlushedRows
  <2> QED
    BY <1>1, <2>1, <2>3, <2>4 DEF SameLogins, SameLinks
<1> QED
  BY <1>2, <1>3

LEMMA SubjectRows ==
  ASSUME NEW d, NEW s, Kept(s), Unremarked(d, s), NEW j \in Subjects, NEW t,
         t = SubjectFor(s, j)
  PROVE  /\ Kept(t) /\ Unremarked(d, t) /\ (s.failed => t.failed)
         /\ t.mem.subjects = s.mem.subjects \cup {j}
         /\ t.mem.grades = s.mem.grades /\ t.mem.sections = s.mem.sections
         /\ SameLogins(s.mem, t.mem) /\ SameLinks(s.mem, t.mem)
<1>1. Kept(t) /\ s \in Session /\ s.mem \in Tables
  BY SubjectKept DEF Kept, Held, Session
<1>2. CASE j \in s.seen.subjects
  <2>1. t = s /\ j \in s.mem.subjects
    BY <1>2 DEF SubjectFor, Unremarked, Finding
  <2> QED
    BY <1>1, <2>1 DEF SameLogins, SameLinks
<1>3. CASE j \notin s.seen.subjects
  <2>v. PICK v : v = [s EXCEPT !.mem.subjects = @ \cup {j}]
    OBVIOUS
  <2>1. /\ v \in Session /\ v.seen = s.seen /\ v.failed = s.failed
        /\ v.mem.subjects = s.mem.subjects \cup {j}
        /\ v.mem.grades = s.mem.grades /\ v.mem.sections = s.mem.sections
        /\ v.mem.role = s.mem.role /\ v.mem.teachers = s.mem.teachers
        /\ v.mem.student = s.mem.student /\ v.mem.taught = s.mem.taught
        /\ v.mem.remarks = s.mem.remarks
    BY <1>1, <2>v DEF Session, Tables
  <2>2. t = Flushed(v)
    BY <1>3, <2>v DEF SubjectFor
  <2>3. Unremarked(d, t) /\ (s.failed => t.failed)
    BY <2>1, <2>2, FlushedFinding
  <2>4. t.mem = v.mem
    BY <2>1, <2>2, FlushedRows
  <2> QED
    BY <1>1, <2>1, <2>3, <2>4 DEF SameLogins, SameLinks
<1> QED
  BY <1>2, <1>3

LEMMA SectionRows ==
  ASSUME NEW d, NEW s, Kept(s), Unremarked(d, s), NEW c \in Sections, NEW t,
         t = SectionFor(s, c)
  PROVE  /\ Kept(t) /\ Unremarked(d, t) /\ t.failed = s.failed
         /\ t.mem.sections = s.mem.sections \cup {c}
         /\ t.mem.grades = s.mem.grades /\ t.mem.subjects = s.mem.subjects
         /\ SameLogins(s.mem, t.mem) /\ SameLinks(s.mem, t.mem)
<1>1. Kept(t) /\ s \in Session /\ s.mem \in Tables
  BY SectionKept DEF Kept, Held, Session
<1>2. CASE c \in s.seen.sections
  <2>1. t = s /\ c \in s.mem.sections
    BY <1>2 DEF SectionFor, Unremarked, Finding
  <2> QED
    BY <1>1, <2>1 DEF SameLogins, SameLinks
<1>3. CASE c \notin s.seen.sections
  <2>1. t = [s EXCEPT !.mem.sections = @ \cup {c},
                      !.twice = s.twice \/ c \in s.mem.sections]
    BY <1>3 DEF SectionFor
  <2>2. /\ t.seen = s.seen /\ t.failed = s.failed
        /\ t.mem.sections = s.mem.sections \cup {c}
        /\ t.mem.subjects = s.mem.subjects /\ t.mem.grades = s.mem.grades
        /\ t.mem.role = s.mem.role /\ t.mem.teachers = s.mem.teachers
        /\ t.mem.student = s.mem.student /\ t.mem.taught = s.mem.taught
        /\ t.mem.remarks = s.mem.remarks
    BY <1>1, <2>1 DEF Session, Tables
  <2>3. Unremarked(d, t)
    BY <2>2 DEF Unremarked, Finding
  <2> QED
    BY <1>1, <2>2, <2>3 DEF SameLogins, SameLinks
<1> QED
  BY <1>2, <1>3

LEMMA StructureRows ==
  ASSUME NEW d, NEW s, Kept(s), Unremarked(d, s), NEW l \in Lines, l.file = "structure",
         NEW t, t = StructureLine(s, l)
  PROVE  /\ Unremarked(d, t) /\ (s.failed => t.failed)
         /\ t.mem.grades = s.mem.grades \cup {GradeOf[l.section]}
         /\ t.mem.subjects = s.mem.subjects \cup {l.subject}
         /\ t.mem.sections = s.mem.sections \cup {l.section}
         /\ SameLogins(s.mem, t.mem) /\ SameLinks(s.mem, t.mem)
<1>1. /\ l.section \in Sections /\ l.subject \in Subjects
      /\ GradeOf[l.section] \in Grades
  BY LinesAssumption DEF Lines
<1>2. PICK x, y : x = GradeFor(s, GradeOf[l.section]) /\ y = SubjectFor(x, l.subject)
  OBVIOUS
<1>3. t = SectionFor(y, l.section)
  BY <1>2 DEF StructureLine
<1>4. /\ Kept(x) /\ Unremarked(d, x) /\ (s.failed => x.failed)
      /\ x.mem.grades = s.mem.grades \cup {GradeOf[l.section]}
      /\ x.mem.subjects = s.mem.subjects /\ x.mem.sections = s.mem.sections
      /\ SameLogins(s.mem, x.mem) /\ SameLinks(s.mem, x.mem)
  BY <1>1, <1>2, GradeRows
<1>5. /\ Kept(y) /\ Unremarked(d, y) /\ (x.failed => y.failed)
      /\ y.mem.subjects = x.mem.subjects \cup {l.subject}
      /\ y.mem.grades = x.mem.grades /\ y.mem.sections = x.mem.sections
      /\ SameLogins(x.mem, y.mem) /\ SameLinks(x.mem, y.mem)
  BY <1>1, <1>2, <1>4, SubjectRows
<1>6. /\ Unremarked(d, t) /\ t.failed = y.failed
      /\ t.mem.sections = y.mem.sections \cup {l.section}
      /\ t.mem.grades = y.mem.grades /\ t.mem.subjects = y.mem.subjects
      /\ SameLogins(y.mem, t.mem) /\ SameLinks(y.mem, t.mem)
  BY <1>1, <1>3, <1>5, SectionRows
<1> QED
  BY <1>4, <1>5, <1>6 DEF SameLogins, SameLinks

GivesRole(m, t, u, r) ==
  /\ t.role[u] # None
  /\ \A v \in Users :
       t.role[v] = IF v = u /\ m.role[v] = None THEN r ELSE m.role[v]

LEMMA UserRows ==
  ASSUME NEW d, NEW s, Kept(s), s.failed = FALSE, Unremarked(d, s),
         NEW u \in Users, NEW r \in Roles, NEW t, t = UserFor(s, u, r)
  PROVE  /\ Kept(t) /\ Unremarked(d, t) /\ GivesRole(s.mem, t.mem, u, r)
         /\ SameRows(s.mem, t.mem) /\ SameLinks(s.mem, t.mem)
         /\ t.mem.teachers = s.mem.teachers
<1>n. r # None
  BY LinesAssumption
<1>1. /\ Kept(t) /\ s \in Session /\ s.mem \in Tables /\ s.seen.role = s.mem.role
      /\ r # None
  BY <1>n, UserKept DEF Kept, Held, Session, RolesFlushed
<1>2. s.mem.role \in [Users -> Opt(Roles)]
  BY <1>1 DEF Tables
<1>3. CASE s.seen.role[u] # None
  <2>1. t = s
    BY <1>3 DEF UserFor
  <2> QED
    BY <1>1, <1>2, <1>3, <2>1 DEF SameRows, SameLinks, GivesRole
<1>4. CASE s.seen.role[u] = None
  <2>v. PICK v : v = [s EXCEPT !.mem.role[u] = r]
    OBVIOUS
  <2>1. /\ v.seen = s.seen /\ v.failed = s.failed
        /\ v.mem.role = [s.mem.role EXCEPT ![u] = r]
        /\ v.mem.subjects = s.mem.subjects /\ v.mem.sections = s.mem.sections
        /\ v.mem.grades = s.mem.grades /\ v.mem.teachers = s.mem.teachers
        /\ v.mem.student = s.mem.student /\ v.mem.taught = s.mem.taught
        /\ v.mem.remarks = s.mem.remarks
    BY <1>1, <2>v DEF Session, Tables
  <2>2. v \in Session
    BY <1>1, <2>1, <2>v DEF Session, Tables, Opt
  <2>3. t = Flushed(v)
    BY <1>4, <2>v DEF UserFor
  <2>4. Unremarked(d, t)
    BY <2>1, <2>2, <2>3, FlushedFinding
  <2>5. t.mem = v.mem
    BY <2>2, <2>3, FlushedRows
  <2>6. \A w \in Users : v.mem.role[w] = IF w = u THEN r ELSE s.mem.role[w]
    BY <1>2, <2>1
  <2> QED
    BY <1>1, <1>4, <2>1, <2>4, <2>5, <2>6 DEF SameRows, SameLinks, GivesRole
<1> QED
  BY <1>3, <1>4

LEMMA TeacherRows ==
  ASSUME NEW d, NEW s, Kept(s), Unremarked(d, s), NEW u \in Users,
         s.mem.role[u] = "teacher", NEW t, t = TeacherFor(s, u)
  PROVE  /\ Kept(t) /\ Unremarked(d, t) /\ (s.failed => t.failed)
         /\ t.mem.teachers = s.mem.teachers \cup {u} /\ t.mem.role = s.mem.role
         /\ SameRows(s.mem, t.mem) /\ SameLinks(s.mem, t.mem)
<1>1. Kept(t) /\ s \in Session /\ s.mem \in Tables
  BY TeacherForKept DEF Kept, Held, Session
<1>2. CASE u \in s.seen.teachers
  <2>1. t = s /\ u \in s.mem.teachers
    BY <1>2 DEF TeacherFor, Unremarked, Finding
  <2> QED
    BY <1>1, <2>1 DEF SameRows, SameLinks
<1>3. CASE u \notin s.seen.teachers
  <2>v. PICK v : v = [s EXCEPT !.mem.teachers = @ \cup {u}]
    OBVIOUS
  <2>1. /\ v \in Session /\ v.seen = s.seen /\ v.failed = s.failed
        /\ v.mem.teachers = s.mem.teachers \cup {u} /\ v.mem.role = s.mem.role
        /\ v.mem.subjects = s.mem.subjects /\ v.mem.sections = s.mem.sections
        /\ v.mem.grades = s.mem.grades
        /\ v.mem.student = s.mem.student /\ v.mem.taught = s.mem.taught
        /\ v.mem.remarks = s.mem.remarks
    BY <1>1, <2>v DEF Session, Tables
  <2>2. t = Flushed(v)
    BY <1>3, <2>v DEF TeacherFor
  <2>3. Unremarked(d, t) /\ (s.failed => t.failed)
    BY <2>1, <2>2, FlushedFinding
  <2>4. t.mem = v.mem
    BY <2>1, <2>2, FlushedRows
  <2> QED
    BY <1>1, <2>1, <2>3, <2>4 DEF SameRows, SameLinks
<1> QED
  BY <1>2, <1>3

(* From the tables m to the tables t a line of users.csv sets the link it  *)
(* names, if its row is there, and no other.                               *)
Relink(d, m, t, l) ==
  /\ \A a \in Admissions : m.student[a] # None =>
       /\ t.student[a] # None /\ t.student[a].section = m.student[a].section
       /\ t.student[a].user =
            IF Names(t, l, "student", a) THEN l.user ELSE m.student[a].user
       /\ t.student[a].guardian =
            IF Names(t, l, "parent", a) THEN l.user ELSE m.student[a].guardian
  /\ \A a \in Admissions : m.student[a] = None /\ t.student[a] # None =>
       Names(t, l, "student", a) /\ l.section \in t.sections /\ t.student[a].user = l.user
  /\ \A a \in Admissions : t.student[a] = None /\ Names(t, l, "student", a) =>
       l.section \notin d.sections
  /\ \A k \in Sections \X Subjects :
       \/ t.taught[k] = m.taught[k]
       \/ /\ Names(t, l, "teacher", k) /\ k \in t.sections \X t.subjects
          /\ t.taught[k] = l.user
  /\ \A k \in d.sections \X d.subjects :
       k \in Sections \X Subjects /\ Names(t, l, "teacher", k) => t.taught[k] = l.user

Linking(d, s, t, l) ==
  /\ Unremarked(d, t) /\ SameRows(s.mem, t.mem) /\ t.mem.role = s.mem.role
  /\ t.mem.teachers =
       IF l.role = "teacher" THEN s.mem.teachers \cup {l.user} ELSE s.mem.teachers
  /\ ~t.failed => ~s.failed /\ Relink(d, s.mem, t.mem, l)

(* Nothing is named.                                                       *)
LEMMA NothingNamed ==
  ASSUME NEW d, NEW m, NEW t, NEW l, SameLinks(m, t),
         \A a \in Admissions : ~Names(t, l, "parent", a) \/ m.student[a] = None,
         \A a \in Admissions : Names(t, l, "student", a) =>
           m.student[a] = None /\ l.section \notin d.sections,
         \A k \in d.sections \X d.subjects : ~Names(t, l, "teacher", k)
  PROVE  Relink(d, m, t, l)
<1>1. t.student = m.student /\ t.taught = m.taught
  BY DEF SameLinks
<1> QED
  BY <1>1 DEF Relink

LEMMA WarnedRows ==
  ASSUME NEW d, NEW s \in Session, Unremarked(d, s), NEW p, NEW t, t = Warned(s, p)
  PROVE  Unremarked(d, t) /\ t.mem = s.mem /\ t.seen = s.seen /\ t.failed = s.failed
<1>1. t.mem = s.mem /\ t.seen = s.seen /\ t.failed = s.failed
  BY DEF Warned, Session
<1> QED
  BY <1>1 DEF Unremarked, Finding

LEMMA StudentLinking ==
  ASSUME NEW d, NEW s, Kept(s), s.failed = FALSE, Unremarked(d, s), NEW p,
         NEW l \in Lines, l.file = "users", l.role = "student",
         s.mem.role[l.user] = "student", NEW t, t = LinkStudent(s, l, p)
  PROVE  Linking(d, s, t, l)
<1>1. /\ l.user \in Users /\ l.adm \in Opt(Admissions) /\ l.section \in Opt(Sections)
      /\ None \notin Admissions /\ None \notin Sections /\ None \notin StudentRow
  BY LinesAssumption DEF Lines
<1>2. /\ s \in Session /\ s.mem \in Tables /\ s.seen \in Tables
      /\ s.mem.student \in [Admissions -> StudentRow \cup {None}]
      /\ \A a \in Admissions : s.seen.student[a] = None <=> s.mem.student[a] = None
  BY DEF Kept, Held, Session, Unremarked, Finding, Tables
<1>3. "student" # "teacher" /\ "student" # "parent"
  OBVIOUS
<1>4. ASSUME SameLinks(s.mem, t.mem), Unremarked(d, t), SameRows(s.mem, t.mem),
             SameLogins(s.mem, t.mem),
             \A a \in Admissions : l.adm = a =>
               s.mem.student[a] = None /\ l.section \notin d.sections
      PROVE  Linking(d, s, t, l)
  <2>1. Relink(d, s.mem, t.mem, l)
    <3>1. \A a \in Admissions : ~Names(t.mem, l, "parent", a)
      BY <1>3 DEF Names
    <3>2. \A a \in Admissions : Names(t.mem, l, "student", a) =>
            s.mem.student[a] = None /\ l.section \notin d.sections
      BY <1>3, <1>4 DEF Names
    <3>3. \A k : ~Names(t.mem, l, "teacher", k)
      BY <1>3 DEF Names
    <3> QED
      BY <1>4, <3>1, <3>2, <3>3, NothingNamed
  <2> QED
    BY <1>3, <1>4, <2>1 DEF Linking, SameLogins
<1>5. CASE l.adm = None
  <2>1. t = s
    BY <1>5 DEF LinkStudent
  <2> QED
    BY <1>1, <1>4, <1>5, <2>1 DEF SameLinks, SameRows, SameLogins
<1>6. CASE l.adm # None /\ s.seen.student[l.adm] = None /\ l.section \notin s.seen.sections
  <2>1. t = Warned(s, p)
    BY <1>6 DEF LinkStudent
  <2>2. Unremarked(d, t) /\ t.mem = s.mem
    BY <1>2, <2>1, WarnedRows
  <2>3. l.section \notin d.sections
    BY <1>6 DEF Unremarked, Finding
  <2>4. \A a \in Admissions : l.adm = a => s.mem.student[a] = None
    BY <1>2, <1>6
  <2> QED
    BY <1>4, <2>2, <2>3, <2>4 DEF SameLinks, SameRows, SameLogins
<1>7. CASE l.adm # None /\ s.seen.student[l.adm] # None
  <2>r. PICK r : r = [s.mem.student[l.adm] EXCEPT !.user = l.user]
    OBVIOUS
  <2>1. l.adm \in Admissions /\ s.mem.student[l.adm] \in StudentRow
    BY <1>1, <1>2, <1>7 DEF Opt
  <2>2. /\ r.user = l.user /\ r.guardian = s.mem.student[l.adm].guardian
        /\ r.section = s.mem.student[l.adm].section /\ r \in StudentRow
    BY <1>1, <2>1, <2>r DEF StudentRow, Opt
  <2>3. t = [s EXCEPT !.mem.student[l.adm].user = l.user]
    BY <1>7 DEF LinkStudent
  <2>4. /\ t.mem.student = [s.mem.student EXCEPT ![l.adm] = r]
        /\ t.seen = s.seen /\ t.failed = s.failed
        /\ t.mem.subjects = s.mem.subjects /\ t.mem.sections = s.mem.sections
        /\ t.mem.grades = s.mem.grades
        /\ t.mem.role = s.mem.role /\ t.mem.teachers = s.mem.teachers
        /\ t.mem.taught = s.mem.taught /\ t.mem.remarks = s.mem.remarks
    BY <1>2, <2>r, <2>3 DEF Session, Tables
  <2>5. \A a \in Admissions :
          t.mem.student[a] = IF a = l.adm THEN r ELSE s.mem.student[a]
    BY <1>2, <2>4
  <2>6. \A a \in Admissions : t.mem.student[a] = None <=> s.mem.student[a] = None
    BY <1>1, <2>1, <2>2, <2>5
  <2>7. Unremarked(d, t)
    BY <1>2, <2>4, <2>6 DEF Unremarked, Finding
  <2>8. \A a \in Admissions : /\ Names(t.mem, l, "student", a) <=> a = l.adm
                              /\ ~Names(t.mem, l, "parent", a)
    BY <1>3, <2>4 DEF Names
  <2>9. \A k : ~Names(t.mem, l, "teacher", k)
    BY <1>3 DEF Names
  <2>10. Relink(d, s.mem, t.mem, l)
    <3>1. \A a \in Admissions : s.mem.student[a] # None =>
            /\ t.mem.student[a] # None
            /\ t.mem.student[a].section = s.mem.student[a].section
            /\ t.mem.student[a].user =
                 IF Names(t.mem, l, "student", a) THEN l.user ELSE s.mem.student[a].user
            /\ t.mem.student[a].guardian =
                 IF Names(t.mem, l, "parent", a) THEN l.user ELSE s.mem.student[a].guardian
      BY <2>2, <2>5, <2>6, <2>8
    <3>2. \A a \in Admissions : Names(t.mem, l, "student", a) => t.mem.student[a] # None
      BY <1>1, <2>2, <2>5, <2>8
    <3> QED
      BY <2>4, <2>6, <2>9, <3>1, <3>2 DEF Relink
  <2> QED
    BY <1>3, <2>4, <2>7, <2>10 DEF Linking, SameRows
<1>8. CASE l.adm # None /\ s.seen.student[l.adm] = None /\ l.section \in s.seen.sections
  <2>r. PICK r : r = [user |-> l.user, guardian |-> None, section |-> l.section]
    OBVIOUS
  <2>v. PICK v : v = [s EXCEPT !.mem.student[l.adm] = r]
    OBVIOUS
  <2>1. l.adm \in Admissions /\ l.section \in Sections
    BY <1>1, <1>2, <1>8 DEF Opt, Tables
  <2>2. r \in StudentRow /\ r.user = l.user /\ r # None
    BY <1>1, <2>1, <2>r DEF StudentRow, Opt
  <2>3. /\ v.mem.student = [s.mem.student EXCEPT ![l.adm] = r]
        /\ v.seen = s.seen /\ v.failed = s.failed
        /\ v.mem.subjects = s.mem.subjects /\ v.mem.sections = s.mem.sections
        /\ v.mem.grades = s.mem.grades
        /\ v.mem.role = s.mem.role /\ v.mem.teachers = s.mem.teachers
        /\ v.mem.taught = s.mem.taught /\ v.mem.remarks = s.mem.remarks
    BY <1>2, <2>v DEF Session, Tables
  <2>4. v.mem.student \in [Admissions -> StudentRow \cup {None}]
    BY <1>2, <2>1, <2>2, <2>3
  <2>5. v \in Session
    BY <1>2, <2>4, <2>v DEF Session, Tables
  <2>6. t = Flushed(v)
    BY <1>8, <2>r, <2>v DEF LinkStudent
  <2>7. Unremarked(d, t) /\ t.mem = v.mem
    BY <2>3, <2>5, <2>6, FlushedFinding, FlushedRows
  <2>8. \A a \in Admissions :
          t.mem.student[a] = IF a = l.adm THEN r ELSE s.mem.student[a]
    BY <1>2, <2>3, <2>7
  <2>9. s.mem.student[l.adm] = None
    BY <1>2, <1>8, <2>1
  <2>10. \A a \in Admissions : /\ Names(t.mem, l, "student", a) <=> a = l.adm
                               /\ ~Names(t.mem, l, "parent", a)
    BY <1>3, <2>3, <2>7 DEF Names
  <2>11. \A k : ~Names(t.mem, l, "teacher", k)
    BY <1>3 DEF Names
  <2>12. l.section \in t.mem.sections
    BY <1>8, <2>3, <2>7 DEF Unremarked, Finding
  <2>13. Relink(d, s.mem, t.mem, l)
    <3>1. \A a \in Admissions : s.mem.student[a] # None =>
            /\ a # l.adm /\ t.mem.student[a] = s.mem.student[a]
            /\ ~Names(t.mem, l, "student", a) /\ ~Names(t.mem, l, "parent", a)
      BY <2>8, <2>9, <2>10
    <3>2. \A a \in Admissions : s.mem.student[a] = None /\ t.mem.student[a] # None =>
            /\ Names(t.mem, l, "student", a) /\ t.mem.student[a].user = l.user
      BY <2>2, <2>8, <2>10
    <3>3. \A a \in Admissions : Names(t.mem, l, "student", a) => t.mem.student[a] # None
      BY <2>2, <2>8, <2>10
    <3>4. t.mem.taught = s.mem.taught
      BY <2>3, <2>7
    <3> QED
      BY <2>11, <2>12, <3>1, <3>2, <3>3, <3>4 DEF Relink
  <2> QED
    BY <1>3, <2>3, <2>7, <2>13 DEF Linking, SameRows
<1> QED
  BY <1>5, <1>6, <1>7, <1>8

LEMMA ParentLinking ==
  ASSUME NEW d, NEW s, Kept(s), s.failed = FALSE, Unremarked(d, s), NEW p,
         NEW l \in Lines, l.file = "users", l.role = "parent",
         s.mem.role[l.user] = "parent", NEW t, t = LinkParent(s, l, p)
  PROVE  Linking(d, s, t, l)
<1>1. /\ l.user \in Users /\ l.adm \in Opt(Admissions) /\ None \notin Admissions
  BY LinesAssumption DEF Lines
<1>2. /\ s \in Session /\ s.mem \in Tables
      /\ s.mem.student \in [Admissions -> StudentRow \cup {None}]
      /\ \A a \in Admissions : s.seen.student[a] = None <=> s.mem.student[a] = None
  BY DEF Kept, Held, Session, Unremarked, Finding, Tables
<1>3. "parent" # "teacher" /\ "parent" # "student" /\ None \notin StudentRow
  BY LinesAssumption
<1>4. ASSUME SameLinks(s.mem, t.mem), Unremarked(d, t), SameRows(s.mem, t.mem),
             SameLogins(s.mem, t.mem),
             \A a \in Admissions : l.adm = a => s.mem.student[a] = None
      PROVE  Linking(d, s, t, l)
  <2>1. Relink(d, s.mem, t.mem, l)
    <3>1. \A a \in Admissions : ~Names(t.mem, l, "student", a)
      BY <1>3 DEF Names
    <3>2. \A a \in Admissions : Names(t.mem, l, "parent", a) => s.mem.student[a] = None
      BY <1>3, <1>4 DEF Names
    <3>3. \A k : ~Names(t.mem, l, "teacher", k)
      BY <1>3 DEF Names
    <3> QED
      BY <1>4, <3>1, <3>2, <3>3, NothingNamed
  <2> QED
    BY <1>3, <1>4, <2>1 DEF Linking, SameLogins
<1>5. CASE l.adm = None
  <2>1. t = s
    BY <1>5 DEF LinkParent
  <2> QED
    BY <1>1, <1>4, <1>5, <2>1 DEF SameLinks, SameRows, SameLogins
<1>6. CASE l.adm # None /\ s.seen.student[l.adm] = None
  <2>1. t = Warned(s, p)
    BY <1>6 DEF LinkParent
  <2>2. Unremarked(d, t) /\ t.mem = s.mem
    BY <1>2, <2>1, WarnedRows
  <2>4. \A a \in Admissions : l.adm = a => s.mem.student[a] = None
    BY <1>2, <1>6
  <2> QED
    BY <1>4, <2>2, <2>4 DEF SameLinks, SameRows, SameLogins
<1>7. CASE l.adm # None /\ s.seen.student[l.adm] # None
  <2>r. PICK r : r = [s.mem.student[l.adm] EXCEPT !.guardian = l.user]
    OBVIOUS
  <2>1. l.adm \in Admissions /\ s.mem.student[l.adm] \in StudentRow
    BY <1>1, <1>2, <1>7 DEF Opt
  <2>2. /\ r.guardian = l.user /\ r.user = s.mem.student[l.adm].user
        /\ r.section = s.mem.student[l.adm].section /\ r \in StudentRow
    BY <1>1, <2>1, <2>r DEF StudentRow, Opt
  <2>3. t = [s EXCEPT !.mem.student[l.adm].guardian = l.user]
    BY <1>7 DEF LinkParent
  <2>4. /\ t.mem.student = [s.mem.student EXCEPT ![l.adm] = r]
        /\ t.seen = s.seen /\ t.failed = s.failed
        /\ t.mem.subjects = s.mem.subjects /\ t.mem.sections = s.mem.sections
        /\ t.mem.grades = s.mem.grades
        /\ t.mem.role = s.mem.role /\ t.mem.teachers = s.mem.teachers
        /\ t.mem.taught = s.mem.taught /\ t.mem.remarks = s.mem.remarks
    BY <1>2, <2>r, <2>3 DEF Session, Tables
  <2>5. \A a \in Admissions :
          t.mem.student[a] = IF a = l.adm THEN r ELSE s.mem.student[a]
    BY <1>2, <2>4
  <2>6. \A a \in Admissions : t.mem.student[a] = None <=> s.mem.student[a] = None
    BY <1>3, <2>1, <2>2, <2>5
  <2>7. Unremarked(d, t)
    BY <1>2, <2>4, <2>6 DEF Unremarked, Finding
  <2>8. \A a \in Admissions : /\ Names(t.mem, l, "parent", a) <=> a = l.adm
                              /\ ~Names(t.mem, l, "student", a)
    BY <1>3, <2>4 DEF Names
  <2>9. \A k : ~Names(t.mem, l, "teacher", k)
    BY <1>3 DEF Names
  <2>10. Relink(d, s.mem, t.mem, l)
    <3>1. \A a \in Admissions : s.mem.student[a] # None =>
            /\ t.mem.student[a] # None
            /\ t.mem.student[a].section = s.mem.student[a].section
            /\ t.mem.student[a].user =
                 IF Names(t.mem, l, "student", a) THEN l.user ELSE s.mem.student[a].user
            /\ t.mem.student[a].guardian =
                 IF Names(t.mem, l, "parent", a) THEN l.user ELSE s.mem.student[a].guardian
      BY <2>2, <2>5, <2>6, <2>8
    <3> QED
      BY <2>4, <2>6, <2>8, <2>9, <3>1 DEF Relink
  <2> QED
    BY <1>3, <2>4, <2>7, <2>10 DEF Linking, SameRows
<1> QED
  BY <1>5, <1>6, <1>7

LEMMA TeacherLinking ==
  ASSUME NEW d, NEW s, Kept(s), s.failed = FALSE, Unremarked(d, s), NEW p,
         NEW l \in Lines, l.file = "users", l.role = "teacher",
         s.mem.role[l.user] = "teacher", NEW t, t = LinkTeacher(s, l, p)
  PROVE  Linking(d, s, t, l)
<1>1. /\ l.user \in Users /\ l.section \in Opt(Sections) /\ l.subject \in Opt(Subjects)
      /\ None \notin Sections /\ None \notin Subjects
  BY LinesAssumption DEF Lines
<1>2. PICK x : x = TeacherFor(s, l.user)
  OBVIOUS
<1>3. /\ Kept(x) /\ Unremarked(d, x) /\ x.mem.role = s.mem.role
      /\ x.mem.teachers = s.mem.teachers \cup {l.user}
      /\ SameRows(s.mem, x.mem) /\ SameLinks(s.mem, x.mem)
  BY <1>1, <1>2, TeacherRows
<1>4. /\ x \in Session /\ x.mem \in Tables
      /\ x.mem.taught \in [Sections \X Subjects -> Opt(Users)]
  BY <1>3 DEF Kept, Held, Session, Tables
<1>5. "teacher" # "student" /\ "teacher" # "parent"
  OBVIOUS
<1>6. /\ \A a : ~Names(t.mem, l, "student", a) /\ ~Names(t.mem, l, "parent", a)
      /\ \A k : Names(t.mem, l, "teacher", k) => k = <<l.section, l.subject>>
  BY <1>5 DEF Names
<1>7. ASSUME t.mem = x.mem, Unremarked(d, t),
             <<l.section, l.subject>> \notin d.sections \X d.subjects
      PROVE  Linking(d, s, t, l)
  <2>1. SameLinks(s.mem, t.mem)
    BY <1>3, <1>7
  <2>2. Relink(d, s.mem, t.mem, l)
    BY <1>6, <1>7, <2>1, NothingNamed
  <2> QED
    BY <1>3, <1>7, <2>2 DEF Linking, SameRows
<1>8. d.sections \subseteq x.seen.sections /\ d.subjects \subseteq x.seen.subjects
  BY <1>3 DEF Unremarked, Finding
<1>9. d.sections \subseteq Sections /\ d.subjects \subseteq Subjects
  <2>1. x.mem.sections \subseteq Sections /\ x.mem.subjects \subseteq Subjects
    BY <1>4 DEF Tables
  <2> QED
    BY <1>3, <2>1 DEF Unremarked, Finding
<1>10. CASE l.section = None \/ l.subject = None
  <2>1. t = x
    BY <1>2, <1>10 DEF LinkTeacher
  <2>2. <<l.section, l.subject>> \notin d.sections \X d.subjects
    BY <1>1, <1>9, <1>10
  <2> QED
    BY <1>3, <1>7, <2>1, <2>2
<1>11. CASE /\ l.section # None /\ l.subject # None
            /\ l.section \notin x.seen.sections \/ l.subject \notin x.seen.subjects
  <2>1. t = Warned(x, p)
    BY <1>2, <1>11 DEF LinkTeacher
  <2>2. Unremarked(d, t) /\ t.mem = x.mem
    BY <1>3, <1>4, <2>1, WarnedRows
  <2>3. <<l.section, l.subject>> \notin d.sections \X d.subjects
    BY <1>8, <1>11
  <2> QED
    BY <1>7, <2>2, <2>3
<1>12. CASE /\ l.section # None /\ l.subject # None
            /\ l.section \in x.seen.sections /\ l.subject \in x.seen.subjects
  <2>key. PICK key : key = <<l.section, l.subject>>
    OBVIOUS
  <2>b. PICK b : b = (x.twice \/ (x.seen.taught[key] = None /\ x.mem.taught[key] # None))
    OBVIOUS
  <2>1. t = [x EXCEPT !.mem.taught[key] = l.user, !.twice = b]
    BY <1>2, <1>12, <2>key, <2>b DEF LinkTeacher, Assign
  <2>2. /\ t.mem.taught = [x.mem.taught EXCEPT ![key] = l.user]
        /\ t.seen = x.seen /\ t.failed = x.failed
        /\ t.mem.subjects = x.mem.subjects /\ t.mem.sections = x.mem.sections
        /\ t.mem.grades = x.mem.grades
        /\ t.mem.role = x.mem.role /\ t.mem.teachers = x.mem.teachers
        /\ t.mem.student = x.mem.student /\ t.mem.remarks = x.mem.remarks
    BY <1>4, <2>1 DEF Session, Tables
  <2>3. key \in Sections \X Subjects
    BY <1>1, <1>12, <2>key DEF Opt
  <2>4. \A k \in Sections \X Subjects :
          t.mem.taught[k] = IF k = key THEN l.user ELSE x.mem.taught[k]
    BY <1>4, <2>2
  <2>5. Unremarked(d, t)
    BY <1>3, <2>2 DEF Unremarked, Finding
  <2>6. key \in t.mem.sections \X t.mem.subjects
    BY <1>3, <1>12, <2>2, <2>key DEF Unremarked, Finding
  <2>7. Names(t.mem, l, "teacher", key)
    BY <1>3, <2>2, <2>key DEF Names
  <2>8. Relink(d, s.mem, t.mem, l)
    <3>1. t.mem.student = s.mem.student
      BY <1>3, <2>2 DEF SameLinks
    <3>2. \A k \in Sections \X Subjects :
            t.mem.taught[k] = IF k = key THEN l.user ELSE s.mem.taught[k]
      BY <1>3, <2>4 DEF SameLinks
    <3> QED
      BY <1>6, <2>key, <2>6, <2>7, <3>1, <3>2 DEF Relink
  <2> QED
    BY <1>3, <2>2, <2>5, <2>8 DEF Linking, SameRows
<1> QED
  BY <1>10, <1>11, <1>12

(* What a line of users.csv does to the rows.                              *)
UserEffect(d, m, t, l) ==
  /\ SameRows(m, t) /\ t.remarks = m.remarks /\ GivesRole(m, t, l.user, l.role)
  /\ t.teachers = IF l.role = "teacher" /\ t.role[l.user] = "teacher"
                  THEN m.teachers \cup {l.user} ELSE m.teachers
  /\ Relink(d, m, t, l)

LEMMA UserLineRows ==
  ASSUME NEW d, NEW s, Kept(s), s.failed = FALSE, Unremarked(d, s), NEW p,
         NEW l \in Lines, l.file = "users", NEW t, t = UserLine(s, l, p), ~t.failed
  PROVE  Unremarked(d, t) /\ UserEffect(d, s.mem, t.mem, l)
<1>1. l.user \in Users /\ l.role \in Roles
  BY DEF Lines
<1>2. PICK x : x = UserFor(s, l.user, l.role)
  OBVIOUS
<1>3. /\ Kept(x) /\ Unremarked(d, x) /\ GivesRole(s.mem, x.mem, l.user, l.role)
      /\ SameRows(s.mem, x.mem) /\ SameLinks(s.mem, x.mem)
      /\ x.mem.teachers = s.mem.teachers
  BY <1>1, <1>2, UserRows
<1>4. x \in Session /\ x.mem.remarks = d.remarks /\ s.mem.remarks = d.remarks
      /\ x.failed \in BOOLEAN
  BY <1>3 DEF Kept, Held, Unremarked, Session
<1>5. ASSUME NEW m, NEW y, SameLinks(s.mem, m), Relink(d, m, y, l)
      PROVE  Relink(d, s.mem, y, l)
  BY <1>5 DEF Relink, SameLinks
<1>6. CASE x.mem.role[l.user] # l.role
  <2>1. t = Warned(x, p)
    BY <1>2, <1>6 DEF UserLine
  <2>2. Unremarked(d, t) /\ t.mem = x.mem
    BY <1>3, <1>4, <2>1, WarnedRows
  <2>3. \A r, k : ~Names(t.mem, l, r, k)
    BY <1>6, <2>2 DEF Names
  <2>4. Relink(d, s.mem, t.mem, l)
    BY <1>3, <2>2, <2>3, NothingNamed
  <2>5. l.role = "teacher" => x.mem.role[l.user] # "teacher"
    BY <1>6
  <2> QED
    BY <1>3, <1>4, <2>2, <2>4, <2>5 DEF UserEffect
<1>7. CASE x.mem.role[l.user] = l.role
  <2>1. t = Link(x, l, p)
    BY <1>2, <1>7 DEF UserLine
  <2>2. ASSUME x.failed = FALSE, Linking(d, x, t, l)
        PROVE  Unremarked(d, t) /\ UserEffect(d, s.mem, t.mem, l)
    <3>1. /\ Unremarked(d, t) /\ SameRows(x.mem, t.mem) /\ t.mem.role = x.mem.role
          /\ t.mem.teachers =
               IF l.role = "teacher" THEN x.mem.teachers \cup {l.user} ELSE x.mem.teachers
          /\ Relink(d, x.mem, t.mem, l)
      BY <2>2 DEF Linking
    <3>2. Relink(d, s.mem, t.mem, l)
      BY <1>3, <1>5, <3>1
    <3>g. GivesRole(s.mem, t.mem, l.user, l.role)
      BY <1>3, <3>1 DEF GivesRole
    <3>3. SameRows(s.mem, t.mem) /\ t.mem.remarks = s.mem.remarks
      BY <1>3, <1>4, <3>1 DEF SameRows, Unremarked
    <3> QED
      BY <1>3, <1>7, <3>1, <3>2, <3>3, <3>g DEF UserEffect
  <2>3. CASE l.role = "admin"
    <3>1. t = x
      BY <2>1, <2>3 DEF Link
    <3>2. \A k : ~Names(x.mem, l, "student", k) /\ ~Names(x.mem, l, "parent", k)
                 /\ ~Names(x.mem, l, "teacher", k)
      BY <2>3 DEF Names
    <3>3. Relink(d, x.mem, t.mem, l)
      BY <3>1, <3>2, NothingNamed DEF SameLinks
    <3>4. Linking(d, x, t, l)
      BY <1>3, <2>3, <3>1, <3>3 DEF Linking, SameRows
    <3> QED
      BY <2>2, <3>1, <3>4, <1>4
  <2>4. x.failed => t.failed
    <3>1. CASE l.role = "teacher"
      <4>1. PICK y : y = TeacherFor(x, l.user)
        OBVIOUS
      <4>2. Kept(y) /\ (x.failed => y.failed)
        BY <1>1, <1>3, <1>7, <3>1, <4>1, TeacherRows
      <4>3. t = LinkTeacher(x, l, p)
        BY <2>1, <3>1 DEF Link
      <4>4. y \in Session
        BY <4>2 DEF Kept, Held
      <4>5. t.failed = y.failed
        BY <4>1, <4>3, <4>4 DEF LinkTeacher, Warned, Assign, Session
      <4> QED
        BY <4>2, <4>5
    <3>2. CASE l.role = "parent"
      <4>1. t = LinkParent(x, l, p)
        BY <2>1, <3>2 DEF Link
      <4> QED
        BY <1>4, <4>1 DEF LinkParent, Warned, Session
    <3>3. CASE l.role = "student"
      <4>1. t = LinkStudent(x, l, p)
        BY <2>1, <3>3 DEF Link
      <4>2. PICK y : y = [x EXCEPT !.mem.student[l.adm] =
                            [user |-> l.user, guardian |-> None, section |-> l.section]]
        OBVIOUS
      <4>3. y.failed = x.failed
        BY <1>4, <4>2 DEF Session
      <4>4. y.failed => Flushed(y).failed
        <5>1. DOMAIN y = DOMAIN x
          BY <4>2
        <5> QED
          BY <1>4, <5>1 DEF Flushed, Session
      <4> QED
        BY <1>4, <4>1, <4>2, <4>3, <4>4 DEF LinkStudent, Warned, Session
    <3> QED
      BY <1>1, <2>3, <2>1, <3>1, <3>2, <3>3 DEF Roles, Link
  <2>5. x.failed = FALSE
    BY <1>4, <2>4
  <2>6. CASE l.role = "student"
    <3>1. t = LinkStudent(x, l, p)
      BY <2>1, <2>6 DEF Link
    <3> QED
      BY <1>3, <1>7, <2>2, <2>5, <2>6, <3>1, StudentLinking
  <2>7. CASE l.role = "parent"
    <3>1. t = LinkParent(x, l, p)
      BY <2>1, <2>7 DEF Link
    <3> QED
      BY <1>3, <1>7, <2>2, <2>5, <2>7, <3>1, ParentLinking
  <2>8. CASE l.role = "teacher"
    <3>1. t = LinkTeacher(x, l, p)
      BY <2>1, <2>8 DEF Link
    <3> QED
      BY <1>3, <1>7, <2>2, <2>5, <2>8, <3>1, TeacherLinking
  <2> QED
    BY <1>1, <2>3, <2>6, <2>7, <2>8 DEF Roles
<1> QED
  BY <1>6, <1>7

-----------------------------------------------------------------------------
(* One line more.                                                          *)
LEMMA LastNext ==
  ASSUME NEW n \in Nat, NEW F, NEW m, NEW t, NEW role, NEW key,
         \A p \in 1..n : Names(t, F[p], role, key) <=> Names(m, F[p], role, key)
  PROVE  /\ \A q \in 1..n : Last(m, F, n, q, role, key) /\ ~Names(t, F[n + 1], role, key)
              => Last(t, F, n + 1, q, role, key)
         /\ Names(t, F[n + 1], role, key) => Last(t, F, n + 1, n + 1, role, key)
         /\ \A q \in 1..(n + 1) : Last(t, F, n + 1, q, role, key) =>
              \/ q = n + 1 /\ Names(t, F[n + 1], role, key)
              \/ q \in 1..n /\ Last(m, F, n, q, role, key) /\ ~Names(t, F[n + 1], role, key)
<1>1. ASSUME NEW q \in 1..n, Last(m, F, n, q, role, key), ~Names(t, F[n + 1], role, key)
      PROVE  Last(t, F, n + 1, q, role, key)
  <2>1. q \in 1..(n + 1) /\ Names(t, F[q], role, key)
    BY <1>1 DEF Last
  <2>2. ASSUME NEW r \in (q + 1)..(n + 1) PROVE ~Names(t, F[r], role, key)
    <3>1. CASE r = n + 1
      BY <1>1, <3>1
    <3>2. CASE r # n + 1
      <4>1. r \in (q + 1)..n /\ r \in 1..n
        BY <3>2
      <4> QED
        BY <1>1, <4>1 DEF Last
    <3> QED
      BY <3>1, <3>2
  <2> QED
    BY <2>1, <2>2 DEF Last
<1>2. ASSUME Names(t, F[n + 1], role, key) PROVE Last(t, F, n + 1, n + 1, role, key)
  <2>1. n + 1 \in 1..(n + 1) /\ ((n + 1) + 1)..(n + 1) = {}
    OBVIOUS
  <2> QED
    BY <1>2, <2>1 DEF Last
<1>3. ASSUME NEW q \in 1..(n + 1), Last(t, F, n + 1, q, role, key)
      PROVE  \/ q = n + 1 /\ Names(t, F[n + 1], role, key)
             \/ q \in 1..n /\ Last(m, F, n, q, role, key) /\ ~Names(t, F[n + 1], role, key)
  <2>1. Names(t, F[q], role, key) /\ \A r \in (q + 1)..(n + 1) : ~Names(t, F[r], role, key)
    BY <1>3 DEF Last
  <2>2. CASE q = n + 1
    BY <2>1, <2>2
  <2>3. CASE q # n + 1
    <3>1. q \in 1..n /\ n + 1 \in (q + 1)..(n + 1)
      BY <2>3
    <3>2. \A r \in (q + 1)..n : r \in 1..n /\ r \in (q + 1)..(n + 1)
      BY <3>1
    <3>3. Last(m, F, n, q, role, key)
      BY <2>1, <3>1, <3>2 DEF Last
    <3> QED
      BY <2>1, <3>1, <3>3
  <2> QED
    BY <2>2, <2>3
<1> QED
  BY <1>1, <1>2, <1>3

RolesStand(m, t) == \A v \in Users : m.role[v] # None => t.role[v] = m.role[v]

(* A line read before names now what it named then.                        *)
LEMMA NamesStand ==
  ASSUME NEW n \in Nat, NEW F, \A p \in 1..n : F[p] \in Lines, NEW m, NEW t,
         RolesStand(m, t), RowsLand(m, F, n), NEW role, NEW key
  PROVE  \A p \in 1..n : Names(t, F[p], role, key) <=> Names(m, F[p], role, key)
<1> SUFFICES ASSUME NEW p \in 1..n, F[p].file = "users"
             PROVE  t.role[F[p].user] = m.role[F[p].user]
  BY DEF Names
<1>1. F[p].user \in Users
  BY DEF Lines
<1> QED
  BY <1>1 DEF RolesStand, RowsLand

LEMMA LinksStep ==
  ASSUME NEW n \in Nat, NEW F, \A p \in 1..n : F[p] \in Lines, NEW d \in Tables,
         NEW m, NEW t, RolesStand(m, t), RowsLand(m, F, n),
         m.sections \subseteq t.sections, m.subjects \subseteq t.subjects,
         Relink(d, m, t, F[n + 1]),
         LinksLast(d, m, F, n), LinksNamed(d, m, F, n), StudentsNamed(d, m, F, n)
  PROVE  /\ LinksLast(d, t, F, n + 1) /\ LinksNamed(d, t, F, n + 1)
         /\ StudentsNamed(d, t, F, n + 1)
<1>l. PICK l : l = F[n + 1]
  OBVIOUS
<1>n. \A q \in 1..n : q \in 1..(n + 1)
  OBVIOUS
<1>m. n + 1 \in 1..(n + 1) /\ \A q \in 1..(n + 1) : q = n + 1 \/ q \in 1..n
  OBVIOUS
<1>d. d.sections \X d.subjects \subseteq Sections \X Subjects
  BY DEF Tables
<1>1. ASSUME NEW role, NEW key
      PROVE  /\ \A p \in 1..n : Names(t, F[p], role, key) <=> Names(m, F[p], role, key)
             /\ \A q \in 1..n : Last(m, F, n, q, role, key) /\ ~Names(t, l, role, key)
                  => Last(t, F, n + 1, q, role, key)
             /\ Names(t, l, role, key) => Last(t, F, n + 1, n + 1, role, key)
             /\ \A q \in 1..(n + 1) : Last(t, F, n + 1, q, role, key) =>
                  \/ q = n + 1 /\ Names(t, l, role, key)
                  \/ q \in 1..n /\ Last(m, F, n, q, role, key) /\ ~Names(t, l, role, key)
  <2>1. \A p \in 1..n : Names(t, F[p], role, key) <=> Names(m, F[p], role, key)
    BY NamesStand
  <2> QED
    BY <2>1, <1>l, LastNext
<1>2. Relink(d, m, t, l)
  BY <1>l
<1>3. LinksLast(d, t, F, n + 1)
  <2>1. ASSUME NEW q \in 1..(n + 1), NEW a \in Admissions,
               Last(t, F, n + 1, q, "student", a), t.student[a] # None
        PROVE  t.student[a].user = F[q].user
    <3>1. CASE q = n + 1 /\ Names(t, l, "student", a)
      BY <1>2, <1>l, <2>1, <3>1 DEF Relink
    <3>2. CASE q \in 1..n /\ Last(m, F, n, q, "student", a) /\ ~Names(t, l, "student", a)
      <4>1. m.student[a] # None /\ t.student[a].user = m.student[a].user
        BY <1>2, <2>1, <3>2 DEF Relink
      <4> QED
        BY <3>2, <4>1 DEF LinksLast
    <3> QED
      BY <1>1, <2>1, <3>1, <3>2
  <2>2. ASSUME NEW q \in 1..(n + 1), NEW a \in Admissions,
               Last(t, F, n + 1, q, "parent", a), d.student[a] # None
        PROVE  t.student[a].guardian = F[q].user
    <3>0. m.student[a] # None
      BY <2>2 DEF LinksNamed
    <3>1. CASE q = n + 1 /\ Names(t, l, "parent", a)
      BY <1>2, <1>l, <3>0, <3>1 DEF Relink
    <3>2. CASE q \in 1..n /\ Last(m, F, n, q, "parent", a) /\ ~Names(t, l, "parent", a)
      <4>1. t.student[a].guardian = m.student[a].guardian
        BY <1>2, <3>0, <3>2 DEF Relink
      <4> QED
        BY <2>2, <3>2, <4>1 DEF LinksLast
    <3> QED
      BY <1>1, <2>2, <3>1, <3>2
  <2>3. ASSUME NEW q \in 1..(n + 1), NEW k \in d.sections \X d.subjects,
               Last(t, F, n + 1, q, "teacher", k)
        PROVE  t.taught[k] = F[q].user
    <3>0. k \in Sections \X Subjects
      BY <1>d
    <3>1. CASE q = n + 1 /\ Names(t, l, "teacher", k)
      BY <1>2, <1>l, <3>0, <3>1 DEF Relink
    <3>2. CASE q \in 1..n /\ Last(m, F, n, q, "teacher", k) /\ ~Names(t, l, "teacher", k)
      <4>1. t.taught[k] = m.taught[k]
        BY <1>2, <3>0, <3>2 DEF Relink
      <4>2. m.taught[k] = F[q].user
        BY <3>2 DEF LinksLast
      <4> QED
        BY <4>1, <4>2
    <3> QED
      BY <1>1, <2>3, <3>1, <3>2
  <2> QED
    BY <2>1, <2>2, <2>3 DEF LinksLast
<1>4. LinksNamed(d, t, F, n + 1)
  <2>1. ASSUME NEW a \in Admissions, d.student[a] # None
        PROVE  /\ t.student[a] # None /\ t.student[a].section = d.student[a].section
               /\ \/ t.student[a].user = d.student[a].user
                  \/ \E q \in 1..(n + 1) : Last(t, F, n + 1, q, "student", a)
               /\ \/ t.student[a].guardian = d.student[a].guardian
                  \/ \E q \in 1..(n + 1) : Last(t, F, n + 1, q, "parent", a)
    <3>1. /\ m.student[a] # None /\ m.student[a].section = d.student[a].section
          /\ \/ m.student[a].user = d.student[a].user
             \/ \E q \in 1..n : Last(m, F, n, q, "student", a)
          /\ \/ m.student[a].guardian = d.student[a].guardian
             \/ \E q \in 1..n : Last(m, F, n, q, "parent", a)
      BY <2>1 DEF LinksNamed
    <3>2. /\ t.student[a] # None /\ t.student[a].section = m.student[a].section
          /\ ~Names(t, l, "student", a) => t.student[a].user = m.student[a].user
          /\ ~Names(t, l, "parent", a) => t.student[a].guardian = m.student[a].guardian
      BY <1>2, <3>1 DEF Relink
    <3>3. \/ t.student[a].user = d.student[a].user
          \/ \E q \in 1..(n + 1) : Last(t, F, n + 1, q, "student", a)
      BY <1>1, <1>n, <1>m, <3>1, <3>2
    <3>4. \/ t.student[a].guardian = d.student[a].guardian
          \/ \E q \in 1..(n + 1) : Last(t, F, n + 1, q, "parent", a)
      BY <1>1, <1>n, <1>m, <3>1, <3>2
    <3> QED
      BY <3>1, <3>2, <3>3, <3>4
  <2>2. ASSUME NEW k \in Sections \X Subjects, t.taught[k] # d.taught[k]
        PROVE  /\ k \in t.sections \X t.subjects
               /\ \E q \in 1..(n + 1) : Last(t, F, n + 1, q, "teacher", k)
    <3>1. CASE Names(t, l, "teacher", k) /\ k \in t.sections \X t.subjects
      BY <1>1, <1>m, <3>1
    <3>2. CASE ~(Names(t, l, "teacher", k) /\ k \in t.sections \X t.subjects)
      <4>1. t.taught[k] = m.taught[k]
        BY <1>2, <3>2 DEF Relink
      <4>2. /\ k \in m.sections \X m.subjects
            /\ \E q \in 1..n : Last(m, F, n, q, "teacher", k)
        BY <2>2, <4>1 DEF LinksNamed
      <4>3. k \in t.sections \X t.subjects
        BY <4>2
      <4> QED
        BY <1>1, <1>n, <3>2, <4>2, <4>3
    <3> QED
      BY <3>1, <3>2
  <2> QED
    BY <2>1, <2>2 DEF LinksNamed
<1>5. StudentsNamed(d, t, F, n + 1)
  <2>1. ASSUME NEW a \in Admissions, t.student[a] # None, d.student[a] = None
        PROVE  \E q \in 1..(n + 1) : Names(t, F[q], "student", a) /\ F[q].section \in t.sections
    <3>1. CASE m.student[a] = None
      BY <1>2, <1>l, <1>m, <2>1, <3>1 DEF Relink
    <3>2. CASE m.student[a] # None
      <4>1. PICK q \in 1..n : Names(m, F[q], "student", a) /\ F[q].section \in m.sections
        BY <2>1, <3>2 DEF StudentsNamed
      <4>2. Names(t, F[q], "student", a)
        BY <1>1, <4>1
      <4> QED
        BY <1>n, <4>1, <4>2
    <3> QED
      BY <3>1, <3>2
  <2>2. ASSUME NEW a \in Admissions, NEW q \in 1..(n + 1), Names(t, F[q], "student", a),
               t.student[a] = None
        PROVE  F[q].section \notin d.sections
    <3>1. CASE q = n + 1
      BY <1>2, <1>l, <2>2, <3>1 DEF Relink
    <3>2. CASE q \in 1..n
      <4>1. m.student[a] = None
        BY <1>2, <2>2 DEF Relink
      <4>2. Names(m, F[q], "student", a)
        BY <1>1, <2>2, <3>2
      <4> QED
        BY <3>2, <4>1, <4>2 DEF StudentsNamed
    <3> QED
      BY <1>m, <3>1, <3>2
  <2> QED
    BY <2>1, <2>2 DEF StudentsNamed
<1> QED
  BY <1>3, <1>4, <1>5

LEMMA StructureStep ==
  ASSUME NEW n \in Nat, NEW F, \A p \in 1..n : F[p] \in Lines, NEW l, l = F[n + 1],
         l \in Lines, l.file = "structure", NEW d, NEW m, NEW t,
         RowsLand(m, F, n), RowsAskedFor(d, m, F, n),
         t.grades = m.grades \cup {GradeOf[l.section]},
         t.subjects = m.subjects \cup {l.subject}, t.sections = m.sections \cup {l.section},
         SameLogins(m, t)
  PROVE  RowsLand(t, F, n + 1) /\ RowsAskedFor(d, t, F, n + 1)
<1>n. \A q \in 1..n : q \in 1..(n + 1)
  OBVIOUS
<1>m. n + 1 \in 1..(n + 1) /\ \A q \in 1..(n + 1) : q = n + 1 \/ q \in 1..n
  OBVIOUS
<1>f. "structure" # "users"
  OBVIOUS
<1>1. t.role = m.role /\ t.teachers = m.teachers
  BY DEF SameLogins
<1>2. RowsLand(t, F, n + 1)
  <2>1. ASSUME NEW p \in 1..(n + 1), F[p].file = "structure"
        PROVE  /\ GradeOf[F[p].section] \in t.grades /\ F[p].subject \in t.subjects
               /\ F[p].section \in t.sections
    <3>1. CASE p = n + 1
      BY <3>1
    <3>2. CASE p \in 1..n
      BY <2>1, <3>2 DEF RowsLand
    <3> QED
      BY <1>m, <3>1, <3>2
  <2>2. ASSUME NEW p \in 1..(n + 1), F[p].file = "users"
        PROVE  /\ t.role[F[p].user] # None
               /\ F[p].role = "teacher" /\ t.role[F[p].user] = "teacher" =>
                    F[p].user \in t.teachers
    <3>1. p \in 1..n
      BY <1>m, <1>f, <2>2
    <3> QED
      BY <1>1, <2>2, <3>1 DEF RowsLand
  <2> QED
    BY <2>1, <2>2 DEF RowsLand
<1>3. RowsAskedFor(d, t, F, n + 1)
  <2>1. ASSUME NEW h \in t.grades, h \notin d.grades
        PROVE  \E p \in 1..(n + 1) : F[p].file = "structure" /\ GradeOf[F[p].section] = h
    BY <1>n, <1>m, <2>1 DEF RowsAskedFor
  <2>2. ASSUME NEW j \in t.subjects, j \notin d.subjects
        PROVE  \E p \in 1..(n + 1) : F[p].file = "structure" /\ F[p].subject = j
    BY <1>n, <1>m, <2>2 DEF RowsAskedFor
  <2>3. ASSUME NEW c \in t.sections, c \notin d.sections
        PROVE  \E p \in 1..(n + 1) : F[p].file = "structure" /\ F[p].section = c
    BY <1>n, <1>m, <2>3 DEF RowsAskedFor
  <2>4. ASSUME NEW u \in t.teachers, u \notin d.teachers
        PROVE  \E p \in 1..(n + 1) :
                 /\ F[p].file = "users" /\ F[p].role = "teacher" /\ F[p].user = u
                 /\ t.role[u] = "teacher"
    <3>1. PICK p \in 1..n : /\ F[p].file = "users" /\ F[p].role = "teacher" /\ F[p].user = u
                            /\ m.role[u] = "teacher"
      BY <1>1, <2>4 DEF RowsAskedFor
    <3> QED
      BY <1>1, <1>n, <3>1
  <2>5. ASSUME NEW u \in Users, t.role[u] # d.role[u]
        PROVE  d.role[u] = None /\ \E p \in 1..(n + 1) : F[p].file = "users" /\ F[p].user = u
    BY <1>1, <1>n, <2>5 DEF RowsAskedFor
  <2> QED
    BY <2>1, <2>2, <2>3, <2>4, <2>5 DEF RowsAskedFor
<1> QED
  BY <1>2, <1>3

LEMMA UserStep ==
  ASSUME NEW n \in Nat, NEW F, \A p \in 1..n : F[p] \in Lines, NEW l, l = F[n + 1],
         l \in Lines, l.file = "users", NEW d, NEW m, NEW t,
         RowsLand(m, F, n), RowsAskedFor(d, m, F, n), UserEffect(d, m, t, l)
  PROVE  RowsLand(t, F, n + 1) /\ RowsAskedFor(d, t, F, n + 1) /\ RolesStand(m, t)
<1>n. \A q \in 1..n : q \in 1..(n + 1)
  OBVIOUS
<1>m. n + 1 \in 1..(n + 1) /\ \A q \in 1..(n + 1) : q = n + 1 \/ q \in 1..n
  OBVIOUS
<1>u. l.user \in Users /\ \A p \in 1..n : F[p].file = "users" => F[p].user \in Users
  BY DEF Lines
<1>1. /\ t.grades = m.grades /\ t.subjects = m.subjects /\ t.sections = m.sections
      /\ t.role[l.user] # None
      /\ \A v \in Users : t.role[v] = IF v = l.user /\ m.role[v] = None THEN l.role ELSE m.role[v]
      /\ t.teachers = IF l.role = "teacher" /\ t.role[l.user] = "teacher"
                      THEN m.teachers \cup {l.user} ELSE m.teachers
  BY DEF UserEffect, SameRows, GivesRole
<1>2. RolesStand(m, t)
  BY <1>1 DEF RolesStand
<1>f. "structure" # "users"
  OBVIOUS
<1>3. RowsLand(t, F, n + 1)
  <2>1. ASSUME NEW p \in 1..(n + 1), F[p].file = "structure"
        PROVE  /\ GradeOf[F[p].section] \in t.grades /\ F[p].subject \in t.subjects
               /\ F[p].section \in t.sections
    <3>1. p \in 1..n
      BY <1>m, <1>f, <2>1
    <3> QED
      BY <1>1, <2>1, <3>1 DEF RowsLand
  <2>2. ASSUME NEW p \in 1..(n + 1), F[p].file = "users"
        PROVE  /\ t.role[F[p].user] # None
               /\ F[p].role = "teacher" /\ t.role[F[p].user] = "teacher" =>
                    F[p].user \in t.teachers
    <3>1. CASE p = n + 1
      BY <1>1, <3>1
    <3>2. CASE p \in 1..n
      <4>1. m.role[F[p].user] # None /\ t.role[F[p].user] = m.role[F[p].user]
        BY <1>u, <1>2, <2>2, <3>2 DEF RowsLand, RolesStand
      <4>2. m.teachers \subseteq t.teachers
        BY <1>1
      <4> QED
        BY <2>2, <3>2, <4>1, <4>2 DEF RowsLand
    <3> QED
      BY <1>m, <3>1, <3>2
  <2> QED
    BY <2>1, <2>2 DEF RowsLand
<1>4. RowsAskedFor(d, t, F, n + 1)
  <2>1. ASSUME NEW h \in t.grades, h \notin d.grades
        PROVE  \E p \in 1..(n + 1) : F[p].file = "structure" /\ GradeOf[F[p].section] = h
    BY <1>1, <1>n, <2>1 DEF RowsAskedFor
  <2>2. ASSUME NEW j \in t.subjects, j \notin d.subjects
        PROVE  \E p \in 1..(n + 1) : F[p].file = "structure" /\ F[p].subject = j
    BY <1>1, <1>n, <2>2 DEF RowsAskedFor
  <2>3. ASSUME NEW c \in t.sections, c \notin d.sections
        PROVE  \E p \in 1..(n + 1) : F[p].file = "structure" /\ F[p].section = c
    BY <1>1, <1>n, <2>3 DEF RowsAskedFor
  <2>4. ASSUME NEW u \in t.teachers, u \notin d.teachers
        PROVE  \E p \in 1..(n + 1) :
                 /\ F[p].file = "users" /\ F[p].role = "teacher" /\ F[p].user = u
                 /\ t.role[u] = "teacher"
    <3>1. CASE u \in m.teachers
      <4>1. PICK p \in 1..n : /\ F[p].file = "users" /\ F[p].role = "teacher" /\ F[p].user = u
                              /\ m.role[u] = "teacher"
        BY <2>4, <3>1 DEF RowsAskedFor
      <4>2. t.role[u] = "teacher"
        BY <1>u, <1>2, <4>1, LinesAssumption DEF RolesStand, Roles
      <4> QED
        BY <1>n, <4>1, <4>2
    <3>2. CASE u \notin m.teachers
      BY <1>1, <1>m, <3>2
    <3> QED
      BY <3>1, <3>2
  <2>5. ASSUME NEW u \in Users, t.role[u] # d.role[u]
        PROVE  d.role[u] = None /\ \E p \in 1..(n + 1) : F[p].file = "users" /\ F[p].user = u
    <3>1. CASE t.role[u] = m.role[u]
      BY <1>n, <2>5, <3>1 DEF RowsAskedFor
    <3>2. CASE t.role[u] # m.role[u]
      <4>1. u = l.user /\ m.role[u] = None
        BY <1>1, <3>2
      <4>2. d.role[u] = None
        BY <4>1 DEF RowsAskedFor
      <4> QED
        BY <1>m, <4>1, <4>2
    <3> QED
      BY <3>1, <3>2
  <2> QED
    BY <2>1, <2>2, <2>3, <2>4, <2>5 DEF RowsAskedFor
<1> QED
  BY <1>2, <1>3, <1>4

(* Nothing but a remark is new.                                            *)
SameButRemarks(m, t) == SameRows(m, t) /\ SameLogins(m, t) /\ SameLinks(m, t)

LEMMA RemarkRowsStep ==
  ASSUME NEW n \in Nat, NEW F, F[n + 1].file = "remarks", NEW d, NEW m, NEW t,
         RowsLand(m, F, n), RowsAskedFor(d, m, F, n), SameButRemarks(m, t)
  PROVE  RowsLand(t, F, n + 1) /\ RowsAskedFor(d, t, F, n + 1)
<1>n. \A q \in 1..n : q \in 1..(n + 1)
  OBVIOUS
<1>m. \A q \in 1..(n + 1) : q = n + 1 \/ q \in 1..n
  OBVIOUS
<1>1. /\ t.grades = m.grades /\ t.subjects = m.subjects /\ t.sections = m.sections
      /\ t.role = m.role /\ t.teachers = m.teachers
  BY DEF SameButRemarks, SameRows, SameLogins
<1>2. "remarks" # "structure" /\ "remarks" # "users"
  OBVIOUS
<1>3. \A p \in 1..(n + 1) : F[p].file \in {"structure", "users"} => p \in 1..n
  BY <1>m, <1>2
<1>4. RowsLand(t, F, n + 1)
  BY <1>1, <1>3 DEF RowsLand
<1>5. RowsAskedFor(d, t, F, n + 1)
  <2>1. ASSUME NEW u \in t.teachers, u \notin d.teachers
        PROVE  \E p \in 1..(n + 1) :
                 /\ F[p].file = "users" /\ F[p].role = "teacher" /\ F[p].user = u
                 /\ t.role[u] = "teacher"
    <3>1. PICK p \in 1..n : /\ F[p].file = "users" /\ F[p].role = "teacher" /\ F[p].user = u
                            /\ m.role[u] = "teacher"
      BY <1>1, <2>1 DEF RowsAskedFor
    <3> QED
      BY <1>1, <1>n, <3>1
  <2>2. ASSUME NEW h \in t.grades, h \notin d.grades
        PROVE  \E p \in 1..(n + 1) : F[p].file = "structure" /\ GradeOf[F[p].section] = h
    BY <1>1, <1>n, <2>2 DEF RowsAskedFor
  <2>3. ASSUME NEW j \in t.subjects, j \notin d.subjects
        PROVE  \E p \in 1..(n + 1) : F[p].file = "structure" /\ F[p].subject = j
    BY <1>1, <1>n, <2>3 DEF RowsAskedFor
  <2>4. ASSUME NEW c \in t.sections, c \notin d.sections
        PROVE  \E p \in 1..(n + 1) : F[p].file = "structure" /\ F[p].section = c
    BY <1>1, <1>n, <2>4 DEF RowsAskedFor
  <2>5. ASSUME NEW u \in Users, t.role[u] # d.role[u]
        PROVE  d.role[u] = None /\ \E p \in 1..(n + 1) : F[p].file = "users" /\ F[p].user = u
    BY <1>1, <1>n, <2>5 DEF RowsAskedFor
  <2> QED
    BY <2>1, <2>2, <2>3, <2>4, <2>5 DEF RowsAskedFor
<1> QED
  BY <1>4, <1>5

(* As long as no remark was read.                                          *)
LEMMA NoRemarkStep ==
  ASSUME NEW n \in Nat, NEW F, \A p \in 1..n : F[p].file # "remarks",
         NEW d, d.remarks \in Seq(RemarkRow), NEW t, t.remarks = d.remarks
  PROVE  /\ Keyed(d, t) /\ RemarksAskedFor(d, t, F, n)
         /\ NotesNamed(d, t, F, n) /\ RemarksLand(d, t, F, n)
<1>1. Len(t.remarks) = Len(d.remarks) /\ Len(d.remarks) \in Nat
  BY LenProperties
<1> QED
  BY <1>1 DEF Keyed, RemarksAskedFor, NotesNamed, RemarksLand

(* What a line of remarks.csv does to the remarks.                         *)
RemarkEffect(d, m, t, l) ==
  \/ m.student[l.adm] = None /\ t.remarks = m.remarks
  \/ /\ m.student[l.adm] # None /\ \A j \in 1..Len(d.remarks) : ~FoundIn(d, l, j)
     /\ Len(t.remarks) = Len(m.remarks) + 1 /\ t.remarks[Len(m.remarks) + 1] = Row(l)
     /\ \A i \in 1..Len(m.remarks) : t.remarks[i] = m.remarks[i]
  \/ \E j \in 1..Len(d.remarks) :
       /\ FoundIn(d, l, j) /\ t.remarks = m.remarks
       /\ l.id = None \/ d.remarks[j].adm # l.adm
  \/ \E j \in 1..Len(d.remarks) :
       /\ FoundIn(d, l, j) /\ l.id # None /\ d.remarks[j].adm = l.adm
       /\ Len(t.remarks) = Len(m.remarks)
       /\ \A i \in 1..Len(m.remarks) :
            IF i = j
            THEN /\ t.remarks[i].adm = m.remarks[i].adm /\ t.remarks[i].id = m.remarks[i].id
                 /\ t.remarks[i].note = l.note
            ELSE t.remarks[i] = m.remarks[i]

SameFlags(s, t) == t.failed = s.failed /\ t.twice = s.twice

LEMMA RemarkLineRows ==
  ASSUME NEW d \in Tables, NEW s, Kept(s), s.failed = FALSE, Finding(d, s),
         Len(d.remarks) <= Len(s.mem.remarks), NEW p,
         NEW l \in Lines, l.file = "remarks", NEW i, MayFind(s, l, i),
         NEW t, t = RemarkLine(s, l, p, i)
  PROVE  /\ Finding(d, t) /\ SameFlags(s, t)
         /\ SameButRemarks(s.mem, t.mem) /\ RemarkEffect(d, s.mem, t.mem, l)
<1>1. l.adm \in Admissions /\ l.note \in Notes /\ l.id \in Opt(Ids)
  BY DEF Lines
<1>2. /\ s \in Session /\ s.mem \in Tables /\ s.seen.remarks = d.remarks
      /\ s.mem.remarks \in Seq(RemarkRow) /\ d.remarks \in Seq(RemarkRow)
      /\ \A a \in Admissions : s.seen.student[a] = None <=> s.mem.student[a] = None
  BY DEF Kept, Held, Session, Finding, Tables
<1>3. /\ Len(s.mem.remarks) \in Nat /\ Len(d.remarks) \in Nat
      /\ DOMAIN d.remarks = 1..Len(d.remarks)
      /\ DOMAIN s.mem.remarks = 1..Len(s.mem.remarks)
  BY <1>2, LenProperties
<1>4. \A j : Finds(s, l, j) <=> FoundIn(d, l, j)
  BY <1>2 DEF Finds, FoundIn
<1>5. \/ i = 0 /\ \A j \in 1..Len(d.remarks) : ~FoundIn(d, l, j)
      \/ i \in 1..Len(d.remarks) /\ FoundIn(d, l, i)
  <2>1. PICK S : S = {j \in DOMAIN s.seen.remarks : Finds(s, l, j)}
    OBVIOUS
  <2>2. IF S = {} THEN i = 0 ELSE i \in S
    BY <2>1 DEF MayFind
  <2> QED
    BY <1>2, <1>3, <1>4, <2>1, <2>2
<1>6. ASSUME NEW R, t = [s EXCEPT !.mem.remarks = R]
      PROVE  /\ Finding(d, t) /\ SameFlags(s, t)
             /\ SameButRemarks(s.mem, t.mem) /\ t.mem.remarks = R
  <2>1. /\ t.seen = s.seen /\ t.failed = s.failed /\ t.twice = s.twice
        /\ t.mem.subjects = s.mem.subjects /\ t.mem.sections = s.mem.sections
        /\ t.mem.grades = s.mem.grades
        /\ t.mem.role = s.mem.role /\ t.mem.teachers = s.mem.teachers
        /\ t.mem.student = s.mem.student /\ t.mem.taught = s.mem.taught
        /\ t.mem.remarks = R
    BY <1>2, <1>6 DEF Session, Tables
  <2>2. Finding(d, t)
    BY <2>1 DEF Finding
  <2> QED
    BY <2>1, <2>2 DEF SameFlags, SameButRemarks, SameRows, SameLogins, SameLinks
<1>7. ASSUME t.mem = s.mem, t.seen = s.seen, t.failed = s.failed, t.twice = s.twice
      PROVE  /\ Finding(d, t) /\ SameFlags(s, t)
             /\ SameButRemarks(s.mem, t.mem) /\ t.mem.remarks = s.mem.remarks
  BY <1>7 DEF Finding, SameFlags, SameButRemarks, SameRows, SameLogins, SameLinks
<1>8. ASSUME t = s \/ t = Warned(s, p)
      PROVE  /\ t.mem = s.mem /\ t.seen = s.seen /\ t.failed = s.failed /\ t.twice = s.twice
  BY <1>2, <1>8 DEF Warned, Session
<1>9. CASE s.seen.student[l.adm] = None
  <2>1. t = Warned(s, p)
    BY <1>9 DEF RemarkLine
  <2>2. s.mem.student[l.adm] = None
    BY <1>1, <1>2, <1>9
  <2> QED
    BY <1>7, <1>8, <2>1, <2>2 DEF RemarkEffect
<1>10. CASE s.seen.student[l.adm] # None /\ i = 0
  <2>1. t = [s EXCEPT !.mem.remarks = Append(s.mem.remarks, Row(l))]
    BY <1>10 DEF RemarkLine, Row
  <2>2. PICK R : R = Append(s.mem.remarks, Row(l))
    OBVIOUS
  <2>3. /\ Len(R) = Len(s.mem.remarks) + 1 /\ R[Len(s.mem.remarks) + 1] = Row(l)
        /\ \A j \in 1..Len(s.mem.remarks) : R[j] = s.mem.remarks[j]
    <3>1. Row(l) \in RemarkRow
      BY <1>1 DEF Row, RemarkRow
    <3> QED
      BY <1>2, <2>2, <3>1, AppendProperties
  <2>4. /\ Finding(d, t) /\ SameFlags(s, t)
        /\ SameButRemarks(s.mem, t.mem) /\ t.mem.remarks = R
    BY <1>6, <2>1, <2>2
  <2>5. s.mem.student[l.adm] # None
    BY <1>1, <1>2, <1>10
  <2>6. \A j \in 1..Len(d.remarks) : ~FoundIn(d, l, j)
    BY <1>3, <1>5, <1>10
  <2> QED
    BY <2>3, <2>4, <2>5, <2>6 DEF RemarkEffect
<1>11. CASE /\ s.seen.student[l.adm] # None /\ i # 0
            /\ l.id = None \/ s.seen.remarks[i].adm # l.adm
  <2>1. t = s \/ t = Warned(s, p)
    BY <1>11 DEF RemarkLine
  <2>2. i \in 1..Len(d.remarks) /\ FoundIn(d, l, i)
    BY <1>5, <1>11
  <2> QED
    BY <1>2, <1>7, <1>8, <1>11, <2>1, <2>2 DEF RemarkEffect
<1>12. CASE /\ s.seen.student[l.adm] # None /\ i # 0 /\ l.id # None
            /\ s.seen.remarks[i].adm = l.adm
  <2>1. i \in 1..Len(d.remarks) /\ FoundIn(d, l, i) /\ i \in 1..Len(s.mem.remarks)
    BY <1>3, <1>5, <1>12
  <2>2. PICK r : r = [s.mem.remarks[i] EXCEPT !.note = l.note]
    OBVIOUS
  <2>3. PICK R : R = [s.mem.remarks EXCEPT ![i] = r]
    OBVIOUS
  <2>4. s.mem.remarks[i] \in RemarkRow
    BY <1>2, <2>1, ElementOfSeq
  <2>5. r.adm = s.mem.remarks[i].adm /\ r.id = s.mem.remarks[i].id /\ r.note = l.note
        /\ r \in RemarkRow
    BY <1>1, <2>2, <2>4 DEF RemarkRow
  <2>6. t = [s EXCEPT !.mem.remarks[i].note = l.note]
    BY <1>12 DEF RemarkLine
  <2>7. t = [s EXCEPT !.mem.remarks = R]
    BY <2>2, <2>3, <2>6
  <2>8. /\ Len(R) = Len(s.mem.remarks)
        /\ \A j \in 1..Len(s.mem.remarks) : R[j] = IF j = i THEN r ELSE s.mem.remarks[j]
    BY <1>2, <1>3, <2>1, <2>3, <2>5, ExceptSeq
  <2>9. /\ Finding(d, t) /\ SameFlags(s, t)
        /\ SameButRemarks(s.mem, t.mem) /\ t.mem.remarks = R
    BY <1>6, <2>7
  <2> QED
    BY <1>2, <1>12, <2>1, <2>5, <2>8, <2>9 DEF RemarkEffect
<1> QED
  BY <1>9, <1>10, <1>11, <1>12

(* One line of remarks more.                                               *)
LEMMA LastRemarkNext ==
  ASSUME NEW n \in Nat, NEW F, NEW q \in 1..n
  PROVE  LastRemark(F, n + 1, q) <=>
           LastRemark(F, n, q) /\ ~IsRemark(F[n + 1], F[q].id, F[q].adm)
<1>1. \A r \in (q + 1)..(n + 1) : r \in (q + 1)..n \/ r = n + 1
  OBVIOUS
<1>2. n + 1 \in (q + 1)..(n + 1) /\ \A r \in (q + 1)..n : r \in (q + 1)..(n + 1)
  OBVIOUS
<1> QED
  BY <1>1, <1>2 DEF LastRemark

LEMMA RemarkKeys ==
  ASSUME NEW d, d.remarks \in Seq(RemarkRow), NEW m, m.remarks \in Seq(RemarkRow),
         NEW t, NEW l, RemarkEffect(d, m, t, l), Len(d.remarks) <= Len(m.remarks)
  PROVE  /\ \/ Len(t.remarks) = Len(m.remarks)
            \/ /\ Len(t.remarks) = Len(m.remarks) + 1 /\ m.student[l.adm] # None
               /\ t.remarks[Len(m.remarks) + 1] = Row(l)
               /\ \A j \in 1..Len(d.remarks) : ~FoundIn(d, l, j)
         /\ \A i \in 1..Len(m.remarks) : /\ t.remarks[i].adm = m.remarks[i].adm
                                         /\ t.remarks[i].id = m.remarks[i].id
         /\ \A i \in (Len(d.remarks) + 1)..Len(m.remarks) : t.remarks[i] = m.remarks[i]
<1>1. Len(d.remarks) \in Nat /\ Len(m.remarks) \in Nat
  BY LenProperties
<1>2. \A i \in (Len(d.remarks) + 1)..Len(m.remarks) :
        i \in 1..Len(m.remarks) /\ i \notin 1..Len(d.remarks)
  BY <1>1
<1>3. CASE t.remarks = m.remarks
  BY <1>3
<1>4. CASE /\ m.student[l.adm] # None /\ \A j \in 1..Len(d.remarks) : ~FoundIn(d, l, j)
           /\ Len(t.remarks) = Len(m.remarks) + 1 /\ t.remarks[Len(m.remarks) + 1] = Row(l)
           /\ \A i \in 1..Len(m.remarks) : t.remarks[i] = m.remarks[i]
  BY <1>2, <1>4
<1>5. ASSUME NEW j \in 1..Len(d.remarks), Len(t.remarks) = Len(m.remarks),
             \A i \in 1..Len(m.remarks) :
               IF i = j
               THEN /\ t.remarks[i].adm = m.remarks[i].adm /\ t.remarks[i].id = m.remarks[i].id
                    /\ t.remarks[i].note = l.note
               ELSE t.remarks[i] = m.remarks[i]
      PROVE  /\ \A i \in 1..Len(m.remarks) : /\ t.remarks[i].adm = m.remarks[i].adm
                                             /\ t.remarks[i].id = m.remarks[i].id
             /\ \A i \in (Len(d.remarks) + 1)..Len(m.remarks) : t.remarks[i] = m.remarks[i]
  BY <1>2, <1>5
<1> QED
  BY <1>3, <1>4, <1>5 DEF RemarkEffect

(* A remark that was there gets the note of the line, if it names it.      *)
LEMMA NoteSet ==
  ASSUME NEW d \in Tables, IdsUnique(d), Remarked(d), NEW m, m.remarks \in Seq(RemarkRow),
         \A a \in Admissions : d.student[a] # None => m.student[a] # None,
         Len(d.remarks) <= Len(m.remarks),
         NEW t, NEW l, RemarkEffect(d, m, t, l), NEW j \in 1..Len(d.remarks)
  PROVE  t.remarks[j].note =
           IF l.id # None /\ l.id = d.remarks[j].id /\ l.adm = d.remarks[j].adm
           THEN l.note ELSE m.remarks[j].note
<1>1. /\ d.remarks \in Seq(RemarkRow) /\ Len(d.remarks) \in Nat /\ Len(m.remarks) \in Nat
      /\ DOMAIN d.remarks = 1..Len(d.remarks)
  BY LenProperties DEF Tables
<1>2. j \in 1..Len(m.remarks)
  BY <1>1
<1>3. d.remarks[j].adm \in Admissions
  <2>1. d.remarks[j] \in RemarkRow
    BY <1>1, ElementOfSeq
  <2> QED
    BY <2>1 DEF RemarkRow
<1>4. m.student[d.remarks[j].adm] # None
  BY <1>3 DEF Remarked
<1>5. ASSUME NEW i \in 1..Len(d.remarks), d.remarks[i].id = d.remarks[j].id,
             d.remarks[j].id # None
      PROVE  i = j
  BY <1>1, <1>5 DEF IdsUnique
<1>6. CASE m.student[l.adm] = None /\ t.remarks = m.remarks
  BY <1>4, <1>6
<1>7. CASE /\ m.student[l.adm] # None /\ \A i \in 1..Len(d.remarks) : ~FoundIn(d, l, i)
           /\ \A i \in 1..Len(m.remarks) : t.remarks[i] = m.remarks[i]
  BY <1>2, <1>7 DEF FoundIn
<1>8. ASSUME NEW i \in 1..Len(d.remarks), FoundIn(d, l, i),
             l.id = None \/ d.remarks[i].adm # l.adm, t.remarks = m.remarks
      PROVE  t.remarks[j].note =
               IF l.id # None /\ l.id = d.remarks[j].id /\ l.adm = d.remarks[j].adm
               THEN l.note ELSE m.remarks[j].note
  BY <1>5, <1>8 DEF FoundIn
<1>9. ASSUME NEW i \in 1..Len(d.remarks), FoundIn(d, l, i), l.id # None,
             d.remarks[i].adm = l.adm,
             \A k \in 1..Len(m.remarks) :
               IF k = i
               THEN /\ t.remarks[k].adm = m.remarks[k].adm /\ t.remarks[k].id = m.remarks[k].id
                    /\ t.remarks[k].note = l.note
               ELSE t.remarks[k] = m.remarks[k]
      PROVE  t.remarks[j].note =
               IF l.id # None /\ l.id = d.remarks[j].id /\ l.adm = d.remarks[j].adm
               THEN l.note ELSE m.remarks[j].note
  BY <1>2, <1>5, <1>9 DEF FoundIn
<1> QED
  BY <1>6, <1>7, <1>8, <1>9 DEF RemarkEffect

LEMMA RemarkStep ==
  ASSUME NEW n \in Nat, NEW F, NEW l, l = F[n + 1], l.file = "remarks",
         NEW d \in Tables, Remarked(d), NEW m, m.remarks \in Seq(RemarkRow), NEW t,
         \A a \in Admissions : d.student[a] # None => m.student[a] # None,
         SameLinks(m, t), RemarkEffect(d, m, t, l),
         Keyed(d, m), RemarksAskedFor(d, m, F, n),
         IdsUnique(d) => NotesNamed(d, m, F, n) /\ RemarksLand(d, m, F, n)
  PROVE  /\ Keyed(d, t) /\ RemarksAskedFor(d, t, F, n + 1)
         /\ IdsUnique(d) => NotesNamed(d, t, F, n + 1) /\ RemarksLand(d, t, F, n + 1)
<1>n. \A q \in 1..n : q \in 1..(n + 1)
  OBVIOUS
<1>m. n + 1 \in 1..(n + 1) /\ \A q \in 1..(n + 1) : q = n + 1 \/ q \in 1..n
  OBVIOUS
<1>1. /\ d.remarks \in Seq(RemarkRow) /\ Len(d.remarks) \in Nat /\ Len(m.remarks) \in Nat
      /\ Len(d.remarks) <= Len(m.remarks) /\ t.student = m.student
  BY LenProperties DEF Tables, Keyed, SameLinks
<1>2. /\ \/ Len(t.remarks) = Len(m.remarks)
         \/ /\ Len(t.remarks) = Len(m.remarks) + 1 /\ m.student[l.adm] # None
            /\ t.remarks[Len(m.remarks) + 1] = Row(l)
            /\ \A j \in 1..Len(d.remarks) : ~FoundIn(d, l, j)
      /\ \A i \in 1..Len(m.remarks) : /\ t.remarks[i].adm = m.remarks[i].adm
                                      /\ t.remarks[i].id = m.remarks[i].id
      /\ \A i \in (Len(d.remarks) + 1)..Len(m.remarks) : t.remarks[i] = m.remarks[i]
  BY <1>1, RemarkKeys
<1>3. \A j \in 1..Len(d.remarks) : j \in 1..Len(m.remarks)
  BY <1>1
<1>4. Keyed(d, t)
  <2>1. Len(d.remarks) <= Len(t.remarks)
    BY <1>1, <1>2
  <2>2. ASSUME NEW j \in 1..Len(d.remarks)
        PROVE  t.remarks[j].adm = d.remarks[j].adm /\ t.remarks[j].id = d.remarks[j].id
    <3>1. t.remarks[j].adm = m.remarks[j].adm /\ t.remarks[j].id = m.remarks[j].id
      BY <1>2, <1>3
    <3> QED
      BY <3>1 DEF Keyed
  <2> QED
    BY <2>1, <2>2 DEF Keyed
<1>5. ASSUME NEW j \in (Len(d.remarks) + 1)..Len(t.remarks)
      PROVE  \E q \in 1..(n + 1) :
               /\ F[q].file = "remarks" /\ t.remarks[j] = Row(F[q])
               /\ t.student[F[q].adm] # None
               /\ \A i \in 1..Len(d.remarks) : ~FoundIn(d, F[q], i)
  <2>1. CASE j \in (Len(d.remarks) + 1)..Len(m.remarks)
    <3>1. t.remarks[j] = m.remarks[j]
      BY <1>2, <2>1
    <3>2. PICK q \in 1..n :
            /\ F[q].file = "remarks" /\ m.remarks[j] = Row(F[q]) /\ m.student[F[q].adm] # None
            /\ \A i \in 1..Len(d.remarks) : ~FoundIn(d, F[q], i)
      BY <2>1 DEF RemarksAskedFor
    <3> QED
      BY <1>1, <1>n, <3>1, <3>2
  <2>2. CASE j \notin (Len(d.remarks) + 1)..Len(m.remarks)
    <3>1. j = Len(m.remarks) + 1 /\ Len(t.remarks) = Len(m.remarks) + 1
      BY <1>1, <1>2, <2>2
    <3>2. Len(t.remarks) # Len(m.remarks)
      BY <1>1, <3>1
    <3> QED
      BY <1>1, <1>2, <1>m, <3>1, <3>2
  <2> QED
    BY <2>1, <2>2
<1>6. RemarksAskedFor(d, t, F, n + 1)
  BY <1>5 DEF RemarksAskedFor
<1>7. ASSUME IdsUnique(d)
      PROVE  NotesNamed(d, t, F, n + 1) /\ RemarksLand(d, t, F, n + 1)
  <2>1. NotesNamed(d, m, F, n) /\ RemarksLand(d, m, F, n)
    BY <1>7
  <2>2. \A j \in 1..Len(d.remarks) :
          t.remarks[j].note =
            IF l.id # None /\ l.id = d.remarks[j].id /\ l.adm = d.remarks[j].adm
            THEN l.note ELSE m.remarks[j].note
    BY <1>1, <1>7, NoteSet
  <2>3. LastRemark(F, n + 1, n + 1)
    <3>1. (n + 1 + 1)..(n + 1) = {}
      OBVIOUS
    <3> QED
      BY <3>1 DEF LastRemark
  <2>4. \A q \in 1..n : LastRemark(F, n + 1, q) <=>
          LastRemark(F, n, q) /\ ~(l.id = F[q].id /\ l.adm = F[q].adm)
    BY LastRemarkNext DEF IsRemark
  <2>5. ASSUME NEW j \in 1..Len(d.remarks)
        PROVE  \/ t.remarks[j].note = d.remarks[j].note
               \/ \E q \in 1..(n + 1) :
                    /\ LastRemark(F, n + 1, q) /\ F[q].id # None /\ F[q].id = d.remarks[j].id
                    /\ F[q].adm = d.remarks[j].adm /\ t.remarks[j].note = F[q].note
    <3>1. CASE l.id # None /\ l.id = d.remarks[j].id /\ l.adm = d.remarks[j].adm
      BY <1>m, <2>2, <2>3, <3>1
    <3>2. CASE ~(l.id # None /\ l.id = d.remarks[j].id /\ l.adm = d.remarks[j].adm)
      <4>1. t.remarks[j].note = m.remarks[j].note
        BY <2>2, <3>2
      <4>2. CASE m.remarks[j].note = d.remarks[j].note
        BY <4>1, <4>2
      <4>3. ASSUME NEW q \in 1..n,
                   LastRemark(F, n, q) /\ F[q].id # None /\ F[q].id = d.remarks[j].id,
                   F[q].adm = d.remarks[j].adm /\ m.remarks[j].note = F[q].note
            PROVE  \E r \in 1..(n + 1) :
                     /\ LastRemark(F, n + 1, r) /\ F[r].id # None /\ F[r].id = d.remarks[j].id
                     /\ F[r].adm = d.remarks[j].adm /\ t.remarks[j].note = F[r].note
        <5>1. LastRemark(F, n + 1, q)
          BY <2>4, <3>2, <4>3
        <5> QED
          BY <1>n, <4>1, <4>3, <5>1
      <4> QED
        BY <2>1, <4>2, <4>3 DEF NotesNamed
    <3> QED
      BY <3>1, <3>2
  <2>6. ASSUME NEW q \in 1..(n + 1), F[q].file = "remarks", t.student[F[q].adm] # None
        PROVE  \/ \E j \in (Len(d.remarks) + 1)..Len(t.remarks) : t.remarks[j] = Row(F[q])
               \/ \E j \in 1..Len(d.remarks) :
                    /\ FoundIn(d, F[q], j)
                    /\ F[q].id # None /\ d.remarks[j].adm = F[q].adm
                         /\ LastRemark(F, n + 1, q) => t.remarks[j].note = F[q].note
    <3>1. CASE q = n + 1
      <4>1. m.student[l.adm] # None
        BY <1>1, <2>6, <3>1
      <4>2. CASE \A j \in 1..Len(d.remarks) : ~FoundIn(d, l, j)
        <5>1. /\ Len(t.remarks) = Len(m.remarks) + 1
              /\ t.remarks[Len(m.remarks) + 1] = Row(l)
          BY <4>1, <4>2 DEF RemarkEffect
        <5>2. Len(m.remarks) + 1 \in (Len(d.remarks) + 1)..Len(t.remarks)
          BY <1>1, <5>1
        <5> QED
          BY <3>1, <5>1, <5>2
      <4>3. ASSUME NEW j \in 1..Len(d.remarks), FoundIn(d, l, j)
            PROVE  l.id # None /\ d.remarks[j].adm = l.adm => t.remarks[j].note = l.note
        BY <2>2, <4>3 DEF FoundIn
      <4> QED
        BY <3>1, <4>2, <4>3
    <3>2. CASE q \in 1..n
      <4>1. CASE \E j \in (Len(d.remarks) + 1)..Len(m.remarks) : m.remarks[j] = Row(F[q])
        <5>1. PICK j \in (Len(d.remarks) + 1)..Len(m.remarks) : m.remarks[j] = Row(F[q])
          BY <4>1
        <5>2. j \in (Len(d.remarks) + 1)..Len(t.remarks) /\ t.remarks[j] = m.remarks[j]
          BY <1>1, <1>2
        <5> QED
          BY <5>1, <5>2
      <4>2. ASSUME NEW j \in 1..Len(d.remarks), FoundIn(d, F[q], j),
                   F[q].id # None /\ d.remarks[j].adm = F[q].adm /\ LastRemark(F, n, q) =>
                     m.remarks[j].note = F[q].note,
                   F[q].id # None, d.remarks[j].adm = F[q].adm, LastRemark(F, n + 1, q)
            PROVE  t.remarks[j].note = F[q].note
        BY <2>2, <2>4, <3>2, <4>2 DEF FoundIn
      <4>3. m.student[F[q].adm] # None
        BY <1>1, <2>6
      <4>4. \/ \E j \in (Len(d.remarks) + 1)..Len(m.remarks) : m.remarks[j] = Row(F[q])
            \/ \E j \in 1..Len(d.remarks) :
                 /\ FoundIn(d, F[q], j)
                 /\ F[q].id # None /\ d.remarks[j].adm = F[q].adm /\ LastRemark(F, n, q) =>
                      m.remarks[j].note = F[q].note
        BY <2>1, <2>6, <3>2, <4>3 DEF RemarksLand
      <4> QED
        BY <4>1, <4>2, <4>4
    <3> QED
      BY <1>m, <3>1, <3>2
  <2> QED
    BY <2>5, <2>6 DEF NotesNamed, RemarksLand
<1> QED
  BY <1>4, <1>6, <1>7

-----------------------------------------------------------------------------
(* What the file's first n lines did, whatever follows them.               *)
LEMMA SumsPrefix ==
  ASSUME NEW n \in Nat, NEW F, NEW G, \A p \in 1..n : G[p] = F[p], NEW d, NEW t,
         Sums(d, t, F, n)
  PROVE  Sums(d, t, G, n)
<1>1. ASSUME NEW role, NEW key
      PROVE  \A q \in 1..n : Last(t, G, n, q, role, key) <=> Last(t, F, n, q, role, key)
  <2> SUFFICES ASSUME NEW q \in 1..n
               PROVE  Last(t, G, n, q, role, key) <=> Last(t, F, n, q, role, key)
    OBVIOUS
  <2>1. \A r \in (q + 1)..n : r \in 1..n
    OBVIOUS
  <2> QED
    BY <2>1 DEF Last
<1>2. \A q \in 1..n : LastRemark(G, n, q) <=> LastRemark(F, n, q)
  <2> SUFFICES ASSUME NEW q \in 1..n
               PROVE  LastRemark(G, n, q) <=> LastRemark(F, n, q)
    OBVIOUS
  <2>1. \A r \in (q + 1)..n : r \in 1..n
    OBVIOUS
  <2> QED
    BY <2>1 DEF LastRemark
<1>3. RowsLand(t, G, n)
  BY DEF Sums, RowsLand
<1>4. RowsAskedFor(d, t, G, n)
  <2>1. RowsAskedFor(d, t, F, n)
    BY DEF Sums
  <2> QED
    BY <2>1 DEF RowsAskedFor
<1>5. LinksLast(d, t, G, n)
  <2>1. LinksLast(d, t, F, n)
    BY DEF Sums
  <2> QED
    BY <1>1, <2>1 DEF LinksLast
<1>6. LinksNamed(d, t, G, n)
  <2>1. LinksNamed(d, t, F, n)
    BY DEF Sums
  <2> QED
    BY <1>1, <2>1 DEF LinksNamed
<1>7. StudentsNamed(d, t, G, n)
  <2>1. StudentsNamed(d, t, F, n)
    BY DEF Sums
  <2> QED
    BY <2>1 DEF StudentsNamed
<1>8. RemarksAskedFor(d, t, G, n)
  <2>1. RemarksAskedFor(d, t, F, n)
    BY DEF Sums
  <2> QED
    BY <2>1 DEF RemarksAskedFor
<1>9. ASSUME IdsUnique(d) PROVE NotesNamed(d, t, G, n) /\ RemarksLand(d, t, G, n)
  <2>1. NotesNamed(d, t, F, n) /\ RemarksLand(d, t, F, n)
    BY <1>9 DEF Sums
  <2>2. NotesNamed(d, t, G, n)
    BY <1>2, <2>1 DEF NotesNamed
  <2>3. RemarksLand(d, t, G, n)
    BY <1>2, <2>1 DEF RemarksLand
  <2> QED
    BY <2>2, <2>3
<1> QED
  BY <1>3, <1>4, <1>5, <1>6, <1>7, <1>8, <1>9 DEF Sums

(* One line more, whichever file it is of.                                 *)
Reader(s, l, p, t) ==
  \/ l.file = "structure" /\ t = StructureLine(s, l)
  \/ l.file = "users" /\ t = UserLine(s, l, p)
  \/ l.file = "remarks" /\ \E i : MayFind(s, l, i) /\ t = RemarkLine(s, l, p, i)

LEMMA RemarksLast ==
  ASSUME NEW n \in Nat, NEW F, \A p \in 1..(n + 1) : F[p] \in Lines, Sorted(F, n + 1),
         F[n + 1].file # "remarks"
  PROVE  \A p \in 1..n : F[p].file # "remarks"
<1> SUFFICES ASSUME NEW p \in 1..n, F[p].file = "remarks"
             PROVE  FALSE
  OBVIOUS
<1>1. p \in 1..(n + 1) /\ n + 1 \in 1..(n + 1) /\ p <= n + 1
  OBVIOUS
<1>2. F[n + 1] \in Lines
  BY <1>1
<1>3. F[n + 1].file \in {"structure", "users"}
  BY <1>2 DEF Lines
<1>4. Rank(F[n + 1]) \in {1, 2} /\ Rank(F[p]) = 3
  BY <1>3 DEF Rank
<1>5. Rank(F[p]) <= Rank(F[n + 1])
  BY <1>1 DEF Sorted
<1> QED
  BY <1>4, <1>5

LEMMA UnnamedStep ==
  ASSUME NEW n \in Nat, NEW F, \A p \in 1..(n + 1) : F[p] \in Lines, NEW d \in Tables,
         NEW m, NEW t, F[n + 1].file # "users", SameLinks(m, t), t.role = m.role,
         m.sections \subseteq t.sections, m.subjects \subseteq t.subjects,
         Sums(d, m, F, n)
  PROVE  /\ LinksLast(d, t, F, n + 1) /\ LinksNamed(d, t, F, n + 1)
         /\ StudentsNamed(d, t, F, n + 1)
<1>1. \A p \in 1..n : F[p] \in Lines
  OBVIOUS
<1>2. \A role, key : ~Names(t, F[n + 1], role, key)
  BY DEF Names
<1>3. Relink(d, m, t, F[n + 1])
  BY <1>2, NothingNamed
<1>4. RolesStand(m, t)
  BY DEF RolesStand
<1>5. /\ RowsLand(m, F, n) /\ LinksLast(d, m, F, n) /\ LinksNamed(d, m, F, n)
      /\ StudentsNamed(d, m, F, n)
  BY DEF Sums
<1> QED
  BY <1>1, <1>3, <1>4, <1>5, LinksStep

LEMMA NoneRead ==
  ASSUME NEW n \in Nat, NEW F, \A p \in 1..(n + 1) : F[p] \in Lines, Sorted(F, n + 1),
         F[n + 1].file # "remarks", NEW d \in Tables, NEW s, Finding(d, s),
         NoRemarkYet(d, s.mem, F, n)
  PROVE  /\ \A p \in 1..(n + 1) : F[p].file # "remarks"
         /\ Unremarked(d, s)
<1>1. \A p \in 1..n : F[p].file # "remarks"
  BY RemarksLast
<1>2. \A p \in 1..(n + 1) : p = n + 1 \/ p \in 1..n
  OBVIOUS
<1> QED
  BY <1>1, <1>2 DEF NoRemarkYet, Unremarked

LEMMA LineSums ==
  ASSUME NEW n \in Nat, NEW F, \A p \in 1..(n + 1) : F[p] \in Lines, Sorted(F, n + 1),
         NEW l, l = F[n + 1], NEW d \in Tables, Remarked(d), NEW s, Kept(s),
         s.failed = FALSE, Finding(d, s), Sums(d, s.mem, F, n), NoRemarkYet(d, s.mem, F, n),
         NEW p, NEW t, Reader(s, l, p, t), ~t.failed
  PROVE  Finding(d, t) /\ Sums(d, t.mem, F, n + 1) /\ NoRemarkYet(d, t.mem, F, n + 1)
<1>1. /\ \A q \in 1..n : F[q] \in Lines
      /\ l \in Lines /\ d.remarks \in Seq(RemarkRow) /\ s.mem.remarks \in Seq(RemarkRow)
      /\ n + 1 \in 1..(n + 1)
  BY DEF Tables, Kept, Held, Session
<1>2. /\ RowsLand(s.mem, F, n) /\ RowsAskedFor(d, s.mem, F, n)
      /\ LinksLast(d, s.mem, F, n) /\ LinksNamed(d, s.mem, F, n)
      /\ StudentsNamed(d, s.mem, F, n)
      /\ Keyed(d, s.mem) /\ RemarksAskedFor(d, s.mem, F, n)
      /\ IdsUnique(d) => NotesNamed(d, s.mem, F, n) /\ RemarksLand(d, s.mem, F, n)
  BY DEF Sums
<1>3. ASSUME l.file # "remarks", Unremarked(d, t),
             RowsLand(t.mem, F, n + 1) /\ RowsAskedFor(d, t.mem, F, n + 1),
             LinksLast(d, t.mem, F, n + 1) /\ LinksNamed(d, t.mem, F, n + 1),
             StudentsNamed(d, t.mem, F, n + 1)
      PROVE  Finding(d, t) /\ Sums(d, t.mem, F, n + 1) /\ NoRemarkYet(d, t.mem, F, n + 1)
  <2>1. \A q \in 1..(n + 1) : F[q].file # "remarks"
    BY <1>3, NoneRead
  <2>2. t.mem.remarks = d.remarks /\ n + 1 \in Nat
    BY <1>3 DEF Unremarked
  <2>3. /\ Keyed(d, t.mem) /\ RemarksAskedFor(d, t.mem, F, n + 1)
        /\ NotesNamed(d, t.mem, F, n + 1) /\ RemarksLand(d, t.mem, F, n + 1)
    BY <1>1, <2>1, <2>2, NoRemarkStep
  <2> QED
    BY <1>3, <2>2, <2>3 DEF Sums, NoRemarkYet, Unremarked
<1>4. CASE l.file = "structure" /\ t = StructureLine(s, l)
  <2>1. l.file # "remarks" /\ l.file # "users"
    BY <1>4
  <2>2. Unremarked(d, s)
    BY <2>1, NoneRead
  <2>3. /\ Unremarked(d, t)
        /\ t.mem.grades = s.mem.grades \cup {GradeOf[l.section]}
        /\ t.mem.subjects = s.mem.subjects \cup {l.subject}
        /\ t.mem.sections = s.mem.sections \cup {l.section}
        /\ SameLogins(s.mem, t.mem) /\ SameLinks(s.mem, t.mem)
    BY <1>1, <1>4, <2>2, StructureRows
  <2>4. RowsLand(t.mem, F, n + 1) /\ RowsAskedFor(d, t.mem, F, n + 1)
    BY <1>1, <1>2, <1>4, <2>3, StructureStep
  <2>5. /\ t.mem.role = s.mem.role
        /\ s.mem.sections \subseteq t.mem.sections /\ s.mem.subjects \subseteq t.mem.subjects
    BY <2>3 DEF SameLogins
  <2>6. /\ LinksLast(d, t.mem, F, n + 1) /\ LinksNamed(d, t.mem, F, n + 1)
        /\ StudentsNamed(d, t.mem, F, n + 1)
    BY <2>1, <2>3, <2>5, UnnamedStep
  <2> QED
    BY <1>3, <2>1, <2>3, <2>4, <2>6
<1>5. CASE l.file = "users" /\ t = UserLine(s, l, p)
  <2>1. l.file # "remarks"
    BY <1>5
  <2>2. Unremarked(d, s)
    BY <2>1, NoneRead
  <2>3. Unremarked(d, t) /\ UserEffect(d, s.mem, t.mem, l)
    BY <1>1, <1>5, <2>2, UserLineRows
  <2>4. /\ RowsLand(t.mem, F, n + 1) /\ RowsAskedFor(d, t.mem, F, n + 1)
        /\ RolesStand(s.mem, t.mem)
    BY <1>1, <1>2, <1>5, <2>3, UserStep
  <2>5. /\ Relink(d, s.mem, t.mem, F[n + 1])
        /\ s.mem.sections \subseteq t.mem.sections /\ s.mem.subjects \subseteq t.mem.subjects
    BY <2>3 DEF UserEffect, SameRows
  <2>6. /\ LinksLast(d, t.mem, F, n + 1) /\ LinksNamed(d, t.mem, F, n + 1)
        /\ StudentsNamed(d, t.mem, F, n + 1)
    BY <1>1, <1>2, <2>4, <2>5, LinksStep
  <2> QED
    BY <1>3, <2>1, <2>3, <2>4, <2>6
<1>6. ASSUME NEW i, l.file = "remarks", MayFind(s, l, i), t = RemarkLine(s, l, p, i)
      PROVE  Finding(d, t) /\ Sums(d, t.mem, F, n + 1) /\ NoRemarkYet(d, t.mem, F, n + 1)
  <2>1. /\ Finding(d, t) /\ SameButRemarks(s.mem, t.mem)
        /\ RemarkEffect(d, s.mem, t.mem, l)
    <3>1. Len(d.remarks) <= Len(s.mem.remarks)
      BY <1>2 DEF Keyed
    <3> QED
      BY <1>1, <1>6, <3>1, RemarkLineRows
  <2>2. RowsLand(t.mem, F, n + 1) /\ RowsAskedFor(d, t.mem, F, n + 1)
    BY <1>2, <1>6, <2>1, RemarkRowsStep
  <2>3. /\ SameLinks(s.mem, t.mem) /\ t.mem.role = s.mem.role
        /\ s.mem.sections \subseteq t.mem.sections /\ s.mem.subjects \subseteq t.mem.subjects
    BY <2>1 DEF SameButRemarks, SameLogins, SameRows
  <2>4. F[n + 1].file # "users"
    BY <1>6
  <2>5. /\ LinksLast(d, t.mem, F, n + 1) /\ LinksNamed(d, t.mem, F, n + 1)
        /\ StudentsNamed(d, t.mem, F, n + 1)
    BY <2>3, <2>4, UnnamedStep
  <2>6. \A a \in Admissions : d.student[a] # None => s.mem.student[a] # None
    BY <1>2 DEF LinksNamed
  <2>7. /\ Keyed(d, t.mem) /\ RemarksAskedFor(d, t.mem, F, n + 1)
        /\ IdsUnique(d) => NotesNamed(d, t.mem, F, n + 1) /\ RemarksLand(d, t.mem, F, n + 1)
    BY <1>1, <1>2, <1>6, <2>1, <2>3, <2>6, RemarkStep
  <2>8. NoRemarkYet(d, t.mem, F, n + 1)
    BY <1>1, <1>6 DEF NoRemarkYet
  <2> QED
    BY <2>1, <2>2, <2>5, <2>7, <2>8 DEF Sums
<1> QED
  BY <1>4, <1>5, <1>6 DEF Reader

(* Before the first line.                                                  *)
LEMMA SumsOpened ==
  ASSUME NEW d \in Tables, NEW F
  PROVE  /\ Finding(d, Opened(d)) /\ Sums(d, Opened(d).mem, F, 0)
         /\ NoRemarkYet(d, Opened(d).mem, F, 0)
<1>1. PICK s : s = Opened(d)
  OBVIOUS
<1>2. s.seen = d /\ s.mem = d /\ s.failed = FALSE
  BY <1>1 DEF Opened
<1>3. Finding(d, s)
  BY <1>2 DEF Finding
<1>4. 1..0 = {} /\ d.remarks \in Seq(RemarkRow)
  BY DEF Tables
<1>5. /\ Keyed(d, d) /\ RemarksAskedFor(d, d, F, 0)
      /\ NotesNamed(d, d, F, 0) /\ RemarksLand(d, d, F, 0)
  BY <1>4, NoRemarkStep
<1>6. RowsLand(d, F, 0) /\ RowsAskedFor(d, d, F, 0)
  BY <1>4 DEF RowsLand, RowsAskedFor
<1>7. LinksLast(d, d, F, 0) /\ LinksNamed(d, d, F, 0) /\ StudentsNamed(d, d, F, 0)
  BY <1>4 DEF LinksLast, LinksNamed, StudentsNamed
<1> QED
  BY <1>1, <1>2, <1>3, <1>5, <1>6, <1>7 DEF Sums, NoRemarkYet

-----------------------------------------------------------------------------
(* What whole applications of the file leave.                              *)
LEMMA IdsStayUnique ==
  ASSUME NEW d \in Tables, NEW t \in Tables, Keyed(d, t), IdsUnique(t)
  PROVE  IdsUnique(d)
<1>1. /\ DOMAIN d.remarks = 1..Len(d.remarks) /\ DOMAIN t.remarks = 1..Len(t.remarks)
      /\ Len(d.remarks) \in Nat /\ Len(t.remarks) \in Nat
  BY LenProperties DEF Tables
<1>2. Len(d.remarks) <= Len(t.remarks)
  BY DEF Keyed
<1>3. \A j \in 1..Len(d.remarks) : j \in 1..Len(t.remarks) /\ t.remarks[j].id = d.remarks[j].id
  BY <1>1, <1>2 DEF Keyed
<1> QED
  BY <1>1, <1>3 DEF IdsUnique

LEMMA RemarksHaveStudents ==
  ASSUME NEW d \in Tables, Remarked(d), NEW t \in Tables, NEW F, NEW n,
         Sums(d, t, F, n)
  PROVE  Remarked(t)
<1>1. d.remarks \in Seq(RemarkRow) /\ Len(d.remarks) \in Nat /\ Len(t.remarks) \in Nat
  BY LenProperties DEF Tables
<1> SUFFICES ASSUME NEW j \in 1..Len(t.remarks)
             PROVE  t.student[t.remarks[j].adm] # None
  BY DEF Remarked
<1>2. CASE j \in 1..Len(d.remarks)
  <2>1. d.remarks[j] \in RemarkRow
    BY <1>1, <1>2, ElementOfSeq
  <2>2. d.remarks[j].adm \in Admissions
    BY <2>1 DEF RemarkRow
  <2>3. d.student[d.remarks[j].adm] # None
    BY <1>2 DEF Remarked
  <2>4. t.student[d.remarks[j].adm] # None
    BY <2>2, <2>3 DEF Sums, LinksNamed
  <2>5. t.remarks[j].adm = d.remarks[j].adm
    BY <1>2 DEF Sums, Keyed
  <2> QED
    BY <2>4, <2>5
<1>3. CASE j \notin 1..Len(d.remarks)
  <2>1. j \in (Len(d.remarks) + 1)..Len(t.remarks)
    BY <1>1, <1>3
  <2>2. RemarksAskedFor(d, t, F, n)
    BY DEF Sums
  <2>3. PICK q \in 1..n : t.remarks[j] = Row(F[q]) /\ t.student[F[q].adm] # None
    BY <2>1, <2>2 DEF RemarksAskedFor
  <2>4. t.remarks[j].adm = F[q].adm
    BY <2>3 DEF Row
  <2> QED
    BY <2>3, <2>4
<1> QED
  BY <1>2, <1>3

(* The section lines of the file have nothing to add.                      *)
LEMMA SectionsStand ==
  ASSUME NEW d, NEW s, Finding(d, s), NEW F, NEW n, RowsAskedFor(d, s.mem, F, n),
         \A p \in 1..n : F[p].file = "structure" =>
           /\ GradeOf[F[p].section] \in d.grades /\ F[p].subject \in d.subjects
           /\ F[p].section \in d.sections
  PROVE  SameRows(d, s.mem)
<1>1. /\ d.grades \subseteq s.mem.grades /\ d.subjects \subseteq s.mem.subjects
      /\ d.sections \subseteq s.mem.sections
  BY DEF Finding
<1>2. s.mem.grades \subseteq d.grades
  BY DEF RowsAskedFor
<1>3. s.mem.subjects \subseteq d.subjects
  BY DEF RowsAskedFor
<1>4. s.mem.sections \subseteq d.sections
  BY DEF RowsAskedFor
<1> QED
  BY <1>1, <1>2, <1>3, <1>4 DEF SameRows

(* Nor its lines of users, if all of them have their user.                 *)
LEMMA NamesBefore ==
  ASSUME NEW d, NEW t, NEW F, NEW n, \A p \in 1..n : F[p] \in Lines,
         RowsLand(d, F, n), RowsAskedFor(d, t, F, n)
  PROVE  \A p \in 1..n : \A role, key : Names(t, F[p], role, key) <=> Names(d, F[p], role, key)
<1> SUFFICES ASSUME NEW p \in 1..n, F[p].file = "users"
             PROVE  t.role[F[p].user] = d.role[F[p].user]
  BY DEF Names
<1>1. F[p].user \in Users
  BY DEF Lines
<1>2. d.role[F[p].user] # None
  BY DEF RowsLand
<1> QED
  BY <1>1, <1>2 DEF RowsAskedFor

LEMMA LastBefore ==
  ASSUME NEW d, NEW t, NEW F, NEW n \in Nat, \A p \in 1..n : F[p] \in Lines,
         RowsLand(d, F, n), RowsAskedFor(d, t, F, n), NEW q \in 1..n, NEW role, NEW key
  PROVE  Last(t, F, n, q, role, key) <=> Last(d, F, n, q, role, key)
<1>1. \A p \in 1..n : Names(t, F[p], role, key) <=> Names(d, F[p], role, key)
  BY NamesBefore
<1>2. \A r \in (q + 1)..n : r \in 1..n
  OBVIOUS
<1> QED
  BY <1>1, <1>2 DEF Last

(* A settled file adds no remark and changes no note.                      *)
LEMMA SettledRemarks ==
  ASSUME NEW d \in Tables, NEW t \in Tables, NEW F \in Seq(Lines), Remarked(d), IdsUnique(d),
         Settled(d, F), Sums(d, t, F, Len(F)), t.student = d.student
  PROVE  t.remarks = d.remarks
<1>1. /\ d.remarks \in Seq(RemarkRow) /\ t.remarks \in Seq(RemarkRow)
      /\ Len(d.remarks) \in Nat /\ Len(t.remarks) \in Nat /\ Len(F) \in Nat
      /\ DOMAIN d.remarks = 1..Len(d.remarks) /\ DOMAIN t.remarks = 1..Len(t.remarks)
  BY LenProperties DEF Tables
<1>2. /\ Keyed(d, t) /\ RemarksAskedFor(d, t, F, Len(F)) /\ NotesNamed(d, t, F, Len(F))
      /\ NotesStand(d, F) /\ PlainStand(d, F)
  BY DEF Sums, Settled
<1>3. Len(t.remarks) = Len(d.remarks)
  <2> SUFFICES ASSUME Len(t.remarks) # Len(d.remarks)
               PROVE  FALSE
    OBVIOUS
  <2>1. Len(t.remarks) \in (Len(d.remarks) + 1)..Len(t.remarks)
    BY <1>1, <1>2 DEF Keyed
  <2>2. PICK q \in 1..Len(F) :
          /\ F[q].file = "remarks" /\ t.student[F[q].adm] # None
          /\ \A i \in 1..Len(d.remarks) : ~FoundIn(d, F[q], i)
    BY <1>2, <2>1 DEF RemarksAskedFor
  <2>3. CASE F[q].id # None
    <3>1. PICK j \in 1..Len(d.remarks) : d.remarks[j].id = F[q].id
      BY <1>2, <2>2, <2>3 DEF NotesStand
    <3> QED
      BY <2>2, <2>3, <3>1 DEF FoundIn
  <2>4. CASE F[q].id = None
    <3>1. PICK j \in 1..Len(d.remarks) :
            d.remarks[j].adm = F[q].adm /\ d.remarks[j].note = F[q].note
      BY <1>2, <2>2, <2>4 DEF PlainStand
    <3> QED
      BY <2>2, <2>4, <3>1 DEF FoundIn
  <2> QED
    BY <2>3, <2>4
<1>4. ASSUME NEW j \in 1..Len(d.remarks)
      PROVE  t.remarks[j] = d.remarks[j]
  <2>1. t.remarks[j].adm = d.remarks[j].adm /\ t.remarks[j].id = d.remarks[j].id
    BY <1>2 DEF Keyed
  <2>2. t.remarks[j] \in RemarkRow /\ d.remarks[j] \in RemarkRow
    BY <1>1, <1>3, ElementOfSeq
  <2>3. t.remarks[j].note = d.remarks[j].note
    <3>1. ASSUME NEW q \in 1..Len(F), LastRemark(F, Len(F), q), F[q].id # None,
                 F[q].id = d.remarks[j].id, F[q].adm = d.remarks[j].adm,
                 t.remarks[j].note = F[q].note
          PROVE  t.remarks[j].note = d.remarks[j].note
      <4>1. F[q].file = "remarks" /\ d.student[F[q].adm] # None
        BY <3>1 DEF LastRemark, Remarked
      <4>2. PICK i \in 1..Len(d.remarks) :
              /\ d.remarks[i].id = F[q].id
              /\ d.remarks[i].adm = F[q].adm /\ LastRemark(F, Len(F), q) =>
                   d.remarks[i].note = F[q].note
        BY <1>2, <3>1, <4>1 DEF NotesStand
      <4>3. i = j
        BY <1>1, <3>1, <4>2 DEF IdsUnique
      <4> QED
        BY <3>1, <4>2, <4>3
    <3> QED
      BY <1>2, <3>1 DEF NotesNamed
  <2> QED
    BY <2>1, <2>2, <2>3 DEF RemarkRow
<1> QED
  BY <1>1, <1>3, <1>4, SeqEqual

(* A settled file changes nothing.                                         *)
LEMMA SettledStays ==
  ASSUME NEW d \in Tables, NEW s, Finding(d, s), NEW t \in Tables, t = s.mem,
         NEW F \in Seq(Lines), Remarked(d), IdsUnique(d),
         Settled(d, F), Sums(d, t, F, Len(F))
  PROVE  t = d
<1>1. Len(F) \in Nat /\ \A p \in 1..Len(F) : F[p] \in Lines
  BY LenProperties, ElementOfSeq
<1>2. /\ RowsLand(d, F, Len(F)) /\ RowsAskedFor(d, t, F, Len(F))
      /\ LinksLast(d, t, F, Len(F)) /\ LinksNamed(d, t, F, Len(F))
      /\ StudentsNamed(d, t, F, Len(F))
  BY DEF Settled, Sums
<1>3. SameRows(d, t)
  BY <1>2, SectionsStand DEF RowsLand
<1>4. t.grades = d.grades /\ t.subjects = d.subjects /\ t.sections = d.sections
  BY <1>3 DEF SameRows
<1>5. t.role = d.role
  <2>1. \A u \in Users : t.role[u] = d.role[u]
    BY <1>2 DEF RowsLand, RowsAskedFor
  <2>2. t.role \in [Users -> Opt(Roles)] /\ d.role \in [Users -> Opt(Roles)]
    BY DEF Tables
  <2> QED
    BY <2>1, <2>2
<1>6. t.teachers = d.teachers
  <2>1. d.teachers \subseteq t.teachers
    BY DEF Finding
  <2>2. t.teachers \subseteq d.teachers
    <3> SUFFICES ASSUME NEW u \in t.teachers, u \notin d.teachers
                 PROVE  FALSE
      OBVIOUS
    <3>1. PICK p \in 1..Len(F) : /\ F[p].file = "users" /\ F[p].role = "teacher"
                                 /\ F[p].user = u /\ t.role[u] = "teacher"
      BY <1>2 DEF RowsAskedFor
    <3> QED
      BY <1>2, <1>5, <3>1 DEF RowsLand
  <2> QED
    BY <2>1, <2>2
<1>7. ASSUME NEW q \in 1..Len(F), NEW role, NEW key, Last(t, F, Len(F), q, role, key)
      PROVE  Last(d, F, Len(F), q, role, key)
  BY <1>1, <1>2, <1>7, LastBefore
<1>8. /\ LoginsStand(d, F) /\ GuardiansStand(d, F) /\ ClassesStand(d, F) /\ Created(d, F)
  BY DEF Settled
<1>9. t.student = d.student
  <2>1. /\ t.student \in [Admissions -> StudentRow \cup {None}]
        /\ d.student \in [Admissions -> StudentRow \cup {None}]
    BY DEF Tables
  <2>2. ASSUME NEW a \in Admissions, d.student[a] # None
        PROVE  t.student[a] = d.student[a]
    <3>1. t.student[a] # None /\ t.student[a].section = d.student[a].section
      BY <1>2, <2>2 DEF LinksNamed
    <3>2. t.student[a].user = d.student[a].user
      <4>1. ASSUME NEW q \in 1..Len(F), Last(t, F, Len(F), q, "student", a)
            PROVE  t.student[a].user = d.student[a].user
        <5>1. t.student[a].user = F[q].user
          BY <1>2, <3>1, <4>1 DEF LinksLast
        <5>2. d.student[a].user = F[q].user
          BY <1>7, <1>8, <2>2, <4>1 DEF LoginsStand
        <5> QED
          BY <5>1, <5>2
      <4> QED
        BY <1>2, <2>2, <4>1 DEF LinksNamed
    <3>3. t.student[a].guardian = d.student[a].guardian
      <4>1. ASSUME NEW q \in 1..Len(F), Last(t, F, Len(F), q, "parent", a)
            PROVE  t.student[a].guardian = d.student[a].guardian
        <5>1. t.student[a].guardian = F[q].user
          BY <1>2, <2>2, <4>1 DEF LinksLast
        <5>2. d.student[a].guardian = F[q].user
          BY <1>7, <1>8, <2>2, <4>1 DEF GuardiansStand
        <5> QED
          BY <5>1, <5>2
      <4> QED
        BY <1>2, <2>2, <4>1 DEF LinksNamed
    <3>4. t.student[a] \in StudentRow /\ d.student[a] \in StudentRow
      BY <2>1, <2>2, <3>1
    <3> QED
      BY <3>1, <3>2, <3>3, <3>4 DEF StudentRow
  <2>3. ASSUME NEW a \in Admissions, d.student[a] = None, t.student[a] # None
        PROVE  FALSE
    <3>1. PICK q \in 1..Len(F) : Names(t, F[q], "student", a) /\ F[q].section \in t.sections
      BY <1>2, <2>3 DEF StudentsNamed
    <3>2. Names(d, F[q], "student", a)
      BY <1>1, <1>2, <3>1, NamesBefore
    <3> QED
      BY <1>4, <1>8, <2>3, <3>1, <3>2 DEF Created
  <2>4. \A a \in Admissions : t.student[a] = d.student[a]
    BY <2>2, <2>3
  <2> QED
    BY <2>1, <2>4
<1>10. t.taught = d.taught
  <2>1. /\ t.taught \in [Sections \X Subjects -> Opt(Users)]
        /\ d.taught \in [Sections \X Subjects -> Opt(Users)]
    BY DEF Tables
  <2>2. ASSUME NEW k \in Sections \X Subjects
        PROVE  t.taught[k] = d.taught[k]
    <3>1. ASSUME NEW q \in 1..Len(F), Last(t, F, Len(F), q, "teacher", k),
                 k \in d.sections \X d.subjects
          PROVE  t.taught[k] = d.taught[k]
      <4>1. t.taught[k] = F[q].user
        BY <1>2, <3>1 DEF LinksLast
      <4>2. d.taught[k] = F[q].user
        BY <1>7, <1>8, <3>1 DEF ClassesStand
      <4> QED
        BY <4>1, <4>2
    <3> QED
      BY <1>2, <1>4, <3>1 DEF LinksNamed
  <2> QED
    BY <2>1, <2>2
<1>11. t.remarks = d.remarks
  BY <1>9, SettledRemarks
<1> QED
  BY <1>4, <1>5, <1>6, <1>9, <1>10, <1>11 DEF Tables

(* One application more: what it leaves stands before the next one.  Where *)
(* the rows were there already, the links land; else lines wait for lines. *)
LEMMA LevelClasses ==
  ASSUME NEW d \in Tables, NEW s, Finding(d, s), NEW t \in Tables, t = s.mem,
         NEW F \in Seq(Lines), Sums(d, t, F, Len(F)),
         RowsLand(d, F, Len(F)) \/ \A p \in 1..Len(F) : F[p].file # "structure"
  PROVE  SameRows(d, t) /\ Created(t, F) /\ ClassesStand(t, F)
<1>1. /\ RowsAskedFor(d, t, F, Len(F)) /\ LinksLast(d, t, F, Len(F))
      /\ StudentsNamed(d, t, F, Len(F))
  BY DEF Sums
<1>2. SameRows(d, t)
  BY <1>1, SectionsStand DEF RowsLand
<1>3. t.sections = d.sections /\ t.subjects = d.subjects
  BY <1>2 DEF SameRows
<1>4. Created(t, F)
  BY <1>1, <1>3 DEF Created, StudentsNamed
<1>5. ClassesStand(t, F)
  BY <1>1, <1>3 DEF ClassesStand, LinksLast
<1> QED
  BY <1>2, <1>4, <1>5

LEMMA LevelLogins ==
  ASSUME NEW d, NEW t, NEW F, Sums(d, t, F, Len(F))
  PROVE  LoginsStand(t, F)
<1>1. LinksLast(d, t, F, Len(F))
  BY DEF Sums
<1> QED
  BY <1>1 DEF LinksLast, LoginsStand

LEMMA LevelNotes ==
  ASSUME NEW d \in Tables, NEW t \in Tables, NEW F, Sums(d, t, F, Len(F)), IdsUnique(d)
  PROVE  NotesStand(t, F)
<1>1. /\ Len(d.remarks) \in Nat /\ Len(t.remarks) \in Nat /\ Keyed(d, t)
      /\ Len(d.remarks) <= Len(t.remarks) /\ RemarksLand(d, t, F, Len(F))
  BY LenProperties DEF Tables, Sums, Keyed
<1> SUFFICES ASSUME NEW p \in 1..Len(F), F[p].file = "remarks", F[p].id # None,
                    t.student[F[p].adm] # None
             PROVE  \E j \in 1..Len(t.remarks) :
                      /\ t.remarks[j].id = F[p].id
                      /\ t.remarks[j].adm = F[p].adm /\ LastRemark(F, Len(F), p) =>
                           t.remarks[j].note = F[p].note
  BY DEF NotesStand
<1>2. CASE \E j \in (Len(d.remarks) + 1)..Len(t.remarks) : t.remarks[j] = Row(F[p])
  <2>1. PICK j \in (Len(d.remarks) + 1)..Len(t.remarks) : t.remarks[j] = Row(F[p])
    BY <1>2
  <2>2. j \in 1..Len(t.remarks)
    BY <1>1
  <2>3. t.remarks[j].id = F[p].id /\ t.remarks[j].note = F[p].note
    BY <2>1 DEF Row
  <2> QED
    BY <2>2, <2>3
<1>3. ASSUME NEW j \in 1..Len(d.remarks), FoundIn(d, F[p], j),
             F[p].id # None /\ d.remarks[j].adm = F[p].adm /\ LastRemark(F, Len(F), p) =>
               t.remarks[j].note = F[p].note
      PROVE  /\ j \in 1..Len(t.remarks) /\ t.remarks[j].id = F[p].id
             /\ t.remarks[j].adm = F[p].adm /\ LastRemark(F, Len(F), p) =>
                  t.remarks[j].note = F[p].note
  BY <1>1, <1>3 DEF FoundIn, Keyed
<1> QED
  BY <1>1, <1>2, <1>3 DEF RemarksLand

LEMMA LevelGuardians ==
  ASSUME NEW d \in Tables, NEW s, Finding(d, s), NEW t \in Tables, t = s.mem,
         NEW F \in Seq(Lines), NEW r \in Nat,
         r # 0 => Levels(d, F, r), Sums(d, t, F, Len(F))
  PROVE  \/ r = 0 /\ (\E p \in 1..Len(F) : F[p].file = "users" /\ F[p].role = "student")
                  /\ (\E p \in 1..Len(F) : F[p].file = "users" /\ F[p].role = "parent")
         \/ r = 1 /\ (\E p \in 1..Len(F) : F[p].file = "structure")
                  /\ (\E p \in 1..Len(F) : F[p].file = "users" /\ F[p].role = "student")
                  /\ (\E p \in 1..Len(F) : F[p].file = "users" /\ F[p].role = "parent")
         \/ GuardiansStand(t, F)
<1>1. /\ RowsAskedFor(d, t, F, Len(F)) /\ LinksLast(d, t, F, Len(F))
      /\ StudentsNamed(d, t, F, Len(F))
      /\ \A p \in 1..Len(F) : F[p] \in Lines
  BY ElementOfSeq DEF Sums
<1> SUFFICES ASSUME NEW p \in 1..Len(F), NEW a \in Admissions,
                    Last(t, F, Len(F), p, "parent", a), t.student[a] # None,
                    t.student[a].guardian # F[p].user
             PROVE  /\ \E q \in 1..Len(F) : F[q].file = "users" /\ F[q].role = "student"
                    /\ \E q \in 1..Len(F) : F[q].file = "users" /\ F[q].role = "parent"
                    /\ r = 0 \/ (r = 1 /\ \E q \in 1..Len(F) : F[q].file = "structure")
  BY DEF GuardiansStand
<1>2. F[p].file = "users" /\ F[p].role = "parent"
  BY DEF Last, Names
<1>3. d.student[a] = None
  BY <1>1 DEF LinksLast
<1>4. PICK q \in 1..Len(F) : Names(t, F[q], "student", a) /\ F[q].section \in t.sections
  BY <1>1, <1>3 DEF StudentsNamed
<1>5. F[q].file = "users" /\ F[q].role = "student"
  BY <1>4 DEF Names
<1>6. ASSUME r # 0, r # 1 \/ \A h \in 1..Len(F) : F[h].file # "structure"
      PROVE  FALSE
  <2>1. RowsLand(d, F, Len(F)) /\ Created(d, F)
    BY <1>6 DEF Levels
  <2>2. Names(d, F[q], "student", a)
    BY <1>1, <1>4, <2>1, NamesBefore
  <2>3. t.sections = d.sections
    BY <2>1, LevelClasses DEF SameRows
  <2> QED
    BY <1>3, <1>4, <2>1, <2>2, <2>3 DEF Created
<1> QED
  BY <1>2, <1>5, <1>6

LEMMA LevelPlain ==
  ASSUME NEW d \in Tables, Remarked(d), IdsUnique(d), NEW t \in Tables,
         NEW F \in Seq(Lines), NEW r \in Nat,
         r # 0 => Levels(d, F, r), Sums(d, t, F, Len(F))
  PROVE  \/ r = 0 /\ (\E p \in 1..Len(F) : F[p].file = "remarks" /\ F[p].id # None)
                  /\ (\E p \in 1..Len(F) : F[p].file = "remarks" /\ F[p].id = None)
         \/ PlainStand(t, F)
<1>1. /\ Len(d.remarks) \in Nat /\ Len(t.remarks) \in Nat /\ Keyed(d, t)
      /\ DOMAIN d.remarks = 1..Len(d.remarks)
      /\ Len(d.remarks) <= Len(t.remarks)
      /\ RemarksLand(d, t, F, Len(F)) /\ NotesNamed(d, t, F, Len(F))
  BY LenProperties DEF Tables, Sums, Keyed
<1> SUFFICES ASSUME NEW p \in 1..Len(F), F[p].file = "remarks", F[p].id = None,
                    t.student[F[p].adm] # None,
                    ~ \E j \in 1..Len(t.remarks) :
                        t.remarks[j].adm = F[p].adm /\ t.remarks[j].note = F[p].note
             PROVE  r = 0 /\ \E q \in 1..Len(F) : F[q].file = "remarks" /\ F[q].id # None
  BY DEF PlainStand
<1>2. \A j \in (Len(d.remarks) + 1)..Len(t.remarks) : t.remarks[j] # Row(F[p])
  <2> SUFFICES ASSUME NEW j \in (Len(d.remarks) + 1)..Len(t.remarks), t.remarks[j] = Row(F[p])
               PROVE  FALSE
    OBVIOUS
  <2>1. j \in 1..Len(t.remarks)
    BY <1>1
  <2>2. t.remarks[j].adm = F[p].adm /\ t.remarks[j].note = F[p].note
    BY DEF Row
  <2> QED
    BY <2>1, <2>2
<1>3. PICK j \in 1..Len(d.remarks) : FoundIn(d, F[p], j)
  BY <1>1, <1>2 DEF RemarksLand
<1>4. d.remarks[j].adm = F[p].adm /\ d.remarks[j].note = F[p].note
  BY <1>3 DEF FoundIn
<1>5. j \in 1..Len(t.remarks) /\ t.remarks[j].adm = d.remarks[j].adm
  BY <1>1 DEF Keyed
<1>6. PICK q \in 1..Len(F) :
        /\ LastRemark(F, Len(F), q) /\ F[q].id # None /\ F[q].id = d.remarks[j].id
        /\ F[q].adm = d.remarks[j].adm /\ t.remarks[j].note = F[q].note
  BY <1>1, <1>4, <1>5 DEF NotesNamed
<1>7. F[q].file = "remarks"
  BY <1>6 DEF LastRemark
<1>8. ASSUME r # 0 PROVE FALSE
  <2>1. NotesStand(d, F)
    BY <1>8 DEF Levels
  <2>2. d.student[F[q].adm] # None
    BY <1>6 DEF Remarked
  <2>3. PICK i \in 1..Len(d.remarks) :
          /\ d.remarks[i].id = F[q].id
          /\ d.remarks[i].adm = F[q].adm /\ LastRemark(F, Len(F), q) =>
               d.remarks[i].note = F[q].note
    BY <1>6, <1>7, <2>1, <2>2 DEF NotesStand
  <2>4. i = j
    BY <1>1, <1>6, <2>3 DEF IdsUnique
  <2> QED
    BY <1>4, <1>5, <1>6, <2>3, <2>4
<1> QED
  BY <1>6, <1>7, <1>8

LEMMA LevelsNext ==
  ASSUME NEW d \in Tables, NEW s, Finding(d, s), NEW t \in Tables, t = s.mem,
         NEW F \in Seq(Lines), Remarked(d), IdsUnique(d), NEW r \in Nat,
         r # 0 => Levels(d, F, r), Sums(d, t, F, Len(F))
  PROVE  Levels(t, F, r + 1)
<1>1. RowsLand(t, F, Len(F)) /\ LoginsStand(t, F) /\ NotesStand(t, F)
  BY LevelLogins, LevelNotes DEF Sums
<1>2. \/ r + 1 = 1 /\ (\E p \in 1..Len(F) : F[p].file = "structure")
                   /\ (\E p \in 1..Len(F) : F[p].file = "users")
      \/ Created(t, F) /\ ClassesStand(t, F)
  <2>1. CASE r # 0 \/ \A p \in 1..Len(F) : F[p].file # "structure"
    <3>1. RowsLand(d, F, Len(F)) \/ \A p \in 1..Len(F) : F[p].file # "structure"
      BY <2>1 DEF Levels
    <3> QED
      BY <3>1, LevelClasses
  <2>2. CASE \A p \in 1..Len(F) : F[p].file # "users"
    BY <2>2 DEF Created, ClassesStand, Last, Names
  <2>3. CASE /\ r = 0 /\ \E p \in 1..Len(F) : F[p].file = "structure"
             /\ \E p \in 1..Len(F) : F[p].file = "users"
    BY <2>3
  <2> QED
    BY <2>1, <2>2, <2>3
<1>3. r + 1 = 1 <=> r = 0
  OBVIOUS
<1>4. r + 1 = 2 <=> r = 1
  OBVIOUS
<1>5. \/ r + 1 = 1 /\ (\E p \in 1..Len(F) : F[p].file = "users" /\ F[p].role = "student")
                   /\ (\E p \in 1..Len(F) : F[p].file = "users" /\ F[p].role = "parent")
      \/ r + 1 = 2 /\ (\E p \in 1..Len(F) : F[p].file = "structure")
                   /\ (\E p \in 1..Len(F) : F[p].file = "users" /\ F[p].role = "student")
                   /\ (\E p \in 1..Len(F) : F[p].file = "users" /\ F[p].role = "parent")
      \/ GuardiansStand(t, F)
  BY <1>3, <1>4, LevelGuardians
<1>6. \/ r + 1 = 1 /\ (\E p \in 1..Len(F) : F[p].file = "remarks" /\ F[p].id # None)
                   /\ (\E p \in 1..Len(F) : F[p].file = "remarks" /\ F[p].id = None)
      \/ PlainStand(t, F)
  BY <1>3, LevelPlain
<1> QED
  BY <1>1, <1>2, <1>5, <1>6 DEF Levels

(* A file of n lines has no more than n lines of different kinds, and three*)
(* kinds are the most that wait for each other.                            *)
LEMMA SettledSoon ==
  ASSUME NEW d, NEW F \in Seq(Lines), NEW r \in Nat, r # 0, r >= Len(F) \/ r >= 3,
         Levels(d, F, r)
  PROVE  Settled(d, F)
<1>1. Len(F) \in Nat
  BY LenProperties
<1>2. ASSUME r = 1, NEW p \in 1..Len(F), NEW q \in 1..Len(F)
      PROVE  p = q
  BY <1>1, <1>2
<1>3. ASSUME r = 2, NEW p \in 1..Len(F), NEW q \in 1..Len(F), NEW k \in 1..Len(F)
      PROVE  p = q \/ q = k \/ p = k
  BY <1>1, <1>3
<1>4. Created(d, F) /\ ClassesStand(d, F)
  <2> SUFFICES ASSUME r = 1, NEW p \in 1..Len(F), F[p].file = "structure",
                      NEW q \in 1..Len(F), F[q].file = "users"
               PROVE  FALSE
    BY DEF Levels
  <2>1. p = q
    BY <1>2
  <2> QED
    BY <2>1
<1>5. GuardiansStand(d, F)
  <2> SUFFICES ASSUME \/ r = 1
                      \/ r = 2 /\ \E p \in 1..Len(F) : F[p].file = "structure",
                      NEW q \in 1..Len(F), F[q].file = "users", F[q].role = "student",
                      NEW k \in 1..Len(F), F[k].file = "users", F[k].role = "parent"
               PROVE  FALSE
    BY DEF Levels
  <2>1. q # k
    OBVIOUS
  <2>2. r # 1
    BY <1>2, <2>1
  <2>3. PICK p \in 1..Len(F) : F[p].file = "structure"
    BY <2>2
  <2>4. p # q /\ p # k
    BY <2>3
  <2> QED
    BY <1>3, <2>1, <2>2, <2>4
<1>6. PlainStand(d, F)
  <2> SUFFICES ASSUME r = 1, NEW p \in 1..Len(F), F[p].id # None,
                      NEW q \in 1..Len(F), F[q].id = None
               PROVE  FALSE
    BY DEF Levels
  <2>1. p = q
    BY <1>2
  <2> QED
    BY <2>1
<1> QED
  BY <1>4, <1>5, <1>6 DEF Levels, Settled

-----------------------------------------------------------------------------
(* A refused application.  Up to the remarks, what a file does to given    *)
(* tables is determined: T[p] is the session after p lines.                *)
LineRead(s, l, p) == IF l.file = "structure" THEN StructureLine(s, l) ELSE UserLine(s, l, p)

Trace(T, k, d, F) ==
  /\ k \in Nat /\ T[0] = Opened(d)
  /\ \A p \in 1..k : F[p].file # "remarks" /\ T[p] = LineRead(T[p - 1], F[p], p)

RemarksOnly(F, k, n) == \A p \in (k + 1)..n : F[p].file = "remarks"

(* The commit of s, or its next flush, will be refused.                    *)
Doomed(s) == s.twice \/ SharedUser(s.mem)

(* F cannot be applied to d: a line is refused, or the commit.             *)
Stuck(d, F) ==
  \E T, k : /\ Trace(T, k, d, F) /\ k <= Len(F)
            /\ T[k].failed \/ (RemarksOnly(F, k, Len(F)) /\ Doomed(T[k]))

(* s, after n lines, is where every trace of the file leads.               *)
Follows(s, n, d, F) ==
  \A T, k : Trace(T, k, d, F) =>
    /\ k >= n => s = T[n]
    /\ k <= n => ~T[k].failed
    /\ k <= n /\ RemarksOnly(F, k, n) => s.twice = T[k].twice /\ s.mem.student = T[k].mem.student

Traced(n, d, F) == \E T, k : Trace(T, k, d, F) /\ k <= n /\ RemarksOnly(F, k, n)

(* Two traces agree, so a file that was refused once is refused again.     *)
LEMMA TraceOpened ==
  ASSUME NEW d \in Tables, NEW F
  PROVE  Follows(Opened(d), 0, d, F) /\ Traced(0, d, F)
<1>1. Opened(d).failed = FALSE
  BY DEF Opened
<1>2. Follows(Opened(d), 0, d, F)
  <2> SUFFICES ASSUME NEW T, NEW k, Trace(T, k, d, F)
               PROVE  /\ k >= 0 => Opened(d) = T[0]
                      /\ k <= 0 => ~T[k].failed
                      /\ k <= 0 /\ RemarksOnly(F, k, 0) =>
                           /\ Opened(d).twice = T[k].twice
                           /\ Opened(d).mem.student = T[k].mem.student
    BY DEF Follows
  <2>1. k \in Nat /\ T[0] = Opened(d)
    BY DEF Trace
  <2>2. k <= 0 => k = 0
    BY <2>1
  <2> QED
    BY <1>1, <2>1, <2>2
<1>3. Traced(0, d, F)
  <2>1. PICK T : T = [i \in {0} |-> Opened(d)]
    OBVIOUS
  <2>2. T[0] = Opened(d) /\ 1..0 = {} /\ (0 + 1)..0 = {}
    BY <2>1
  <2>3. Trace(T, 0, d, F) /\ RemarksOnly(F, 0, 0)
    BY <2>2 DEF Trace, RemarksOnly
  <2> QED
    BY <2>3 DEF Traced
<1> QED
  BY <1>2, <1>3

LEMMA TraceStart ==
  ASSUME NEW T, NEW k, NEW d, NEW F, NEW n \in Nat, n <= k, Trace(T, k, d, F),
         NEW G, \A p \in 1..n : G[p] = F[p]
  PROVE  Trace(T, n, d, G)
<1>1. k \in Nat
  BY DEF Trace
<1>2. \A p \in 1..n : p \in 1..k
  BY <1>1
<1> QED
  BY <1>2 DEF Trace

LEMMA TracePrefix ==
  ASSUME NEW n \in Nat, NEW F, NEW G, \A p \in 1..n : G[p] = F[p], NEW d, NEW s,
         Follows(s, n, d, F), Traced(n, d, F)
  PROVE  Follows(s, n, d, G) /\ Traced(n, d, G)
<1>1. ASSUME NEW k \in Nat
      PROVE  RemarksOnly(G, k, n) <=> RemarksOnly(F, k, n)
  <2>1. \A p \in (k + 1)..n : p \in 1..n
    OBVIOUS
  <2> QED
    BY <2>1 DEF RemarksOnly
<1>2. Follows(s, n, d, G)
  <2> SUFFICES ASSUME NEW T, NEW k, Trace(T, k, d, G)
               PROVE  /\ k >= n => s = T[n]
                      /\ k <= n => ~T[k].failed
                      /\ k <= n /\ RemarksOnly(G, k, n) =>
                           s.twice = T[k].twice /\ s.mem.student = T[k].mem.student
    BY DEF Follows
  <2>1. k \in Nat
    BY DEF Trace
  <2>2. k >= n => s = T[n]
    <3>1. ASSUME k >= n PROVE Trace(T, n, d, F)
      BY <2>1, <3>1, TraceStart
    <3> QED
      BY <3>1 DEF Follows
  <2>3. ASSUME k <= n PROVE Trace(T, k, d, F)
    <3>1. \A p \in 1..k : F[p] = G[p]
      BY <2>1, <2>3
    <3> QED
      BY <2>1, <3>1, TraceStart
  <2> QED
    BY <1>1, <2>1, <2>2, <2>3 DEF Follows
<1>3. Traced(n, d, G)
  <2>1. PICK T, k : Trace(T, k, d, F) /\ k <= n /\ RemarksOnly(F, k, n)
    BY DEF Traced
  <2>2. k \in Nat
    BY <2>1 DEF Trace
  <2>3. \A p \in 1..k : G[p] = F[p]
    BY <2>1, <2>2
  <2>4. Trace(T, k, d, G)
    BY <2>1, <2>2, <2>3, TraceStart
  <2> QED
    BY <1>1, <2>1, <2>2, <2>4 DEF Traced
<1> QED
  BY <1>2, <1>3

LEMMA FollowsStep ==
  ASSUME NEW n \in Nat, NEW F, NEW l, l = F[n + 1], NEW d, NEW s, Follows(s, n, d, F),
         NEW t, Reader(s, l, n + 1, t), ~t.failed,
         l.file = "remarks" => t.twice = s.twice /\ t.mem.student = s.mem.student
  PROVE  Follows(t, n + 1, d, F)
<1> SUFFICES ASSUME NEW T, NEW k, Trace(T, k, d, F)
             PROVE  /\ k >= n + 1 => t = T[n + 1]
                    /\ k <= n + 1 => ~T[k].failed
                    /\ k <= n + 1 /\ RemarksOnly(F, k, n + 1) =>
                         t.twice = T[k].twice /\ t.mem.student = T[k].mem.student
  BY DEF Follows
<1>1. k \in Nat
  BY DEF Trace
<1>2. ASSUME k >= n + 1 PROVE t = T[n + 1]
  <2>1. n + 1 \in 1..k /\ (n + 1) - 1 = n /\ k >= n
    BY <1>1, <1>2
  <2>2. s = T[n]
    BY <2>1 DEF Follows
  <2>3. l.file # "remarks" /\ T[n + 1] = LineRead(T[(n + 1) - 1], l, n + 1)
    BY <2>1 DEF Trace
  <2>4. T[n + 1] = LineRead(s, l, n + 1)
    BY <2>1, <2>2, <2>3
  <2> QED
    BY <2>3, <2>4 DEF Reader, LineRead
<1>3. k <= n + 1 => k <= n \/ k = n + 1
  BY <1>1
<1>4. k <= n => ~T[k].failed
  BY DEF Follows
<1>5. ASSUME k <= n, RemarksOnly(F, k, n + 1)
      PROVE  t.twice = T[k].twice /\ t.mem.student = T[k].mem.student
  <2>1. n + 1 \in (k + 1)..(n + 1) /\ \A p \in (k + 1)..n : p \in (k + 1)..(n + 1)
    BY <1>1, <1>5
  <2>2. l.file = "remarks" /\ RemarksOnly(F, k, n)
    BY <1>5, <2>1 DEF RemarksOnly
  <2>3. s.twice = T[k].twice /\ s.mem.student = T[k].mem.student
    BY <1>5, <2>2 DEF Follows
  <2> QED
    BY <2>2, <2>3
<1>6. k = n + 1 => t = T[k]
  BY <1>1, <1>2
<1> QED
  BY <1>2, <1>3, <1>4, <1>5, <1>6

(* A line of the other files makes the trace longer.                       *)
Reaches(n, d, F, t) == \E T : Trace(T, n, d, F) /\ T[n] = t

LEMMA TraceLonger ==
  ASSUME NEW n \in Nat, NEW F, \A p \in 1..(n + 1) : F[p].file # "remarks",
         NEW d, NEW s, Follows(s, n, d, F), Traced(n, d, F),
         NEW t, Reader(s, F[n + 1], n + 1, t)
  PROVE  Reaches(n + 1, d, F, t)
<1>1. PICK T, k : Trace(T, k, d, F) /\ k <= n /\ RemarksOnly(F, k, n)
  BY DEF Traced
<1>2. k \in Nat
  BY <1>1 DEF Trace
<1>3. k = n
  <2> SUFFICES ASSUME k # n PROVE FALSE
    OBVIOUS
  <2>1. n \in (k + 1)..n /\ n \in 1..(n + 1)
    BY <1>1, <1>2
  <2> QED
    BY <1>1, <2>1 DEF RemarksOnly
<1>4. s = T[n]
  BY <1>1, <1>3 DEF Follows
<1>5. PICK U : U = [i \in 0..(n + 1) |-> IF i = n + 1 THEN t ELSE T[i]]
  OBVIOUS
<1>6. U[n + 1] = t /\ \A i \in 0..n : U[i] = T[i]
  <2>1. n + 1 \in 0..(n + 1) /\ \A i \in 0..n : i \in 0..(n + 1) /\ i # n + 1
    OBVIOUS
  <2> QED
    BY <1>5, <2>1
<1>7. F[n + 1].file # "remarks"
  OBVIOUS
<1>8. t = LineRead(s, F[n + 1], n + 1)
  BY <1>7 DEF Reader, LineRead
<1>9. ASSUME NEW p \in 1..(n + 1)
      PROVE  F[p].file # "remarks" /\ U[p] = LineRead(U[p - 1], F[p], p)
  <2>1. CASE p = n + 1
    <3>1. p - 1 = n /\ n \in 0..n
      BY <2>1
    <3>2. U[p - 1] = s
      BY <1>4, <1>6, <3>1
    <3> QED
      BY <1>6, <1>8, <2>1, <3>2
  <2>2. CASE p # n + 1
    <3>1. p \in 1..n /\ p \in 0..n /\ p - 1 \in 0..n
      BY <2>2
    <3>2. U[p] = T[p] /\ U[p - 1] = T[p - 1]
      BY <1>6, <3>1
    <3> QED
      BY <1>1, <1>3, <3>1, <3>2 DEF Trace
  <2> QED
    BY <2>1, <2>2
<1>10. U[0] = Opened(d)
  <2>1. 0 \in 0..n /\ T[0] = Opened(d)
    BY <1>1 DEF Trace
  <2> QED
    BY <1>6, <2>1
<1> QED
  BY <1>6, <1>9, <1>10 DEF Trace, Reaches

LEMMA TracedStep ==
  ASSUME NEW n \in Nat, NEW F, NEW d, NEW s, Follows(s, n, d, F), Traced(n, d, F),
         NEW t, Reader(s, F[n + 1], n + 1, t),
         F[n + 1].file # "remarks" => \A p \in 1..(n + 1) : F[p].file # "remarks"
  PROVE  Traced(n + 1, d, F)
<1>1. CASE F[n + 1].file # "remarks"
  <2>1. PICK T : Trace(T, n + 1, d, F)
    <3>1. Reaches(n + 1, d, F, t)
      BY <1>1, TraceLonger
    <3> QED
      BY <3>1 DEF Reaches
  <2>2. RemarksOnly(F, n + 1, n + 1) /\ n + 1 <= n + 1
    <3>1. n + 1 <= n + 1 /\ (n + 1 + 1)..(n + 1) = {}
      OBVIOUS
    <3> QED
      BY <3>1 DEF RemarksOnly
  <2> QED
    BY <2>1, <2>2 DEF Traced
<1>2. CASE F[n + 1].file = "remarks"
  <2>1. PICK T, k : Trace(T, k, d, F) /\ k <= n /\ RemarksOnly(F, k, n)
    BY DEF Traced
  <2>2. k \in Nat
    BY <2>1 DEF Trace
  <2>3. k <= n + 1 /\ \A p \in (k + 1)..(n + 1) : p \in (k + 1)..n \/ p = n + 1
    BY <2>1, <2>2
  <2>4. RemarksOnly(F, k, n + 1)
    BY <1>2, <2>1, <2>3 DEF RemarksOnly
  <2> QED
    BY <2>1, <2>3, <2>4 DEF Traced
<1> QED
  BY <1>1, <1>2

LEMMA RefusedLine ==
  ASSUME NEW n \in Nat, NEW F, n + 1 <= Len(F),
         NEW d, NEW s, Follows(s, n, d, F), Traced(n, d, F),
         NEW t, Reader(s, F[n + 1], n + 1, t), t.failed,
         \A p \in 1..(n + 1) : F[p].file # "remarks"
  PROVE  Stuck(d, F)
<1>1. Reaches(n + 1, d, F, t)
  BY TraceLonger
<1>2. PICK T : Trace(T, n + 1, d, F) /\ T[n + 1] = t
  BY <1>1 DEF Reaches
<1> QED
  BY <1>2 DEF Stuck

LEMMA RefusedCommit ==
  ASSUME NEW F, NEW d, NEW s, Follows(s, Len(F), d, F), Traced(Len(F), d, F),
         Doomed(s)
  PROVE  Stuck(d, F)
<1>1. PICK T, k : Trace(T, k, d, F) /\ k <= Len(F) /\ RemarksOnly(F, k, Len(F))
  BY DEF Traced
<1>2. s.twice = T[k].twice /\ s.mem.student = T[k].mem.student
  BY <1>1 DEF Follows
<1>3. Doomed(T[k])
  BY <1>2 DEF Doomed, SharedUser
<1> QED
  BY <1>1, <1>3 DEF Stuck

LEMMA NotStuck ==
  ASSUME NEW F, NEW d, NEW s, Follows(s, Len(F), d, F), ~Doomed(s)
  PROVE  ~Stuck(d, F)
<1> SUFFICES ASSUME NEW T, NEW k, Trace(T, k, d, F), k <= Len(F),
                    T[k].failed \/ (RemarksOnly(F, k, Len(F)) /\ Doomed(T[k]))
             PROVE  FALSE
  BY DEF Stuck
<1>1. ~T[k].failed
  BY DEF Follows
<1>2. s.twice = T[k].twice /\ s.mem.student = T[k].mem.student
  BY <1>1 DEF Follows
<1> QED
  BY <1>1, <1>2 DEF Doomed, SharedUser

(* A line of remarks.csv is never refused.                                 *)
LEMMA RemarkReader ==
  ASSUME NEW d \in Tables, NEW s, Kept(s), s.failed = FALSE, Finding(d, s),
         NEW F, NEW n, Sums(d, s.mem, F, n), NEW l \in Lines, l.file = "remarks",
         NEW p, NEW t, Reader(s, l, p, t)
  PROVE  ~t.failed /\ t.twice = s.twice /\ t.mem.student = s.mem.student
<1>1. PICK i : MayFind(s, l, i) /\ t = RemarkLine(s, l, p, i)
  BY DEF Reader
<1>2. Len(d.remarks) <= Len(s.mem.remarks)
  BY DEF Sums, Keyed
<1>3. SameFlags(s, t) /\ SameButRemarks(s.mem, t.mem)
  BY <1>1, <1>2, RemarkLineRows
<1> QED
  BY <1>3 DEF SameFlags, SameButRemarks, SameLinks

-----------------------------------------------------------------------------
(* The steps of the specification.                                         *)
(* What the applications of the current file have brought about.           *)
Settling == round # 0 => Stuck(db, file) \/ ~IdsUnique(db) \/ Levels(db, file, round)

ConvInv ==
  /\ Standing /\ Reading /\ Settling
  /\ stage = "reading" => Follows(ses, pos, db, file) /\ Traced(pos, db, file)

LEMMA SortedAppend ==
  ASSUME NEW F \in Seq(Lines), NEW l \in Lines, Sorted(F, Len(F)),
         F # << >> => Rank(F[Len(F)]) <= Rank(l), NEW G, G = Append(F, l)
  PROVE  Sorted(G, Len(F) + 1)
<1>1. /\ Len(F) \in Nat /\ G[Len(F) + 1] = l /\ \A p \in 1..Len(F) : G[p] = F[p]
      /\ F = << >> <=> Len(F) = 0
  BY AppendProperties, LenProperties, EmptySeq
<1>2. \A k : Rank(k) \in Nat
  BY DEF Rank
<1> SUFFICES ASSUME NEW p \in 1..(Len(F) + 1), NEW q \in 1..(Len(F) + 1), p <= q
             PROVE  Rank(G[p]) <= Rank(G[q])
  BY DEF Sorted
<1>3. CASE q \in 1..Len(F)
  <2>1. p \in 1..Len(F)
    BY <1>1, <1>3
  <2> QED
    BY <1>1, <1>3, <2>1 DEF Sorted
<1>4. CASE p = Len(F) + 1 /\ q = Len(F) + 1
  BY <1>2, <1>4
<1>5. CASE p \in 1..Len(F) /\ q = Len(F) + 1
  <2>1. Len(F) \in 1..Len(F) /\ p <= Len(F)
    BY <1>1, <1>5
  <2>2. Rank(F[p]) <= Rank(F[Len(F)]) /\ Rank(F[Len(F)]) <= Rank(l)
    BY <1>1, <1>5, <2>1 DEF Sorted
  <2>3. Rank(F[p]) <= Rank(l)
    BY <1>2, <2>2
  <2> QED
    BY <1>1, <1>5, <2>3
<1> QED
  BY <1>1, <1>3, <1>4, <1>5

(* The file a line is read from: the line is its next.                     *)
LEMMA FileRead ==
  ASSUME IInv, ConvInv, NEW l \in FileLines, IsNext(l), NEW s, After(s, l)
  PROVE  /\ pos \in Nat /\ file' \in Seq(Lines) /\ pos + 1 <= Len(file') /\ file'[pos + 1] = l
         /\ \A p \in 1..pos : file'[p] = file[p]
         /\ \A p \in 1..(pos + 1) : file'[p] \in Lines
         /\ Sorted(file', Len(file')) /\ Sorted(file', pos + 1)
         /\ round # 0 => file' = file
<1>1. /\ file \in Seq(FileLines) /\ file \in Seq(Lines) /\ Len(file) \in Nat
      /\ pos \in Nat /\ l \in Lines /\ stage = "reading" /\ Sorted(file, Len(file))
  <2>1. file \in Seq(FileLines) /\ FileLines \subseteq Lines /\ pos \in Nat
    BY LinesAssumption DEF IInv, TypeOK
  <2>2. Seq(FileLines) \subseteq Seq(Lines)
    BY <2>1
  <2> QED
    BY <2>1, <2>2, LenProperties DEF IsNext, ConvInv, Standing
<1>2. /\ file' \in Seq(Lines) /\ pos + 1 <= Len(file') /\ file'[pos + 1] = l
      /\ \A p \in 1..pos : file'[p] = file[p]
      /\ Sorted(file', Len(file'))
      /\ round # 0 => file' = file
  <2>1. CASE round = 0
    <3>1. /\ file' = Append(file, l) /\ pos = Len(file)
          /\ file # << >> => Rank(file[Len(file)]) <= Rank(l)
      BY <1>1, <2>1 DEF After, IsNext, IInv, FileInv
    <3>2. /\ file' \in Seq(Lines) /\ Len(file') = Len(file) + 1 /\ file'[Len(file) + 1] = l
          /\ \A p \in 1..Len(file) : file'[p] = file[p]
      BY <1>1, <3>1, AppendProperties
    <3>3. Sorted(file', Len(file) + 1)
      BY <1>1, <3>1, SortedAppend
    <3> QED
      BY <1>1, <2>1, <3>1, <3>2, <3>3
  <2>2. CASE round # 0
    BY <1>1, <2>2 DEF After, IsNext
  <2> QED
    BY <2>1, <2>2
<1>3. Len(file') \in Nat /\ \A p \in 1..Len(file') : file'[p] \in Lines
  BY <1>2, LenProperties, ElementOfSeq
<1>4. \A p \in 1..(pos + 1) : p \in 1..Len(file')
  BY <1>1, <1>2, <1>3
<1>5. Sorted(file', pos + 1)
  BY <1>2, <1>4 DEF Sorted
<1> QED
  BY <1>1, <1>2, <1>3, <1>4, <1>5

LEMMA ReadConv ==
  ASSUME IInv, ConvInv, NEW l \in FileLines, IsNext(l), NEW s,
         Reader(ses, l, pos + 1, s), After(s, l)
  PROVE  ConvInv' /\ Converges'
<1>1. PICK F : F = file'
  OBVIOUS
<1>2. PICK n : n = pos
  OBVIOUS
<1>3. /\ n \in Nat /\ F \in Seq(Lines) /\ n + 1 <= Len(F) /\ F[n + 1] = l
      /\ \A p \in 1..n : F[p] = file[p]
      /\ \A p \in 1..(n + 1) : F[p] \in Lines
      /\ Sorted(F, Len(F)) /\ Sorted(F, n + 1)
      /\ round # 0 => F = file
  BY <1>1, <1>2, FileRead
<1>4. /\ l \in Lines /\ db \in Tables /\ Kept(ses) /\ ses.failed = FALSE
      /\ stage = "reading" /\ round \in Nat
  BY LinesAssumption DEF IInv, TypeOK, SesInv, Kept, RolesFlushed, IsNext
<1>5. /\ before = db /\ Finding(db, ses) /\ Remarked(db)
      /\ Sums(db, ses.mem, F, n) /\ NoRemarkYet(db, ses.mem, F, n)
      /\ Follows(ses, n, db, F) /\ Traced(n, db, F)
  <2>1. /\ before = db /\ Finding(db, ses) /\ Remarked(db)
        /\ Sums(db, ses.mem, file, n) /\ NoRemarkYet(db, ses.mem, file, n)
        /\ Follows(ses, n, db, file) /\ Traced(n, db, file)
    BY <1>2, <1>4 DEF ConvInv, Reading, Standing
  <2>2. Sums(db, ses.mem, F, n)
    BY <1>3, <2>1, SumsPrefix
  <2>3. NoRemarkYet(db, ses.mem, F, n)
    BY <1>3, <2>1 DEF NoRemarkYet
  <2>4. Follows(ses, n, db, F) /\ Traced(n, db, F)
    BY <1>3, <2>1, TracePrefix
  <2> QED
    BY <2>1, <2>2, <2>3, <2>4
<1>6. l.file # "remarks" => \A p \in 1..(n + 1) : F[p].file # "remarks"
  BY <1>3, <1>4, <1>5, NoneRead
<1>7. ASSUME l.file = "remarks"
      PROVE  ~s.failed /\ s.twice = ses.twice /\ s.mem.student = ses.mem.student
  BY <1>4, <1>5, <1>7, RemarkReader
<1>8. /\ db' = db /\ before' = before /\ Standing'
      /\ Reader(ses, F[n + 1], n + 1, s)
  BY <1>1, <1>2, <1>3, <1>5 DEF After, Standing
<1>9. CASE s.failed
  <2>1. stage' = "idle" /\ round' = round + 1
    BY <1>9 DEF After
  <2>2. \A p \in 1..(n + 1) : F[p].file # "remarks"
    BY <1>6, <1>7, <1>9
  <2>3. Stuck(db, F)
    BY <1>3, <1>5, <1>8, <1>9, <2>2, RefusedLine
  <2>4. Settling'
    BY <1>1, <1>8, <2>3 DEF Settling
  <2>5. Reading' /\ Converges'
    BY <1>5, <1>8, <2>1 DEF Reading, Converges
  <2> QED
    BY <1>8, <2>1, <2>4, <2>5 DEF ConvInv
<1>10. CASE ~s.failed
  <2>1. stage' = stage /\ round' = round /\ ses' = s /\ pos' = n + 1
    BY <1>2, <1>10 DEF After
  <2>2. Finding(db, s) /\ Sums(db, s.mem, F, n + 1) /\ NoRemarkYet(db, s.mem, F, n + 1)
    BY <1>3, <1>4, <1>5, <1>8, <1>10, LineSums
  <2>3. Follows(s, n + 1, db, F)
    BY <1>3, <1>5, <1>7, <1>8, <1>10, FollowsStep
  <2>4. Traced(n + 1, db, F)
    BY <1>3, <1>5, <1>6, <1>8, TracedStep
  <2>5. Reading'
    BY <1>1, <1>5, <1>8, <2>1, <2>2 DEF Reading
  <2>6. Settling'
    <3>1. Settling
      BY DEF ConvInv
    <3> QED
      BY <1>1, <1>3, <1>8, <2>1, <3>1 DEF Settling
  <2>7. Converges'
    BY <1>4, <2>1 DEF Converges
  <2> QED
    BY <1>1, <1>8, <2>1, <2>3, <2>4, <2>5, <2>6, <2>7 DEF ConvInv
<1> QED
  BY <1>9, <1>10

LEMMA CommitConv ==
  ASSUME IInv, ConvInv, Commit
  PROVE  ConvInv' /\ Converges'
<1>1. /\ db \in Tables /\ ses \in Session /\ ses.mem \in Tables /\ ses.failed = FALSE
      /\ file \in Seq(Lines) /\ Len(file) \in Nat /\ round \in Nat
      /\ stage = "reading" /\ pos = Len(file) /\ Len(file) # 0
  <2>1. file \in Seq(FileLines) /\ FileLines \subseteq Lines /\ file # << >>
    BY LinesAssumption DEF IInv, TypeOK, Commit
  <2>2. file \in Seq(Lines) /\ Len(file) \in Nat /\ Len(file) # 0
    BY <2>1, LenProperties, EmptySeq
  <2> QED
    BY <2>2 DEF IInv, TypeOK, SesInv, Held, Session, Commit
<1>2. /\ before = db /\ Finding(db, ses) /\ Standing /\ Remarked(db)
      /\ Sums(db, ses.mem, file, Len(file))
      /\ Follows(ses, Len(file), db, file) /\ Traced(Len(file), db, file)
  BY <1>1 DEF ConvInv, Reading, Standing
<1>3. PICK s : s = Flushed(ses)
  OBVIOUS
<1>4. s.mem = ses.mem /\ (s.failed <=> Doomed(ses))
  BY <1>1, <1>3, FlushedRows DEF Doomed
<1>5. /\ stage' = "idle" /\ round' = round + 1 /\ file' = file /\ before' = before
      /\ db' = IF s.failed THEN db ELSE s.mem
  BY <1>3 DEF Commit
<1>6. CASE s.failed
  <2>1. Stuck(db, file)
    BY <1>2, <1>4, <1>6, RefusedCommit
  <2>2. db' = db
    BY <1>5, <1>6
  <2>3. Settling' /\ Standing'
    BY <1>2, <1>5, <2>1, <2>2 DEF Settling, Standing
  <2>4. Reading' /\ Converges'
    BY <1>2, <1>5, <2>2 DEF Reading, Converges
  <2> QED
    BY <1>5, <2>3, <2>4 DEF ConvInv
<1>7. CASE ~s.failed
  <2>1. PICK t : t = ses.mem
    OBVIOUS
  <2>2. db' = t /\ t \in Tables
    BY <1>1, <1>4, <1>5, <1>7, <2>1
  <2>3. ~Stuck(db, file)
    BY <1>2, <1>4, <1>7, NotStuck
  <2>4. Remarked(t)
    BY <1>1, <1>2, <2>1, RemarksHaveStudents
  <2>5. ASSUME IdsUnique(t)
        PROVE  /\ IdsUnique(db) /\ (round # 0 => Levels(db, file, round))
               /\ Levels(t, file, round + 1)
    <3>1. IdsUnique(db)
      <4>1. Keyed(db, t)
        BY <1>2, <2>1 DEF Sums
      <4> QED
        BY <1>1, <2>1, <2>5, <4>1, IdsStayUnique
    <3>2. round # 0 => Levels(db, file, round)
      BY <2>3, <3>1 DEF ConvInv, Settling
    <3>3. Levels(t, file, round + 1)
      BY <1>1, <1>2, <2>1, <3>1, <3>2, LevelsNext
    <3> QED
      BY <3>1, <3>2, <3>3
  <2>6. ASSUME IdsUnique(t), round + 1 > Len(file) \/ round + 1 > 3
        PROVE  t = db
    <3>1. round # 0 /\ (round >= Len(file) \/ round >= 3)
      BY <1>1, <2>6
    <3>2. Settled(db, file)
      BY <1>1, <2>5, <2>6, <3>1, SettledSoon
    <3> QED
      BY <1>1, <1>2, <2>1, <2>5, <2>6, <3>2, SettledStays
  <2>7. Standing' /\ Settling'
    BY <1>2, <1>5, <2>2, <2>4, <2>5 DEF Standing, Settling
  <2>8. Reading' /\ Converges'
    BY <1>2, <1>5, <2>2, <2>6 DEF Reading, Converges
  <2> QED
    BY <1>5, <2>7, <2>8 DEF ConvInv
<1> QED
  BY <1>6, <1>7

LEMMA NextConv == IInv /\ ConvInv /\ Converges /\ [Next]_vars => ConvInv' /\ Converges'
<1> SUFFICES ASSUME IInv, ConvInv, Converges, [Next]_vars
             PROVE  ConvInv' /\ Converges'
  OBVIOUS
<1>1. /\ db \in Tables /\ Standing /\ Reading /\ Settling /\ round \in Nat
      /\ Sorted(file, Len(file)) /\ Remarked(db)
  BY DEF IInv, TypeOK, ConvInv, Standing
<1>2. Len(<< >>) = 0 /\ 1..0 = {}
  OBVIOUS
<1>3. Sorted(<< >>, Len(<< >>))
  BY <1>2 DEF Sorted
<1>4. ASSUME NEW l \in FileLines, ReadStructure(l)
      PROVE  ConvInv' /\ Converges'
  <2>1. IsNext(l) /\ After(StructureLine(ses, l), l)
    BY <1>4 DEF ReadStructure
  <2>2. Reader(ses, l, pos + 1, StructureLine(ses, l))
    BY <1>4 DEF ReadStructure, Reader
  <2> QED
    BY <2>1, <2>2, ReadConv
<1>5. ASSUME NEW l \in FileLines, ReadUser(l)
      PROVE  ConvInv' /\ Converges'
  <2>1. IsNext(l) /\ After(UserLine(ses, l, pos + 1), l)
    BY <1>5 DEF ReadUser
  <2>2. Reader(ses, l, pos + 1, UserLine(ses, l, pos + 1))
    BY <1>5 DEF ReadUser, Reader
  <2> QED
    BY <2>1, <2>2, ReadConv
<1>6. ASSUME NEW l \in FileLines, NEW i, ReadRemark(l, i)
      PROVE  ConvInv' /\ Converges'
  <2>1. IsNext(l) /\ After(RemarkLine(ses, l, pos + 1, i), l)
    BY <1>6 DEF ReadRemark
  <2>2. Reader(ses, l, pos + 1, RemarkLine(ses, l, pos + 1, i))
    BY <1>6 DEF ReadRemark, Reader
  <2> QED
    BY <2>1, <2>2, ReadConv
<1>7. CASE Begin
  <2>1. /\ stage' = "reading" /\ ses' = Opened(db) /\ pos' = 0 /\ before' = db
        /\ db' = db /\ file' = file /\ round' = round
    BY <1>7 DEF Begin
  <2>2. /\ Finding(db, Opened(db)) /\ Sums(db, Opened(db).mem, file, 0)
        /\ NoRemarkYet(db, Opened(db).mem, file, 0)
    BY <1>1, SumsOpened
  <2>3. Follows(Opened(db), 0, db, file) /\ Traced(0, db, file)
    BY <1>1, TraceOpened
  <2>4. Standing' /\ Settling'
    BY <1>1, <2>1 DEF Standing, Settling
  <2>5. Reading'
    BY <2>1, <2>2 DEF Reading
  <2>6. Converges'
    BY <2>1 DEF Converges
  <2> QED
    BY <2>1, <2>3, <2>4, <2>5, <2>6 DEF ConvInv
<1>8. CASE Commit
  BY <1>8, CommitConv
<1>9. CASE Lost
  <2>1. /\ stage' = "idle" /\ before' = db /\ db' = db /\ round' = round
        /\ file' = IF round = 0 THEN << >> ELSE file
    BY <1>9 DEF Lost
  <2>2. Standing' /\ Settling'
    BY <1>1, <1>3, <2>1 DEF Standing, Settling
  <2>3. Reading' /\ Converges'
    BY <2>1 DEF Reading, Converges
  <2> QED
    BY <2>1, <2>2, <2>3 DEF ConvInv
<1>10. CASE NewBundle
  <2>1. /\ stage' = "idle" /\ before' = db /\ db' = db /\ round' = 0 /\ file' = << >>
    BY <1>10 DEF NewBundle
  <2>2. Standing' /\ Settling'
    BY <1>1, <1>3, <2>1 DEF Standing, Settling
  <2>3. Reading' /\ Converges'
    BY <2>1 DEF Reading, Converges
  <2> QED
    BY <2>1, <2>2, <2>3 DEF ConvInv
<1>11. CASE UNCHANGED vars
  <2>1. /\ db' = db /\ stage' = stage /\ ses' = ses /\ file' = file /\ pos' = pos
        /\ round' = round /\ before' = before
    BY <1>11 DEF vars
  <2>2. Standing' /\ Settling' /\ Reading'
    BY <1>1, <2>1 DEF Standing, Settling, Reading
  <2>3. Converges'
    BY <2>1 DEF Converges
  <2>4. stage' = "reading" => Follows(ses', pos', db', file') /\ Traced(pos', db', file')
    BY <2>1 DEF ConvInv
  <2> QED
    BY <2>2, <2>3, <2>4 DEF ConvInv
<1> QED
  BY <1>4, <1>5, <1>6, <1>7, <1>8, <1>9, <1>10, <1>11 DEF Next

(* Whatever bundles are applied, of whatever length, whichever applications*)
(* are refused or lost: a bundle applied more often than it has lines, or  *)
(* more than three times, changes nothing, unless two remarks share an     *)
(* external id ("Idempotent CSV apply", app/import_/apply.py).             *)
THEOREM BundlesConverge == Spec => []Converges
<1>1. Init => IInv /\ ConvInv /\ Converges
  <2> SUFFICES ASSUME Init PROVE ConvInv /\ Converges
    BY InitInv
  <2>1. Len(<< >>) = 0 /\ 1..0 = {}
    OBVIOUS
  <2>2. Remarked(Empty)
    BY <2>1 DEF Remarked, Empty
  <2>3. Standing
    BY <2>1, <2>2 DEF Init, Standing, Sorted
  <2>4. Reading /\ Settling /\ Converges /\ stage # "reading"
    BY DEF Init, Reading, Settling, Converges
  <2> QED
    BY <2>3, <2>4 DEF ConvInv
<1>2. IInv /\ ConvInv /\ Converges /\ [Next]_vars => (IInv /\ ConvInv /\ Converges)'
  BY NextInv, NextConv
<1> QED
  BY <1>1, <1>2, PTL DEF Spec
=============================================================================
