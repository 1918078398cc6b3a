------------------------------ MODULE BundleApply ------------------------------
(***************************************************************************)
(* One bundle read line by line into the tenant's tables, as apply_directory*)
(* does for school_structure.csv, users.csv and remarks.csv, and the same  *)
(* bundle again (app/import_/apply.py).                                    *)
(*                                                                         *)
(* The session does not flush by itself (autoflush=False, db.py): a query  *)
(* sees what was flushed, not what the session has added or changed since. *)
(* A grade, subject, user, teacher or student is flushed as it is created, *)
(* and with it everything else that is pending; a section, an assignment,  *)
(* a remark and every change of an existing row wait for the next flush.   *)
(*                                                                         *)
(* The tenant has a school and an academic year, as provisioned; bundles   *)
(* are imported by an operator, so no line becomes a conflict (that is     *)
(* ImportConflicts).  Names, roll numbers, and the term, subject and       *)
(* teacher of a remark are left out.  A teacher's line with several subject*)
(* codes is one line for each of them.                                     *)
(***************************************************************************)
EXTENDS Naturals, Sequences

CONSTANTS
  Grades, Subjects, Users, Admissions,
  Sections,
  GradeOf,      \* the grade a section belongs to
  Notes,        \* category and body of a remark
  Ids,          \* external ids of remarks
  FileLines,    \* lines a bundle may have
  MaxLines,     \* bound: lines of a bundle
  MaxBundles,   \* bound: different bundles
  MaxApplies,   \* bound: applications of one bundle
  None

Roles == {"admin", "teacher", "parent", "student"}
Opt(S) == S \cup {None}

(* The rows of the three files; str_strip and emptiness of a cell give None.*)
Lines ==
  [file: {"structure"}, section: Sections, subject: Subjects]
  \cup [file: {"users"}, user: Users, role: Roles, adm: Opt(Admissions),
        section: Opt(Sections), subject: Opt(Subjects)]
  \cup [file: {"remarks"}, adm: Admissions, id: Opt(Ids), note: Notes]

(* The tables.  A student is keyed by admission number, an assignment by   *)
(* section and subject; remarks have no key but their position.            *)
StudentRow == [user: Opt(Users), guardian: Opt(Users), section: Sections]
RemarkRow == [adm: Admissions, id: Opt(Ids), note: Notes]

ASSUME LinesAssumption ==
  /\ FileLines \subseteq Lines /\ GradeOf \in [Sections -> Grades]
  /\ None \notin Grades \cup Subjects \cup Users \cup Admissions \cup Sections
                 \cup Ids \cup Roles \cup StudentRow
  /\ MaxLines \in Nat /\ MaxBundles \in Nat \ {0} /\ MaxApplies \in Nat

Tables ==
  [grades: SUBSET Grades, subjects: SUBSET Subjects, sections: SUBSET Sections,
   role: [Users -> Opt(Roles)], teachers: SUBSET Users,
   student: [Admissions -> StudentRow \cup {None}],
   taught: [Sections \X Subjects -> Opt(Users)],
   remarks: Seq(RemarkRow)]

Empty ==
  [grades |-> {}, subjects |-> {}, sections |-> {},
   role |-> [u \in Users |-> None], teachers |-> {},
   student |-> [a \in Admissions |-> None],
   taught |-> [p \in Sections \X Subjects |-> None], remarks |-> << >>]

VARIABLES
  db,        \* the committed tables
  stage,     \* "idle", or "reading" while a session applies the bundle
  ses,       \* that session; its end when idle
  file,      \* the lines of the current bundle
  pos,       \* lines of it that were read
  round,     \* applications of it that came to an end
  bundles,   \* bundles so far
  outcome,   \* of the last application
  before     \* history: db when the last application began

vars == <<db, stage, ses, file, pos, round, bundles, outcome, before>>

Outcomes == {"none", "applied", "refused", "lost"}

(* seen is what the session's queries find, mem adds what it will flush;   *)
(* twice: it added one unique key twice; warned are the lines it reported. *)
Session == [seen: Tables, mem: Tables, twice: BOOLEAN, failed: BOOLEAN,
            warned: SUBSET (1..MaxLines)]

Opened(t) ==
  [seen |-> t, mem |-> t, twice |-> FALSE, failed |-> FALSE, warned |-> {}]

TypeOK ==
  /\ db \in Tables /\ before \in Tables /\ ses \in Session
  /\ stage \in {"idle", "reading"} /\ outcome \in Outcomes
  /\ file \in Seq(FileLines) /\ Len(file) <= MaxLines /\ pos \in 0..MaxLines
  /\ round \in 0..MaxApplies /\ bundles \in 0..MaxBundles

Init ==
  /\ db = Empty /\ before = Empty /\ ses = Opened(Empty)
  /\ stage = "idle" /\ outcome = "none"
  /\ file = << >> /\ pos = 0 /\ round = 0 /\ bundles = 1

(***************************************************************************)
(* What a line does to the session s; p is the line's position.            *)
(***************************************************************************)
(* A user belongs to at most one student.                                  *)
SharedUser(t) ==
  \E a, b \in Admissions :
    /\ a # b /\ t.student[a] # None /\ t.student[b] # None
    /\ t.student[a].user # None /\ t.student[a].user = t.student[b].user

Flushed(s) ==
  IF s.twice \/ SharedUser(s.mem) THEN [s EXCEPT !.failed = TRUE]
  ELSE [s EXCEPT !.seen = s.mem]

Warned(s, p) == [s EXCEPT !.warned = @ \cup {p}]

(* _apply_school_structure.                                                *)
GradeFor(s, g) ==
  IF g \in s.seen.grades THEN s ELSE Flushed([s EXCEPT !.mem.grades = @ \cup {g}])

SubjectFor(s, j) ==
  IF j \in s.seen.subjects THEN s ELSE Flushed([s EXCEPT !.mem.subjects = @ \cup {j}])

(* The new section is not flushed: the next line for it will not find it.  *)
SectionFor(s, c) ==
  IF c \in s.seen.sections THEN s
  ELSE [s EXCEPT !.mem.sections = @ \cup {c},
                 !.twice = s.twice \/ c \in s.mem.sections]

StructureLine(s, l) ==
  SectionFor(SubjectFor(GradeFor(s, GradeOf[l.section]), l.subject), l.section)

(* _apply_users: a student line links an existing student or creates one   *)
(* in a section the session finds.                                         *)
LinkStudent(s, l, p) ==
  IF l.adm = None THEN s
  ELSE IF s.seen.student[l.adm] # None
  THEN [s EXCEPT !.mem.student[l.adm].user = l.user]
  ELSE IF l.section \notin s.seen.sections THEN Warned(s, p)
  ELSE Flushed([s EXCEPT !.mem.student[l.adm] =
                  [user |-> l.user, guardian |-> None, section |-> l.section]])

LinkParent(s, l, p) ==
  IF l.adm = None THEN s
  ELSE IF s.seen.student[l.adm] = None THEN Warned(s, p)
  ELSE [s EXCEPT !.mem.student[l.adm].guardian = l.user]

(* _ensure_teacher.                                                        *)
TeacherFor(s, u) ==
  IF u \in s.seen.teachers THEN s ELSE Flushed([s EXCEPT !.mem.teachers = @ \cup {u}])

(* Fault: an assignment that exists keeps its teacher (LinksLandOrWarn).   *)
Assign_keeps(s, l) ==
  LET key == <<l.section, l.subject>>
  IN IF s.seen.taught[key] # None THEN s
     ELSE [s EXCEPT !.mem.taught[key] = l.user,
                    !.twice = s.twice \/ s.mem.taught[key] # None]

(* Fault: the assignment stores the subject in place of the teacher (TypeOK).*)
Assign_subject(s, l) ==
  LET key == <<l.section, l.subject>>
  IN IF s.seen.taught[key] # None THEN [s EXCEPT !.mem.taught[key] = l.subject]
     ELSE [s EXCEPT !.mem.taught[key] = l.subject,
                    !.twice = s.twice \/ s.mem.taught[key] # None]

(* An assignment the session added and did not flush is added again.       *)
Assign(s, l) ==
  LET key == <<l.section, l.subject>>
  IN [s EXCEPT !.mem.taught[key] = l.user,
               !.twice = s.twice \/ (s.seen.taught[key] = None
                                     /\ s.mem.taught[key] # None)]

LinkTeacher(s, l, p) ==
  LET t == TeacherFor(s, l.user)
  IN IF l.section = None \/ l.subject = None THEN t
     ELSE IF l.section \notin t.seen.sections \/ l.subject \notin t.seen.subjects
     THEN Warned(t, p)
     ELSE Assign(t, l)

Link(s, l, p) ==
  CASE l.role = "student" -> LinkStudent(s, l, p)
    [] l.role = "parent" -> LinkParent(s, l, p)
    [] l.role = "teacher" -> LinkTeacher(s, l, p)
    [] OTHER -> s

UserFor(s, u, r) ==
  IF s.seen.role[u] # None THEN s ELSE Flushed([s EXCEPT !.mem.role[u] = r])

(* Fault: a user of another role is reported and linked (LinksMatchRoles). *)
UserLine_links_any_role(s, l, p) ==
  LET t == UserFor(s, l.user, l.role)
  IN IF t.mem.role[l.user] # l.role THEN Link(Warned(t, p), l, p) ELSE Link(t, l, p)

(* An import never changes a role, and links only a user of the line's.    *)
UserLine(s, l, p) ==
  LET t == UserFor(s, l.user, l.role)
  IN IF t.mem.role[l.user] # l.role THEN Warned(t, p) ELSE Link(t, l, p)

(* _apply_remarks: i is a remark the line's query finds, 0 if there is     *)
(* none.  It compares flushed values, also of a remark changed since.      *)
Finds(s, l, i) ==
  LET row == s.seen.remarks[i]
  IN IF l.id # None THEN row.id = l.id ELSE row.adm = l.adm /\ row.note = l.note

(* Fault: remarks without external id are never looked up (Converges).     *)
MayFind_ids_only(s, l, i) ==
  LET found == {j \in DOMAIN s.seen.remarks : l.id # None /\ Finds(s, l, j)}
  IN IF found = {} THEN i = 0 ELSE i \in found

MayFind(s, l, i) ==
  LET found == {j \in DOMAIN s.seen.remarks : Finds(s, l, j)}
  IN IF found = {} THEN i = 0 ELSE i \in found

RemarkLine(s, l, p, i) ==
  IF s.seen.student[l.adm] = None THEN Warned(s, p)
  ELSE IF i = 0
  THEN [s EXCEPT !.mem.remarks =
          Append(@, [adm |-> l.adm, id |-> l.id, note |-> l.note])]
  ELSE IF l.id = None THEN s
  ELSE IF s.seen.remarks[i].adm # l.adm THEN Warned(s, p)
  ELSE [s EXCEPT !.mem.remarks[i].note = l.note]

(***************************************************************************)
(* Applications of the bundle.                                             *)
(***************************************************************************)
Begin ==
  /\ stage = "idle" /\ round < MaxApplies
  /\ stage' = "reading" /\ ses' = Opened(db) /\ pos' = 0 /\ before' = db
  /\ UNCHANGED <<db, file, round, bundles, outcome>>

(* The file order of apply_directory.                                      *)
Rank(l) == CASE l.file = "structure" -> 1 [] l.file = "users" -> 2 [] OTHER -> 3

(* The first application makes the bundle up as it reads it.               *)
IsNext(l) ==
  /\ stage = "reading" /\ pos < MaxLines
  /\ IF round = 0 THEN file # << >> => Rank(file[Len(file)]) <= Rank(l)
     ELSE pos < Len(file) /\ l = file[pos + 1]

(* A refused flush ends the session, which leaves no trace.                *)
After(s, l) ==
  /\ file' = IF round = 0 THEN Append(file, l) ELSE file
  /\ IF s.failed
     THEN /\ stage' = "idle" /\ outcome' = "refused" /\ ses' = Opened(db)
          /\ pos' = 0 /\ round' = round + 1
     ELSE /\ ses' = s /\ pos' = pos + 1
          /\ UNCHANGED <<stage, outcome, round>>
  /\ UNCHANGED <<db, bundles, before>>

ReadStructure(l) ==
  /\ l.file = "structure" /\ IsNext(l)
  /\ After(StructureLine(ses, l), l)

ReadUser(l) ==
  /\ l.file = "users" /\ IsNext(l)
  /\ After(UserLine(ses, l, pos + 1), l)

ReadRemark(l, i) ==
  /\ l.file = "remarks" /\ IsNext(l) /\ MayFind(ses, l, i)
  /\ After(RemarkLine(ses, l, pos + 1, i), l)

(* apply_directory's commit of the rows.                                   *)
Commit ==
  /\ stage = "reading" /\ pos = Len(file) /\ file # << >>
  /\ LET s == Flushed(ses)
     IN /\ outcome' = IF s.failed THEN "refused" ELSE "applied"
        /\ ses' = IF s.failed THEN Opened(db) ELSE s
        /\ db' = IF s.failed THEN db ELSE s.mem
  /\ stage' = "idle" /\ pos' = 0 /\ round' = round + 1
  /\ UNCHANGED <<file, bundles, before>>

(* The session is lost: the process died, or the order of the UPDATEs of a *)
(* flush offended a unique key for a moment.                               *)
Lost ==
  /\ stage = "reading"
  /\ stage' = "idle" /\ ses' = Opened(db) /\ pos' = 0 /\ outcome' = "lost"
  /\ before' = db
  /\ file' = IF round = 0 THEN << >> ELSE file
  /\ UNCHANGED <<db, round, bundles>>

NewBundle ==
  /\ stage = "idle" /\ round > 0 /\ bundles < MaxBundles
  /\ file' = << >> /\ round' = 0 /\ bundles' = bundles + 1
  /\ ses' = Opened(db) /\ before' = db /\ outcome' = "none"
  /\ UNCHANGED <<db, stage, pos>>

Next ==
  \/ Begin \/ Commit \/ Lost \/ NewBundle
  \/ \E l \in FileLines : ReadStructure(l)
  \/ \E l \in FileLines : ReadUser(l)
  \/ \E l \in FileLines, i \in 0..Len(ses.seen.remarks) : ReadRemark(l, i)

Spec == Init /\ [][Next]_vars

-----------------------------------------------------------------------------
(* Whatever bundles say, a student's login has the role student, a guardian*)
(* the role parent, and who is assigned to a class is a teacher and has the*)
(* role (_apply_users: a line of another role links nothing).              *)
RolesHold(t) ==
  /\ \A a \in Admissions : t.student[a] # None =>
       /\ t.student[a].user # None => t.role[t.student[a].user] = "student"
       /\ t.student[a].guardian # None => t.role[t.student[a].guardian] = "parent"
  /\ \A u \in t.teachers : t.role[u] = "teacher"
  /\ \A key \in Sections \X Subjects : t.taught[key] # None => t.taught[key] \in t.teachers

LinksMatchRoles == RolesHold(db)

(* A line of users.csv that did not link what it names, and no later line  *)
(* linked it otherwise, was reported: _apply_users drops none in silence.  *)
Linked(t, l) ==
  CASE l.role = "student" -> l.adm # None => t.student[l.adm].user = l.user
    [] l.role = "parent" -> l.adm # None => t.student[l.adm].guardian = l.user
    [] l.role = "teacher" -> l.section # None /\ l.subject # None =>
                               t.taught[<<l.section, l.subject>>] = l.user
    [] OTHER -> t.role[l.user] = l.role

Relinks(l, k) ==
  /\ l.file = "users" /\ l.role = k.role
  /\ IF l.role = "teacher" THEN l.section = k.section /\ l.subject = k.subject
     ELSE l.adm = k.adm

LinksLandOrWarn ==
  stage = "idle" /\ outcome = "applied" =>
    \A p \in 1..Len(file) :
      file[p].file = "users" /\ p \notin ses.warned =>
        \/ Linked(db, file[p])
        \/ \E q \in (p + 1)..Len(file) : q \notin ses.warned /\ Relinks(file[q], file[p])

(* A bundle of n lines settles in n applications, and in three however many*)
(* lines it has: what one line could not find, because another line's row  *)
(* was not flushed or came later, the next application finds ("Idempotent  *)
(* CSV apply", apply.py, with patience: a class first, then the student in *)
(* it, then the guardian of an earlier line).                              *)
(* Two remarks of one external id, which two lines of one bundle leave, are*)
(* excepted: any of them may be the one a line finds.                      *)
IdsUnique(t) ==
  \A i, j \in DOMAIN t.remarks :
    t.remarks[i].id = t.remarks[j].id /\ t.remarks[i].id # None => i = j

Converges ==
  stage = "idle" /\ (round > Len(file) \/ round > 3) /\ IdsUnique(db) => db = before

(* What the code does not keep: a bundle of different school_structure.csv *)
(* lines is never refused (among MCStructureLines are two that are).       *)
DistinctStructureIsApplied ==
  stage = "idle" /\ outcome = "refused" =>
    ~ /\ \A p \in 1..Len(file) : file[p].file = "structure"
      /\ \A p, q \in 1..Len(file) : file[p] = file[q] => p = q
=============================================================================
