---------------------------- MODULE AccessScope ----------------------------
(***************************************************************************)
(* What a caller may read (app/deps.py), what they may ask for             *)
(* (app/schemas.py) and what a school shows to families                    *)
(* (app/tenant/policy.py).                                                 *)
(*                                                                         *)
(* Students, sections, subjects and papers (assessments) are numbered in   *)
(* the order in which the program lists them: students by section, roll    *)
(* number and name, sections by grade and name, subjects by name, papers   *)
(* by date.  A school is a record of its tables.                           *)
(*                                                                         *)
(* Left out: the tenant (one school), ids that do not exist, how a query   *)
(* string is parsed.                                                       *)
(***************************************************************************)
EXTENDS Metrics

CONSTANTS
  Students, Subjects,
  Teachers, Guardians,
  Section,      \* the sections, each with its grade and its year
  Term,         \* the terms, each with its year, in their sequence
  Paper,        \* the papers, each with section, subject, term, type, day, max, weight
  Day,          \* the days a register is kept, each with its term
  CurrentYear   \* the year that is_current marks

Sections == DOMAIN Section
Papers == DOMAIN Paper
Years == {Term[t].year : t \in DOMAIN Term}
Grades == {Section[c].grade : c \in Sections}

(* Ids are numbers; None is neither an id nor a set of them.               *)
ASSUME IdsAssumption ==
  /\ Students \cup Sections \cup DOMAIN Term \subseteq Nat
  /\ IsFiniteSet(Students) /\ IsFiniteSet(Papers)
  /\ None \notin Students \cup Teachers \cup Guardians \cup Sections
  /\ \A S \in SUBSET Students : S # None
  /\ \A S \in SUBSET Sections : S # None
  /\ \A S \in SUBSET (Sections \X Subjects) : S # None
(* The database refuses a paper without marks (models.py:457); what writes *)
(* papers (seed/generate.py:575-590) gives them no negative weight.        *)
ASSUME PaperAssumption ==
  \A p \in Papers : /\ Paper[p].section \in Sections /\ Paper[p].term \in DOMAIN Term
                    /\ Paper[p].max \in Nat \ {0} /\ Paper[p].weight \in Nat
ASSUME CurrentYearAssumption == CurrentYear \in Years

AttendanceStatus == {"present", "absent", "late", "excused"}
RemarkCategory == {"academic", "behaviour", "achievement", "concern"}

(* home: the section a student is in; row: what the mark book holds; a     *)
(* remark is known by its student, its category, its term, its age in      *)
(* days and its year by date.                                              *)
School ==
  [home: [Students -> Sections], active: SUBSET Students,
   guardian: [Students -> Guardians \cup {None}],
   assigned: SUBSET (Teachers \X Sections \X Subjects),
   homeroom: [Sections -> Teachers \cup {None}],
   score: [Students \X Papers ->
             {None} \cup [marks: Nat \cup {None}, absent: BOOLEAN]],
   register: [Students \X DOMAIN Day -> AttendanceStatus \cup {None}],
   remarks: SUBSET [student: Students, category: RemarkCategory,
                    term: DOMAIN Term \cup {None}, year: Years, age: Nat]]

Settings ==
  [comparison: {"self", "cohort"}, remarks: BOOLEAN, interventions: BOOLEAN,
   exports: BOOLEAN, portals: SUBSET {"parent", "student"}, late: BOOLEAN, excused: BOOLEAN,
   last: {"low", "high"}, pass: 0..10000, atRisk: 0..10000, attendance: 0..10000]

Viewers ==
  [role: {"admin"}, id: {None}] \cup [role: {"teacher"}, id: Teachers \cup {None}]
    \cup [role: {"parent"}, id: Guardians] \cup [role: {"student"}, id: Students]
Family(x) == x.role \in {"parent", "student"}

(* An answer that is an error.                                             *)
Refused(status) == [status |-> status]
IsError(x) == x \in [status: {403, 404, 422, 500}]

---------------------------------------------------------------------------
(* FilterParams.                                                           *)
NoFilters ==
  [year |-> None, term |-> None, subject |-> None, subjects |-> None, grade |-> None,
   section |-> None, sections |-> None, student |-> None, teacher |-> None,
   type |-> None, from |-> None, to |-> None]

FilterParams ==
  [year: Nat \cup {None}, term: DOMAIN Term \cup {None}, subject: Subjects \cup {None},
   subjects: Seq(Subjects) \cup {None}, grade: Grades \cup {None},
   section: Sections \cup {None}, sections: Seq(Sections) \cup {None},
   student: Students \cup {None}, teacher: Teachers \cup {None},
   type: STRING \cup {None}, from: Nat \cup {None}, to: Nat \cup {None}]

MaxSubjectFilters == 5
MaxSectionFilters == 4

Distinct(s) == s = None \/ Cardinality(Range(s)) = Len(s)
ValidFilters(f) ==
  /\ Distinct(f.subjects) /\ Distinct(f.sections)
  /\ f.subjects # None => Len(f.subjects) <= MaxSubjectFilters
  /\ f.sections # None => Len(f.sections) <= MaxSectionFilters
  /\ f.from # None /\ f.to # None => f.from <= f.to

ResolvedSubjects(f) ==
  IF f.subjects \notin {None, <<>>} THEN Range(f.subjects)
  ELSE IF f.subject # None THEN {f.subject} ELSE {}
ResolvedSections(f) ==
  IF f.sections \notin {None, <<>>} THEN Range(f.sections)
  ELSE IF f.section # None THEN {f.section} ELSE {}

WithStudent(f, s) == [f EXCEPT !.student = s]
WithSection(f, c) == [f EXCEPT !.section = c, !.sections = None]

---------------------------------------------------------------------------
(* get_access_scope.  None stands for no restriction; students and home    *)
(* are the rows as they were read: a later query does not refresh them.    *)
AcademicYear(requested) == IF requested \in Years THEN requested ELSE CurrentYear

Scope(x, year) ==
  [role |-> x.role, year |-> AcademicYear(year), student_ids |-> None, section_ids |-> None,
   subject_ids |-> None, section_subjects |-> None, students |-> {}, home |-> <<>>,
   aggregate_only |-> FALSE]

StudentsInSections(d, C) == {s \in d.active : d.home[s] \in C}

SectionSubjects(d, t) ==
  {p \in Sections \X Subjects : <<t, p[1], p[2]>> \in d.assigned \/ d.homeroom[p[1]] = t}

TeacherScope(d, x, year) ==
  LET pairs == SectionSubjects(d, x.id)
      C == {p[1] : p \in pairs}
      S == StudentsInSections(d, C)
  IN  [Scope(x, year) EXCEPT
        !.student_ids = S, !.section_ids = C, !.subject_ids = {p[2] : p \in pairs},
        !.section_subjects = pairs, !.students = S, !.home = Restrict(d.home, S)]

FamilyScope(d, x, year) ==
  LET S == IF x.role = "parent" THEN {s \in d.active : d.guardian[s] = x.id}
           ELSE {x.id} \cap d.active
  IN  [Scope(x, year) EXCEPT
        !.student_ids = S, !.section_ids = {d.home[s] : s \in S}, !.students = S,
        !.home = Restrict(d.home, S)]

(* Fault: a parent keeps reading about a child who is no longer active.    *)
GetAccessScope_inactive(d, x, year) ==
  CASE x.role = "admin" -> Scope(x, year)
    [] x.role = "teacher" -> TeacherScope([d EXCEPT !.active = Students], x, year)
    [] Family(x) -> FamilyScope([d EXCEPT !.active = Students], x, year)
GetAccessScope(d, x, year) ==
  CASE x.role = "admin" -> Scope(x, year)
    [] x.role = "teacher" /\ x.id # None -> TeacherScope(d, x, year)
    [] x.role = "teacher" /\ x.id = None -> Refused(403)
    [] x.role = "student" /\ x.id \notin d.active -> Refused(403)
    [] OTHER -> FamilyScope(d, x, year)

---------------------------------------------------------------------------
(* AccessScope's own methods.                                              *)
Within(allowed, v) == v = None \/ allowed = None \/ v \in allowed

Narrow(sc, f) ==
  LET C == ResolvedSections(f)
      B == ResolvedSubjects(f)
  IN  IF \/ ~Within(sc.student_ids, f.student)
         \/ \E c \in C : ~Within(sc.section_ids, c)
         \/ \E b \in B : ~Within(sc.subject_ids, b)
      THEN Refused(404)
      ELSE IF \/ Cardinality(B) > MaxSubjectFilters \/ Cardinality(C) > MaxSectionFilters
              \/ Cardinality({Section[c].grade : c \in C}) > 1
      THEN Refused(422)
      ELSE IF f.year = None THEN [f EXCEPT !.year = sc.year] ELSE f

First(S) == IF S = {} THEN None ELSE Min(S)

ResolveStudent(sc, s) ==
  IF s = None THEN First(sc.students)
  ELSE IF s \in sc.student_ids /\ s \in sc.students THEN s ELSE None

ResolveSection(sc, c) ==
  IF c # None THEN IF Within(sc.section_ids, c) THEN c ELSE None
  ELSE IF sc.section_ids = None THEN None ELSE First(sc.section_ids)

AssertSectionSubject(sc, c, b) ==
  b # None /\ sc.section_subjects # None => <<c, b>> \in sc.section_subjects

CohortView(sc) ==
  IF ~Family(sc) THEN sc
  ELSE [sc EXCEPT !.student_ids = None, !.section_ids = Range(sc.home),
                  !.section_subjects = None, !.aggregate_only = TRUE]

---------------------------------------------------------------------------
(* tenant/policy.py.                                                       *)
CohortBenchmarksVisible(sc, cfg) == Family(sc) => cfg.comparison = "cohort"

CohortOnly == {"student.vs_class"}
InterventionCharts ==
  {"staff.intervention_uncovered", "staff.interventions_open", "staff.intervention_outcomes"}

FilterPortalCards(cards, sc, cfg) ==
  IF CohortBenchmarksVisible(sc, cfg) THEN cards ELSE cards \ CohortOnly

ChartAllowedForScope(chart, sc, cfg) ==
  /\ chart \in CohortOnly => CohortBenchmarksVisible(sc, cfg)
  /\ chart \in InterventionCharts => cfg.interventions
  /\ chart = "student.remarks" => cfg.remarks

AttendancePresentDays(count, cfg) ==
  count["present"] + (IF cfg.late THEN count["late"] ELSE 0)
                   + (IF cfg.excused THEN count["excused"] ELSE 0)
=============================================================================
