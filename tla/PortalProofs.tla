----------------------------- MODULE PortalProofs -----------------------------
(***************************************************************************)
(* Proofs about Portal, for every school and every value of its constants: *)
(* its types, who is named in an answer, what a page's cards are about,    *)
(* what an answer rests on, that its numbers fit each other, and that a    *)
(* student's page and the table of a class come to one verdict.            *)
(*                                                                         *)
(* A request holds a scope read from one school and answers from another;  *)
(* PortalInv says which, at each stage.  What follows from there is about  *)
(* the queries alone: each reads its rows through the scope.  The last part*)
(* is about sums, means and counts over sets of any size, and about lines  *)
(* of least squares through them.                                          *)
(***************************************************************************)
EXTENDS Portal, NaturalsInduction, WellFoundedInduction, FiniteSetTheorems, TLAPS

---------------------------------------------------------------------------
(* First of a set of numbers is one of them.                               *)
LEMMA LeastExists ==
  ASSUME NEW S, S \subseteq Nat, S # {} PROVE \E x \in S : \A y \in S : x =< y
<1> DEFINE Less == {ss \in Nat \X Nat : ss[1] < ss[2]}
<1>1. IsWellFoundedOn(Less, Nat)
  BY NatLessThanWellFounded DEF OpToRel
<1>2. PICK x \in S : \A y \in S : ~ (<<y, x>> \in Less)
  <2> HIDE DEF Less
  <2> QED
    BY <1>1, WFMin
<1>3. ASSUME NEW y \in S PROVE x =< y
  <2>1. x \in Nat /\ y \in Nat /\ ~ (<<y, x>> \in Less)
    BY <1>2
  <2>2. ~ (y < x)
    BY <2>1
  <2> QED
    BY <2>1, <2>2
<1> QED
  BY <1>3

LEMMA FirstIn == ASSUME NEW S, S \subseteq Nat PROVE First(S) \in S \cup {None}
<1>1. CASE S = {}
  BY <1>1 DEF First
<1>2. CASE S # {}
  <2>1. Min(S) \in S
    BY <1>2, LeastExists DEF Min
  <2> QED
    BY <1>2, <2>1 DEF First
<1> QED
  BY <1>1, <1>2

---------------------------------------------------------------------------
(* What a scope is made of: for all but the principal its students are     *)
(* those the caller may know.                                              *)
Mine(d, x) == {s \in Students : MayKnow(d, x, s)}

ScopeFields ==
  {"role", "year", "student_ids", "section_ids", "subject_ids", "section_subjects",
   "students", "home", "aggregate_only"}

SchoolScope(sc) ==
  /\ sc.student_ids = None /\ sc.section_ids = None /\ sc.section_subjects = None
  /\ sc.students = {} /\ sc.home = <<>>
OwnScope(d, x, sc) ==
  /\ sc.student_ids = Mine(d, x) /\ sc.students = Mine(d, x)
  /\ sc.home = [s \in Mine(d, x) |-> d.home[s]]
StaffScope(d, x, sc) ==
  /\ x.id # None /\ sc.section_subjects = SectionSubjects(d, x.id)
  /\ sc.section_ids = {p[1] : p \in SectionSubjects(d, x.id)}
HomeScope(d, x, sc) ==
  sc.section_subjects = None /\ sc.section_ids = {d.home[s] : s \in Mine(d, x)}

ScopeOf(d, x, sc) ==
  /\ DOMAIN sc = ScopeFields /\ sc.role = x.role /\ sc.aggregate_only = FALSE
  /\ x.role = "admin" => SchoolScope(sc)
  /\ x.role # "admin" => OwnScope(d, x, sc)
  /\ x.role = "teacher" => StaffScope(d, x, sc)
  /\ Family(x) => HomeScope(d, x, sc)

LEMMA NoErrorOnlyStatus == ASSUME NEW r, IsError(r) PROVE DOMAIN r = {"status"}
BY DEF IsError

LEMMA RefusedIsError == \A n \in {403, 404, 422, 500} : IsError(Refused(n))
BY DEF IsError, Refused

LEMMA SchoolFields ==
  ASSUME NEW d, d \in School
  PROVE  /\ DOMAIN d = {"home", "active", "guardian", "assigned", "homeroom", "score",
                        "register", "remarks"}
         /\ d.home \in [Students -> Sections] /\ d.active \subseteq Students
         /\ d.assigned \subseteq Teachers \X Sections \X Subjects
BY DEF School

LEMMA ViewerRoles ==
  ASSUME NEW x \in Viewers
  PROVE  /\ x.role \in {"admin", "teacher", "parent", "student"}
         /\ x.role = "teacher" => x.id \in Teachers \cup {None}
         /\ x.role = "parent" => x.id \in Guardians
         /\ x.role = "student" => x.id \in Students
BY DEF Viewers

(* A teacher's students are the active ones of the classes they have.      *)
LEMMA TeacherKnows ==
  ASSUME NEW d, d \in School, NEW x, x.role = "teacher"
  PROVE  StudentsInSections(d, {p[1] : p \in SectionSubjects(d, x.id)}) = Mine(d, x)
<1> DEFINE P == SectionSubjects(d, x.id)
           C == {p[1] : p \in P}
<1>1. ASSUME NEW s \in d.active, d.home[s] \in C PROVE s \in Mine(d, x)
  <2>1. PICK p \in P : p[1] = d.home[s]
    BY <1>1
  <2>2. p \in Sections \X Subjects /\ Teaches(d, x.id, p[1], p[2])
    BY <2>1 DEF SectionSubjects, Teaches
  <2>3. s \in Students /\ p[2] \in Subjects
    BY <2>2, SchoolFields
  <2> QED
    BY <2>1, <2>2, <2>3 DEF Mine, MayKnow
<1>2. ASSUME NEW s \in Mine(d, x) PROVE s \in d.active /\ d.home[s] \in C
  <2>1. s \in d.active /\ s \in Students
    BY DEF Mine, MayKnow
  <2>2. PICK b \in Subjects : Teaches(d, x.id, d.home[s], b)
    BY DEF Mine, MayKnow
  <2>3. d.home[s] \in Sections
    BY <2>1, SchoolFields
  <2>4. <<d.home[s], b>> \in P
    BY <2>2, <2>3 DEF SectionSubjects, Teaches
  <2>5. <<d.home[s], b>>[1] = d.home[s]
    OBVIOUS
  <2> QED
    BY <2>1, <2>4, <2>5
<1> QED
  BY <1>1, <1>2 DEF StudentsInSections

LEMMA FamilyKnows ==
  ASSUME NEW d, d \in School, NEW x, Family(x)
  PROVE  IF x.role = "parent" THEN {s \in d.active : d.guardian[s] = x.id} = Mine(d, x)
         ELSE {x.id} \cap d.active = Mine(d, x)
<1>1. x.role \in {"parent", "student"} /\ d.active \subseteq Students
  BY SchoolFields DEF Family
<1> QED
  BY <1>1 DEF Mine, MayKnow

LEMMA ScopeRight ==
  ASSUME NEW d, d \in School, NEW x \in Viewers, NEW year,
         ~IsError(GetAccessScope(d, x, year))
  PROVE  ScopeOf(d, x, GetAccessScope(d, x, year))
<1> DEFINE sc == GetAccessScope(d, x, year)
<1>1. CASE x.role = "admin"
  BY <1>1 DEF GetAccessScope, Scope, ScopeOf, ScopeFields, SchoolScope, Family
<1>2. CASE x.role = "teacher"
  <2>1. x.id # None
    BY <1>2, RefusedIsError DEF GetAccessScope
  <2>2. sc = TeacherScope(d, x, year)
    BY <1>2, <2>1 DEF GetAccessScope
  <2> QED
    BY <1>2, <2>1, <2>2, TeacherKnows
      DEF TeacherScope, Scope, ScopeOf, ScopeFields, OwnScope, StaffScope, Family, Restrict
<1>3. CASE Family(x)
  <2>1. sc = FamilyScope(d, x, year)
    BY <1>3, RefusedIsError DEF GetAccessScope, Family
  <2> QED
    BY <1>3, <2>1, FamilyKnows
      DEF FamilyScope, Scope, ScopeOf, ScopeFields, OwnScope, HomeScope, Family, Restrict
<1> QED
  BY <1>1, <1>2, <1>3, ViewerRoles DEF Family

---------------------------------------------------------------------------
(* Whom an answer may name.                                                *)
QueryFields == {"d", "cfg", "f", "sc", "last"}
FilterShape(f) == DOMAIN f = DOMAIN NoFilters /\ f.student \in Students \cup {None}

(* A query of caller x, whose scope was read from school w.                *)
Reading(q, w, x) ==
  /\ DOMAIN q = QueryFields /\ q.d \in School /\ FilterShape(q.f)
  /\ w \in School /\ x \in Viewers /\ ScopeOf(w, x, q.sc)

PayloadOf(p, S) == IsError(p) \/ (DOMAIN p = {"who", "data"} /\ p.who \subseteq S)
AnswerOf(a, S) ==
  IsError(a) \/ (~IsError(a) /\ a.who \subseteq S /\ a.audited \in BOOLEAN)

LEMMA FilterFields == DOMAIN NoFilters =
  {"year", "term", "subject", "subjects", "grade", "section", "sections", "student",
   "teacher", "type", "from", "to"}
BY DEF NoFilters

LEMMA MineIsSet ==
  ASSUME NEW w, NEW x PROVE Mine(w, x) \subseteq Students /\ Mine(w, x) # None
BY IdsAssumption DEF Mine

LEMMA AdminKnowsAll ==
  ASSUME NEW w, NEW x, x.role = "admin" PROVE Mine(w, x) = Students
BY DEF Mine, MayKnow

LEMMA WithinKnown ==
  ASSUME NEW q, NEW w, NEW x, Reading(q, w, x), NEW s \in Students,
         Within(q.sc.student_ids, s), None \notin Students
  PROVE  s \in Mine(w, x)
<1>1. CASE x.role = "admin"
  BY <1>1, AdminKnowsAll
<1>2. CASE x.role # "admin"
  BY <1>2, MineIsSet DEF Reading, ScopeOf, OwnScope, Within
<1> QED
  BY <1>1, <1>2

LEMMA ScopeStudents ==
  ASSUME NEW q, NEW w, NEW x, Reading(q, w, x)
  PROVE  q.sc.students \subseteq Mine(w, x)
BY DEF Reading, ScopeOf, SchoolScope, OwnScope

LEMMA ResolvedKnown ==
  ASSUME NEW q, NEW w, NEW x, Reading(q, w, x), NEW s
  PROVE  ResolveStudent(q.sc, s) \in Mine(w, x) \cup {None}
<1>1. q.sc.students \subseteq Nat
  BY ScopeStudents, MineIsSet, IdsAssumption
<1>2. First(q.sc.students) \in q.sc.students \cup {None}
  BY <1>1, FirstIn
<1> QED
  BY <1>2, ScopeStudents DEF ResolveStudent

LEMMA DefaultKnown ==
  ASSUME NEW q, NEW w, NEW x, Reading(q, w, x)
  PROVE  DefaultStudent(q) \in Mine(w, x) \cup {None}
<1> DEFINE of(s) ==
             LET c == q.d.home[s]
             IN  /\ Within(q.sc.student_ids, s) /\ Within(q.sc.section_ids, c)
                 /\ ResolvedSections(q.f) # {} => c \in ResolvedSections(q.f)
                 /\ Matches(q.f.grade, Section[c].grade) /\ Section[c].year = YearOf(q)
           S == {s \in q.d.active : of(s)}
<1>1. \A s \in S : s \in Students /\ Within(q.sc.student_ids, s)
  BY SchoolFields DEF Reading
<1>2. S \subseteq Mine(w, x)
  BY <1>1, WithinKnown, IdsAssumption
<1>3. S \subseteq Nat
  BY <1>1, IdsAssumption
<1> HIDE DEF S
<1>4. First(S) \in S \cup {None}
  BY <1>3, FirstIn
<1>5. DefaultStudent(q) = First(S)
  BY DEF DefaultStudent, S
<1> QED
  BY <1>2, <1>4, <1>5

LEMMA TargetKnown ==
  ASSUME NEW q, NEW w, NEW x, Reading(q, w, x)
  PROVE  TargetStudent(q) \in Mine(w, x) \cup {None}
<1>1. CASE Family(q.sc)
  BY <1>1, ResolvedKnown DEF TargetStudent
<1>2. CASE ~Family(q.sc) /\ q.f.student = None
  BY <1>2, DefaultKnown DEF TargetStudent
<1>3. CASE ~Family(q.sc) /\ q.f.student # None
  BY <1>3, WithinKnown, IdsAssumption DEF TargetStudent, Reading, FilterShape
<1> QED
  BY <1>1, <1>2, <1>3

LEMMA RowsKnown ==
  ASSUME NEW q, NEW w, NEW x, Reading(q, w, x)
  PROVE  Groups("student", BaseSelect(q)) \subseteq Mine(w, x)
<1> SUFFICES ASSUME NEW k \in BaseSelect(q) PROVE Dimension("student", k) \in Mine(w, x)
  BY DEF Groups
<1>1. k[1] \in Students /\ Within(q.sc.student_ids, k[1])
  BY DEF BaseSelect, Rows, ScopeConditions
<1>2. Dimension("student", k) = k[1]
  BY DEF Dimension
<1> QED
  BY <1>1, <1>2, WithinKnown, IdsAssumption

LEMMA StandingsKnown ==
  ASSUME NEW q, NEW w, NEW x, Reading(q, w, x), NEW y \in StudentStandings(q)
  PROVE  y.student \in Mine(w, x)
<1>1. q.sc.aggregate_only = FALSE
  BY DEF Reading, ScopeOf
<1> DEFINE attendance == AttendanceByStudent(q, Groups("student", BaseSelect(q)))
<1>2. PICK s \in Groups("student", BaseSelect(q)) :
        y = StandingOf(q, s, Part("student", s, BaseSelect(q)), attendance)
  BY <1>1 DEF StudentStandings, Standings
<1>3. y.student = s
  BY <1>2 DEF StandingOf, Standing
<1> QED
  BY <1>3, RowsKnown

LEMMA ListingKnown ==
  ASSUME NEW q, NEW w, NEW x, Reading(q, w, x), NEW S, S \subseteq StudentStandings(q)
  PROVE  PayloadOf(StandingsTable(q, S), Mine(w, x))
<1>1. \A y \in S : y.student \in Mine(w, x)
  BY StandingsKnown
<1> QED
  BY <1>1 DEF PayloadOf, StandingsTable, Named

LEMMA ListingWithin ==
  ASSUME NEW chart, NEW q, NEW S PROVE Listing(chart, q, S) \subseteq S
BY DEF Listing, Best

(* Each family of charts.                                                  *)
LEMMA NamedPayload ==
  ASSUME NEW S, NEW who, who \subseteq S, NEW data PROVE PayloadOf(Named(who, data), S)
BY DEF PayloadOf, Named

LEMMA RefusedPayload ==
  ASSUME NEW S, NEW n \in {403, 404, 422, 500} PROVE PayloadOf(Refused(n), S)
BY RefusedIsError DEF PayloadOf

LEMMA StudentPayload ==
  ASSUME NEW q, NEW w, NEW x, Reading(q, w, x), NEW chart
  PROVE  PayloadOf(StudentChart(chart, q), Mine(w, x))
<1>1. CASE TargetStudent(q) = None
  BY <1>1, RefusedPayload DEF StudentChart, AboutStudent
<1>2. CASE TargetStudent(q) # None
  <2>1. {TargetStudent(q)} \subseteq Mine(w, x)
    BY <1>2, TargetKnown
  <2> QED
    BY <1>2, <2>1, NamedPayload, RefusedPayload DEF StudentChart, AboutStudent
<1> QED
  BY <1>1, <1>2

LEMMA MatrixPayload ==
  ASSUME NEW q, NEW w, NEW x, Reading(q, w, x)
  PROVE  DOMAIN MatrixAverages(q, "student", "subject") \subseteq Mine(w, x)
<1>1. q.sc.aggregate_only = FALSE
  BY DEF Reading, ScopeOf
<1>2. DOMAIN MatrixAverages(q, "student", "subject") = Groups("student", BaseSelect(q))
  BY <1>1 DEF MatrixAverages, Matrix
<1> QED
  BY <1>2, RowsKnown

LEMMA ShownPayload ==
  ASSUME NEW S, NEW table, PayloadOf(table, S), ~IsError(table), NEW chart
  PROVE  PayloadOf(Shown(chart, table), S)
BY DEF PayloadOf, Shown

LEMMA SectionPayload ==
  ASSUME NEW q, NEW w, NEW x, Reading(q, w, x), NEW chart
  PROVE  PayloadOf(SectionChart(chart, q), Mine(w, x))
<1> DEFINE drawn ==
      {"section.kpis", "section.distribution", "section.assessment_averages",
       "section.subject_averages", "section.heatmap", "section.grade_mix"}
<1>1. CASE chart = "section.heatmap"
  BY <1>1, MatrixPayload, NamedPayload DEF SectionChart
<1>2. CASE chart \in drawn \ {"section.heatmap"}
  BY <1>2, NamedPayload DEF SectionChart
<1>3. CASE chart \notin drawn
  <2> DEFINE table == StandingsTable(q, Listing(chart, q, StudentStandings(q)))
  <2>1. PayloadOf(table, Mine(w, x))
    BY ListingKnown, ListingWithin
  <2>2. ~IsError(table)
    BY NoErrorOnlyStatus DEF StandingsTable, Named
  <2>3. SectionChart(chart, q) = Shown(chart, table)
    BY <1>3 DEF SectionChart
  <2> QED
    BY <2>1, <2>2, <2>3, ShownPayload
<1> QED
  BY <1>1, <1>2, <1>3

LEMMA ReadingWith ==
  ASSUME NEW q, NEW w, NEW x, Reading(q, w, x), NEW f, FilterShape(f)
  PROVE  /\ Reading([q EXCEPT !.f = f], w, x)
         /\ [q EXCEPT !.f = f].f = f /\ [q EXCEPT !.f = f].sc = q.sc
         /\ [q EXCEPT !.f = f].cfg = q.cfg /\ [q EXCEPT !.f = f].d = q.d
         /\ [q EXCEPT !.f = f].last = q.last
BY DEF Reading, QueryFields

LEMMA FilterNoError == ASSUME NEW f, FilterShape(f) PROVE ~IsError(f)
BY NoErrorOnlyStatus, FilterFields DEF FilterShape

LEMMA WithSectionShape ==
  ASSUME NEW f, FilterShape(f), NEW c PROVE FilterShape(WithSection(f, c))
BY FilterFields DEF FilterShape, WithSection

LEMMA ClassroomPayload ==
  ASSUME NEW q, NEW w, NEW x, Reading(q, w, x), NEW chart
  PROVE  PayloadOf(ClassroomChart(chart, q), Mine(w, x))
<1> DEFINE f == SectionFilters(q)
<1>1. CASE f = Refused(404)
  BY <1>1, RefusedIsError, RefusedPayload DEF ClassroomChart, ChartOfClass
<1>2. CASE f # Refused(404)
  <2>1. f = WithSection(q.f, ClassroomSection(q))
    BY <1>2 DEF SectionFilters
  <2>2. FilterShape(f)
    BY <2>1, WithSectionShape DEF Reading
  <2>3. ClassroomChart(chart, q) = SectionChart(chart, [q EXCEPT !.f = f])
    BY <2>2, FilterNoError DEF ClassroomChart, ChartOfClass
  <2> QED
    BY <2>2, <2>3, ReadingWith, SectionPayload
<1> QED
  BY <1>1, <1>2

LEMMA SchoolPayload ==
  ASSUME NEW q, NEW w, NEW x, Reading(q, w, x), NEW chart \in SchoolCharts
  PROVE  PayloadOf(SchoolChart(chart, q), Mine(w, x))
<1>1. CASE chart = "school.at_risk"
  BY <1>1, ListingKnown, ListingWithin DEF SchoolChart
<1>2. CASE chart = "school.attendance_scatter"
  <2> DEFINE points == AttendanceVsPerformance(q)
  <2>1. \A y \in points : y.student \in Mine(w, x)
    BY StandingsKnown DEF AttendanceVsPerformance
  <2>2. SchoolChart(chart, q) = Named({y.student : y \in points}, points)
    BY <1>2 DEF SchoolChart
  <2> QED
    BY <2>1, <2>2, NamedPayload
<1>3. CASE chart \notin {"school.at_risk", "school.attendance_scatter"}
  BY <1>3, NamedPayload DEF SchoolCharts, SchoolChart
<1> QED
  BY <1>1, <1>2, <1>3

(* The endpoints.                                                          *)
LEMMA ChartsApart ==
  /\ StudentCharts \cap SectionCharts = {} /\ StudentCharts \cap SchoolCharts = {}
  /\ StudentCharts \cap InterventionCharts = {} /\ SectionCharts \cap SchoolCharts = {}
  /\ SectionCharts \cap InterventionCharts = {} /\ SchoolCharts \cap InterventionCharts = {}
BY DEF StudentCharts, SectionCharts, SchoolCharts, InterventionCharts

LEMMA HandlerPayload ==
  ASSUME NEW q, NEW w, NEW x, Reading(q, w, x), NEW chart \in AllCharts
  PROVE  PayloadOf(Handler(chart, q), Mine(w, x))
<1> DEFINE off == \/ chart = "student.remarks" /\ ~q.cfg.remarks
                  \/ chart \in InterventionCharts /\ ~q.cfg.interventions
<1>1. CASE off
  BY <1>1, RefusedPayload DEF Handler
<1>2. CASE ~off /\ chart \in StudentCharts
  <2>1. Handler(chart, q) = StudentChart(chart, q)
    BY <1>2, ChartsApart DEF Handler
  <2> QED
    BY <2>1, StudentPayload
<1>3. CASE ~off /\ chart \in SectionCharts
  <2>1. Handler(chart, q) = ClassroomChart(chart, q)
    BY <1>3, ChartsApart DEF Handler
  <2> QED
    BY <2>1, ClassroomPayload
<1>4. CASE ~off /\ chart \in SchoolCharts
  <2>1. Handler(chart, q) = SchoolChart(chart, q)
    BY <1>4, ChartsApart DEF Handler
  <2> QED
    BY <1>4, <2>1, SchoolPayload
<1>5. CASE ~off /\ chart \in InterventionCharts
  <2>1. Handler(chart, q) = Named({}, {})
    BY <1>5, ChartsApart DEF Handler
  <2> QED
    BY <2>1, NamedPayload
<1> QED
  BY <1>1, <1>2, <1>3, <1>4, <1>5 DEF AllCharts

LEMMA SanitizedPayload ==
  ASSUME NEW q, NEW chart, NEW p, NEW S, PayloadOf(p, S)
  PROVE  PayloadOf(SanitizeFamilyChart(chart, p, q), S)
<1>1. CASE SanitizeFamilyChart(chart, p, q) = p
  BY <1>1
<1>2. CASE SanitizeFamilyChart(chart, p, q) # p
  <2>1. ~IsError(p)
    BY <1>2 DEF SanitizeFamilyChart
  <2>2. DOMAIN p = {"who", "data"} /\ p.who \subseteq S
    BY <2>1 DEF PayloadOf
  <2>3. \E data : SanitizeFamilyChart(chart, p, q) = [p EXCEPT !.data = data]
    BY <1>2 DEF SanitizeFamilyChart
  <2> QED
    BY <2>2, <2>3 DEF PayloadOf
<1> QED
  BY <1>1, <1>2

(* Narrowing refuses, or fills in the year.                                *)
LEMMA NarrowShape ==
  ASSUME NEW sc, NEW f, FilterShape(f)
  PROVE  \/ IsError(Narrow(sc, f))
         \/ FilterShape(Narrow(sc, f)) /\ Narrow(sc, f).student = f.student
<1>1. Narrow(sc, f) \in {Refused(404), Refused(422), [f EXCEPT !.year = sc.year], f}
  BY DEF Narrow
<1>2. FilterShape([f EXCEPT !.year = sc.year]) /\ [f EXCEPT !.year = sc.year].student = f.student
  BY FilterFields DEF FilterShape
<1>3. IsError(Refused(404)) /\ IsError(Refused(422))
  BY RefusedIsError
<1> DEFINE n == Narrow(sc, f)
<1> HIDE DEF n
<1>4. n \in {Refused(404), Refused(422)} => IsError(n)
  BY <1>3
<1>5. n \in {[f EXCEPT !.year = sc.year], f} => FilterShape(n) /\ n.student = f.student
  BY <1>2
<1> QED
  BY <1>1, <1>4, <1>5 DEF n

LEMMA PayloadKnown ==
  ASSUME NEW q, NEW w, NEW x, Reading(q, w, x), NEW chart \in AllCharts
  PROVE  PayloadOf(Payload(chart, q), Mine(w, x))
<1> DEFINE f == Narrow(q.sc, q.f)
<1>1. CASE IsError(f)
  BY <1>1 DEF Payload, Narrowed, PayloadOf
<1>2. CASE ~IsError(f)
  <2>1. FilterShape(f)
    BY <1>2, NarrowShape DEF Reading
  <2>2. PayloadOf(Handler(chart, [q EXCEPT !.f = f]), Mine(w, x))
    BY <2>1, ReadingWith, HandlerPayload
  <2> QED
    BY <1>2, <2>2, SanitizedPayload DEF Payload, Narrowed
<1> QED
  BY <1>1, <1>2

LEMMA ServedAnswer ==
  ASSUME NEW S, NEW p, PayloadOf(p, S), NEW audited \in BOOLEAN
  PROVE  AnswerOf(Served(p, audited), S)
<1>1. ~IsError([who |-> p.who, data |-> p.data, audited |-> audited])
  BY NoErrorOnlyStatus
<1> QED
  BY <1>1 DEF AnswerOf, PayloadOf, Served

LEMMA ReplyKnown ==
  ASSUME NEW q, NEW w, NEW x, Reading(q, w, x), NEW chart \in AllCharts, NEW way
  PROVE  AnswerOf(Reply(way, chart, q), Mine(w, x))
<1>1. AnswerOf(Refused(404), Mine(w, x))
  BY RefusedIsError DEF AnswerOf
<1>2. (way = "export" \/ chart \in Sensitive) \in BOOLEAN
  OBVIOUS
<1> QED
  BY <1>1, <1>2, PayloadKnown, ServedAnswer DEF Reply

LEMMA OptionsKnown ==
  ASSUME NEW q, NEW w, NEW x, Reading(q, w, x)
  PROVE  FilterOptions(q).students \subseteq Mine(w, x)
<1>1. CASE q.sc.role = "admin"
  BY <1>1, AdminKnowsAll, SchoolFields DEF FilterOptions, Reading, ScopeOf
<1>2. CASE q.sc.role # "admin"
  BY <1>2, ScopeStudents DEF FilterOptions
<1> QED
  BY <1>1, <1>2

LEMMA BrowseKnown ==
  ASSUME NEW q, NEW w, NEW x, Reading(q, w, x), NEW matching
  PROVE  /\ AnswerOf(GetFilterOptions(q), Mine(w, x))
         /\ AnswerOf(FindStudents(q, matching), Mine(w, x))
<1>1. AnswerOf(GetFilterOptions(q), Mine(w, x))
  BY OptionsKnown, NamedPayload, ServedAnswer DEF GetFilterOptions
<1>2. CASE q.sc.role # "admin"
  BY <1>1, <1>2, RefusedIsError DEF FindStudents, AnswerOf
<1>3. CASE q.sc.role = "admin"
  <2>1. SearchStudents(q, matching) \subseteq Mine(w, x)
    BY <1>3, AdminKnowsAll, SchoolFields DEF SearchStudents, Reading, ScopeOf
  <2> QED
    BY <1>1, <1>3, <2>1, NamedPayload, ServedAnswer DEF FindStudents
<1> QED
  BY <1>1, <1>2, <1>3

---------------------------------------------------------------------------
(* Pages: the student a page is headed with is the one its bar sends.      *)
PageOf(page, sc, settings) ==
  /\ FilterShape(page.form) /\ (page.child # None => page.form.student = page.child)
  /\ page.cards \subseteq ListCharts(sc, settings)

LEMMA NormalizedShape ==
  ASSUME NEW f, FilterShape(f)
  PROVE  /\ FilterShape(NormalizeFilterControls(f))
         /\ NormalizeFilterControls(f).student = f.student
<1> DEFINE one(single, list) == single = None /\ list # None /\ Len(list) = 1
           g == IF one(f.subject, f.subjects)
                THEN [f EXCEPT !.subject = f.subjects[1], !.subjects = None] ELSE f
<1>1. DOMAIN g = DOMAIN NoFilters /\ g.student = f.student
  BY FilterFields DEF FilterShape
<1>2. NormalizeFilterControls(f) =
        IF one(g.section, g.sections)
        THEN [g EXCEPT !.section = g.sections[1], !.sections = None] ELSE g
  BY DEF NormalizeFilterControls
<1> HIDE DEF g
<1>3. /\ DOMAIN NormalizeFilterControls(f) = DOMAIN NoFilters
      /\ NormalizeFilterControls(f).student = g.student
  BY <1>1, <1>2, FilterFields
<1> QED
  BY <1>1, <1>3 DEF FilterShape

LEMMA CardForm ==
  ASSUME NEW asked, NEW f, NEW rendered, NEW pinned, NEW o
  PROVE  /\ DOMAIN CardFilters(asked, f, rendered, pinned, o) = DOMAIN NoFilters
         /\ CardFilters(asked, f, rendered, pinned, o).student =
              IF "student" \in Editable(rendered) \cup pinned THEN f.student ELSE None
<1>1. "student" \in DOMAIN NoFilters
  BY FilterFields
<1>2. CASE "student" \in Editable(rendered)
  BY <1>1, <1>2 DEF CardFilters
<1>3. CASE "student" \in pinned \ Editable(rendered)
  BY <1>1, <1>3 DEF CardFilters
<1>4. CASE "student" \notin Editable(rendered) \cup pinned
  BY <1>1, <1>4 DEF CardFilters
<1> QED
  BY <1>2, <1>3, <1>4

Rendered(r, child, cards, S) ==
  /\ DOMAIN r = {"who", "audited", "data"} /\ r.who \subseteq S /\ r.audited = FALSE
  /\ r.data.child = child /\ r.data.cards = cards /\ FilterShape(r.data.form)
  /\ child # None => r.data.form.student = child

LEMMA RenderKnown ==
  ASSUME NEW q, NEW w, NEW x, Reading(q, w, x), NEW f, FilterShape(f),
         NEW child \in Mine(w, x) \cup {None}, NEW page, NEW cards, NEW declared,
         child # None => f.student = child /\ "student" \in declared
  PROVE  Rendered(RenderDashboard(q, f, child, page, cards, declared), child, cards, Mine(w, x))
<1> DEFINE g == NormalizeFilterControls(f)
           o == FilterOptions(q)
           rendered == RenderedFilters(page.filters, o)
           pinned == PinnedFilters(g, rendered, declared)
           form == CardFilters(q.f, g, rendered, pinned, o)
<1>1. RenderDashboard(q, f, child, page, cards, declared) =
          [who |-> o.students \cup ({child} \ {None}), audited |-> FALSE,
           data |-> [child |-> child, cards |-> cards, form |-> form]]
  BY DEF RenderDashboard
<1>2. FilterShape(g) /\ g.student = f.student
  BY NormalizedShape
<1>3. DOMAIN form = DOMAIN NoFilters /\ form.student \in {g.student, None}
  BY CardForm
<1>4. child # None => "student" \in Editable(rendered) \cup pinned
  BY <1>2 DEF PinnedFilters
<1>5. child # None => form.student = child
  BY <1>2, <1>4, CardForm
<1>6. o.students \subseteq Mine(w, x)
  BY OptionsKnown
<1> HIDE DEF g, o, rendered, pinned, form
<1>7. FilterShape(form)
  BY <1>2, <1>3 DEF FilterShape
<1> QED
  BY <1>1, <1>5, <1>6, <1>7 DEF Rendered

(* The cards of each portal's pages, and who may get them.                 *)
LEMMA PageCards ==
  /\ \A key \in DOMAIN STUDENT_PAGES :
       /\ STUDENT_PAGES[key].cards \subseteq StudentCharts \ {"student.insights"}
       /\ "student.remarks" \in STUDENT_PAGES[key].cards => key = "remarks"
  /\ \A key \in DOMAIN ClassroomPages : ClassroomPages[key].cards \subseteq SectionCharts
  /\ OverviewCards \subseteq
       StudentCharts \ {"student.insights", "student.insight_summary", "student.remarks"}
<1>1. ASSUME NEW key \in DOMAIN STUDENT_PAGES
      PROVE  /\ STUDENT_PAGES[key].cards \subseteq StudentCharts \ {"student.insights"}
             /\ "student.remarks" \in STUDENT_PAGES[key].cards => key = "remarks"
  BY <1>1 DEF STUDENT_PAGES, Page, OverviewCards, StudentCharts
<1>2. ASSUME NEW key \in DOMAIN ClassroomPages
      PROVE  ClassroomPages[key].cards \subseteq SectionCharts
  BY <1>2 DEF ClassroomPages, Page, SectionCharts
<1>3. OverviewCards \subseteq
        StudentCharts \ {"student.insights", "student.insight_summary", "student.remarks"}
  BY DEF OverviewCards, StudentCharts
<1> QED
  BY <1>1, <1>2, <1>3

LEMMA AdminCards ==
  /\ \A key \in DOMAIN SchoolPages :
       SchoolPages[key].cards \subseteq
         SchoolCharts \cup (StudentCharts \ {"student.insight_summary", "student.remarks"})
  /\ \A key \in DOMAIN AdminStudentPages :
       /\ AdminStudentPages[key].cards \subseteq StudentCharts \ {"student.insight_summary"}
       /\ "student.remarks" \in AdminStudentPages[key].cards => key = "remarks"
<1>1. ASSUME NEW key \in DOMAIN SchoolPages
      PROVE  SchoolPages[key].cards \subseteq
               SchoolCharts \cup (StudentCharts \ {"student.insight_summary", "student.remarks"})
  BY <1>1 DEF SchoolPages, Page, OverviewCards, StudentCharts, SchoolCharts
<1>2. STUDENT_PAGES.remarks.cards = {"student.remarks", "student.kpis"}
  BY DEF STUDENT_PAGES, Page
<1>3. ASSUME NEW key \in DOMAIN AdminStudentPages
      PROVE  /\ AdminStudentPages[key].cards \subseteq StudentCharts \ {"student.insight_summary"}
             /\ "student.remarks" \in AdminStudentPages[key].cards => key = "remarks"
  BY <1>2, <1>3 DEF AdminStudentPages, Page, OverviewCards, StudentCharts
<1> QED
  BY <1>1, <1>3

LEMMA ChartRoles ==
  /\ \A chart \in StudentCharts \ {"student.insights", "student.insight_summary"} :
       Roles(chart) = STAFF \cup PARENT_STUDENT
  /\ Roles("student.insights") = ADMIN_ONLY
  /\ Roles("student.insight_summary") = PARENT_STUDENT
  /\ \A chart \in SectionCharts : Roles(chart) = STAFF
  /\ \A chart \in SchoolCharts : Roles(chart) = ADMIN_ONLY
<1>1. ASSUME NEW chart \in StudentCharts \ {"student.insights", "student.insight_summary"}
      PROVE  Roles(chart) = STAFF \cup PARENT_STUDENT
  BY ChartsApart DEF Roles
<1>2. /\ "student.insight_summary" \in StudentCharts
      /\ "student.insight_summary" \notin SchoolCharts \cup {"student.insights"}
  BY ChartsApart DEF StudentCharts
<1>3. \A chart \in SectionCharts : chart \notin SchoolCharts \cup {"student.insights"}
  BY ChartsApart DEF SectionCharts, StudentCharts
<1>4. \A chart \in SectionCharts : chart # "student.insight_summary"
  BY DEF SectionCharts
<1>5. \A chart \in SchoolCharts :
        chart \notin SectionCharts \cup InterventionCharts /\ chart # "student.insight_summary"
  BY ChartsApart DEF SchoolCharts
<1>6. "student.insights" \notin SectionCharts \cup InterventionCharts
  BY DEF SectionCharts, InterventionCharts
<1>7. "student.insight_summary" \notin SectionCharts \cup InterventionCharts
  BY DEF SectionCharts, InterventionCharts
<1> QED
  BY <1>1, <1>2, <1>3, <1>4, <1>5, <1>6, <1>7 DEF Roles

LEMMA ChartSwitches ==
  ASSUME NEW chart \in StudentCharts \cup SectionCharts \cup SchoolCharts, NEW sc, NEW settings
  PROVE  /\ chart \in AllCharts
         /\ ChartAllowedForScope(chart, sc, settings) <=>
              /\ chart = "student.vs_class" => CohortBenchmarksVisible(sc, settings)
              /\ chart = "student.remarks" => settings.remarks
<1>1. chart \notin InterventionCharts
  BY ChartsApart
<1> QED
  BY <1>1 DEF ChartAllowedForScope, CohortOnly, AllCharts

LEMMA CardsListed ==
  ASSUME NEW sc, NEW settings, NEW cards,
         cards \subseteq StudentCharts \cup SectionCharts \cup SchoolCharts,
         \A chart \in cards :
           /\ sc.role \in Roles(chart)
           /\ chart = "student.vs_class" => CohortBenchmarksVisible(sc, settings)
           /\ chart = "student.remarks" => settings.remarks
  PROVE  cards \subseteq ListCharts(sc, settings)
BY ChartSwitches DEF ListCharts, MayGet

LEMMA FamilyCards ==
  ASSUME NEW sc, Family(sc), NEW settings, NEW key \in DOMAIN STUDENT_PAGES,
         key = "remarks" => settings.remarks
  PROVE  FilterPortalCards(STUDENT_PAGES[key].cards, sc, settings) \subseteq ListCharts(sc, settings)
<1> DEFINE cards == FilterPortalCards(STUDENT_PAGES[key].cards, sc, settings)
<1>1. cards \subseteq STUDENT_PAGES[key].cards
  BY DEF FilterPortalCards
<1>2. \A chart \in cards : chart = "student.vs_class" => CohortBenchmarksVisible(sc, settings)
  BY DEF FilterPortalCards, CohortOnly
<1>3. \A chart \in cards : chart \in StudentCharts /\ chart # "student.insights"
  BY <1>1, PageCards
<1>4. \A chart \in cards : sc.role \in Roles(chart)
  BY <1>3, ChartRoles DEF Family, PARENT_STUDENT
<1>5. \A chart \in cards : chart = "student.remarks" => settings.remarks
  BY <1>1, PageCards
<1> HIDE DEF cards
<1>6. cards \subseteq ListCharts(sc, settings)
  BY <1>2, <1>3, <1>4, <1>5, CardsListed
<1> QED
  BY <1>6 DEF cards

LEMMA StaffCards ==
  ASSUME NEW sc, sc.role \in STAFF, NEW settings
  PROVE  /\ \A key \in DOMAIN ClassroomPages :
              ClassroomPages[key].cards \subseteq ListCharts(sc, settings)
         /\ TeacherDetail.cards \subseteq ListCharts(sc, settings)
<1>1. CohortBenchmarksVisible(sc, settings)
  BY DEF STAFF, CohortBenchmarksVisible, Family
<1>2. ASSUME NEW key \in DOMAIN ClassroomPages
      PROVE  ClassroomPages[key].cards \subseteq ListCharts(sc, settings)
  <2> DEFINE cards == ClassroomPages[key].cards
  <2>1. \A chart \in cards : chart \in SectionCharts /\ Roles(chart) = STAFF
    BY PageCards, ChartRoles
  <2>2. "student.remarks" \notin SectionCharts
    BY DEF SectionCharts
  <2> HIDE DEF cards
  <2>3. cards \subseteq ListCharts(sc, settings)
    BY <1>1, <2>1, <2>2, CardsListed
  <2> QED
    BY <2>3 DEF cards
<1>3. \A chart \in OverviewCards : chart \in StudentCharts /\ sc.role \in Roles(chart)
  BY PageCards, ChartRoles
<1>4. "student.remarks" \notin OverviewCards
  BY PageCards
<1>5. OverviewCards \subseteq ListCharts(sc, settings)
  BY <1>1, <1>3, <1>4, CardsListed
<1> QED
  BY <1>2, <1>5 DEF TeacherDetail, Page

LEMMA PrincipalCards ==
  ASSUME NEW sc, sc.role = "admin", NEW settings
  PROVE  /\ \A key \in DOMAIN SchoolPages :
              SchoolPages[key].cards \subseteq ListCharts(sc, settings)
         /\ \A key \in DOMAIN AdminStudentPages :
              (key = "remarks" => settings.remarks) =>
                AdminStudentPages[key].cards \subseteq ListCharts(sc, settings)
<1>1. CohortBenchmarksVisible(sc, settings)
  BY DEF CohortBenchmarksVisible, Family
<1>2. \A chart \in SchoolCharts \cup (StudentCharts \ {"student.insight_summary"}) :
        sc.role \in Roles(chart)
  BY ChartRoles DEF STAFF, ADMIN_ONLY
<1>3. ASSUME NEW key \in DOMAIN SchoolPages
      PROVE  SchoolPages[key].cards \subseteq ListCharts(sc, settings)
  <2> DEFINE cards == SchoolPages[key].cards
  <2>1. \A chart \in cards :
          /\ chart \in SchoolCharts \cup (StudentCharts \ {"student.insight_summary"})
          /\ chart # "student.remarks"
    <3>1. "student.remarks" \notin SchoolCharts
      BY DEF SchoolCharts
    <3> QED
      BY <3>1, AdminCards
  <2> HIDE DEF cards
  <2>2. cards \subseteq ListCharts(sc, settings)
    BY <1>1, <1>2, <2>1, CardsListed
  <2> QED
    BY <2>2 DEF cards
<1>4. ASSUME NEW key \in DOMAIN AdminStudentPages, key = "remarks" => settings.remarks
      PROVE  AdminStudentPages[key].cards \subseteq ListCharts(sc, settings)
  <2> DEFINE cards == AdminStudentPages[key].cards
  <2>1. \A chart \in cards :
          /\ chart \in StudentCharts \ {"student.insight_summary"}
          /\ chart = "student.remarks" => settings.remarks
    BY <1>4, AdminCards
  <2> HIDE DEF cards
  <2>2. cards \subseteq ListCharts(sc, settings)
    BY <1>1, <1>2, <2>1, CardsListed
  <2> QED
    BY <2>2 DEF cards
<1> QED
  BY <1>3, <1>4

(* What a page answers.                                                    *)
PageAnswer(a, q, S) ==
  \/ IsError(a)
  \/ /\ DOMAIN a = {"who", "audited", "data"} /\ a.who \subseteq S /\ a.audited = FALSE
     /\ PageOf(a.data, q.sc, q.cfg)

LEMMA WithStudentShape ==
  ASSUME NEW f, FilterShape(f), NEW s \in Students \cup {None}
  PROVE  FilterShape(WithStudent(f, s)) /\ WithStudent(f, s).student = s
BY FilterFields DEF FilterShape, WithStudent

LEMMA RefusedPage ==
  ASSUME NEW q, NEW S PROVE PageAnswer(Refused(404), q, S)
BY RefusedIsError DEF PageAnswer

LEMMA RenderedPage ==
  ASSUME NEW q, NEW w, NEW x, Reading(q, w, x), NEW f, FilterShape(f),
         NEW child \in Mine(w, x) \cup {None}, NEW page, NEW cards, NEW declared,
         child # None => f.student = child /\ "student" \in declared,
         cards \subseteq ListCharts(q.sc, q.cfg)
  PROVE  PageAnswer(RenderDashboard(q, f, child, page, cards, declared), q, Mine(w, x))
<1> DEFINE r == RenderDashboard(q, f, child, page, cards, declared)
<1>1. Rendered(r, child, cards, Mine(w, x))
  BY RenderKnown
<1> HIDE DEF r
<1>2. PageOf(r.data, q.sc, q.cfg)
  BY <1>1 DEF Rendered, PageOf
<1>3. PageAnswer(r, q, Mine(w, x))
  BY <1>1, <1>2 DEF Rendered, PageAnswer
<1> QED
  BY <1>3 DEF r

LEMMA FamilyPageRight ==
  ASSUME NEW q, NEW w, NEW x, Reading(q, w, x), Family(q.sc), NEW key \in DOMAIN STUDENT_PAGES
  PROVE  PageAnswer(FamilyPage(q, key), q, Mine(w, x))
<1> DEFINE child == ResolveStudent(q.sc, q.f.student)
           cards == FilterPortalCards(STUDENT_PAGES[key].cards, q.sc, q.cfg)
<1>1. CASE FamilyPage(q, key) = Refused(404)
  BY <1>1, RefusedPage
<1>2. CASE FamilyPage(q, key) # Refused(404)
  <2>1. child # None /\ (key = "remarks" => q.cfg.remarks)
    BY <1>2 DEF FamilyPage
  <2>2. child \in Mine(w, x) /\ child \in Students
    BY <2>1, ResolvedKnown, MineIsSet
  <2>3. FamilyPage(q, key) =
          RenderDashboard(q, WithStudent(q.f, child), child, STUDENT_PAGES[key], cards, {"student"})
    BY <1>2 DEF FamilyPage
  <2>4. cards \subseteq ListCharts(q.sc, q.cfg)
    BY <2>1, FamilyCards
  <2>5. FilterShape(WithStudent(q.f, child)) /\ WithStudent(q.f, child).student = child
    BY <2>2, WithStudentShape DEF Reading
  <2> HIDE DEF child, cards
  <2> QED
    BY <2>2, <2>3, <2>4, <2>5, RenderedPage
<1> QED
  BY <1>1, <1>2

LEMMA ClassroomPageRight ==
  ASSUME NEW q, NEW w, NEW x, Reading(q, w, x), q.sc.role = "teacher",
         NEW key \in DOMAIN ClassroomPages
  PROVE  PageAnswer(ClassroomPage(q, key), q, Mine(w, x))
<1> DEFINE c == ResolveSection(q.sc, q.f.section)
           page == ClassroomPages[key]
<1>1. page.cards \subseteq ListCharts(q.sc, q.cfg)
  BY StaffCards DEF STAFF
<1>2. FilterShape(WithSection(q.f, c))
  BY WithSectionShape DEF Reading
<1>3. ClassroomPage(q, key) = Refused(404)
       \/ ClassroomPage(q, key) =
            RenderDashboard(q, WithSection(q.f, c), None, page, page.cards, {"section"})
  BY DEF ClassroomPage
<1> HIDE DEF c, page
<1> QED
  BY <1>1, <1>2, <1>3, RefusedPage, RenderedPage

LEMMA TeacherDetailRight ==
  ASSUME NEW q, NEW w, NEW x, Reading(q, w, x), q.sc.role = "teacher", NEW s \in Students
  PROVE  PageAnswer(TeacherStudentDetail(q, s), q, Mine(w, x))
<1>1. CASE ~Within(q.sc.student_ids, s)
  BY <1>1, RefusedPage DEF TeacherStudentDetail
<1>2. CASE Within(q.sc.student_ids, s)
  <2>1. s \in Mine(w, x)
    BY <1>2, WithinKnown, IdsAssumption
  <2>2. FilterShape(WithStudent(q.f, s)) /\ WithStudent(q.f, s).student = s
    BY WithStudentShape DEF Reading
  <2>3. TeacherDetail.cards \subseteq ListCharts(q.sc, q.cfg)
    BY StaffCards DEF STAFF
  <2>4. TeacherStudentDetail(q, s) =
          RenderDashboard(q, WithStudent(q.f, s), s, TeacherDetail, TeacherDetail.cards,
                          {"student"})
    BY <1>2 DEF TeacherStudentDetail
  <2> QED
    BY <2>1, <2>2, <2>3, <2>4, RenderedPage
<1> QED
  BY <1>1, <1>2

LEMMA SchoolPageRight ==
  ASSUME NEW q, NEW w, NEW x, Reading(q, w, x), q.sc.role = "admin",
         NEW key \in DOMAIN SchoolPages
  PROVE  PageAnswer(SchoolPage(q, key), q, Mine(w, x))
<1>1. SchoolPages[key].cards \subseteq ListCharts(q.sc, q.cfg)
  BY PrincipalCards
<1>2. FilterShape(q.f)
  BY DEF Reading
<1> QED
  BY <1>1, <1>2, RenderedPage DEF SchoolPage

LEMMA AdminStudentPageRight ==
  ASSUME NEW q, NEW w, NEW x, Reading(q, w, x), q.sc.role = "admin",
         NEW key \in DOMAIN AdminStudentPages, NEW s \in Students
  PROVE  PageAnswer(AdminStudentPage(q, key, s), q, Mine(w, x))
<1> DEFINE page == AdminStudentPages[key]
<1>1. CASE key = "remarks" /\ ~q.cfg.remarks
  BY <1>1, RefusedPage DEF AdminStudentPage
<1>2. CASE key = "remarks" => q.cfg.remarks
  <2>1. s \in Mine(w, x)
    BY AdminKnowsAll DEF Reading, ScopeOf
  <2>2. FilterShape(WithStudent(q.f, s)) /\ WithStudent(q.f, s).student = s
    BY WithStudentShape DEF Reading
  <2>3. page.cards \subseteq ListCharts(q.sc, q.cfg)
    BY <1>2, PrincipalCards
  <2>4. AdminStudentPage(q, key, s) =
          RenderDashboard(q, WithStudent(q.f, s), s, page, page.cards, {"student"})
    BY <1>2 DEF AdminStudentPage
  <2> HIDE DEF page
  <2> QED
    BY <2>1, <2>2, <2>3, <2>4, RenderedPage
<1> QED
  BY <1>1, <1>2

LEMMA PageRight ==
  ASSUME NEW q, NEW w, NEW x, Reading(q, w, x), NEW key, NEW s \in Students \cup {None}
  PROVE  PageAnswer(GetPage(q, key, s), q, Mine(w, x))
<1>1. CASE Family(q.sc) /\ s = None /\ key \in DOMAIN STUDENT_PAGES
  <2>1. GetPage(q, key, s) = FamilyPage(q, key)
    BY <1>1 DEF GetPage, Family
  <2> QED
    BY <1>1, <2>1, FamilyPageRight
<1>2. CASE q.sc.role = "teacher" /\ s = None /\ key \in DOMAIN ClassroomPages
  <2>1. GetPage(q, key, s) = ClassroomPage(q, key)
    BY <1>2 DEF GetPage, Family
  <2> QED
    BY <1>2, <2>1, ClassroomPageRight
<1>3. CASE q.sc.role = "teacher" /\ s # None /\ key = "overview"
  <2>1. GetPage(q, key, s) = TeacherStudentDetail(q, s)
    BY <1>3 DEF GetPage, Family
  <2> QED
    BY <1>3, <2>1, TeacherDetailRight
<1>4. CASE q.sc.role = "admin" /\ s = None /\ key \in DOMAIN SchoolPages
  <2>1. GetPage(q, key, s) = SchoolPage(q, key)
    BY <1>4 DEF GetPage, Family
  <2> QED
    BY <1>4, <2>1, SchoolPageRight
<1>5. CASE q.sc.role = "admin" /\ s # None /\ key \in DOMAIN AdminStudentPages
  <2>1. GetPage(q, key, s) = AdminStudentPage(q, key, s)
    BY <1>5 DEF GetPage, Family
  <2> QED
    BY <1>5, <2>1, AdminStudentPageRight
<1>6. CASE /\ ~(Family(q.sc) /\ s = None /\ key \in DOMAIN STUDENT_PAGES)
           /\ ~(q.sc.role = "teacher" /\ s = None /\ key \in DOMAIN ClassroomPages)
           /\ ~(q.sc.role = "teacher" /\ s # None /\ key = "overview")
           /\ ~(q.sc.role = "admin" /\ s = None /\ key \in DOMAIN SchoolPages)
           /\ ~(q.sc.role = "admin" /\ s # None /\ key \in DOMAIN AdminStudentPages)
  <2>1. GetPage(q, key, s) = Refused(404)
    BY <1>6 DEF GetPage
  <2> QED
    BY <2>1, RefusedPage
<1> QED
  BY <1>1, <1>2, <1>3, <1>4, <1>5, <1>6

(* A chart that is asked for one student names that student or nobody.     *)
LEMMA TargetIsAsked ==
  ASSUME NEW q, q.f.student # None
  PROVE  TargetStudent(q) \in {q.f.student, None}
BY DEF TargetStudent, ResolveStudent

LEMMA ReplyNamesAsked ==
  ASSUME NEW q, NEW w, NEW x, Reading(q, w, x), NEW chart \in StudentCharts,
         q.f.student # None, NEW way
  PROVE  IsError(Reply(way, chart, q)) \/ Reply(way, chart, q).who = {q.f.student}
<1> DEFINE f == Narrow(q.sc, q.f)
           g == [q EXCEPT !.f = f]
           h == Handler(chart, g)
           p0 == SanitizeFamilyChart(chart, h, q)
           a == Reply(way, chart, q)
<1> SUFFICES ASSUME ~IsError(a) PROVE a.who = {q.f.student}
  OBVIOUS
<1>1. /\ ~IsError(Payload(chart, q))
      /\ a = [who |-> Payload(chart, q).who, data |-> Payload(chart, q).data,
              audited |-> way = "export" \/ chart \in Sensitive]
  BY RefusedIsError DEF Reply, Served
<1>2. ~IsError(f) /\ Payload(chart, q) = p0
  BY <1>1 DEF Payload, Narrowed
<1>3. FilterShape(f) /\ f.student = q.f.student
  BY <1>2, NarrowShape DEF Reading
<1>4. Reading(g, w, x) /\ g.f = f
  BY <1>3, ReadingWith
<1>5. ~IsError(h)
  BY <1>1, <1>2 DEF SanitizeFamilyChart
<1>6. h = StudentChart(chart, g)
  <2>1. ~(chart = "student.remarks" /\ ~g.cfg.remarks) /\ chart \notin InterventionCharts
    BY <1>5, ChartsApart, RefusedIsError DEF Handler
  <2> QED
    BY <2>1, ChartsApart DEF Handler
<1>7. TargetStudent(g) = q.f.student
  <2>1. TargetStudent(g) # None
    BY <1>5, <1>6, RefusedIsError DEF StudentChart, AboutStudent
  <2> QED
    BY <1>3, <1>4, <2>1, TargetIsAsked
<1>8. DOMAIN h = {"who", "data"} /\ h.who = {q.f.student}
  BY <1>5, <1>6, <1>7, RefusedIsError DEF StudentChart, AboutStudent, Named
<1> HIDE DEF h
<1>9. p0.who = h.who
  BY <1>8 DEF SanitizeFamilyChart
<1> QED
  BY <1>1, <1>2, <1>8, <1>9

---------------------------------------------------------------------------
(* The inductive invariant: a request that is under way has a scope that   *)
(* was read from one school, whatever the school is now; a page it opened  *)
(* keeps the student it is headed with; an answer is what its handler gave.*)
Stages == {"new", "open", "page", "done"}
RequestFields ==
  {"stage", "viewer", "filters", "scope", "way", "chart", "page", "answer"}

UnderWay ==
  /\ req.stage # "new" => req.viewer \in Viewers /\ FilterShape(req.filters)
  /\ req.stage \in {"open", "page"} => ScopeOf(was, req.viewer, req.scope)
  /\ req.stage = "open" => req.answer = None /\ req.page = None
  /\ req.stage = "page" => PageOf(req.page, req.scope, cfg)
  /\ req.stage \in {"open", "page"} => req.chart = None

NamesKnown ==
  Answered => req.answer.who \subseteq Mine(was, req.viewer) /\ req.answer.audited \in BOOLEAN

OfItsPage ==
  Answered /\ req.page # None /\ req.chart \in StudentCharts /\ req.page.child # None =>
    req.answer.who = {req.page.child}

Handled ==
  req.stage = "done" /\ req.chart # None =>
    /\ req.chart \in AllCharts /\ ScopeOf(was, req.viewer, req.scope)
    /\ req.answer = Reply(req.way, req.chart, Query(school))

PortalInv ==
  /\ school \in School /\ was \in School /\ cfg \in Settings /\ changes \in 0..MaxChanges
  /\ DOMAIN req = RequestFields /\ req.stage \in Stages
  /\ req.stage = "new" => req = NoRequest
  /\ UnderWay /\ NamesKnown /\ OfItsPage /\ Handled

LEMMA PortalInit == Init => PortalInv
<1> SUFFICES ASSUME Init PROVE PortalInv
  OBVIOUS
<1>1. PICK v \in Worlds : school = v.school /\ was = v.school /\ cfg = v.cfg
  BY DEF Init
<1>2. school \in School /\ was \in School /\ cfg \in Settings
  BY <1>1, InputsAssumption
<1>3. req = NoRequest /\ changes = 0 /\ MaxChanges \in Nat
  BY InputsAssumption DEF Init
<1>4. DOMAIN req = RequestFields /\ req.stage = "new" /\ req.answer = None
  BY <1>3 DEF NoRequest, RequestFields
<1>5. UnderWay /\ NamesKnown /\ OfItsPage /\ Handled
  BY <1>4 DEF UnderWay, NamesKnown, OfItsPage, Handled, Answered
<1> QED
  BY <1>2, <1>3, <1>4, <1>5 DEF PortalInv, Stages

(* The queries the actions put together.                                   *)
LEMMA FilterParamsShape == ASSUME NEW f \in FilterParams PROVE FilterShape(f)
BY FilterFields DEF FilterParams, FilterShape

LEMMA QueryReading ==
  ASSUME NEW d, d \in School, NEW c, NEW f, FilterShape(f), NEW sc, NEW last,
         NEW w, w \in School, NEW x \in Viewers, ScopeOf(w, x, sc)
  PROVE  Reading([d |-> d, cfg |-> c, f |-> f, sc |-> sc, last |-> last], w, x)
BY DEF Reading, QueryFields

LEMMA OpenQuery ==
  ASSUME PortalInv, req.stage = "open"
  PROVE  Reading(Query(school), was, req.viewer)
<1>1. /\ school \in School /\ was \in School /\ FilterShape(req.filters)
      /\ req.viewer \in Viewers /\ ScopeOf(was, req.viewer, req.scope)
  BY DEF PortalInv, UnderWay
<1> QED
  BY <1>1, QueryReading DEF Query

(* How a request ends.                                                     *)
LEMMA EndsKnown ==
  ASSUME PortalInv, req.stage = "open", NEW way, NEW chart, NEW answer,
         Finish(way, chart, answer), school' \in School,
         AnswerOf(answer, Mine(was, req.viewer)),
         chart # None => /\ chart \in AllCharts /\ school' = school
                         /\ answer = Reply(way, chart, Query(school))
  PROVE  PortalInv'
<1>1. req' = [req EXCEPT !.stage = "done", !.way = way, !.chart = chart, !.answer = answer]
  BY DEF Finish
<1>2. DOMAIN req = RequestFields
  BY DEF PortalInv
<1>3. /\ DOMAIN req' = RequestFields /\ req'.stage = "done" /\ req'.way = way
      /\ req'.chart = chart /\ req'.answer = answer /\ req'.viewer = req.viewer
      /\ req'.filters = req.filters /\ req'.scope = req.scope /\ req'.page = req.page
  BY <1>1, <1>2 DEF RequestFields
<1>4. was' = was /\ cfg' = cfg /\ changes' = changes
  BY DEF Finish
<1>5. UnderWay'
  BY <1>3, <1>4 DEF PortalInv, UnderWay
<1>6. NamesKnown'
  BY <1>3, <1>4 DEF NamesKnown, Answered, AnswerOf
<1>7. OfItsPage'
  BY <1>3 DEF OfItsPage, PortalInv, UnderWay
<1>8. Handled'
  <2> SUFFICES ASSUME chart # None
               PROVE  /\ chart \in AllCharts /\ ScopeOf(was, req.viewer, req.scope)
                      /\ answer = Reply(way, chart, Query(school)')
    BY <1>3, <1>4 DEF Handled
  <2>1. Query(school)' = Query(school)
    BY <1>3, <1>4 DEF Query
  <2> QED
    BY <2>1 DEF PortalInv, UnderWay
<1> QED
  BY <1>3, <1>4, <1>5, <1>6, <1>7, <1>8 DEF PortalInv, Stages

LEMMA OpenKeeps ==
  ASSUME PortalInv, req.stage = "new", NEW x \in Viewers, NEW f \in Asked, OpenAs(x, f)
  PROVE  PortalInv'
<1> DEFINE scope == GetAccessScope(school, x, f.year)
           error == IsError(scope) \/ ~ValidFilters(f)
           answer == IF IsError(scope) THEN scope
                     ELSE IF ~ValidFilters(f) THEN Refused(422) ELSE None
<1>1. /\ req' = [req EXCEPT !.stage = IF error THEN "done" ELSE "open", !.viewer = x,
                            !.filters = f, !.scope = scope, !.answer = answer]
      /\ was' = school /\ UNCHANGED <<school, cfg, changes>>
  BY DEF OpenAs
<1>2. /\ DOMAIN req = RequestFields /\ req.chart = None /\ req.page = None
      /\ school \in School /\ cfg \in Settings /\ changes \in 0..MaxChanges
  BY DEF PortalInv, NoRequest
<1>3. FilterShape(f)
  BY FilterParamsShape, InputsAssumption
<1>4. error => IsError(answer)
  BY RefusedIsError
<1>5. ~error => answer = None /\ ScopeOf(school, x, scope)
  BY <1>2, ScopeRight
<1> HIDE DEF scope, error, answer
<1>6. /\ DOMAIN req' = RequestFields /\ req'.viewer = x /\ req'.filters = f
      /\ req'.scope = scope /\ req'.answer = answer /\ req'.chart = None
      /\ req'.page = None /\ req'.stage = IF error THEN "done" ELSE "open"
  BY <1>1, <1>2 DEF RequestFields
<1>7. UnderWay'
  BY <1>1, <1>3, <1>5, <1>6 DEF UnderWay
<1>8. ~Answered'
  BY <1>4, <1>5, <1>6 DEF Answered
<1>9. NamesKnown' /\ OfItsPage' /\ Handled'
  BY <1>6, <1>8 DEF NamesKnown, OfItsPage, Handled
<1> QED
  BY <1>1, <1>2, <1>6, <1>7, <1>9 DEF PortalInv, Stages

LEMMA AnswerKeeps == ASSUME PortalInv, Answer PROVE PortalInv'
<1>1. PICK way \in {"chart", "export"}, chart \in AllCharts :
        Finish(way, chart, Reply(way, chart, Query(school)))
  BY DEF Answer
<1>2. req.stage = "open" /\ school' = school /\ school' \in School
  BY DEF Answer, PortalInv
<1>3. AnswerOf(Reply(way, chart, Query(school)), Mine(was, req.viewer))
  BY <1>2, OpenQuery, ReplyKnown
<1> QED
  BY <1>1, <1>2, <1>3, EndsKnown

LEMMA BrowseKeeps == ASSUME PortalInv, Browse PROVE PortalInv'
<1>1. req.stage = "open" /\ school' = school /\ school' \in School
  BY DEF Browse, PortalInv
<1>2. CASE Finish("filters", None, GetFilterOptions(Query(school)))
  <2>1. AnswerOf(GetFilterOptions(Query(school)), Mine(was, req.viewer))
    BY <1>1, OpenQuery, BrowseKnown
  <2> QED
    BY <1>1, <1>2, <2>1, EndsKnown
<1>3. ASSUME NEW matching \in SUBSET Students,
             Finish("search", None, FindStudents(Query(school), matching))
      PROVE  PortalInv'
  <2>1. AnswerOf(FindStudents(Query(school), matching), Mine(was, req.viewer))
    BY <1>1, OpenQuery, BrowseKnown
  <2> QED
    BY <1>1, <1>3, <2>1, EndsKnown
<1> QED
  BY <1>2, <1>3 DEF Browse

LEMMA NoteTyped ==
  ASSUME school \in School, NEW r \in Written
  PROVE  [school EXCEPT !.remarks = @ \cup {Note(r)}] \in School
<1>1. Note(r) \in [student: Students, category: RemarkCategory,
                  term: DOMAIN Term \cup {None}, year: Years, age: Nat]
  BY InputsAssumption, CurrentYearAssumption DEF Note
<1> QED
  BY <1>1 DEF School

LEMMA RemarkKeeps == ASSUME PortalInv, CreateRemark PROVE PortalInv'
<1>1. req.stage = "open" /\ school \in School
  BY DEF CreateRemark, PortalInv
<1>2. PICK r \in Written :
        \/ /\ MayRemark(r)
           /\ Finish("remark", None, Served(Named({r.student}, None), FALSE))
           /\ school' = [school EXCEPT !.remarks = @ \cup {Note(r)}]
        \/ /\ ~MayRemark(r)
           /\ Finish("remark", None, Refused(IF req.scope.role = "teacher" THEN 404 ELSE 403))
           /\ UNCHANGED school
  BY DEF CreateRemark
<1>3. CASE MayRemark(r)
  <2>1. r.student \in Students /\ Within(Query(school).sc.student_ids, r.student)
    BY <1>3, InputsAssumption DEF MayRemark, Query
  <2>2. {r.student} \subseteq Mine(was, req.viewer)
    BY <1>1, <2>1, OpenQuery, WithinKnown, IdsAssumption
  <2>3. AnswerOf(Served(Named({r.student}, None), FALSE), Mine(was, req.viewer))
    BY <2>2, NamedPayload, ServedAnswer
  <2> QED
    BY <1>1, <1>2, <1>3, <2>3, NoteTyped, EndsKnown
<1>4. CASE ~MayRemark(r)
  <2> DEFINE n == IF req.scope.role = "teacher" THEN 404 ELSE 403
  <2>1. AnswerOf(Refused(n), Mine(was, req.viewer))
    BY RefusedIsError DEF AnswerOf
  <2>2. Finish("remark", None, Refused(n)) /\ school' = school
    BY <1>2, <1>4
  <2> HIDE DEF n
  <2> QED
    BY <1>1, <2>1, <2>2, EndsKnown
<1> QED
  BY <1>3, <1>4

LEMMA VisitKeeps ==
  ASSUME PortalInv, req.stage = "new", NEW x \in Viewers, NEW v \in Visits, VisitAs(x, v)
  PROVE  PortalInv'
<1> DEFINE scope == GetAccessScope(school, x, v.filters.year)
           q == [d |-> school, cfg |-> cfg, f |-> v.filters, sc |-> scope, last |-> cfg.last]
           answer == IF IsError(scope) THEN scope ELSE GetPage(q, v.key, v.student)
<1>1. /\ req' = [req EXCEPT !.stage = IF IsError(answer) THEN "done" ELSE "page", !.viewer = x,
                            !.filters = v.filters, !.scope = scope,
                            !.page = IF IsError(answer) THEN None ELSE answer.data,
                            !.answer = answer]
      /\ was' = school /\ UNCHANGED <<school, cfg, changes>>
  BY DEF VisitAs
<1>2. /\ DOMAIN req = RequestFields /\ req.chart = None
      /\ school \in School /\ cfg \in Settings /\ changes \in 0..MaxChanges
  BY DEF PortalInv, NoRequest
<1>3. FilterShape(v.filters) /\ v.student \in Students \cup {None}
  BY FilterParamsShape, InputsAssumption
<1>4. ASSUME ~IsError(scope)
      PROVE  ScopeOf(school, x, scope) /\ PageAnswer(answer, q, Mine(school, x))
  <2>1. ScopeOf(school, x, scope)
    BY <1>2, <1>4, ScopeRight
  <2>2. Reading(q, school, x)
    BY <1>2, <1>3, <2>1, QueryReading
  <2> HIDE DEF q, scope
  <2>3. PageAnswer(GetPage(q, v.key, v.student), q, Mine(school, x))
    BY <1>3, <2>2, PageRight
  <2> QED
    BY <1>4, <2>1, <2>3
<1>5. IsError(scope) => IsError(answer)
  OBVIOUS
<1>6. q.sc = scope /\ q.cfg = cfg
  OBVIOUS
<1> HIDE DEF scope, q, answer
<1>7. ~IsError(answer) =>
        /\ ScopeOf(school, x, scope) /\ answer.who \subseteq Mine(school, x)
        /\ answer.audited = FALSE /\ PageOf(answer.data, scope, cfg)
  BY <1>4, <1>5, <1>6 DEF PageAnswer
<1>8. /\ DOMAIN req' = RequestFields /\ req'.viewer = x /\ req'.filters = v.filters
      /\ req'.scope = scope /\ req'.answer = answer /\ req'.chart = None
      /\ req'.stage = (IF IsError(answer) THEN "done" ELSE "page")
      /\ (~IsError(answer) => req'.page = answer.data)
  BY <1>1, <1>2 DEF RequestFields
<1>9. UnderWay'
  BY <1>1, <1>3, <1>7, <1>8 DEF UnderWay
<1>10. NamesKnown'
  BY <1>1, <1>7, <1>8 DEF NamesKnown, Answered
<1>11. OfItsPage' /\ Handled'
  BY <1>8, InputsAssumption DEF OfItsPage, Handled, AllCharts
<1> QED
  BY <1>1, <1>2, <1>8, <1>9, <1>10, <1>11 DEF PortalInv, Stages

LEMMA CardKeeps ==
  ASSUME PortalInv, req.stage = "page", NEW chart \in req.page.cards, Fetch(chart)
  PROVE  PortalInv'
<1> DEFINE f == req.page.form
           x == req.viewer
           scope == GetAccessScope(school, x, f.year)
           q == [d |-> school, cfg |-> cfg, f |-> f, sc |-> scope, last |-> cfg.last]
           card == IF IsError(scope) THEN None ELSE chart
           answer == IF IsError(scope) THEN scope ELSE Reply("chart", chart, q)
<1>1. /\ req' = [req EXCEPT !.stage = "done", !.filters = f, !.scope = scope, !.way = "chart",
                            !.chart = card, !.answer = answer]
      /\ was' = school /\ UNCHANGED <<school, cfg, changes>>
  BY DEF Fetch
<1>2. /\ DOMAIN req = RequestFields /\ x \in Viewers /\ PageOf(req.page, req.scope, cfg)
      /\ school \in School /\ cfg \in Settings /\ changes \in 0..MaxChanges
  BY DEF PortalInv, UnderWay
<1>3. /\ FilterShape(f) /\ (req.page.child # None => f.student = req.page.child)
      /\ chart \in AllCharts
  BY <1>2 DEF PageOf, ListCharts
<1>4. ASSUME ~IsError(scope)
      PROVE  ScopeOf(school, x, scope) /\ Reading(q, school, x)
  <2>1. ScopeOf(school, x, scope)
    BY <1>2, <1>4, ScopeRight
  <2> QED
    BY <1>2, <1>3, <2>1, QueryReading
<1>5. q.f = f
  OBVIOUS
<1>6. /\ IsError(scope) => IsError(answer) /\ card = None
      /\ ~IsError(scope) => answer = Reply("chart", chart, q) /\ card = chart
  OBVIOUS
<1>7. q = [d |-> school, cfg |-> cfg, f |-> f, sc |-> scope, last |-> cfg.last]
  OBVIOUS
<1> HIDE DEF scope, q, card, answer
<1>8. /\ DOMAIN req' = RequestFields /\ req'.stage = "done" /\ req'.filters = f
      /\ req'.scope = scope /\ req'.way = "chart" /\ req'.chart = card
      /\ req'.answer = answer /\ req'.page = req.page /\ req'.viewer = x
  BY <1>1, <1>2 DEF RequestFields
<1>9. UnderWay'
  BY <1>2, <1>3, <1>8 DEF UnderWay
<1>10. NamesKnown'
  <2> SUFFICES ASSUME Answered'
               PROVE  answer.who \subseteq Mine(school, x) /\ answer.audited \in BOOLEAN
    BY <1>1, <1>8 DEF NamesKnown
  <2>1. ~IsError(scope) /\ ~IsError(answer)
    BY <1>6, <1>8 DEF Answered
  <2>2. AnswerOf(answer, Mine(school, x))
    BY <1>3, <1>4, <1>6, <2>1, ReplyKnown
  <2> QED
    BY <2>1, <2>2 DEF AnswerOf
<1>11. OfItsPage'
  <2> SUFFICES ASSUME Answered', card \in StudentCharts, req.page.child # None
               PROVE  answer.who = {req.page.child}
    BY <1>8 DEF OfItsPage
  <2>1. ~IsError(scope) /\ ~IsError(answer)
    BY <1>6, <1>8 DEF Answered
  <2>2. q.f.student # None /\ card = chart
    BY <1>3, <1>5, <1>6, <2>1
  <2>3. answer.who = {q.f.student}
    BY <1>4, <1>6, <2>1, <2>2, ReplyNamesAsked
  <2> QED
    BY <1>3, <1>5, <2>3
<1>12. Handled'
  <2> SUFFICES ASSUME card # None
               PROVE  /\ card \in AllCharts /\ ScopeOf(school, x, scope)
                      /\ answer = Reply("chart", card, Query(school)')
    BY <1>1, <1>8 DEF Handled
  <2>1. ~IsError(scope)
    BY <1>6
  <2>2. Query(school)' = q
    BY <1>1, <1>7, <1>8 DEF Query
  <2> QED
    BY <1>3, <1>4, <1>6, <2>1, <2>2
<1> QED
  BY <1>1, <1>2, <1>8, <1>9, <1>10, <1>11, <1>12 DEF PortalInv, Stages

(* What an import or an administrator does to the school.                  *)
LEMMA ChangeKeeps ==
  ASSUME PortalInv, NEW d, d \in School, Change(d) PROVE PortalInv'
<1>1. /\ req.stage \in {"open", "page"} /\ changes' = changes + 1 /\ changes < MaxChanges
      /\ school' = d /\ UNCHANGED <<cfg, req, was>>
  BY DEF Change
<1>2. changes' \in 0..MaxChanges
  BY <1>1, InputsAssumption DEF PortalInv
<1>3. UnderWay' /\ NamesKnown' /\ OfItsPage' /\ Handled'
  BY <1>1 DEF PortalInv, UnderWay, NamesKnown, OfItsPage, Handled, Answered
<1> QED
  BY <1>1, <1>2, <1>3 DEF PortalInv, Stages

LEMMA ChangesTyped ==
  ASSUME school \in School
  PROVE  /\ \A s \in Students, c \in Sections : [school EXCEPT !.home[s] = c] \in School
         /\ \A s \in Students : [school EXCEPT !.active = @ \ {s}] \in School
         /\ \A y \in school.assigned, t \in Teachers :
              [school EXCEPT !.assigned = (@ \ {y}) \cup {<<t, y[2], y[3]>>}] \in School
         /\ \A c \in Sections, t \in Teachers : [school EXCEPT !.homeroom[c] = t] \in School
         /\ \A s \in Students, g \in Guardians \cup {None} :
              [school EXCEPT !.guardian[s] = g] \in School
<1>1. ASSUME NEW s \in Students, NEW c \in Sections
      PROVE  [school EXCEPT !.home[s] = c] \in School
  BY DEF School
<1>2. ASSUME NEW s \in Students PROVE [school EXCEPT !.active = @ \ {s}] \in School
  BY DEF School
<1>3. ASSUME NEW y \in school.assigned, NEW t \in Teachers
      PROVE  [school EXCEPT !.assigned = (@ \ {y}) \cup {<<t, y[2], y[3]>>}] \in School
  BY DEF School
<1>4. ASSUME NEW c \in Sections, NEW t \in Teachers
      PROVE  [school EXCEPT !.homeroom[c] = t] \in School
  BY DEF School
<1>5. ASSUME NEW s \in Students, NEW g \in Guardians \cup {None}
      PROVE  [school EXCEPT !.guardian[s] = g] \in School
  BY DEF School
<1> QED
  BY <1>1, <1>2, <1>3, <1>4, <1>5

LEMMA PortalStep == PortalInv /\ [Next]_vars => PortalInv'
<1> SUFFICES ASSUME PortalInv, [Next]_vars PROVE PortalInv'
  OBVIOUS
<1>1. CASE Open
  BY <1>1, OpenKeeps DEF Open
<1>2. CASE Answer
  BY <1>2, AnswerKeeps
<1>3. CASE Browse
  BY <1>3, BrowseKeeps
<1>4. CASE CreateRemark
  BY <1>4, RemarkKeeps
<1>5. CASE Visit
  BY <1>5, VisitKeeps DEF Visit
<1>6. CASE Card
  BY <1>6, CardKeeps DEF Card
<1>7. CASE Move \/ Retire \/ Reassign \/ Rehome \/ Reguard
  <2>1. school \in School
    BY DEF PortalInv
  <2>2. \E d \in School : Change(d)
    BY <1>7, <2>1, ChangesTyped DEF Move, Retire, Reassign, Rehome, Reguard
  <2> QED
    BY <2>2, ChangeKeeps
<1>8. CASE UNCHANGED vars
  BY <1>8 DEF vars, PortalInv, UnderWay, NamesKnown, OfItsPage, Handled, Answered, Query
<1> QED
  BY <1>1, <1>2, <1>3, <1>4, <1>5, <1>6, <1>7, <1>8 DEF Next

LEMMA PortalInvariant == Spec => []PortalInv
BY PortalInit, PortalStep, PTL DEF Spec

(* Every reachable state is well typed: the tables (models.py), the        *)
(* settings of the tenant, the request and the names in its answer.        *)
THEOREM PortalTypeCorrect == Spec => []TypeOK
<1>1. PortalInv => TypeOK
  <2> SUFFICES ASSUME PortalInv PROVE TypeOK
    OBVIOUS
  <2>1. req.viewer \in Viewers \cup {None}
    BY DEF PortalInv, UnderWay, NoRequest
  <2>2. Answered => req.answer.who \subseteq Students /\ req.answer.audited \in BOOLEAN
    BY MineIsSet DEF PortalInv, NamesKnown
  <2> QED
    BY <2>1, <2>2 DEF PortalInv, TypeOK, Stages
<1> QED
  BY <1>1, PortalInvariant, PTL

(* README.md:145-150: whatever chart, file, list, page or search a caller  *)
(* asks for, and whatever happens to the school between the reading of the *)
(* scope and the answer, nobody is named whom the caller could not know    *)
(* when the scope was read.                                                *)
THEOREM NamesSound == Spec => []NamedAreKnown
<1>1. PortalInv => NamedAreKnown
  BY DEF PortalInv, NamesKnown, NamedAreKnown, Mine
<1> QED
  BY <1>1, PortalInvariant, PTL

(* portals.py:175-181 and policy.py:57-83: a page offers no card that is   *)
(* then refused to its reader, and a card about a student is about the one *)
(* the page is headed with, whatever has changed since.                    *)
THEOREM CardsSound == Spec => []CardsKeepToTheirPage
<1>1. PortalInv => CardsKeepToTheirPage
  BY DEF PortalInv, UnderWay, PageOf, OfItsPage, CardsKeepToTheirPage
<1> QED
  BY <1>1, PortalInvariant, PTL

---------------------------------------------------------------------------
(* What an answer rests on.  Two queries are twins if they differ in what  *)
(* their schools hold outside a set R of results and a set M of students:  *)
(* the second lacks the other results and remarks, and its register may    *)
(* say anything about the other students.                                  *)
Results == Students \X Papers

Twins(q, p, R, M) ==
  /\ DOMAIN q = QueryFields /\ DOMAIN p = QueryFields
  /\ p.cfg = q.cfg /\ p.f = q.f /\ p.sc = q.sc /\ p.last = q.last
  /\ p.d.active = q.d.active /\ p.d.home = q.d.home /\ p.d.assigned = q.d.assigned
  /\ \A k \in Results : p.d.score[k] = IF k \in R THEN q.d.score[k] ELSE None
  /\ \A s \in M : \A t \in DOMAIN Day : p.d.register[<<s, t>>] = q.d.register[<<s, t>>]
  /\ p.d.remarks = {r \in q.d.remarks : r.student \in M}

(* All results within a scope are in R.                                    *)
Covers(sc, R) == \A k \in Results : ScopeConditions(sc, k) => k \in R

(* Both queries select the same results and see the same marks there.      *)
SameMarks(q, p, K) == \A k \in K : Pct(p, k) = Pct(q, k)
SameRows(q, p) ==
  /\ Rows(p) = Rows(q) /\ BaseSelect(p) = BaseSelect(q)
  /\ \A k \in Rows(q) : p.d.score[k] = q.d.score[k]
  /\ SameMarks(q, p, BaseSelect(q))

LEMMA TwinFilters ==
  ASSUME NEW q, NEW p, NEW R, NEW M, Twins(q, p, R, M), NEW f
  PROVE  Twins([q EXCEPT !.f = f], [p EXCEPT !.f = f], R, M)
BY DEF Twins, QueryFields

LEMMA TwinScope ==
  ASSUME NEW q, NEW p, NEW R, NEW M, Twins(q, p, R, M), NEW sc
  PROVE  Twins([q EXCEPT !.sc = sc], [p EXCEPT !.sc = sc], R, M)
BY DEF Twins, QueryFields

LEMMA TwinRows ==
  ASSUME NEW q, NEW p, NEW R, NEW M, Twins(q, p, R, M), Covers(q.sc, R)
  PROVE  SameRows(q, p)
<1>1. ASSUME NEW k \in Results
      PROVE  FilterConditions(p.d, p.f, k) <=> FilterConditions(q.d, q.f, k)
  BY DEF Twins, FilterConditions
<1>2. ASSUME NEW k \in Results, ScopeConditions(q.sc, k)
      PROVE  p.d.score[k] = q.d.score[k]
  BY <1>2 DEF Twins, Covers
<1>3. p.sc = q.sc
  BY DEF Twins
<1>4. Rows(p) = Rows(q)
  BY <1>1, <1>2, <1>3 DEF Rows, Results
<1>5. \A k \in Rows(q) : p.d.score[k] = q.d.score[k]
  BY <1>2 DEF Rows, Results
<1>6. BaseSelect(p) = BaseSelect(q)
  BY <1>4, <1>5 DEF BaseSelect
<1>7. SameMarks(q, p, BaseSelect(q))
  BY <1>5 DEF SameMarks, BaseSelect, Pct
<1> QED
  BY <1>4, <1>5, <1>6, <1>7 DEF SameRows

(* Sums and averages of the same marks.                                    *)
LEMMA SubMarks ==
  ASSUME NEW q, NEW p, NEW K, SameMarks(q, p, K), NEW L, L \subseteq K
  PROVE  SameMarks(q, p, L)
BY DEF SameMarks

LEMMA PartWithin ==
  ASSUME NEW group, NEW v, NEW K PROVE Part(group, v, K) \subseteq K
BY DEF Part

LEMMA SameAvg ==
  ASSUME NEW q, NEW p, NEW K, SameMarks(q, p, K)
  PROVE  /\ WeightedAvg(p, K) = WeightedAvg(q, K) /\ PlainAvg(p, K) = PlainAvg(q, K)
         /\ Pcts(p, K) = Pcts(q, K)
<1>1. [k \in K |-> Pct(p, k)] = [k \in K |-> Pct(q, k)]
  BY DEF SameMarks
<1>2. [k \in K |-> Pct(p, k) * PaperOf(k).weight] = [k \in K |-> Pct(q, k) * PaperOf(k).weight]
  BY DEF SameMarks
<1>3. Points(p, K) = Points(q, K)
  BY <1>1 DEF Points
<1> QED
  BY <1>1, <1>2, <1>3 DEF WeightedAvg, PlainAvg, Pcts

LEMMA SameAverages ==
  ASSUME NEW q, NEW p, NEW K, SameMarks(q, p, K), NEW group
  PROVE  Averages(p, group, K) = Averages(q, group, K)
<1>1. \A v : WeightedAvg(p, Part(group, v, K)) = WeightedAvg(q, Part(group, v, K))
  BY PartWithin, SubMarks, SameAvg
<1> QED
  BY <1>1 DEF Averages

LEMMA SameMatrix ==
  ASSUME NEW q, NEW p, NEW K, SameMarks(q, p, K), NEW rows, NEW columns
  PROVE  Matrix(p, rows, columns, K) = Matrix(q, rows, columns, K)
<1>1. \A x, y : Part(rows, x, Part(columns, y, K)) \subseteq K
  BY PartWithin
<1>2. \A x, y : WeightedAvg(p, Part(rows, x, Part(columns, y, K)))
                 = WeightedAvg(q, Part(rows, x, Part(columns, y, K)))
  BY <1>1, SubMarks, SameAvg
<1> QED
  BY <1>2 DEF Matrix

(* Registers and remarks of students in M.                                 *)
LEMMA SameDays ==
  ASSUME NEW q, NEW p, NEW R, NEW M, Twins(q, p, R, M), NEW s \in M
  PROVE  DaysOf(p, s) = DaysOf(q, s)
BY DEF Twins, DaysOf

LEMMA SameTally ==
  ASSUME NEW q, NEW p, NEW R, NEW M, Twins(q, p, R, M), NEW s \in M,
         NEW days, days \subseteq DOMAIN Day
  PROVE  Tally(p, s, days) = Tally(q, s, days)
<1>1. p.cfg = q.cfg /\ \A t \in days : p.d.register[<<s, t>>] = q.d.register[<<s, t>>]
  BY DEF Twins
<1>2. \A y : {t \in days : p.d.register[<<s, t>>] = y} = {t \in days : q.d.register[<<s, t>>] = y}
  BY <1>1
<1>3. [y \in AttendanceStatus |-> Cardinality({t \in days : p.d.register[<<s, t>>] = y})]
        = [y \in AttendanceStatus |-> Cardinality({t \in days : q.d.register[<<s, t>>] = y})]
  BY <1>2
<1> QED
  BY <1>1, <1>3 DEF Tally, Quantify

LEMMA SameAttendance ==
  ASSUME NEW q, NEW p, NEW R, NEW M, Twins(q, p, R, M), NEW ids,
         IF ids = None THEN q.sc.student_ids # None /\ q.sc.student_ids \subseteq M
         ELSE ids \subseteq M
  PROVE  AttendanceByStudent(p, ids) = AttendanceByStudent(q, ids)
<1> DEFINE asked == IF ids # None THEN ids ELSE q.sc.student_ids
           S == {s \in asked :
                  /\ Matches(q.f.grade, Section[q.d.home[s]].grade)
                  /\ ResolvedSections(q.f) # {} => q.d.home[s] \in ResolvedSections(q.f)
                  /\ DaysOf(q, s) # {}}
           T == {s \in asked :
                  /\ Matches(p.f.grade, Section[p.d.home[s]].grade)
                  /\ ResolvedSections(p.f) # {} => p.d.home[s] \in ResolvedSections(p.f)
                  /\ DaysOf(p, s) # {}}
<1>1. asked \subseteq M
  OBVIOUS
<1>2. p.f = q.f /\ p.sc = q.sc /\ p.d.home = q.d.home
  BY DEF Twins
<1>3. \A s \in asked : DaysOf(p, s) = DaysOf(q, s)
  BY <1>1, SameDays
<1>4. S = T
  BY <1>2, <1>3
<1>5. \A s \in asked : DaysOf(q, s) \subseteq DOMAIN Day
  BY DEF DaysOf
<1>6. \A s \in S : Tally(p, s, DaysOf(p, s)) = Tally(q, s, DaysOf(q, s))
  BY <1>1, <1>3, <1>5, SameTally
<1>7. AttendanceByStudent(q, ids) = [s \in S |-> Tally(q, s, DaysOf(q, s))]
  BY DEF AttendanceByStudent
<1>8. AttendanceByStudent(p, ids) = [s \in T |-> Tally(p, s, DaysOf(p, s))]
  BY <1>2 DEF AttendanceByStudent
<1> HIDE DEF S, T
<1> QED
  BY <1>4, <1>6, <1>7, <1>8

LEMMA SameMonthly ==
  ASSUME NEW q, NEW p, NEW R, NEW M, Twins(q, p, R, M), NEW s \in M
  PROVE  AttendanceMonthly(p, s) = AttendanceMonthly(q, s)
<1>1. DaysOf(p, s) = DaysOf(q, s) /\ DaysOf(q, s) \subseteq DOMAIN Day
  BY SameDays DEF DaysOf
<1>2. ASSUME NEW m
      PROVE  Tally(p, s, {t \in DaysOf(q, s) : Day[t].month = m})
               = Tally(q, s, {t \in DaysOf(q, s) : Day[t].month = m})
  <2> DEFINE days == {t \in DaysOf(q, s) : Day[t].month = m}
  <2>1. days \subseteq DOMAIN Day
    BY <1>1
  <2> HIDE DEF days
  <2>2. Tally(p, s, days) = Tally(q, s, days)
    BY <2>1, SameTally
  <2> QED
    BY <2>2 DEF days
<1> QED
  BY <1>1, <1>2 DEF AttendanceMonthly

LEMMA SameRemarks ==
  ASSUME NEW q, NEW p, NEW R, NEW M, Twins(q, p, R, M), NEW s \in M
  PROVE  /\ StudentRemarks(p, s) = StudentRemarks(q, s)
         /\ ConcernRemarkCount(p, s) = ConcernRemarkCount(q, s)
<1>1. p.f = q.f /\ p.d.remarks = {r \in q.d.remarks : r.student \in M}
  BY DEF Twins
<1> DEFINE concern(r) == /\ r.student = s /\ r.category = "concern" /\ r.age <= 30
                         /\ RemarkFilter(q.f, r)
<1>2. {r \in p.d.remarks : concern(r)} = {r \in q.d.remarks : concern(r)}
  BY <1>1
<1>3. ConcernRemarkCount(p, s) = ConcernRemarkCount(q, s)
  BY <1>1, <1>2 DEF ConcernRemarkCount, Quantify
<1>4. StudentRemarks(p, s) = StudentRemarks(q, s)
  BY <1>1 DEF StudentRemarks
<1> QED
  BY <1>3, <1>4

LEMMA SameDrop ==
  ASSUME NEW q, NEW p, SameRows(q, p), NEW s
  PROVE  RecentAssessmentDrop(p, s) = RecentAssessmentDrop(q, s)
<1> DEFINE K == {k \in BaseSelect(q) : k[1] = s}
           mine(b) == {k[2] : k \in Part("subject", b, K)}
<1>1. BaseSelect(p) = BaseSelect(q)
  BY DEF SameRows
<1>2. ASSUME NEW b, NEW a \in mine(b) PROVE Pct(p, <<s, a>>) = Pct(q, <<s, a>>)
  <2>1. PICK k \in Part("subject", b, K) : k[2] = a
    BY <1>2
  <2>2. k \in BaseSelect(q) /\ k[1] = s /\ k \in Results
    BY <2>1 DEF Part, BaseSelect, Rows, Results
  <2>3. k = <<s, a>>
    BY <2>1, <2>2 DEF Results
  <2> QED
    BY <2>2, <2>3 DEF SameRows, SameMarks
<1>3. \A b : [a \in mine(b) |-> Pct(p, <<s, a>>)] = [a \in mine(b) |-> Pct(q, <<s, a>>)]
  BY <1>2
<1>4. \A papers \in {mine(b) : b \in Groups("subject", K)} :
        At(papers, [a \in papers |-> Pct(p, <<s, a>>)]) = At(papers, [a \in papers |-> Pct(q, <<s, a>>)])
  BY <1>3
<1>5. {At(papers, [a \in papers |-> Pct(p, <<s, a>>)]) : papers \in {mine(b) : b \in Groups("subject", K)}}
    = {At(papers, [a \in papers |-> Pct(q, <<s, a>>)]) : papers \in {mine(b) : b \in Groups("subject", K)}}
  BY <1>4
<1> QED
  BY <1>1, <1>5 DEF RecentAssessmentDrop

(* Tables of a class, for a caller whose students are M.                   *)
ClassTwins(q, p, R, M) ==
  /\ Twins(q, p, R, M) /\ SameRows(q, p) /\ Groups("student", BaseSelect(q)) \subseteq M
  /\ q.sc.student_ids # None /\ q.sc.student_ids \subseteq M

LEMMA SameStanding ==
  ASSUME NEW q, NEW p, NEW R, NEW M, ClassTwins(q, p, R, M),
         NEW s \in Groups("student", BaseSelect(q)), NEW attendance
  PROVE  StandingOf(p, s, Part("student", s, BaseSelect(p)), attendance)
           = StandingOf(q, s, Part("student", s, BaseSelect(q)), attendance)
<1> DEFINE mine == Part("student", s, BaseSelect(q))
           kept == Kept(q, mine)
<1>1. /\ Twins(q, p, R, M) /\ SameRows(q, p) /\ s \in M
      /\ BaseSelect(p) = BaseSelect(q) /\ p.cfg = q.cfg /\ p.last = q.last
  BY DEF ClassTwins, SameRows, Twins
<1>2. Kept(p, mine) = kept
  BY <1>1 DEF Kept, KeptSection
<1>3. mine \subseteq BaseSelect(q) /\ kept \subseteq mine
  BY DEF Part, Kept
<1>4. SameMarks(q, p, mine) /\ SameMarks(q, p, kept)
  BY <1>1, <1>3 DEF SameRows, SameMarks
<1>5. /\ WeightedAvg(p, kept) = WeightedAvg(q, kept)
      /\ Averages(p, "term", mine) = Averages(q, "term", mine)
      /\ Averages(p, "subject", mine) = Averages(q, "subject", mine)
  BY <1>4, SameAvg, SameAverages
<1>6. RecentAssessmentDrop(p, s) = RecentAssessmentDrop(q, s)
  BY <1>1, SameDrop
<1>7. ConcernRemarkCount(p, s) = ConcernRemarkCount(q, s)
  BY <1>1, SameRemarks
<1> HIDE DEF mine, kept
<1>8. Standing(p, s, mine, kept, attendance) = Standing(q, s, mine, kept, attendance)
  BY <1>1, <1>5, <1>6, <1>7 DEF Standing
<1>9. StandingOf(p, s, mine, attendance) = StandingOf(q, s, mine, attendance)
  BY <1>2, <1>8 DEF StandingOf, kept
<1> QED
  BY <1>1, <1>9 DEF mine

LEMMA SameStandings ==
  ASSUME NEW q, NEW p, NEW R, NEW M, ClassTwins(q, p, R, M)
  PROVE  StudentStandings(p) = StudentStandings(q)
<1> DEFINE S == Groups("student", BaseSelect(q))
           attendance == AttendanceByStudent(q, S)
<1>1. /\ Twins(q, p, R, M) /\ BaseSelect(p) = BaseSelect(q) /\ p.sc = q.sc /\ S \subseteq M
      /\ q.sc.student_ids # None /\ q.sc.student_ids \subseteq M
  BY DEF ClassTwins, SameRows, Twins
<1> HIDE DEF S
<1>2. AttendanceByStudent(p, S) = attendance
  BY <1>1, SameAttendance
<1> HIDE DEF attendance
<1>3. \A s \in S : StandingOf(p, s, Part("student", s, BaseSelect(p)), attendance)
                     = StandingOf(q, s, Part("student", s, BaseSelect(q)), attendance)
  BY SameStanding DEF S
<1>4. Standings(p, BaseSelect(p), attendance) = Standings(q, BaseSelect(q), attendance)
  BY <1>1, <1>3 DEF Standings, S
<1> QED
  BY <1>1, <1>2, <1>4 DEF StudentStandings, S, attendance

LEMMA SameGroups ==
  ASSUME NEW q, NEW p, SameRows(q, p), p.cfg = q.cfg, NEW group
  PROVE  GroupedAverages(p, group) = GroupedAverages(q, group)
<1> DEFINE K == BaseSelect(q)
<1>1. BaseSelect(p) = K
  BY DEF SameRows
<1>2. ASSUME NEW v
      PROVE  GroupRow(p, v, Part(group, v, K), Pcts(p, Part(group, v, K)))
               = GroupRow(q, v, Part(group, v, K), Pcts(q, Part(group, v, K)))
  <2>1. SameMarks(q, p, Part(group, v, K))
    BY PartWithin, SubMarks DEF SameRows
  <2> QED
    BY <2>1, SameAvg DEF GroupRow
<1> HIDE DEF K
<1>3. GroupRows(p, group, K) = GroupRows(q, group, K)
  BY <1>2 DEF GroupRows
<1> QED
  BY <1>1, <1>3 DEF GroupedAverages, K

LEMMA SameAssessments ==
  ASSUME NEW q, NEW p, SameRows(q, p)
  PROVE  AssessmentAverages(p) = AssessmentAverages(q)
<1> DEFINE K == BaseSelect(q)
           row(y, v) == AssessmentRow(v, Pcts(y, Part("assessment", v, K)),
                                      Round(PlainAvg(y, Part("assessment", v, K))))
<1>1. BaseSelect(p) = K
  BY DEF SameRows
<1>2. ASSUME NEW v PROVE row(p, v) = row(q, v)
  <2>1. SameMarks(q, p, Part("assessment", v, K))
    BY PartWithin, SubMarks DEF SameRows
  <2> QED
    BY <2>1, SameAvg
<1>3. /\ AssessmentRows(p, K) = {row(p, v) : v \in Groups("assessment", K)}
      /\ AssessmentRows(q, K) = {row(q, v) : v \in Groups("assessment", K)}
  BY DEF AssessmentRows
<1> HIDE DEF K, row
<1>4. AssessmentRows(p, K) = AssessmentRows(q, K)
  BY <1>2, <1>3
<1> QED
  BY <1>1, <1>4 DEF AssessmentAverages, K

LEMMA SameValues ==
  ASSUME NEW q, NEW p, SameRows(q, p) PROVE ScoreValues(p) = ScoreValues(q)
BY SameAvg DEF SameRows, ScoreValues

LEMMA SameOverview ==
  ASSUME NEW q, NEW p, NEW R, NEW M, ClassTwins(q, p, R, M)
  PROVE  CohortOverview(p) = CohortOverview(q)
<1> DEFINE values == ScoreValues(q)
           standings == StudentStandings(q)
           attendance == AttendanceByStudent(q, None)
           risky == {x \in standings : IsAtRisk(Risk(q, x))}
           absent == {k \in Rows(q) : q.d.score[k].absent}
<1>1. /\ Twins(q, p, R, M) /\ SameRows(q, p) /\ p.cfg = q.cfg
      /\ q.sc.student_ids # None /\ q.sc.student_ids \subseteq M
  BY DEF ClassTwins, Twins
<1>2. ScoreValues(p) = values /\ StudentStandings(p) = standings
  BY <1>1, SameValues, SameStandings
<1>3. AttendanceByStudent(p, None) = attendance
  BY <1>1, SameAttendance
<1>4. DOMAIN values = BaseSelect(q)
  BY DEF ScoreValues, Pcts
<1>5. WeightedAvg(p, DOMAIN values) = WeightedAvg(q, DOMAIN values)
  BY <1>1, <1>4, SameAvg DEF SameRows
<1>6. {k \in Rows(p) : p.d.score[k].absent} = absent
  BY <1>1 DEF SameRows
<1>7. \A x : Risk(p, x) = Risk(q, x)
  BY <1>1 DEF Risk
<1>8. {x \in standings : IsAtRisk(Risk(p, x))} = risky
  BY <1>7
<1>9. {x \in risky : Risk(p, x).level = "high"} = {x \in risky : Risk(q, x).level = "high"}
  BY <1>7
<1> HIDE DEF values, standings, attendance, risky, absent
<1>10. Overall(p, DOMAIN values, values, standings, risky, attendance)
         = Overall(q, DOMAIN values, values, standings, risky, attendance)
  BY <1>1, <1>5, <1>6, <1>9 DEF Overall, Quantify, absent
<1>11. OverallOf(p, values, standings, attendance) = OverallOf(q, values, standings, attendance)
  BY <1>8, <1>10 DEF OverallOf, risky
<1> QED
  BY <1>2, <1>3, <1>11 DEF CohortOverview, values, standings, attendance

(* The charts of a class.                                                  *)
LEMMA SameListing ==
  ASSUME NEW q, NEW p, p.cfg = q.cfg, NEW chart, NEW S
  PROVE  /\ StandingsTable(p, Listing(chart, p, S)) = StandingsTable(q, Listing(chart, q, S))
<1>1. \A x : Risk(p, x) = Risk(q, x)
  BY DEF Risk
<1>2. Listing(chart, p, S) = Listing(chart, q, S)
  BY <1>1 DEF Listing
<1>3. \A L : StandingsTable(p, L) = StandingsTable(q, L)
  BY <1>1 DEF StandingsTable
<1> QED
  BY <1>2, <1>3

LEMMA SameSectionChart ==
  ASSUME NEW q, NEW p, NEW R, NEW M, ClassTwins(q, p, R, M), NEW chart
  PROVE  SectionChart(chart, p) = SectionChart(chart, q)
<1> DEFINE table(y) == StandingsTable(y, Listing(chart, y, StudentStandings(y)))
<1>1. SameRows(q, p) /\ p.cfg = q.cfg /\ p.sc = q.sc
  BY DEF ClassTwins, Twins
<1>2. CohortOverview(p) = CohortOverview(q)
  BY SameOverview
<1>3. ScoreValues(p) = ScoreValues(q) /\ AssessmentAverages(p) = AssessmentAverages(q)
  BY <1>1, SameValues, SameAssessments
<1>4. GroupedAverages(p, "subject") = GroupedAverages(q, "subject")
  BY <1>1, SameGroups
<1>5. MatrixAverages(p, "student", "subject") = MatrixAverages(q, "student", "subject")
  BY <1>1, SameMatrix DEF MatrixAverages, SameRows
<1>6. table(p) = table(q)
  BY <1>1, SameStandings, SameListing
<1> HIDE DEF table
<1>7. CASE chart = "section.kpis"
  BY <1>2, <1>7 DEF SectionChart
<1>8. CASE chart \in {"section.distribution", "section.assessment_averages", "section.grade_mix"}
  BY <1>3, <1>8 DEF SectionChart
<1>9. CASE chart = "section.subject_averages"
  BY <1>4, <1>9 DEF SectionChart
<1>10. CASE chart = "section.heatmap"
  BY <1>5, <1>10 DEF SectionChart
<1>11. CASE chart \notin {"section.kpis", "section.distribution", "section.assessment_averages",
                         "section.grade_mix", "section.subject_averages", "section.heatmap"}
  <2>1. SectionChart(chart, p) = Shown(chart, table(p)) /\ SectionChart(chart, q) = Shown(chart, table(q))
    BY <1>11 DEF SectionChart, table
  <2> QED
    BY <1>6, <2>1
<1> QED
  BY <1>7, <1>8, <1>9, <1>10, <1>11

LEMMA SameSectionFilters ==
  ASSUME NEW q, NEW p, NEW R, NEW M, Twins(q, p, R, M)
  PROVE  SectionFilters(p) = SectionFilters(q)
<1>1. p.f = q.f /\ p.sc = q.sc
  BY DEF Twins
<1>2. DefaultSectionId(p) = DefaultSectionId(q)
  BY <1>1 DEF DefaultSectionId, YearOf
<1>3. PickClassroomSection(p) = PickClassroomSection(q)
  BY <1>1 DEF PickClassroomSection
<1>4. ClassroomSection(p) = ClassroomSection(q)
  BY <1>1, <1>2, <1>3 DEF ClassroomSection
<1> QED
  BY <1>1, <1>4 DEF SectionFilters

LEMMA OwnStudents ==
  ASSUME NEW q, NEW w, NEW x, Reading(q, w, x), x.role # "admin"
  PROVE  q.sc.student_ids = Mine(w, x) /\ q.sc.student_ids # None /\ q.sc.role = x.role
BY MineIsSet DEF Reading, ScopeOf, OwnScope

LEMMA SameClassroom ==
  ASSUME NEW q, NEW p, NEW R, NEW w, NEW x, Reading(q, w, x), x.role # "admin",
         Twins(q, p, R, Mine(w, x)), Covers(q.sc, R), NEW chart
  PROVE  ClassroomChart(chart, p) = ClassroomChart(chart, q)
<1> DEFINE f == SectionFilters(q)
           g == [q EXCEPT !.f = f]
           h == [p EXCEPT !.f = f]
<1>1. SectionFilters(p) = f
  BY SameSectionFilters
<1>2. CASE IsError(f)
  BY <1>1, <1>2 DEF ClassroomChart, ChartOfClass
<1>3. CASE ~IsError(f)
  <2>1. f = WithSection(q.f, ClassroomSection(q))
    BY <1>3, RefusedIsError DEF SectionFilters
  <2>2. FilterShape(f)
    BY <2>1, WithSectionShape DEF Reading
  <2>3. Reading(g, w, x) /\ g.sc = q.sc
    BY <2>2, ReadingWith
  <2>4. Twins(g, h, R, Mine(w, x))
    BY TwinFilters
  <2>5. SameRows(g, h)
    BY <2>3, <2>4, TwinRows
  <2>6. ClassTwins(g, h, R, Mine(w, x))
    BY <2>3, <2>4, <2>5, RowsKnown, OwnStudents DEF ClassTwins
  <2>7. SectionChart(chart, h) = SectionChart(chart, g)
    BY <2>6, SameSectionChart
  <2> QED
    BY <1>1, <1>3, <2>7 DEF ClassroomChart, ChartOfClass
<1> QED
  BY <1>2, <1>3

(* One student, s.  What is their own is the same for both twins; what is  *)
(* of their class or of all who sat a paper, if R has those results too.   *)
StudentTwins(q, p, R, M, s) ==
  /\ Twins(q, p, R, M) /\ Covers(q.sc, R) /\ FilterShape(q.f) /\ s \in M /\ s \in Students

Compares(q, R) ==
  /\ Covers(CohortView(q.sc), R)
  /\ \A k \in Results : q.d.score[k] # None /\ ScopeConditions(q.sc, k) =>
       \A j \in Students : <<j, k[2]>> \in R

LEMMA FilterEdits ==
  ASSUME NEW q, DOMAIN q = QueryFields
  PROVE  /\ \A s : [q EXCEPT !.f.student = s] = [q EXCEPT !.f = [q.f EXCEPT !.student = s]]
         /\ [q EXCEPT !.f.term = None] = [q EXCEPT !.f = [q.f EXCEPT !.term = None]]
         /\ \A f : [q EXCEPT !.f = f].f = f /\ [q EXCEPT !.f = f].sc = q.sc
                   /\ [q EXCEPT !.f = f].d = q.d /\ [q EXCEPT !.f = f].cfg = q.cfg
         /\ \A sc : [q EXCEPT !.sc = sc].f = q.f /\ [q EXCEPT !.sc = sc].sc = sc
                   /\ [q EXCEPT !.sc = sc].d = q.d
BY DEF QueryFields

(* The queries for the student's own results and for those of the class.   *)
OwnQuery(q, s) == [q EXCEPT !.f.student = s]

LEMMA ClassEdits ==
  ASSUME NEW q, DOMAIN q = QueryFields, NEW home
  PROVE  ClassQuery(q, home) =
           [[q EXCEPT !.f = [q.f EXCEPT !.student = None, !.section = home]]
              EXCEPT !.sc = CohortView(q.sc)]
BY DEF QueryFields, ClassQuery

LEMMA SamePct ==
  ASSUME NEW q, NEW r, r.d = q.d PROVE \A k : Pct(r, k) = Pct(q, k)
BY DEF Pct

LEMMA WholeYearTwins ==
  ASSUME NEW q, NEW p, NEW R, NEW M, NEW s, StudentTwins(q, p, R, M, s)
  PROVE  /\ StudentTwins(WholeYear(q), WholeYear(p), R, M, s)
         /\ WholeYear(q).sc = q.sc /\ WholeYear(q).d = q.d /\ WholeYear(p).d = p.d
<1> DEFINE f == [q.f EXCEPT !.term = None]
<1>1. /\ Twins(q, p, R, M) /\ Covers(q.sc, R) /\ FilterShape(q.f) /\ s \in M /\ s \in Students
      /\ DOMAIN q = QueryFields /\ DOMAIN p = QueryFields /\ p.f = q.f
  BY DEF StudentTwins, Twins
<1>2. WholeYear(q) = [q EXCEPT !.f = f] /\ WholeYear(p) = [p EXCEPT !.f = f]
  BY <1>1, FilterEdits DEF WholeYear
<1>3. FilterShape(f)
  BY <1>1, FilterFields DEF FilterShape
<1> HIDE DEF f
<1>4. Twins(WholeYear(q), WholeYear(p), R, M)
  BY <1>1, <1>2, TwinFilters
<1>5. WholeYear(q).sc = q.sc /\ WholeYear(q).d = q.d /\ WholeYear(q).f = f /\ WholeYear(p).d = p.d
  BY <1>1, <1>2, FilterEdits
<1> QED
  BY <1>1, <1>3, <1>4, <1>5 DEF StudentTwins

(* Rows of student s only.                                                 *)
OwnRows(q, p, s) ==
  /\ Rows(OwnQuery(p, s)) = Rows(OwnQuery(q, s)) /\ ResultsOf(p, s) = ResultsOf(q, s)
  /\ \A k \in Rows(OwnQuery(q, s)) :
       /\ k \in Results /\ k = <<s, k[2]>>
       /\ p.d.score[k] = q.d.score[k] /\ q.d.score[k] # None /\ ScopeConditions(q.sc, k)
  /\ ResultsOf(q, s) \subseteq Rows(OwnQuery(q, s)) /\ SameMarks(q, p, Rows(OwnQuery(q, s)))

LEMMA SameOwnRows ==
  ASSUME NEW q, NEW p, NEW R, NEW M, NEW s, StudentTwins(q, p, R, M, s)
  PROVE  OwnRows(q, p, s)
<1> DEFINE f == [q.f EXCEPT !.student = s]
           g == OwnQuery(q, s)
           h == OwnQuery(p, s)
<1>1. /\ Twins(q, p, R, M) /\ Covers(q.sc, R) /\ FilterShape(q.f) /\ s \in Students
      /\ DOMAIN q = QueryFields /\ DOMAIN p = QueryFields /\ p.f = q.f
  BY DEF StudentTwins, Twins
<1>2. g = [q EXCEPT !.f = f] /\ h = [p EXCEPT !.f = f]
  BY <1>1, FilterEdits DEF OwnQuery
<1>3. f.student = s /\ s # None
  BY <1>1, FilterFields, IdsAssumption DEF FilterShape
<1> HIDE DEF f, g, h
<1>4. Twins(g, h, R, M)
  BY <1>1, <1>2, TwinFilters
<1>5. g.f = f /\ g.sc = q.sc /\ g.d = q.d /\ h.d = p.d
  BY <1>1, <1>2, FilterEdits
<1>6. SameRows(g, h)
  BY <1>1, <1>4, <1>5, TwinRows
<1>7. ASSUME NEW k \in Rows(g)
      PROVE  /\ k \in Results /\ k = <<s, k[2]>> /\ p.d.score[k] = q.d.score[k]
             /\ q.d.score[k] # None /\ ScopeConditions(q.sc, k)
  <2>1. k \in Results /\ ScopeConditions(q.sc, k) /\ q.d.score[k] # None /\ Matches(s, k[1])
    BY <1>3, <1>5 DEF Rows, Results, FilterConditions
  <2>2. k[1] = s
    BY <1>3, <2>1 DEF Matches
  <2>3. k = <<s, k[2]>>
    BY <2>1, <2>2 DEF Results
  <2>4. p.d.score[k] = q.d.score[k]
    BY <1>5, <1>6 DEF SameRows
  <2> QED
    BY <2>1, <2>3, <2>4
<1>8. ResultsOf(q, s) = BaseSelect(g) /\ ResultsOf(p, s) = BaseSelect(h)
  BY DEF ResultsOf, g, h, OwnQuery
<1>9. BaseSelect(g) \subseteq Rows(g)
  BY DEF BaseSelect
<1>10. SameMarks(q, p, Rows(g))
  BY <1>7 DEF SameMarks, Pct
<1>11. Rows(h) = Rows(g) /\ BaseSelect(h) = BaseSelect(g)
  BY <1>6 DEF SameRows
<1> QED
  BY <1>7, <1>8, <1>9, <1>10, <1>11 DEF OwnRows, g, h

LEMMA SameResults ==
  ASSUME NEW q, NEW p, NEW R, NEW M, NEW s, StudentTwins(q, p, R, M, s)
  PROVE  /\ ResultsOf(p, s) = ResultsOf(q, s) /\ SameMarks(q, p, ResultsOf(q, s))
         /\ \A k \in ResultsOf(q, s) : k = <<s, k[2]>>
<1>1. OwnRows(q, p, s)
  BY SameOwnRows
<1> QED
  BY <1>1, SubMarks DEF OwnRows

LEMMA SameOwnAverages ==
  ASSUME NEW q, NEW p, NEW R, NEW M, NEW s, StudentTwins(q, p, R, M, s), NEW group
  PROVE  Averages(p, group, ResultsOf(p, s)) = Averages(q, group, ResultsOf(q, s))
BY SameResults, SameAverages

LEMMA SameSeries ==
  ASSUME NEW q, NEW p, NEW R, NEW M, NEW s, StudentTwins(q, p, R, M, s), NEW b
  PROVE  Series(p, s, b) = Series(q, s, b)
<1> DEFINE K == Part("subject", b, ResultsOf(q, s))
           papers == {k[2] : k \in K}
<1>1. /\ ResultsOf(p, s) = ResultsOf(q, s) /\ SameMarks(q, p, ResultsOf(q, s))
      /\ \A k \in ResultsOf(q, s) : k = <<s, k[2]>>
  BY SameResults
<1>2. K \subseteq ResultsOf(q, s)
  BY PartWithin
<1>3. ASSUME NEW a \in papers PROVE Pct(p, <<s, a>>) = Pct(q, <<s, a>>)
  <2>1. PICK k \in K : k[2] = a
    BY <1>3
  <2>2. k = <<s, a>>
    BY <1>1, <1>2, <2>1
  <2>3. Pct(p, k) = Pct(q, k)
    BY <1>1, <1>2, <2>1 DEF SameMarks
  <2> QED
    BY <2>2, <2>3
<1>4. [a \in papers |-> Pct(p, <<s, a>>)] = [a \in papers |-> Pct(q, <<s, a>>)]
  BY <1>3
<1> QED
  BY <1>1, <1>4 DEF Series

(* The class, where R has it.                                              *)
LEMMA SameCohort ==
  ASSUME NEW q, NEW p, NEW R, NEW M, NEW s, StudentTwins(q, p, R, M, s), Compares(q, R),
         NEW home, NEW group
  PROVE  CohortAverages(p, home, group) = CohortAverages(q, home, group)
<1> DEFINE f == [q.f EXCEPT !.student = None, !.section = home]
           g == ClassQuery(q, home)
           h == ClassQuery(p, home)
           K == BaseSelect(g)
<1>1. /\ Twins(q, p, R, M) /\ DOMAIN q = QueryFields /\ DOMAIN p = QueryFields
      /\ p.f = q.f /\ p.sc = q.sc /\ Covers(CohortView(q.sc), R)
  BY DEF StudentTwins, Twins, Compares
<1>2. g = [[q EXCEPT !.f = f] EXCEPT !.sc = CohortView(q.sc)]
  BY <1>1, ClassEdits
<1>3. h = [[p EXCEPT !.f = f] EXCEPT !.sc = CohortView(q.sc)]
  BY <1>1, ClassEdits
<1> HIDE DEF f, g, h
<1>4. Twins([q EXCEPT !.f = f], [p EXCEPT !.f = f], R, M)
  BY <1>1, TwinFilters
<1>5. Twins(g, h, R, M)
  BY <1>2, <1>3, <1>4, TwinScope
<1>6. g.sc = CohortView(q.sc) /\ g.d = q.d /\ h.d = p.d
  BY <1>1, <1>2, <1>3 DEF QueryFields
<1>7. SameRows(g, h)
  BY <1>1, <1>5, <1>6, TwinRows
<1>8. BaseSelect(h) = K /\ SameMarks(q, p, K)
  <2>1. BaseSelect(h) = K /\ SameMarks(g, h, K)
    BY <1>7 DEF SameRows
  <2>2. \A k : Pct(g, k) = Pct(q, k) /\ Pct(h, k) = Pct(p, k)
    BY <1>6, SamePct
  <2> QED
    BY <2>1, <2>2 DEF SameMarks
<1> HIDE DEF K
<1>9. ASSUME NEW v
      PROVE  Averages(p, "student", Part(group, v, K)) = Averages(q, "student", Part(group, v, K))
  <2>1. SameMarks(q, p, Part(group, v, K))
    BY <1>8, PartWithin, SubMarks
  <2> QED
    BY <2>1, SameAverages
<1>10. CohortAverages(q, home, group) =
         [v \in Groups(group, K) |-> Rounds(Averages(q, "student", Part(group, v, K)))]
  BY DEF CohortAverages, K, g
<1>11. CohortAverages(p, home, group) =
         [v \in Groups(group, K) |-> Rounds(Averages(p, "student", Part(group, v, K)))]
  <2>1. CohortAverages(p, home, group) =
         [v \in Groups(group, BaseSelect(h)) |->
            Rounds(Averages(p, "student", Part(group, v, BaseSelect(h))))]
    BY DEF CohortAverages, h
  <2> QED
    BY <1>8, <2>1
<1> QED
  BY <1>9, <1>10, <1>11

(* The papers a student sat.  The average of a paper is over everybody.    *)
AlikePapers(f, g) ==
  /\ DOMAIN f = DOMAIN g
  /\ \A a \in DOMAIN g : f[a].marks = g[a].marks /\ f[a].absent = g[a].absent /\ f[a].pct = g[a].pct

Sat(q, a) == {k \in Students \X {a} : q.d.score[k] # None /\ Graded(q.d.score[k])}
PaperRow(q, s, a) ==
  [marks |-> q.d.score[<<s, a>>].marks, absent |-> q.d.score[<<s, a>>].absent,
   pct |-> Pct(q, <<s, a>>),
   class_avg |-> IF Sat(q, a) = {} THEN None ELSE Round(PlainAvg(q, Sat(q, a)))]

LEMMA SeriesRows ==
  ASSUME NEW q, NEW s
  PROVE  StudentAssessmentSeries(q, s) =
           [a \in {k[2] : k \in Rows(OwnQuery(q, s))} |-> PaperRow(q, s, a)]
BY DEF StudentAssessmentSeries, OwnQuery, PaperRow, Sat

LEMMA SameSat ==
  ASSUME NEW q, NEW p, NEW a, \A j \in Students : p.d.score[<<j, a>>] = q.d.score[<<j, a>>]
  PROVE  Sat(p, a) = Sat(q, a) /\ PlainAvg(p, Sat(q, a)) = PlainAvg(q, Sat(q, a))
<1>1. \A k \in Students \X {a} : p.d.score[k] = q.d.score[k]
  OBVIOUS
<1>2. Sat(p, a) = Sat(q, a)
  BY <1>1 DEF Sat
<1>3. SameMarks(q, p, Sat(q, a))
  BY <1>1 DEF SameMarks, Pct, Sat
<1> QED
  BY <1>2, <1>3, SameAvg

LEMMA SameAssessmentSeries ==
  ASSUME NEW q, NEW p, NEW R, NEW M, NEW s, StudentTwins(q, p, R, M, s)
  PROVE  /\ AlikePapers(StudentAssessmentSeries(p, s), StudentAssessmentSeries(q, s))
         /\ Compares(q, R) => StudentAssessmentSeries(p, s) = StudentAssessmentSeries(q, s)
<1> DEFINE papers == {k[2] : k \in Rows(OwnQuery(q, s))}
<1>1. OwnRows(q, p, s) /\ Twins(q, p, R, M)
  BY SameOwnRows DEF StudentTwins
<1>2. {k[2] : k \in Rows(OwnQuery(p, s))} = papers
  BY <1>1 DEF OwnRows
<1>3. /\ StudentAssessmentSeries(q, s) = [a \in papers |-> PaperRow(q, s, a)]
      /\ StudentAssessmentSeries(p, s) = [a \in papers |-> PaperRow(p, s, a)]
  BY <1>2, SeriesRows
<1>4. ASSUME NEW a \in papers
      PROVE  /\ p.d.score[<<s, a>>] = q.d.score[<<s, a>>] /\ q.d.score[<<s, a>>] # None
             /\ <<s, a>> \in Results /\ ScopeConditions(q.sc, <<s, a>>)
  <2>1. PICK k \in Rows(OwnQuery(q, s)) : k[2] = a
    BY <1>4
  <2>2. k = <<s, a>>
    BY <1>1, <2>1 DEF OwnRows
  <2> QED
    BY <1>1, <2>1, <2>2 DEF OwnRows
<1> HIDE DEF papers
<1>5. ASSUME NEW a \in papers
      PROVE  /\ PaperRow(p, s, a).marks = PaperRow(q, s, a).marks
             /\ PaperRow(p, s, a).absent = PaperRow(q, s, a).absent
             /\ PaperRow(p, s, a).pct = PaperRow(q, s, a).pct
  BY <1>4 DEF PaperRow, Pct
<1>6. ASSUME Compares(q, R), NEW a \in papers PROVE PaperRow(p, s, a) = PaperRow(q, s, a)
  <2>1. \A j \in Students : <<j, <<s, a>>[2]>> \in R
    BY <1>4, <1>6 DEF Compares
  <2>2. a \in Papers
    BY <1>4 DEF Results
  <2>3. \A j \in Students : p.d.score[<<j, a>>] = q.d.score[<<j, a>>]
    BY <1>1, <2>1, <2>2 DEF Twins, Results
  <2>4. Sat(p, a) = Sat(q, a) /\ PlainAvg(p, Sat(q, a)) = PlainAvg(q, Sat(q, a))
    BY <2>3, SameSat
  <2>5. p.d.score[<<s, a>>] = q.d.score[<<s, a>>] /\ Pct(p, <<s, a>>) = Pct(q, <<s, a>>)
    BY <1>4 DEF Pct
  <2> QED
    BY <2>4, <2>5 DEF PaperRow
<1> QED
  BY <1>3, <1>5, <1>6 DEF AlikePapers

(* The subjects of a student.                                              *)
AlikeSubjects(f, g) ==
  /\ DOMAIN f = DOMAIN g
  /\ \A b \in DOMAIN g : /\ f[b].average = g[b].average /\ f[b].slope = g[b].slope
                         /\ f[b].consistency = g[b].consistency
                         /\ f[b].assessments = g[b].assessments

LEMMA SameSubjects ==
  ASSUME NEW q, NEW p, NEW R, NEW M, NEW s, StudentTwins(q, p, R, M, s), NEW home
  PROVE  /\ AlikeSubjects(StudentSubjectSummaries(p, s, home), StudentSubjectSummaries(q, s, home))
         /\ Compares(q, R) =>
              StudentSubjectSummaries(p, s, home) = StudentSubjectSummaries(q, s, home)
<1> DEFINE own == Rounds(Averages(q, "subject", ResultsOf(q, s)))
           cq == CohortAverages(q, home, "subject")
           cp == CohortAverages(p, home, "subject")
           row(b, c) == SubjectSummary(own[b], Peers(c, b), Series(q, s, b))
<1>1. Rounds(Averages(p, "subject", ResultsOf(p, s))) = own
  BY SameOwnAverages
<1>2. \A b : Series(p, s, b) = Series(q, s, b)
  BY SameSeries
<1>3. Compares(q, R) => cp = cq
  BY SameCohort
<1> HIDE DEF own, cq, cp
<1>4. StudentSubjectSummaries(q, s, home) = [b \in DOMAIN own |-> row(b, cq)]
  BY DEF StudentSubjectSummaries, Summaries, own, cq
<1>5. StudentSubjectSummaries(p, s, home) = [b \in DOMAIN own |-> row(b, cp)]
  BY <1>1, <1>2 DEF StudentSubjectSummaries, Summaries, cp
<1>6. \A b : /\ row(b, cp).average = row(b, cq).average /\ row(b, cp).slope = row(b, cq).slope
             /\ row(b, cp).consistency = row(b, cq).consistency
             /\ row(b, cp).assessments = row(b, cq).assessments
  BY DEF SubjectSummary
<1> HIDE DEF row
<1>7. AlikeSubjects([b \in DOMAIN own |-> row(b, cp)], [b \in DOMAIN own |-> row(b, cq)])
  BY <1>6 DEF AlikeSubjects
<1> QED
  BY <1>3, <1>4, <1>5, <1>7

(* The terms of a student.                                                 *)
AlikeTerms(f, g) ==
  /\ DOMAIN f = DOMAIN g
  /\ \A i \in DOMAIN g : /\ f[i].term = g[i].term /\ f[i].average = g[i].average
                         /\ f[i].delta = g[i].delta /\ f[i].grade = g[i].grade

LEMMA SameTerms ==
  ASSUME NEW q, NEW p, NEW R, NEW M, NEW s, StudentTwins(q, p, R, M, s), NEW home
  PROVE  /\ AlikeTerms(StudentTermProgress(p, s, home), StudentTermProgress(q, s, home))
         /\ Compares(q, R) => StudentTermProgress(p, s, home) = StudentTermProgress(q, s, home)
<1> DEFINE own == OwnTermAverages(q, s)
           terms == Listed(DOMAIN own)
           cq == CohortAverages(WholeYear(q), home, "term")
           cp == CohortAverages(WholeYear(p), home, "term")
           row(i, c) == TermRow(terms[i], own[terms[i]],
                                IF i = 1 THEN None ELSE own[terms[i - 1]], Peers(c, terms[i]))
<1>1. StudentTwins(WholeYear(q), WholeYear(p), R, M, s)
  BY WholeYearTwins
<1>2. OwnTermAverages(p, s) = own
  <2> DEFINE K == ResultsOf(WholeYear(q), s)
  <2>1. ResultsOf(WholeYear(p), s) = K /\ SameMarks(WholeYear(q), WholeYear(p), K)
    BY <1>1, SameResults
  <2>2. SameMarks(q, p, K)
    BY <2>1, WholeYearTwins, SamePct DEF SameMarks
  <2> HIDE DEF K
  <2>3. Averages(p, "term", K) = Averages(q, "term", K)
    BY <2>2, SameAverages
  <2> QED
    BY <2>1, <2>3 DEF OwnTermAverages, K
<1>3. Compares(q, R) => Compares(WholeYear(q), R)
  BY WholeYearTwins DEF Compares
<1>4. Compares(q, R) => cp = cq
  BY <1>1, <1>3, SameCohort
<1> HIDE DEF own, cq, cp
<1>5. StudentTermProgress(q, s, home) = [i \in DOMAIN terms |-> row(i, cq)]
  BY DEF StudentTermProgress, TermRows, own, cq
<1>6. StudentTermProgress(p, s, home) = [i \in DOMAIN terms |-> row(i, cp)]
  BY <1>2 DEF StudentTermProgress, TermRows, cp
<1>7. \A i : /\ row(i, cp).term = row(i, cq).term /\ row(i, cp).average = row(i, cq).average
             /\ row(i, cp).delta = row(i, cq).delta /\ row(i, cp).grade = row(i, cq).grade
  BY DEF TermRow
<1> HIDE DEF row, terms
<1>8. AlikeTerms([i \in DOMAIN terms |-> row(i, cp)], [i \in DOMAIN terms |-> row(i, cq)])
  BY <1>7 DEF AlikeTerms
<1> QED
  BY <1>4, <1>5, <1>6, <1>8

(* What is known of a student, and the overview drawn from it.             *)
LEMMA SameFacts ==
  ASSUME NEW q, NEW p, NEW R, NEW M, NEW s, StudentTwins(q, p, R, M, s),
         NEW averages, NEW f, NEW g, AlikeTerms(f, g), NEW attendance
  PROVE  Facts(p, s, averages, f, attendance) = Facts(q, s, averages, g, attendance)
<1>1. Twins(q, p, R, M) /\ SameRows(q, p) /\ s \in M /\ p.cfg = q.cfg
  <2>1. Twins(q, p, R, M) /\ Covers(q.sc, R) /\ s \in M
    BY DEF StudentTwins
  <2>2. p.cfg = q.cfg
    BY <2>1 DEF Twins
  <2> QED
    BY <2>1, <2>2, TwinRows
<1>2. RecentAssessmentDrop(p, s) = RecentAssessmentDrop(q, s)
  BY <1>1, SameDrop
<1>3. ConcernRemarkCount(p, s) = ConcernRemarkCount(q, s)
  BY <1>1, SameRemarks
<1>4. TrendSlope([i \in DOMAIN f |-> Whole(f[i].average)])
        = TrendSlope([i \in DOMAIN g |-> Whole(g[i].average)])
  <2>1. [i \in DOMAIN f |-> Whole(f[i].average)] = [i \in DOMAIN g |-> Whole(g[i].average)]
    BY DEF AlikeTerms
  <2> QED
    BY <2>1
<1>5. {b \in DOMAIN averages : averages[b] # None /\ averages[b] < p.cfg.pass}
        = {b \in DOMAIN averages : averages[b] # None /\ averages[b] < q.cfg.pass}
  BY <1>1
<1> QED
  BY <1>2, <1>3, <1>4, <1>5 DEF Facts, Quantify

AlikeOverviews(o, r) ==
  /\ o.overall = r.overall /\ o.grade = r.grade /\ o.trend = r.trend
  /\ o.consistency = r.consistency /\ o.attendance = r.attendance /\ o.profile = r.profile
  /\ o.known = r.known /\ o.risk = r.risk /\ o.assessments = r.assessments
  /\ AlikeSubjects(o.subjects, r.subjects)

LEMMA AlikeColumns ==
  ASSUME NEW f, NEW g, AlikeSubjects(f, g)
  PROVE  /\ Column(f, "average") = Column(g, "average")
         /\ Column(f, "assessments") = Column(g, "assessments")
BY DEF AlikeSubjects, Column

LEMMA SameStudentAttendance ==
  ASSUME NEW q, NEW p, NEW R, NEW M, NEW s, StudentTwins(q, p, R, M, s)
  PROVE  AttendanceByStudent(p, {s}) = AttendanceByStudent(q, {s})
<1>1. {s} # None /\ {s} \subseteq M /\ Twins(q, p, R, M)
  BY IdsAssumption DEF StudentTwins
<1> QED
  BY <1>1, SameAttendance

LEMMA AlikeOverview ==
  ASSUME NEW q, NEW p, NEW R, NEW M, NEW s, StudentTwins(q, p, R, M, s), NEW home
  PROVE  /\ AlikeOverviews(StudentOverview(p, s, home), StudentOverview(q, s, home))
         /\ Compares(q, R) => StudentOverview(p, s, home) = StudentOverview(q, s, home)
<1> DEFINE bq == StudentSubjectSummaries(q, s, home)
           bp == StudentSubjectSummaries(p, s, home)
           tq == StudentTermProgress(q, s, home)
           tp == StudentTermProgress(p, s, home)
           attendance == AttendanceOf(AttendanceByStudent(q, {s}), s)
           averages == Column(bq, "average")
           facts == Facts(q, s, averages, tq, attendance)
<1>1. AlikeSubjects(bp, bq) /\ (Compares(q, R) => bp = bq)
  BY SameSubjects
<1>2. AlikeTerms(tp, tq) /\ (Compares(q, R) => tp = tq)
  BY SameTerms
<1>3. AttendanceOf(AttendanceByStudent(p, {s}), s) = attendance
  BY SameStudentAttendance
<1> HIDE DEF bq, bp, tq, tp, attendance
<1>4. Column(bp, "average") = averages /\ Column(bp, "assessments") = Column(bq, "assessments")
  BY <1>1, AlikeColumns
<1> HIDE DEF averages
<1>5. Facts(p, s, averages, tp, attendance) = facts
  BY <1>2, SameFacts
<1> HIDE DEF facts
<1>6. StudentOverview(q, s, home) = Overview(q, bq, averages, tq, attendance, facts)
  BY DEF StudentOverview, OverviewOf, bq, tq, attendance, averages, facts
<1>7. StudentOverview(p, s, home) = Overview(p, bp, averages, tp, attendance, facts)
  BY <1>3, <1>4, <1>5 DEF StudentOverview, OverviewOf, bp, tp
<1>8. p.cfg = q.cfg
  BY DEF StudentTwins, Twins
<1>9. AlikeOverviews(Overview(p, bp, averages, tp, attendance, facts),
                     Overview(q, bq, averages, tq, attendance, facts))
  BY <1>1, <1>4, <1>8 DEF Overview, AlikeOverviews
<1>10. Compares(q, R) =>
         Overview(p, bp, averages, tp, attendance, facts)
           = Overview(q, bq, averages, tq, attendance, facts)
  BY <1>1, <1>2, <1>8 DEF Overview
<1> QED
  BY <1>6, <1>7, <1>9, <1>10

LEMMA SameSummary ==
  ASSUME NEW q, NEW p, p.cfg = q.cfg, NEW o, NEW r, AlikeOverviews(o, r)
  PROVE  Summary(p, o) = Summary(q, r)
<1>1. /\ o.overall = r.overall /\ o.attendance = r.attendance /\ o.known = r.known
      /\ o.risk = r.risk /\ DOMAIN o.subjects = DOMAIN r.subjects
      /\ \A b \in DOMAIN r.subjects : /\ o.subjects[b].average = r.subjects[b].average
                                      /\ o.subjects[b].slope = r.subjects[b].slope
  BY DEF AlikeOverviews, AlikeSubjects
<1>2. \A v : Failing(p, v) = Failing(q, v)
  BY DEF Failing
<1>3. LowAttendance(p, o) = LowAttendance(q, r)
  BY <1>1 DEF LowAttendance
<1>4. [b \in DOMAIN o.subjects |->
         [average |-> o.subjects[b].average, trend |-> TrendLabel(o.subjects[b].slope),
          needs_support |-> Failing(p, o.subjects[b].average)]]
      = [b \in DOMAIN r.subjects |->
         [average |-> r.subjects[b].average, trend |-> TrendLabel(r.subjects[b].slope),
          needs_support |-> Failing(q, r.subjects[b].average)]]
  BY <1>1, <1>2
<1> QED
  BY <1>1, <1>2, <1>3, <1>4 DEF Summary

(* What a family sees of a chart where the school does not compare.        *)
Trimmed(chart, data) ==
  IF chart \notin DOMAIN HiddenFields THEN data
  ELSE IF chart \in Tables
  THEN [x \in DOMAIN data |-> Without(data[x], HiddenFields[chart])]
  ELSE Without(data, HiddenFields[chart])

LEMMA MineTwins ==
  ASSUME NEW q, NEW p, NEW R, NEW M, NEW s, StudentTwins(q, p, R, M, s)
  PROVE  /\ StudentTwins([q EXCEPT !.f = WithStudent(q.f, s)], [p EXCEPT !.f = WithStudent(p.f, s)],
                         R, M, s)
         /\ Compares(q, R) => Compares([q EXCEPT !.f = WithStudent(q.f, s)], R)
         /\ [p EXCEPT !.f = WithStudent(p.f, s)].cfg = [q EXCEPT !.f = WithStudent(q.f, s)].cfg
<1> DEFINE f == WithStudent(q.f, s)
<1>1. /\ Twins(q, p, R, M) /\ Covers(q.sc, R) /\ FilterShape(q.f) /\ s \in M /\ s \in Students
      /\ DOMAIN q = QueryFields /\ DOMAIN p = QueryFields /\ p.f = q.f
  BY DEF StudentTwins, Twins
<1>2. FilterShape(f)
  BY <1>1, WithStudentShape
<1> HIDE DEF f
<1>3. Twins([q EXCEPT !.f = f], [p EXCEPT !.f = f], R, M)
  BY <1>1, TwinFilters
<1>4. [q EXCEPT !.f = f].f = f /\ [q EXCEPT !.f = f].sc = q.sc /\ [q EXCEPT !.f = f].d = q.d
  BY <1>1, FilterEdits
<1>5. StudentTwins([q EXCEPT !.f = f], [p EXCEPT !.f = f], R, M, s)
  BY <1>1, <1>2, <1>3, <1>4 DEF StudentTwins
<1>6. Compares(q, R) => Compares([q EXCEPT !.f = f], R)
  BY <1>4 DEF Compares
<1>7. [p EXCEPT !.f = f].cfg = [q EXCEPT !.f = f].cfg
  BY <1>3 DEF Twins
<1> QED
  BY <1>1, <1>5, <1>6, <1>7 DEF f

(* The charts of a student.                                                *)
LEMMA SamePaperTables ==
  ASSUME NEW f, NEW g, AlikePapers(f, g)
  PROVE  /\ Column(f, "pct") = Column(g, "pct") /\ Column(f, "marks") = Column(g, "marks")
         /\ Column(f, "absent") = Column(g, "absent")
BY DEF AlikePapers, Column

LEMMA SameTrend ==
  ASSUME NEW q, NEW p, NEW R, NEW M, NEW s, StudentTwins(q, p, R, M, s)
  PROVE  /\ Trimmed("student.subject_trend", StudentSubjectTrend(p, s))
              = Trimmed("student.subject_trend", StudentSubjectTrend(q, s))
         /\ Compares(q, R) => StudentSubjectTrend(p, s) = StudentSubjectTrend(q, s)
<1> DEFINE g == [q EXCEPT !.f = WithStudent(q.f, s)]
           h == [p EXCEPT !.f = WithStudent(p.f, s)]
           sq == StudentAssessmentSeries(g, s)
           sp == StudentAssessmentSeries(h, s)
           picked == Cardinality(ResolvedSubjects(q.f))
           lines(papers) ==
             [own |-> Column(papers, "pct"), marks |-> Column(papers, "marks"),
              absent |-> Column(papers, "absent"), class_avg |-> Column(papers, "class_avg")]
           matrix == IF picked > 1 THEN MatrixAverages(g, "term", "subject")
                     ELSE MatrixAverages(g, "subject", "term")
<1>0. p.f = q.f
  BY DEF StudentTwins, Twins
<1>1. StudentTwins(g, h, R, M, s) /\ (Compares(q, R) => Compares(g, R))
  BY MineTwins
<1> HIDE DEF g, h
<1>2. AlikePapers(sp, sq) /\ (Compares(q, R) => sp = sq)
  BY <1>1, SameAssessmentSeries
<1>3. SameRows(g, h)
  <2>1. Twins(g, h, R, M) /\ Covers(g.sc, R)
    BY <1>1 DEF StudentTwins
  <2> QED
    BY <2>1, TwinRows
<1>4. MatrixAverages(h, "term", "subject") = MatrixAverages(g, "term", "subject")
  BY <1>3, SameMatrix DEF MatrixAverages, SameRows
<1>5. MatrixAverages(h, "subject", "term") = MatrixAverages(g, "subject", "term")
  BY <1>3, SameMatrix DEF MatrixAverages, SameRows
<1> HIDE DEF sq, sp
<1>6. StudentSubjectTrend(q, s) = IF picked = 1 THEN lines(sq) ELSE [lines |-> matrix]
  BY DEF StudentSubjectTrend, g, sq
<1>7. StudentSubjectTrend(p, s) = IF picked = 1 THEN lines(sp) ELSE [lines |-> matrix]
  BY <1>0, <1>4, <1>5 DEF StudentSubjectTrend, h, sp
<1>8. /\ "student.subject_trend" \in DOMAIN HiddenFields /\ "student.subject_trend" \notin Tables
      /\ HiddenFields["student.subject_trend"] = {"class_avg"}
  BY DEF HiddenFields, Tables
<1>9. Without(lines(sp), {"class_avg"}) = Without(lines(sq), {"class_avg"})
  <2>1. DOMAIN lines(sp) \ {"class_avg"} = {"own", "marks", "absent"}
    OBVIOUS
  <2>2. DOMAIN lines(sq) \ {"class_avg"} = {"own", "marks", "absent"}
    OBVIOUS
  <2>3. \A x \in {"own", "marks", "absent"} : lines(sp)[x] = lines(sq)[x]
    BY <1>2, SamePaperTables
  <2> HIDE DEF lines
  <2> QED
    BY <2>1, <2>2, <2>3 DEF Without, Restrict
<1> HIDE DEF lines, matrix
<1> QED
  BY <1>2, <1>6, <1>7, <1>8, <1>9 DEF Trimmed

LEMMA SameTermRows ==
  ASSUME NEW q, NEW p, NEW R, NEW M, NEW s, StudentTwins(q, p, R, M, s), NEW home
  PROVE  /\ Trimmed("student.term_progress", StudentTermRows(p, s, home))
              = Trimmed("student.term_progress", StudentTermRows(q, s, home))
         /\ Compares(q, R) => StudentTermRows(p, s, home) = StudentTermRows(q, s, home)
<1> DEFINE tq == StudentTermProgress(q, s, home)
           tp == StudentTermProgress(p, s, home)
           hidden == {"rank", "cohort", "percentile", "class_avg"}
           row(x) == [term |-> x.term, average |-> x.average, grade |-> x.grade,
                      class_avg |-> x.class_avg, rank |-> x.place.rank, cohort |-> x.place.of,
                      percentile |-> x.place.percentile, delta |-> x.delta]
           table(rows) == [i \in DOMAIN rows |-> row(rows[i])]
<1>1. AlikeTerms(tp, tq) /\ (Compares(q, R) => tp = tq)
  BY SameTerms
<1> HIDE DEF tq, tp
<1>2. StudentTermRows(q, s, home) = table(tq) /\ StudentTermRows(p, s, home) = table(tp)
  BY DEF StudentTermRows, tq, tp
<1>3. /\ "student.term_progress" \in DOMAIN HiddenFields /\ "student.term_progress" \in Tables
      /\ HiddenFields["student.term_progress"] = hidden
  BY DEF HiddenFields, Tables
<1>4. DOMAIN tp = DOMAIN tq
  BY <1>1 DEF AlikeTerms
<1>5. ASSUME NEW i \in DOMAIN tq PROVE Without(row(tp[i]), hidden) = Without(row(tq[i]), hidden)
  <2>1. \A x : DOMAIN row(x) \ hidden = {"term", "average", "grade", "delta"}
    OBVIOUS
  <2>2. \A y \in {"term", "average", "grade", "delta"} : row(tp[i])[y] = row(tq[i])[y]
    BY <1>1 DEF AlikeTerms
  <2> HIDE DEF row, hidden
  <2> QED
    BY <2>1, <2>2 DEF Without, Restrict
<1> HIDE DEF row, hidden
<1>6. [i \in DOMAIN table(tp) |-> Without(table(tp)[i], hidden)]
        = [i \in DOMAIN table(tq) |-> Without(table(tq)[i], hidden)]
  BY <1>4, <1>5
<1> HIDE DEF table
<1> QED
  BY <1>1, <1>2, <1>3, <1>6 DEF Trimmed

LEMMA SamePaperTable ==
  ASSUME NEW q, NEW p, NEW R, NEW M, NEW s, StudentTwins(q, p, R, M, s)
  PROVE  /\ Trimmed("student.assessment_table", StudentAssessmentTable(p, s))
              = Trimmed("student.assessment_table", StudentAssessmentTable(q, s))
         /\ Compares(q, R) => StudentAssessmentTable(p, s) = StudentAssessmentTable(q, s)
<1> DEFINE g == [q EXCEPT !.f = WithStudent(q.f, s)]
           h == [p EXCEPT !.f = WithStudent(p.f, s)]
           sq == StudentAssessmentSeries(g, s)
           sp == StudentAssessmentSeries(h, s)
           hidden == {"class_avg", "gap"}
           row(x) == [marks |-> IF x.absent THEN None ELSE x.marks, pct |-> x.pct,
                      grade |-> LetterGrade(x.pct), class_avg |-> x.class_avg,
                      gap |-> Delta(x.pct, x.class_avg)]
           table(rows) == [a \in DOMAIN rows |-> row(rows[a])]
<1>1. StudentTwins(g, h, R, M, s) /\ (Compares(q, R) => Compares(g, R))
  BY MineTwins
<1> HIDE DEF g, h
<1>2. AlikePapers(sp, sq) /\ (Compares(q, R) => sp = sq)
  BY <1>1, SameAssessmentSeries
<1> HIDE DEF sq, sp
<1>3. StudentAssessmentTable(q, s) = table(sq) /\ StudentAssessmentTable(p, s) = table(sp)
  BY DEF StudentAssessmentTable, sq, sp, g, h
<1>4. /\ "student.assessment_table" \in DOMAIN HiddenFields /\ "student.assessment_table" \in Tables
      /\ HiddenFields["student.assessment_table"] = hidden
  BY DEF HiddenFields, Tables
<1>5. DOMAIN sp = DOMAIN sq
  BY <1>2 DEF AlikePapers
<1>6. ASSUME NEW a \in DOMAIN sq PROVE Without(row(sp[a]), hidden) = Without(row(sq[a]), hidden)
  <2>1. \A x : DOMAIN row(x) \ hidden = {"marks", "pct", "grade"}
    OBVIOUS
  <2>2. \A y \in {"marks", "pct", "grade"} : row(sp[a])[y] = row(sq[a])[y]
    BY <1>2 DEF AlikePapers
  <2> HIDE DEF row, hidden
  <2> QED
    BY <2>1, <2>2 DEF Without, Restrict
<1> HIDE DEF row, hidden
<1>7. [a \in DOMAIN table(sp) |-> Without(table(sp)[a], hidden)]
        = [a \in DOMAIN table(sq) |-> Without(table(sq)[a], hidden)]
  BY <1>5, <1>6
<1> HIDE DEF table
<1> QED
  BY <1>2, <1>3, <1>4, <1>7 DEF Trimmed

(* A result that is neither absent nor marked refuses both tables or none. *)
LEMMA SameRefusal ==
  ASSUME NEW q, NEW p, NEW R, NEW M, NEW s, StudentTwins(q, p, R, M, s)
  PROVE  Unprintable(p, s) <=> Unprintable(q, s)
<1> DEFINE g == [q EXCEPT !.f = WithStudent(q.f, s)]
           h == [p EXCEPT !.f = WithStudent(p.f, s)]
           sq == StudentAssessmentSeries(g, s)
           sp == StudentAssessmentSeries(h, s)
<1>1. StudentTwins(g, h, R, M, s)
  BY MineTwins
<1> HIDE DEF g, h
<1>2. AlikePapers(sp, sq)
  BY <1>1, SameAssessmentSeries
<1> HIDE DEF sq, sp
<1>3. /\ Unprintable(q, s) <=> \E a \in DOMAIN sq : ~sq[a].absent /\ sq[a].marks = None
      /\ Unprintable(p, s) <=> \E a \in DOMAIN sp : ~sp[a].absent /\ sp[a].marks = None
  BY DEF Unprintable, sq, sp, g, h
<1> QED
  BY <1>2, <1>3 DEF AlikePapers

LEMMA SameSubjectTable ==
  ASSUME NEW f, NEW g, AlikeSubjects(f, g)
  PROVE  Trimmed("student.subject_table", StudentSubjectTable(f))
           = Trimmed("student.subject_table", StudentSubjectTable(g))
<1> DEFINE hidden == {"class_avg", "gap", "rank", "percentile"}
           row(x) == [average |-> x.average, grade |-> LetterGrade(x.average),
                      class_avg |-> x.class_avg, gap |-> Delta(x.average, x.class_avg),
                      rank |-> <<x.place.rank, x.place.of>>, percentile |-> x.place.percentile,
                      trend |-> TrendLabel(x.slope), assessments |-> x.assessments,
                      consistency |-> ConsistencyLabel(x.consistency)]
           table(rows) == [b \in DOMAIN rows |-> row(rows[b])]
           kept == {"average", "grade", "trend", "assessments", "consistency"}
<1>1. /\ "student.subject_table" \in DOMAIN HiddenFields /\ "student.subject_table" \in Tables
      /\ HiddenFields["student.subject_table"] = hidden
  BY DEF HiddenFields, Tables
<1>2. StudentSubjectTable(f) = table(f) /\ StudentSubjectTable(g) = table(g)
  BY DEF StudentSubjectTable
<1>3. DOMAIN f = DOMAIN g
  BY DEF AlikeSubjects
<1>4. ASSUME NEW b \in DOMAIN g PROVE Without(row(f[b]), hidden) = Without(row(g[b]), hidden)
  <2>1. \A x : DOMAIN row(x) \ hidden = kept
    OBVIOUS
  <2>2. \A y \in kept : row(f[b])[y] = row(g[b])[y]
    BY DEF AlikeSubjects
  <2> HIDE DEF row, hidden, kept
  <2> QED
    BY <2>1, <2>2 DEF Without, Restrict
<1> HIDE DEF row, hidden
<1>5. [b \in DOMAIN table(f) |-> Without(table(f)[b], hidden)]
        = [b \in DOMAIN table(g) |-> Without(table(g)[b], hidden)]
  BY <1>3, <1>4
<1> HIDE DEF table
<1> QED
  BY <1>1, <1>2, <1>5 DEF Trimmed

LEMMA SameSubjectChart ==
  ASSUME NEW f, NEW g, AlikeSubjects(f, g),
         NEW chart \in {"student.subject_radar", "student.grade_mix", "student.subject_table"}
  PROVE  Trimmed(chart, SubjectChart(chart, f)) = Trimmed(chart, SubjectChart(chart, g))
<1>1. Column(f, "average") = Column(g, "average")
  BY AlikeColumns
<1>2. CASE chart = "student.grade_mix"
  BY <1>1, <1>2 DEF SubjectChart
<1>3. CASE chart = "student.subject_table"
  BY <1>3, SameSubjectTable DEF SubjectChart
<1>4. CASE chart = "student.subject_radar"
  <2> DEFINE radar(x) == [own |-> Column(x, "average"), class_avg |-> Column(x, "class_avg")]
  <2>1. \A x : SubjectChart(chart, x) = radar(x)
    BY <1>4 DEF SubjectChart
  <2>2. /\ "student.subject_radar" \in DOMAIN HiddenFields /\ "student.subject_radar" \notin Tables
        /\ HiddenFields["student.subject_radar"] = {"class_avg"}
    BY DEF HiddenFields, Tables
  <2>3. \A x : DOMAIN radar(x) \ {"class_avg"} = {"own"}
    OBVIOUS
  <2>4. radar(f)["own"] = radar(g)["own"]
    BY <1>1
  <2> HIDE DEF radar
  <2>5. Without(radar(f), {"class_avg"}) = Without(radar(g), {"class_avg"})
    BY <2>3, <2>4 DEF Without, Restrict
  <2> QED
    BY <1>4, <2>1, <2>2, <2>5 DEF Trimmed
<1> QED
  BY <1>2, <1>3, <1>4

LEMMA SameKpis ==
  ASSUME NEW o, NEW r, AlikeOverviews(o, r)
  PROVE  Trimmed("student.kpis", StudentKpis(o)) = Trimmed("student.kpis", StudentKpis(r))
<1> DEFINE hidden == {"gap", "class_overall", "rank"}
           kept == {"overall", "grade", "trend", "slope", "attendance", "status", "profile",
                    "assessments", "consistency"}
<1>1. /\ "student.kpis" \in DOMAIN HiddenFields /\ "student.kpis" \notin Tables
      /\ HiddenFields["student.kpis"] = hidden
  BY DEF HiddenFields, Tables
<1>2. \A x : DOMAIN StudentKpis(x) \ hidden = kept
  BY DEF StudentKpis
<1>3. \A y \in kept : StudentKpis(o)[y] = StudentKpis(r)[y]
  BY DEF StudentKpis, AlikeOverviews
<1> HIDE DEF hidden, kept
<1>4. Without(StudentKpis(o), hidden) = Without(StudentKpis(r), hidden)
  BY <1>2, <1>3 DEF Without, Restrict
<1> QED
  BY <1>1, <1>4 DEF Trimmed

(* The chart of a student who the portal of families has: what is left of  *)
(* it where the school does not compare, and all of it where it does.      *)
LEMMA SameStudentData ==
  ASSUME NEW q, NEW p, NEW R, NEW M, NEW s, StudentTwins(q, p, R, M, s), NEW home,
         NEW chart \in StudentCharts \ {"student.insights"}
  PROVE  /\ chart # "student.vs_class" =>
              Trimmed(chart, StudentData(chart, p, s, home))
                = Trimmed(chart, StudentData(chart, q, s, home))
         /\ Compares(q, R) => StudentData(chart, p, s, home) = StudentData(chart, q, s, home)
<1> DEFINE bq == StudentSubjectSummaries(q, s, home)
           bp == StudentSubjectSummaries(p, s, home)
<1>1. Twins(q, p, R, M) /\ s \in M
  BY DEF StudentTwins
<1>2. CASE chart \in SubjectCharts
  <2>1. \A x : StudentData(chart, x, s, home) = SubjectChart(chart, StudentSubjectSummaries(x, s, home))
    BY <1>2 DEF StudentData, SubjectCharts
  <2>2. AlikeSubjects(bp, bq) /\ (Compares(q, R) => bp = bq)
    BY SameSubjects
  <2>3. chart # "student.vs_class" =>
          chart \in {"student.subject_radar", "student.grade_mix", "student.subject_table"}
    BY <1>2 DEF SubjectCharts
  <2> HIDE DEF bq, bp
  <2>4. StudentData(chart, q, s, home) = SubjectChart(chart, bq)
    BY <2>1 DEF bq
  <2>5. StudentData(chart, p, s, home) = SubjectChart(chart, bp)
    BY <2>1 DEF bp
  <2> QED
    BY <2>2, <2>3, <2>4, <2>5, SameSubjectChart
<1>3. CASE chart = "student.kpis"
  <2>1. \A x : StudentData(chart, x, s, home) = StudentKpis(StudentOverview(x, s, home))
    BY <1>3 DEF StudentData, SubjectCharts
  <2> QED
    BY <1>3, <2>1, AlikeOverview, SameKpis
<1>4. CASE chart = "student.subject_trend"
  <2>1. \A x : StudentData(chart, x, s, home) = StudentSubjectTrend(x, s)
    BY <1>4 DEF StudentData, SubjectCharts
  <2> QED
    BY <1>4, <2>1, SameTrend
<1>5. CASE chart = "student.attendance"
  <2>1. \A x : StudentData(chart, x, s, home) = AttendanceMonthly(x, s)
    BY <1>5 DEF StudentData, SubjectCharts
  <2> QED
    BY <1>1, <2>1, SameMonthly
<1>6. CASE chart = "student.term_progress"
  <2>1. \A x : StudentData(chart, x, s, home) = StudentTermRows(x, s, home)
    BY <1>6 DEF StudentData, SubjectCharts
  <2> QED
    BY <1>6, <2>1, SameTermRows
<1>7. CASE chart = "student.assessment_table"
  <2>1. \A x : StudentData(chart, x, s, home) = StudentAssessmentTable(x, s)
    BY <1>7 DEF StudentData, SubjectCharts
  <2> QED
    BY <1>7, <2>1, SamePaperTable
<1>8. CASE chart = "student.remarks"
  <2>1. \A x : StudentData(chart, x, s, home) = StudentRemarks(x, s)
    BY <1>8 DEF StudentData, SubjectCharts
  <2> QED
    BY <1>1, <2>1, SameRemarks
<1>9. CASE chart = "student.insight_summary"
  <2> DEFINE g == [q EXCEPT !.f = WithStudent(q.f, s)]
             h == [p EXCEPT !.f = WithStudent(p.f, s)]
  <2>1. /\ StudentData(chart, q, s, home) = Summary(g, StudentOverview(g, s, home))
        /\ StudentData(chart, p, s, home) = Summary(h, StudentOverview(h, s, home))
    BY <1>9 DEF StudentData, SubjectCharts, BuildParentInsightSummary
  <2>2. StudentTwins(g, h, R, M, s) /\ h.cfg = g.cfg
    BY MineTwins
  <2> HIDE DEF g, h
  <2>3. AlikeOverviews(StudentOverview(h, s, home), StudentOverview(g, s, home))
    BY <2>2, AlikeOverview
  <2> QED
    BY <2>1, <2>2, <2>3, SameSummary
<1> QED
  BY <1>2, <1>3, <1>4, <1>5, <1>6, <1>7, <1>8, <1>9 DEF StudentCharts, SubjectCharts

(* A chart of a student, as it goes out to a family or to a teacher.       *)
LEMMA SameTarget ==
  ASSUME NEW q, NEW p, NEW R, NEW M, Twins(q, p, R, M)
  PROVE  TargetStudent(p) = TargetStudent(q) /\ \A s : HomeOf(p, s) = HomeOf(q, s)
<1>1. /\ p.f = q.f /\ p.sc = q.sc /\ p.d.active = q.d.active /\ p.d.home = q.d.home
  BY DEF Twins
<1>2. DefaultStudent(p) = DefaultStudent(q)
  BY <1>1 DEF DefaultStudent, YearOf
<1> QED
  BY <1>1, <1>2 DEF TargetStudent, HomeOf

LEMMA Sanitized ==
  ASSUME NEW chart, NEW q, ~CohortBenchmarksVisible(q.sc, q.cfg), NEW who, NEW data
  PROVE  SanitizeFamilyChart(chart, Named(who, data), q) = Named(who, Trimmed(chart, data))
<1>1. ~IsError(Named(who, data))
  BY NoErrorOnlyStatus DEF Named
<1>2. \A v : [Named(who, data) EXCEPT !.data = v] = Named(who, v)
  BY DEF Named
<1>3. Named(who, data).data = data
  BY DEF Named
<1> DEFINE n == Named(who, data)
<1> HIDE DEF n
<1>4. \A v : [n EXCEPT !.data = v] = Named(who, v)
  BY <1>2 DEF n
<1>5. ~IsError(n) /\ n.data = data
  BY <1>1, <1>3 DEF n
<1>6. CASE chart \notin DOMAIN HiddenFields
  BY <1>5, <1>6 DEF SanitizeFamilyChart, Trimmed, n
<1>7. CASE chart \in DOMAIN HiddenFields /\ chart \in Tables
  BY <1>4, <1>5, <1>7 DEF SanitizeFamilyChart, Trimmed, n
<1>8. CASE chart \in DOMAIN HiddenFields /\ chart \notin Tables
  BY <1>4, <1>5, <1>8 DEF SanitizeFamilyChart, Trimmed, n
<1> QED
  BY <1>6, <1>7, <1>8

LEMMA SameStudentChart ==
  ASSUME NEW q, NEW p, NEW R, NEW w, NEW x, Reading(q, w, x),
         Twins(q, p, R, Mine(w, x)), Covers(q.sc, R),
         CohortBenchmarksVisible(q.sc, q.cfg) => Compares(q, R),
         NEW chart \in StudentCharts \ {"student.insights"},
         chart = "student.vs_class" => CohortBenchmarksVisible(q.sc, q.cfg),
         NEW y, y.sc = q.sc, y.cfg = q.cfg, NEW z, z.sc = q.sc, z.cfg = q.cfg
  PROVE  SanitizeFamilyChart(chart, StudentChart(chart, p), y)
           = SanitizeFamilyChart(chart, StudentChart(chart, q), z)
<1> DEFINE s == TargetStudent(q)
           home == HomeOf(q, s)
           dq == StudentData(chart, q, s, home)
           dp == StudentData(chart, p, s, home)
           stopped(r) == chart = "student.assessment_table" /\ Unprintable(r, s)
<1>1. TargetStudent(p) = s /\ HomeOf(p, s) = home
  BY SameTarget
<1>2. /\ StudentChart(chart, q) = IF s = None THEN Refused(404)
                                  ELSE IF stopped(q) THEN Refused(500) ELSE Named({s}, dq)
      /\ StudentChart(chart, p) = IF s = None THEN Refused(404)
                                  ELSE IF stopped(p) THEN Refused(500) ELSE Named({s}, dp)
  BY <1>1 DEF StudentChart, AboutStudent
<1>3. s \in Mine(w, x) \cup {None}
  BY TargetKnown
<1> HIDE DEF s, home
<1>4. CASE s = None
  BY <1>2, <1>4, RefusedIsError DEF SanitizeFamilyChart
<1>5. CASE s # None
  <2>1. StudentTwins(q, p, R, Mine(w, x), s)
    BY <1>3, <1>5, MineIsSet DEF StudentTwins, Reading
  <2>0. stopped(p) <=> stopped(q)
    BY <2>1, SameRefusal
  <2> HIDE DEF stopped
  <2>1a. CASE stopped(q)
    BY <1>2, <1>5, <2>0, <2>1a, RefusedIsError DEF SanitizeFamilyChart
  <2>2. CASE ~stopped(q) /\ CohortBenchmarksVisible(q.sc, q.cfg)
    <3>1. dp = dq
      BY <2>1, <2>2, SameStudentData
    <3> HIDE DEF dp, dq
    <3>2. StudentChart(chart, p) = StudentChart(chart, q)
      BY <1>2, <2>0, <2>2, <3>1
    <3> QED
      BY <2>2, <3>2 DEF SanitizeFamilyChart
  <2>3. CASE ~stopped(q) /\ ~CohortBenchmarksVisible(q.sc, q.cfg)
    <3>1. Trimmed(chart, dp) = Trimmed(chart, dq)
      BY <2>1, <2>3, SameStudentData
    <3> HIDE DEF dp, dq
    <3>2. SanitizeFamilyChart(chart, Named({s}, dp), y) = Named({s}, Trimmed(chart, dp))
      BY <2>3, Sanitized
    <3>3. SanitizeFamilyChart(chart, Named({s}, dq), z) = Named({s}, Trimmed(chart, dq))
      BY <2>3, Sanitized
    <3> QED
      BY <1>2, <1>5, <2>0, <2>3, <3>1, <3>2, <3>3
  <2> QED
    BY <2>1a, <2>2, <2>3
<1> QED
  BY <1>4, <1>5

(* Every chart that a caller other than the principal is given.            *)
May(way, chart, sc, settings) ==
  IF way = "chart" THEN MayGet(chart, sc, settings) ELSE MayExport(chart, sc, settings)

LEMMA OpenCharts ==
  ASSUME NEW sc, sc.role \in {"teacher", "parent", "student"}, NEW settings,
         NEW chart \in AllCharts, NEW way, May(way, chart, sc, settings)
  PROVE  /\ chart \in StudentCharts \cup SectionCharts \cup InterventionCharts
         /\ chart # "student.insights"
         /\ chart = "student.vs_class" => CohortBenchmarksVisible(sc, settings)
<1>1. sc.role \in Roles(chart)
  BY DEF May, MayGet, MayExport
<1>2. chart \notin SchoolCharts /\ chart # "student.insights"
  BY <1>1, ChartRoles DEF ADMIN_ONLY
<1>3. chart = "student.vs_class" => CohortBenchmarksVisible(sc, settings)
  BY DEF May, MayGet, MayExport, ChartAllowedForScope, CohortOnly
<1> QED
  BY <1>2, <1>3 DEF AllCharts

LEMMA SamePayload ==
  ASSUME NEW q, NEW p, NEW R, NEW w, NEW x, Reading(q, w, x), x.role # "admin",
         Twins(q, p, R, Mine(w, x)), Covers(q.sc, R),
         CohortBenchmarksVisible(q.sc, q.cfg) => Compares(q, R),
         NEW chart \in StudentCharts \cup SectionCharts \cup InterventionCharts,
         chart # "student.insights",
         chart = "student.vs_class" => CohortBenchmarksVisible(q.sc, q.cfg)
  PROVE  Payload(chart, p) = Payload(chart, q)
<1> DEFINE f == Narrow(q.sc, q.f)
           g == [q EXCEPT !.f = f]
           h == [p EXCEPT !.f = f]
<1>1. p.f = q.f /\ p.sc = q.sc /\ p.cfg = q.cfg
  BY DEF Twins
<1>2. CASE IsError(f)
  BY <1>1, <1>2 DEF Payload, Narrowed
<1>3. CASE ~IsError(f)
  <2>1. FilterShape(f)
    BY <1>3, NarrowShape DEF Reading
  <2> HIDE DEF f
  <2>2. Reading(g, w, x) /\ g.sc = q.sc /\ g.cfg = q.cfg /\ g.d = q.d
    BY <2>1, ReadingWith
  <2>3. Twins(g, h, R, Mine(w, x))
    BY TwinFilters
  <2>4. Compares(q, R) => Compares(g, R)
    BY <2>2 DEF Compares
  <2>5. h.cfg = g.cfg
    BY <2>3 DEF Twins
  <2> HIDE DEF g, h
  <2> DEFINE off == \/ chart = "student.remarks" /\ ~g.cfg.remarks
                    \/ chart \in InterventionCharts /\ ~g.cfg.interventions
  <2>6. CASE off
    <3>1. Handler(chart, h) = Refused(404) /\ Handler(chart, g) = Refused(404)
      BY <2>5, <2>6 DEF Handler
    <3> QED
      BY <3>1, <1>1, <1>3, RefusedIsError DEF Payload, Narrowed, SanitizeFamilyChart, f, g, h
  <2>7. CASE ~off /\ chart \in StudentCharts
    <3>1. Handler(chart, h) = StudentChart(chart, h) /\ Handler(chart, g) = StudentChart(chart, g)
      BY <2>5, <2>7, ChartsApart DEF Handler
    <3>2. SanitizeFamilyChart(chart, StudentChart(chart, h), p)
            = SanitizeFamilyChart(chart, StudentChart(chart, g), q)
      BY <1>1, <2>2, <2>3, <2>4, <2>7, SameStudentChart
    <3> QED
      BY <1>1, <1>3, <3>1, <3>2 DEF Payload, Narrowed, f, g, h
  <2>8. CASE ~off /\ chart \in SectionCharts
    <3>1. Handler(chart, h) = ClassroomChart(chart, h) /\ Handler(chart, g) = ClassroomChart(chart, g)
      BY <2>5, <2>8, ChartsApart DEF Handler
    <3>2. ClassroomChart(chart, h) = ClassroomChart(chart, g)
      BY <2>2, <2>3, SameClassroom
    <3>3. \A c : SanitizeFamilyChart(chart, c, p) = SanitizeFamilyChart(chart, c, q)
      BY <1>1 DEF SanitizeFamilyChart
    <3> QED
      BY <1>1, <1>3, <3>1, <3>2, <3>3 DEF Payload, Narrowed, f, g, h
  <2>9. CASE ~off /\ chart \in InterventionCharts
    <3>1. Handler(chart, h) = Named({}, {}) /\ Handler(chart, g) = Named({}, {})
      BY <2>5, <2>9, ChartsApart DEF Handler
    <3>2. \A c : SanitizeFamilyChart(chart, c, p) = SanitizeFamilyChart(chart, c, q)
      BY <1>1 DEF SanitizeFamilyChart
    <3> QED
      BY <1>1, <1>3, <3>1, <3>2 DEF Payload, Narrowed, f, g, h
  <2> QED
    BY <2>6, <2>7, <2>8, <2>9
<1> QED
  BY <1>2, <1>3

LEMMA SameReply ==
  ASSUME NEW q, NEW p, NEW R, NEW w, NEW x, Reading(q, w, x), x.role # "admin",
         Twins(q, p, R, Mine(w, x)), Covers(q.sc, R),
         CohortBenchmarksVisible(q.sc, q.cfg) => Compares(q, R),
         NEW chart \in AllCharts, NEW way
  PROVE  Reply(way, chart, p) = Reply(way, chart, q)
<1> DEFINE may == May(way, chart, q.sc, q.cfg)
<1>1. p.sc = q.sc /\ p.cfg = q.cfg
  BY DEF Twins
<1>2. CASE may
  <2>1. q.sc.role \in {"teacher", "parent", "student"}
    BY OwnStudents, ViewerRoles DEF Reading
  <2>2. /\ chart \in StudentCharts \cup SectionCharts \cup InterventionCharts
        /\ chart # "student.insights"
        /\ chart = "student.vs_class" => CohortBenchmarksVisible(q.sc, q.cfg)
    BY <1>2, <2>1, OpenCharts
  <2>3. Payload(chart, p) = Payload(chart, q)
    BY <2>2, SamePayload
  <2> QED
    BY <1>1, <2>3 DEF Reply
<1>3. CASE ~may
  BY <1>1, <1>3 DEF Reply, May
<1> QED
  BY <1>2, <1>3

---------------------------------------------------------------------------
(* The school with everything erased that the caller may not read.         *)
Visible == {k \in Results : Readable(k)}

LEMMA ErasedTwins ==
  ASSUME school \in School
  PROVE  Twins(Query(school), Query(Erased), Visible, Mine(was, req.viewer))
<1> DEFINE M == Mine(was, req.viewer)
<1>1. /\ DOMAIN school.score = Results
      /\ DOMAIN school.register = Students \X DOMAIN Day
      /\ \A r \in school.remarks : r.student \in Students
  BY DEF School, Results
<1>2. /\ Erased.active = school.active /\ Erased.home = school.home
      /\ Erased.assigned = school.assigned
  BY SchoolFields DEF Erased
<1>3. Erased.score = [k \in Results |-> IF Readable(k) THEN school.score[k] ELSE None]
  BY <1>1, SchoolFields DEF Erased
<1>4. Erased.register = [k \in Students \X DOMAIN Day |->
                           IF MayKnow(was, req.viewer, k[1]) THEN school.register[k] ELSE None]
  BY <1>1, SchoolFields DEF Erased
<1>5. Erased.remarks = {r \in school.remarks : MayKnow(was, req.viewer, r.student)}
  BY SchoolFields DEF Erased
<1>6. \A k \in Results : Erased.score[k] = IF k \in Visible THEN school.score[k] ELSE None
  BY <1>3 DEF Visible
<1>7. \A s \in M : \A t \in DOMAIN Day : Erased.register[<<s, t>>] = school.register[<<s, t>>]
  BY <1>4 DEF Mine
<1>8. Erased.remarks = {r \in school.remarks : r.student \in M}
  BY <1>1, <1>5 DEF Mine
<1>9. /\ DOMAIN Query(school) = QueryFields /\ DOMAIN Query(Erased) = QueryFields
      /\ Query(school).d = school /\ Query(Erased).d = Erased
      /\ Query(Erased).cfg = Query(school).cfg /\ Query(Erased).f = Query(school).f
      /\ Query(Erased).sc = Query(school).sc /\ Query(Erased).last = Query(school).last
  BY DEF Query, QueryFields
<1> QED
  BY <1>2, <1>6, <1>7, <1>8, <1>9 DEF Twins

(* Everything within the scope may be read.                                *)
LEMMA ScopeReadable ==
  ASSUME NEW sc, was \in School, req.viewer \in Viewers, req.viewer.role # "admin",
         ScopeOf(was, req.viewer, sc)
  PROVE  Covers(sc, Visible)
<1> SUFFICES ASSUME NEW k \in Results, ScopeConditions(sc, k) PROVE Readable(k)
  BY DEF Covers, Visible
<1> DEFINE x == req.viewer
           c == Paper[k[2]].section
           b == Paper[k[2]].subject
<1>1. k[1] \in Students
  BY DEF Results
<1>2. CASE x.role = "teacher"
  <2>1. x.id # None /\ sc.section_subjects = SectionSubjects(was, x.id)
    BY <1>2 DEF ScopeOf, StaffScope
  <2>2. sc.section_subjects # None
    BY <2>1, IdsAssumption DEF SectionSubjects
  <2>3. <<c, b>> \in SectionSubjects(was, x.id)
    BY <2>1, <2>2 DEF ScopeConditions, PaperOf
  <2>4. Teaches(was, x.id, c, b)
    BY <2>3 DEF SectionSubjects, Teaches
  <2> QED
    BY <1>2, <2>1, <2>4 DEF Readable
<1>3. CASE x.role # "teacher"
  <2>1. sc.student_ids = Mine(was, x)
    BY DEF ScopeOf, OwnScope
  <2>2. k[1] \in Mine(was, x)
    BY <1>1, <2>1, MineIsSet, IdsAssumption DEF ScopeConditions, Within
  <2> QED
    BY <1>3, <2>2 DEF Readable, Mine
<1> QED
  BY <1>2, <1>3

(* Where benchmarks are shown, so may be what they are drawn from.         *)
LEMMA BenchmarksReadable ==
  ASSUME NEW q, Reading(q, was, req.viewer), req.viewer.role # "admin",
         q.d = school, q.cfg = cfg, CohortBenchmarksVisible(q.sc, q.cfg)
  PROVE  Compares(q, Visible)
<1> DEFINE x == req.viewer
           sc == q.sc
<1>1. was \in School /\ x \in Viewers /\ ScopeOf(was, x, sc) /\ sc.role = x.role
  BY DEF Reading, ScopeOf
<1>2. Covers(sc, Visible)
  BY <1>1, ScopeReadable
<1>3. CASE x.role = "teacher"
  <2>1. CohortView(sc) = sc
    BY <1>1, <1>3 DEF CohortView, Family
  <2>2. ASSUME NEW k \in Results, ScopeConditions(sc, k), NEW j \in Students
        PROVE  <<j, k[2]>> \in Visible
    <3>1. k \in Visible /\ <<j, k[2]>> \in Results
      BY <1>2, <2>2 DEF Covers, Results
    <3>2. Readable(<<j, k[2]>>)
      BY <1>3, <3>1 DEF Visible, Readable
    <3> QED
      BY <3>1, <3>2 DEF Visible
  <2> QED
    BY <1>2, <2>1, <2>2 DEF Compares
<1>4. CASE x.role # "teacher"
  <2>1. Family(x) /\ Family(sc) /\ cfg.comparison = "cohort"
    BY <1>1, <1>4, ViewerRoles DEF Family, CohortBenchmarksVisible
  <2>2. /\ sc.student_ids = Mine(was, x) /\ sc.home = [s \in Mine(was, x) |-> was.home[s]]
        /\ DOMAIN sc = ScopeFields
    BY <1>1 DEF ScopeOf, OwnScope
  <2>3. Range(sc.home) = {was.home[s] : s \in Mine(was, x)}
    BY <2>2 DEF Range
  <2>4. \A s \in Mine(was, x) : was.home[s] \in Sections
    BY <1>1, SchoolFields, MineIsSet
  <2>5. Range(sc.home) # None
    BY <2>3, <2>4, IdsAssumption
  <2>6. CohortView(sc).student_ids = None /\ CohortView(sc).section_subjects = None
        /\ CohortView(sc).section_ids = Range(sc.home)
    BY <2>1, <2>2 DEF CohortView, ScopeFields
  <2> DEFINE view == CohortView(sc)
  <2> HIDE DEF view
  <2>7. ASSUME NEW k \in Results, ScopeConditions(view, k) PROVE k \in Visible
    <3>1. Paper[k[2]].section \in Range(sc.home)
      <4>1. Paper[k[2]].section \in Sections /\ Paper[k[2]].section # None
        BY PaperAssumption, IdsAssumption DEF Results
      <4>2. Within(Range(sc.home), Paper[k[2]].section)
        BY <2>6, <2>7 DEF ScopeConditions, PaperOf, view
      <4> QED
        BY <2>5, <4>1, <4>2 DEF Within
    <3>2. PICK s \in Mine(was, x) : was.home[s] = Paper[k[2]].section
      BY <2>3, <3>1
    <3>3. s \in Students /\ MayKnow(was, x, s)
      BY DEF Mine
    <3>4. Readable(k)
      BY <1>1, <1>4, <2>1, <3>2, <3>3 DEF Readable
    <3> QED
      BY <3>4 DEF Visible
  <2>8. ASSUME NEW k \in Results, school.score[k] # None, ScopeConditions(sc, k), NEW j \in Students
        PROVE  <<j, k[2]>> \in Visible
    <3>1. k[1] \in Students /\ k = <<k[1], k[2]>> /\ <<j, k[2]>> \in Results /\ <<j, k[2]>>[2] = k[2]
      BY DEF Results
    <3>2. k[1] \in Mine(was, x)
      BY <2>2, <2>8, <3>1, MineIsSet, IdsAssumption DEF ScopeConditions, Within
    <3>3. MayKnow(was, x, k[1]) /\ school.score[<<k[1], k[2]>>] # None
      BY <2>8, <3>1, <3>2 DEF Mine
    <3>4. Readable(<<j, k[2]>>)
      BY <1>4, <2>1, <3>1, <3>3 DEF Readable
    <3> QED
      BY <3>1, <3>4 DEF Visible
  <2> QED
    BY <2>7, <2>8 DEF Compares, Covers, view
<1> QED
  BY <1>3, <1>4

(* policy.py and deps.py: no answer to a family or a teacher moves with a  *)
(* mark, a day of a register or a remark that its reader may not read, in  *)
(* whatever chart, field or file, and whatever has changed in the school   *)
(* since the scope was read.                                               *)
THEOREM AnswersSound == Spec => []AnswersRestOnReadable
<1>1. PortalInv => AnswersRestOnReadable
  <2> SUFFICES ASSUME PortalInv, req.stage = "done", req.chart # None,
                      req.viewer.role # "admin"
               PROVE  req.answer = Reply(req.way, req.chart, Query(Erased))
    BY DEF AnswersRestOnReadable
  <2>1. /\ req.chart \in AllCharts /\ req.answer = Reply(req.way, req.chart, Query(school))
        /\ school \in School /\ was \in School /\ FilterShape(req.filters)
        /\ req.viewer \in Viewers /\ ScopeOf(was, req.viewer, req.scope)
    BY DEF PortalInv, Handled, UnderWay
  <2>2. Reading(Query(school), was, req.viewer)
    BY <2>1, QueryReading DEF Query
  <2>3. Query(school).d = school /\ Query(school).cfg = cfg /\ Query(school).sc = req.scope
    BY DEF Query
  <2>4. Twins(Query(school), Query(Erased), Visible, Mine(was, req.viewer))
    BY <2>1, ErasedTwins
  <2>5. Covers(Query(school).sc, Visible)
    BY <2>1, <2>3, ScopeReadable
  <2>6. CohortBenchmarksVisible(Query(school).sc, Query(school).cfg) => Compares(Query(school), Visible)
    BY <2>2, <2>3, BenchmarksReadable
  <2>7. Reply(req.way, req.chart, Query(Erased)) = Reply(req.way, req.chart, Query(school))
    BY <2>1, <2>2, <2>4, <2>5, <2>6, SameReply
  <2> QED
    BY <2>1, <2>7
<1> QED
  BY <1>1, PortalInvariant, PTL

---------------------------------------------------------------------------
(* Finite sets, sums over them, and what lies between what.  The sums are  *)
(* the library's (Functions); their defining recursion is solved here.     *)

(* Of some subsets of a finite set one has no other of them within it.     *)
LEMMA FinMin ==
  ASSUME NEW S, IsFiniteSet(S), NEW T \in SUBSET SUBSET S, T # {}
  PROVE  \E x \in T : \A y \in T : y \subseteq x => y = x
<1> DEFINE R == StrictSubsetOrdering(S)
<1>1. IsWellFoundedOn(R, SUBSET S)
  BY FS_StrictSubsetOrderingWellFounded, FS_FiniteSubsetsOfFinite
<1>2. PICK x \in T : \A y \in T : ~ (<<y, x>> \in R)
  <2> HIDE DEF R
  <2> QED
    BY <1>1, WFMin
<1>3. ASSUME NEW y \in T, y \subseteq x PROVE y = x
  <2>1. <<y, x>> \notin R /\ y \in SUBSET S /\ x \in SUBSET S
    BY <1>2
  <2> QED
    BY <1>3, <2>1 DEF StrictSubsetOrdering
<1> QED
  BY <1>3

(* Induction over the subsets of a finite set: Q holds those it is true of.*)
LEMMA FinInduction ==
  ASSUME NEW S, IsFiniteSet(S), NEW Q, {} \in Q,
         \A U \in SUBSET S : U # {} /\ (\A V \in SUBSET U : V # U => V \in Q) => U \in Q
  PROVE  SUBSET S \subseteq Q
<1> DEFINE T == {U \in SUBSET S : U \notin Q}
<1> SUFFICES ASSUME T # {} PROVE FALSE
  OBVIOUS
<1>1. PICK U \in T : \A V \in T : V \subseteq U => V = U
  <2>1. T \in SUBSET SUBSET S
    OBVIOUS
  <2> HIDE DEF T
  <2> QED
    BY <2>1, FinMin
<1>2. \A V \in SUBSET U : V # U => V \in Q
  BY <1>1
<1> QED
  BY <1>1, <1>2

---------------------------------------------------------------------------
(* The library's sums and products, unfolded: one element less at a time.  *)
Pick(s) == CHOOSE x \in s : TRUE
Neutral(m) == IF m = "sum" THEN 0 ELSE 1
Combine(m, a, b) == IF m = "sum" THEN a + b ELSE a * b
FoldStep(m, f, g, s) == IF s = {} THEN Neutral(m) ELSE Combine(m, f[Pick(s)], g[s \ {Pick(s)}])
Folds(m, f, g, S) == g = [s \in SUBSET S |-> FoldStep(m, f, g, s)]

LEMMA PickIn == ASSUME NEW s, s # {} PROVE Pick(s) \in s
BY DEF Pick

(* Two solutions agree on what both solve.                                 *)
LEMMA FoldsAgree ==
  ASSUME NEW m, NEW f, NEW S, IsFiniteSet(S), NEW g, NEW h, NEW G, NEW H,
         S \subseteq G, S \subseteq H, Folds(m, f, g, G), Folds(m, f, h, H)
  PROVE  \A s \in SUBSET S : g[s] = h[s]
<1> DEFINE Q == {s \in SUBSET S : g[s] = h[s]}
<1>1. \A s \in SUBSET S : g[s] = FoldStep(m, f, g, s) /\ h[s] = FoldStep(m, f, h, s)
  BY DEF Folds
<1>2. {} \in Q
  BY <1>1 DEF FoldStep
<1>3. ASSUME NEW U \in SUBSET S, U # {}, \A V \in SUBSET U : V # U => V \in Q
      PROVE  U \in Q
  <2>1. U \ {Pick(U)} \in SUBSET U /\ U \ {Pick(U)} # U
    BY <1>3, PickIn
  <2>2. g[U \ {Pick(U)}] = h[U \ {Pick(U)}]
    BY <1>3, <2>1
  <2> QED
    BY <1>1, <1>3, <2>2 DEF FoldStep
<1>4. SUBSET S \subseteq Q
  <2> HIDE DEF Q
  <2> QED
    BY <1>2, <1>3, FinInduction
<1> QED
  BY <1>4

LEMMA FoldsExist ==
  ASSUME NEW m, NEW f, NEW S, IsFiniteSet(S)
  PROVE  \E g : Folds(m, f, g, S)
<1> DEFINE Q == {s \in SUBSET S : \E g : Folds(m, f, g, s)}
           Sol(s) == CHOOSE g : Folds(m, f, g, s)
<1>1. {} \in Q
  <2>1. Folds(m, f, [s \in {{}} |-> Neutral(m)], {})
    BY DEF Folds, FoldStep
  <2> QED
    BY <2>1
<1>2. ASSUME NEW U \in SUBSET S, U # {}, \A V \in SUBSET U : V # U => V \in Q
      PROVE  U \in Q
  <2> DEFINE less(s) == s \ {Pick(s)}
             g == [s \in SUBSET U |->
                     IF s = {} THEN Neutral(m) ELSE Combine(m, f[Pick(s)], Sol(less(s))[less(s)])]
  <2>1. ASSUME NEW s \in SUBSET U, s # {}
        PROVE  /\ less(s) \in SUBSET U /\ Folds(m, f, Sol(less(s)), less(s))
               /\ IsFiniteSet(less(s))
    <3>1. less(s) \in SUBSET U /\ less(s) # U
      BY <2>1, PickIn
    <3>2. less(s) \in Q
      BY <1>2, <3>1
    <3>3. IsFiniteSet(less(s))
      BY <3>1, FS_Subset
    <3> QED
      BY <3>1, <3>2, <3>3
  <2>2. ASSUME NEW s \in SUBSET U, s # {}
        PROVE  g[less(s)] = Sol(less(s))[less(s)]
    <3> DEFINE t == less(s)
    <3>1. t \in SUBSET U /\ Folds(m, f, Sol(t), t)
      BY <2>1, <2>2
    <3>2. Sol(t)[t] = FoldStep(m, f, Sol(t), t)
      <4> HIDE DEF t, Sol
      <4> QED
        BY <3>1 DEF Folds
    <3>3. CASE t = {}
      BY <3>1, <3>2, <3>3 DEF FoldStep
    <3>4. CASE t # {}
      <4>1. /\ less(t) \in SUBSET U /\ Folds(m, f, Sol(less(t)), less(t))
            /\ IsFiniteSet(less(t)) /\ less(t) \subseteq t
        BY <2>1, <3>1, <3>4
      <4>2. Sol(t)[less(t)] = Sol(less(t))[less(t)]
        <5> HIDE DEF less, Sol, t
        <5> QED
          BY <3>1, <4>1, FoldsAgree
      <4>3. Sol(t)[t] = Combine(m, f[Pick(t)], Sol(t)[less(t)])
        BY <3>2, <3>4 DEF FoldStep
      <4> QED
        BY <3>1, <3>4, <4>2, <4>3
    <3> QED
      BY <3>3, <3>4
  <2>3. ASSUME NEW s \in SUBSET U PROVE g[s] = FoldStep(m, f, g, s)
    <3>1. CASE s = {}
      <4>1. g[s] = Neutral(m)
        BY <3>1
      <4> HIDE DEF g
      <4> QED
        BY <3>1, <4>1 DEF FoldStep
    <3>2. CASE s # {}
      <4>1. g[s] = Combine(m, f[Pick(s)], Sol(less(s))[less(s)])
        BY <3>2
      <4>2. g[s] = Combine(m, f[Pick(s)], g[less(s)])
        BY <2>2, <3>2, <4>1
      <4> HIDE DEF g
      <4> QED
        BY <3>2, <4>2 DEF FoldStep
    <3> QED
      BY <3>1, <3>2
  <2>4. Folds(m, f, g, U)
    <3>1. g = [s \in SUBSET U |-> g[s]]
      OBVIOUS
    <3> HIDE DEF g
    <3> QED
      BY <2>3, <3>1 DEF Folds
  <2> QED
    BY <2>4
<1>3. SUBSET S \subseteq Q
  <2> HIDE DEF Q
  <2> QED
    BY <1>1, <1>2, FinInduction
<1> QED
  BY <1>3

LEMMA FoldUnfolds ==
  ASSUME NEW m, NEW f, NEW S, IsFiniteSet(S), NEW g, Folds(m, f, g, S),
         NEW T, T = S \ {Pick(S)}, NEW h, Folds(m, f, h, T)
  PROVE  /\ S = {} => g[S] = Neutral(m)
         /\ S # {} => g[S] = Combine(m, f[Pick(S)], h[T])
<1>1. IsFiniteSet(T) /\ T \subseteq S
  BY FS_Subset
<1>2. g[S] = FoldStep(m, f, g, S)
  BY DEF Folds
<1>3. g[T] = h[T]
  <2>1. T \subseteq T /\ T \in SUBSET T
    OBVIOUS
  <2>2. \A s \in SUBSET T : g[s] = h[s]
    BY <1>1, <2>1, FoldsAgree, SMTT(60)
  <2> QED
    BY <2>1, <2>2
<1>4. S # {} => g[S] = Combine(m, f[Pick(S)], g[S \ {Pick(S)}])
  BY <1>2 DEF FoldStep
<1>5. S # {} => g[S] = Combine(m, f[Pick(S)], g[T])
  BY <1>4
<1>6. S = {} => g[S] = Neutral(m)
  BY <1>2 DEF FoldStep
<1> QED
  BY <1>3, <1>5, <1>6

(* SumFunction.                                                            *)
SumStep(f, g, s) == IF s = {} THEN 0 ELSE f[Pick(s)] + g[s \ {Pick(s)}]
Sums(f, g, S) == g = [s \in SUBSET S |-> SumStep(f, g, s)]
SumOf(f, S) == CHOOSE g : Sums(f, g, S)
Numbers(f, S) == \A x \in S : f[x] \in Int

LEMMA Unfold ==
  ASSUME NEW f, NEW S PROVE SumFunctionOnSet(f, S) = SumOf(f, S)[S]
BY DEF SumFunctionOnSet, FoldFunctionOnSet, MapThenFoldSet, SumOf, Sums, SumStep, Pick

LEMMA SumFolds ==
  ASSUME NEW f, NEW S, IsFiniteSet(S) PROVE Folds("sum", f, SumOf(f, S), S)
<1>1. ASSUME NEW g PROVE Sums(f, g, S) <=> Folds("sum", f, g, S)
  <2>1. \A s : SumStep(f, g, s) = FoldStep("sum", f, g, s)
    BY DEF SumStep, FoldStep, Neutral, Combine
  <2> QED
    BY <2>1 DEF Sums, Folds
<1>2. \E g : Sums(f, g, S)
  BY <1>1, FoldsExist
<1>3. Sums(f, SumOf(f, S), S)
  BY <1>2 DEF SumOf
<1> QED
  BY <1>1, <1>3

LEMMA SumUnfolds ==
  ASSUME NEW f, NEW S, IsFiniteSet(S)
  PROVE  /\ S = {} => SumFunctionOnSet(f, S) = 0
         /\ S # {} => SumFunctionOnSet(f, S)
                        = f[Pick(S)] + SumFunctionOnSet(f, S \ {Pick(S)})
<1>1. PICK T : T = S \ {Pick(S)}
  OBVIOUS
<1>2. IsFiniteSet(T)
  BY <1>1, FS_Subset
<1>3. Folds("sum", f, SumOf(f, S), S) /\ Folds("sum", f, SumOf(f, T), T)
  BY <1>2, SumFolds
<1>4. /\ S = {} => SumOf(f, S)[S] = Neutral("sum")
      /\ S # {} => SumOf(f, S)[S] = Combine("sum", f[Pick(S)], SumOf(f, T)[T])
  BY <1>1, <1>3, FoldUnfolds
<1>5. SumFunctionOnSet(f, S) = SumOf(f, S)[S] /\ SumFunctionOnSet(f, T) = SumOf(f, T)[T]
  BY Unfold
<1> QED
  BY <1>1, <1>4, <1>5 DEF Neutral, Combine

(* Induction by adding one element.                                        *)
LEMMA AddInduction ==
  ASSUME NEW S, IsFiniteSet(S), NEW Q, {} \in Q,
         \A U \in SUBSET S : \A x \in S : x \notin U /\ U \in Q => U \cup {x} \in Q
  PROVE  SUBSET S \subseteq Q
<1>1. ASSUME NEW U \in SUBSET S, U # {}, \A V \in SUBSET U : V # U => V \in Q
      PROVE  U \in Q
  <2>1. PICK x \in U : TRUE
    BY <1>1
  <2>2. U \ {x} \in SUBSET U /\ U \ {x} # U /\ U = (U \ {x}) \cup {x} /\ x \in S
    OBVIOUS
  <2>3. U \ {x} \in Q /\ U \ {x} \in SUBSET S /\ x \notin U \ {x}
    BY <1>1, <2>2
  <2> QED
    BY <2>2, <2>3
<1> QED
  BY <1>1, FinInduction

LEMMA SumTyped ==
  ASSUME NEW f, NEW S, IsFiniteSet(S), Numbers(f, S)
  PROVE  \A U \in SUBSET S : SumFunctionOnSet(f, U) \in Int
<1> DEFINE Q == {U \in SUBSET S : SumFunctionOnSet(f, U) \in Int}
<1>1. {} \in Q
  <2>1. SumFunctionOnSet(f, {}) = 0
    BY SumUnfolds, FS_EmptySet
  <2> QED
    BY <2>1
<1>2. ASSUME NEW U \in SUBSET S, U # {}, \A V \in SUBSET U : V # U => V \in Q
      PROVE  U \in Q
  <2>1. Pick(U) \in U /\ U \ {Pick(U)} \in SUBSET U /\ U \ {Pick(U)} # U
    BY <1>2, PickIn
  <2>2. SumFunctionOnSet(f, U \ {Pick(U)}) \in Int
    BY <1>2, <2>1
  <2>3. IsFiniteSet(U)
    BY FS_Subset
  <2>4. SumFunctionOnSet(f, U) = f[Pick(U)] + SumFunctionOnSet(f, U \ {Pick(U)})
    BY <1>2, <2>3, SumUnfolds
  <2>5. f[Pick(U)] \in Int
    BY <2>1 DEF Numbers
  <2> QED
    BY <2>2, <2>4, <2>5
<1>3. SUBSET S \subseteq Q
  <2> HIDE DEF Q
  <2> QED
    BY <1>1, <1>2, FinInduction
<1> QED
  BY <1>3

(* Whichever element is taken first.                                       *)
Splits(f, U) ==
  \A x \in U : SumFunctionOnSet(f, U) = f[x] + SumFunctionOnSet(f, U \ {x})

LEMMA SumSplits ==
  ASSUME NEW f, NEW S, IsFiniteSet(S), Numbers(f, S)
  PROVE  \A U \in SUBSET S : Splits(f, U)
<1> DEFINE Q == {U \in SUBSET S : Splits(f, U)}
<1>1. {} \in Q
  BY DEF Splits
<1>2. ASSUME NEW U \in SUBSET S, U # {}, \A V \in SUBSET U : V # U => V \in Q
      PROVE  U \in Q
  <2> SUFFICES ASSUME NEW x \in U
               PROVE  SumFunctionOnSet(f, U) = f[x] + SumFunctionOnSet(f, U \ {x})
    BY DEF Splits
  <2> DEFINE p == Pick(U)
             A == U \ {p}
             B == U \ {x}
             C == U \ {p, x}
  <2>1. IsFiniteSet(U) /\ p \in U
    BY <1>2, FS_Subset, PickIn
  <2>2. SumFunctionOnSet(f, U) = f[p] + SumFunctionOnSet(f, A)
    BY <1>2, <2>1, SumUnfolds
  <2>3. CASE p = x
    BY <2>2, <2>3
  <2>4. CASE p # x
    <3>1. A \in SUBSET U /\ A # U /\ x \in A /\ A \ {x} = C
      BY <2>1, <2>4
    <3>2. B \in SUBSET U /\ B # U /\ p \in B /\ B \ {p} = C
      BY <2>1, <2>4
    <3>3. Splits(f, A) /\ Splits(f, B)
      <4> HIDE DEF A, B
      <4> QED
        BY <1>2, <3>1, <3>2
    <3>4. SumFunctionOnSet(f, A) = f[x] + SumFunctionOnSet(f, C)
      <4> HIDE DEF A, B, C
      <4> QED
        BY <3>1, <3>3 DEF Splits
    <3>5. SumFunctionOnSet(f, B) = f[p] + SumFunctionOnSet(f, C)
      <4> HIDE DEF A, B, C, p
      <4> QED
        BY <3>2, <3>3 DEF Splits
    <3>6. f[p] \in Int /\ f[x] \in Int /\ SumFunctionOnSet(f, C) \in Int
      <4>1. C \in SUBSET S
        OBVIOUS
      <4> HIDE DEF C
      <4> QED
        BY <2>1, <4>1, SumTyped DEF Numbers
    <3> QED
      <4> HIDE DEF A, B, C, p
      <4>1. SumFunctionOnSet(f, U) = f[x] + SumFunctionOnSet(f, B)
        BY <2>2, <3>4, <3>5, <3>6
      <4> QED
        BY <4>1 DEF B
  <2> QED
    BY <2>3, <2>4
<1>3. SUBSET S \subseteq Q
  <2> HIDE DEF Q
  <2> QED
    BY <1>1, <1>2, FinInduction
<1> QED
  BY <1>3

(* One element more.                                                       *)
LEMMA SumAdds ==
  ASSUME NEW f, NEW S, IsFiniteSet(S), Numbers(f, S)
  PROVE  /\ SumFunctionOnSet(f, {}) = 0
         /\ \A U \in SUBSET S : \A x \in S \ U :
              SumFunctionOnSet(f, U \cup {x}) = f[x] + SumFunctionOnSet(f, U)
<1>1. SumFunctionOnSet(f, {}) = 0
  BY SumUnfolds, FS_EmptySet
<1>2. ASSUME NEW U \in SUBSET S, NEW x \in S \ U
      PROVE  SumFunctionOnSet(f, U \cup {x}) = f[x] + SumFunctionOnSet(f, U)
  <2>1. PICK V : V = U \cup {x}
    OBVIOUS
  <2>2. V \in SUBSET S /\ x \in V /\ V \ {x} = U
    BY <2>1
  <2>3. Splits(f, V)
    BY <2>2, SumSplits
  <2> QED
    BY <2>1, <2>2, <2>3 DEF Splits
<1> QED
  BY <1>1, <1>2

LEMMA Product ==
  ASSUME NEW a \in Int, NEW b \in Int, a <= b, NEW w \in Nat
  PROVE  a * w <= b * w
OBVIOUS

(* What lies between the shares of two numbers sums up to between them.    *)
Shares(f, w, S, lo, hi) ==
  \A x \in S : /\ f[x] \in Int /\ w[x] \in Nat
               /\ lo * w[x] <= f[x] /\ f[x] <= hi * w[x]
LEMMA SumBetween ==
  ASSUME NEW f, NEW w, NEW S, IsFiniteSet(S), NEW lo \in Int, NEW hi \in Int,
         Shares(f, w, S, lo, hi)
  PROVE  /\ SumFunctionOnSet(f, S) \in Int /\ SumFunctionOnSet(w, S) \in Nat
         /\ lo * SumFunctionOnSet(w, S) <= SumFunctionOnSet(f, S)
         /\ SumFunctionOnSet(f, S) <= hi * SumFunctionOnSet(w, S)
<1> DEFINE F(U) == SumFunctionOnSet(f, U)
           W(U) == SumFunctionOnSet(w, U)
           Q == {U \in SUBSET S : /\ F(U) \in Int /\ W(U) \in Nat
                                  /\ lo * W(U) <= F(U) /\ F(U) <= hi * W(U)}
<1>1. Numbers(f, S) /\ Numbers(w, S)
  BY DEF Shares, Numbers
<1>2. {} \in Q
  <2>1. F({}) = 0 /\ W({}) = 0
    BY <1>1, SumAdds
  <2> QED
    BY <2>1
<1>3. ASSUME NEW U \in SUBSET S, NEW x \in S, x \notin U, U \in Q PROVE U \cup {x} \in Q
  <2>1. F(U \cup {x}) = f[x] + F(U) /\ W(U \cup {x}) = w[x] + W(U)
    <3>1. x \in S \ U
      BY <1>3
    <3> QED
      BY <1>1, <3>1, SumAdds
  <2>2. /\ F(U) \in Int /\ W(U) \in Nat /\ lo * W(U) <= F(U) /\ F(U) <= hi * W(U)
        /\ U \cup {x} \in SUBSET S
    BY <1>3
  <2>3. /\ f[x] \in Int /\ w[x] \in Nat /\ lo * w[x] <= f[x] /\ f[x] <= hi * w[x]
    BY DEF Shares
  <2> HIDE DEF F, W
  <2>4. lo * (w[x] + W(U)) = lo * w[x] + lo * W(U) /\ hi * (w[x] + W(U)) = hi * w[x] + hi * W(U)
    BY <2>2, <2>3
  <2>5. lo * w[x] \in Int /\ hi * w[x] \in Int /\ lo * W(U) \in Int /\ hi * W(U) \in Int
    BY <2>2, <2>3
  <2> QED
    BY <2>1, <2>2, <2>3, <2>4, <2>5
<1>4. SUBSET S \subseteq Q
  <2> HIDE DEF Q
  <2> QED
    BY <1>2, <1>3, AddInduction
<1> QED
  BY <1>4

(* Counting by parts counts everybody once.                                *)
LEMMA SumOfParts ==
  ASSUME NEW D, IsFiniteSet(D), NEW B, IsFiniteSet(B), NEW h, NEW count,
         \A i \in D : h[i] \in B,
         \A b \in B : count[b] = Cardinality({i \in D : h[i] = b})
  PROVE  SumFunctionOnSet(count, B) = Cardinality(D)
<1> DEFINE In(U) == {i \in D : h[i] \in U}
           Q == {U \in SUBSET B : SumFunctionOnSet(count, U) = Cardinality(In(U))}
<1>1. ASSUME NEW T \in SUBSET D PROVE IsFiniteSet(T) /\ Cardinality(T) \in Nat
  BY FS_Subset, FS_CardinalityType
<1>2. Numbers(count, B)
  <2>1. ASSUME NEW b \in B PROVE count[b] \in Int
    <3>1. PICK T : T = {i \in D : h[i] = b}
      OBVIOUS
    <3> QED
      BY <1>1, <3>1
  <2> QED
    BY <2>1 DEF Numbers
<1>3. {} \in Q
  <2>1. In({}) = {}
    OBVIOUS
  <2> QED
    BY <1>2, <2>1, SumAdds, FS_EmptySet
<1>4. ASSUME NEW U \in SUBSET B, NEW x \in B, x \notin U, U \in Q PROVE U \cup {x} \in Q
  <2>1. SumFunctionOnSet(count, U \cup {x}) = count[x] + SumFunctionOnSet(count, U)
    <3>1. x \in B \ U
      BY <1>4
    <3> QED
      BY <1>2, <3>1, SumAdds
  <2>2. PICK X : X = {i \in D : h[i] = x}
    OBVIOUS
  <2>3. PICK Y : Y = In(U)
    OBVIOUS
  <2>4. In(U \cup {x}) = X \cup Y /\ X \cap Y = {} /\ X \in SUBSET D /\ Y \in SUBSET D
    BY <1>4, <2>2, <2>3
  <2>5. Cardinality(X \cup Y) = Cardinality(X) + Cardinality(Y)
    <3>1. IsFiniteSet(X) /\ IsFiniteSet(Y) /\ Cardinality(X) \in Nat /\ Cardinality(Y) \in Nat
      BY <1>1, <2>4
    <3>2. Cardinality(X \cup Y) = Cardinality(X) + Cardinality(Y) - Cardinality(X \cap Y)
      <4> HIDE DEF In, Q
      <4> QED
        BY <3>1, FS_Union
    <3>3. Cardinality(X \cap Y) = 0
      BY <2>4, FS_EmptySet
    <3> QED
      BY <3>1, <3>2, <3>3
  <2>6. SumFunctionOnSet(count, U) = Cardinality(Y) /\ count[x] = Cardinality(X)
    BY <1>4, <2>2, <2>3
  <2> QED
    BY <2>1, <2>4, <2>5, <2>6
<1>5. SUBSET B \subseteq Q
  <2> HIDE DEF Q
  <2> QED
    BY <1>3, <1>4, AddInduction
<1>6. In(B) = D
  OBVIOUS
<1> QED
  BY <1>5, <1>6

(* Of a finite set of numbers one is the greatest and one the least.       *)
LEMMA MaxMin ==
  ASSUME NEW S \in SUBSET Int, IsFiniteSet(S), S # {}
  PROVE  /\ Max(S) \in S /\ \A x \in S : x <= Max(S)
         /\ Min(S) \in S /\ \A x \in S : Min(S) <= x
<1> DEFINE Q == {U \in SUBSET S : U # {} => /\ \E m \in U : \A x \in U : x <= m
                                            /\ \E m \in U : \A x \in U : m <= x}
<1>1. {} \in Q
  OBVIOUS
<1>2. ASSUME NEW U \in SUBSET S, NEW x \in S, x \notin U, U \in Q PROVE U \cup {x} \in Q
  <2>1. CASE U = {}
    BY <2>1
  <2>2. CASE U # {}
    <3>1. PICK m \in U : \A y \in U : y <= m
      BY <1>2, <2>2
    <3>2. PICK n \in U : \A y \in U : n <= y
      BY <1>2, <2>2
    <3>3. \E k \in U \cup {x} : \A y \in U \cup {x} : y <= k
      <4>1. CASE x <= m
        BY <3>1, <4>1
      <4>2. CASE ~(x <= m)
        <5>1. \A y \in U \cup {x} : y <= x
          BY <3>1, <4>2
        <5> QED
          BY <5>1
      <4> QED
        BY <4>1, <4>2
    <3>4. \E k \in U \cup {x} : \A y \in U \cup {x} : k <= y
      <4>1. CASE n <= x
        BY <3>2, <4>1
      <4>2. CASE ~(n <= x)
        <5>1. \A y \in U \cup {x} : x <= y
          BY <3>2, <4>2
        <5> QED
          BY <5>1
      <4> QED
        BY <4>1, <4>2
    <3> QED
      BY <3>3, <3>4
  <2> QED
    BY <2>1, <2>2
<1>3. SUBSET S \subseteq Q
  <2> HIDE DEF Q
  <2> QED
    BY <1>1, <1>2, AddInduction
<1>4. S \in Q
  BY <1>3
<1>5. (\E m \in S : \A x \in S : x <= m) /\ (\E m \in S : \A x \in S : m <= x)
  BY <1>4
<1> QED
  BY <1>5 DEF Max, Min

LEMMA Divided ==
  ASSUME NEW a \in Int, NEW b \in Nat \ {0}
  PROVE  /\ a \div b \in Int /\ b * (a \div b) <= a /\ a < b * (a \div b) + b
OBVIOUS

LEMMA RoundedBetween ==
  ASSUME NEW n \in Int, NEW d \in Nat \ {0}, NEW lo \in Int, NEW hi \in Int,
         lo * d <= n, n <= hi * d
  PROVE  Rounded(n, d) \in Int /\ lo <= Rounded(n, d) /\ Rounded(n, d) <= hi
<1> DEFINE r == Rounded(n, d)
           c == 2 * d
<1>1. r \in Int /\ c * r <= 2 * n + d /\ 2 * n + d < c * r + c /\ c \in Nat \ {0}
  <2>1. 2 * n + d \in Int /\ c \in Nat \ {0}
    OBVIOUS
  <2> QED
    BY <2>1, Divided DEF Rounded
<1> HIDE DEF r
<1>2. lo <= r
  <2> SUFFICES ASSUME r <= lo - 1 PROVE FALSE
    BY <1>1
  <2>1. r * c <= (lo - 1) * c
    BY <1>1, Product
  <2>2. (lo - 1) * c = 2 * (lo * d) - c /\ r * c = c * r /\ c * r \in Int /\ lo * d \in Int
    BY <1>1
  <2> QED
    BY <1>1, <2>1, <2>2
<1>3. r <= hi
  <2> SUFFICES ASSUME hi + 1 <= r PROVE FALSE
    BY <1>1
  <2>1. (hi + 1) * c <= r * c
    BY <1>1, Product
  <2>2. (hi + 1) * c = 2 * (hi * d) + c /\ r * c = c * r /\ c * r \in Int /\ hi * d \in Int
    BY <1>1
  <2> QED
    BY <1>1, <2>1, <2>2
<1> QED
  BY <1>1, <1>2, <1>3 DEF r

(* Everybody once.                                                         *)
LEMMA SumOfOnes ==
  ASSUME NEW S, IsFiniteSet(S), NEW one, \A x \in S : one[x] = 1
  PROVE  SumFunctionOnSet(one, S) = Cardinality(S)
<1> DEFINE h == [x \in S |-> x]
<1>1. ASSUME NEW b \in S PROVE one[b] = Cardinality({i \in S : h[i] = b})
  <2>1. {i \in S : h[i] = b} = {b}
    OBVIOUS
  <2> QED
    BY <2>1, FS_Singleton
<1>2. \A i \in S : h[i] \in S
  OBVIOUS
<1> HIDE DEF h
<1> QED
  BY <1>1, <1>2, SumOfParts

LEMMA Image ==
  ASSUME NEW S, IsFiniteSet(S), NEW f
  PROVE  /\ IsFiniteSet({f[x] : x \in S})
         /\ Cardinality({f[x] : x \in S}) <= Cardinality(S)
<1> DEFINE g == [x \in S |-> f[x]]
           T == {f[x] : x \in S}
<1>1. g \in Surjection(S, T)
  BY DEF Surjection
<1> QED
  BY <1>1, FS_Surjection

LEMMA Few ==
  ASSUME NEW a, NEW b, NEW c, NEW d, NEW e, NEW f, NEW g, NEW h
  PROVE  IsFiniteSet({a, b, c, d, e, f, g, h})
<1>1. IsFiniteSet({a, b})
  <2>1. {a, b} = {a} \cup {b}
    OBVIOUS
  <2>2. IsFiniteSet({a})
    BY FS_Singleton
  <2> QED
    BY <2>1, <2>2, FS_AddElement
<1>2. IsFiniteSet({a, b, c, d})
  <2>1. {a, b, c, d} = ({a, b} \cup {c}) \cup {d}
    OBVIOUS
  <2>2. IsFiniteSet({a, b} \cup {c})
    BY <1>1, FS_AddElement
  <2> QED
    BY <2>1, <2>2, FS_AddElement
<1>3. IsFiniteSet({a, b, c, d, e, f})
  <2>1. {a, b, c, d, e, f} = ({a, b, c, d} \cup {e}) \cup {f}
    OBVIOUS
  <2>2. IsFiniteSet({a, b, c, d} \cup {e})
    BY <1>2, FS_AddElement
  <2> QED
    BY <2>1, <2>2, FS_AddElement
<1>4. {a, b, c, d, e, f, g, h} = ({a, b, c, d, e, f} \cup {g}) \cup {h}
  OBVIOUS
<1>5. IsFiniteSet({a, b, c, d, e, f} \cup {g})
  BY <1>3, FS_AddElement
<1> QED
  BY <1>4, <1>5, FS_AddElement

---------------------------------------------------------------------------
(* The numbers of one answer.                                              *)

(* Percentages by result: a finite function with values from 0 to 100%.    *)
Percents(v, D) == IsFiniteSet(D) /\ v \in [D -> Nat] /\ \A k \in D : v[k] <= 10000

LEMMA PercentIn ==
  ASSUME NEW v, NEW D, Percents(v, D)
  PROVE  DOMAIN v = D /\ IsFiniteSet(D) /\ \A k \in D : v[k] \in Nat /\ v[k] <= 10000
BY DEF Percents

LEMMA KnownAll == ASSUME NEW v, NEW D, Percents(v, D) PROVE Known(v) = v
<1>1. None \notin Int
  BY NoneAssumption
<1>2. Known(v) = [k \in {k \in D : v[k] # None} |-> v[k]]
  BY PercentIn DEF Known, RestrictValues, Restrict
<1>3. {k \in D : v[k] # None} = D
  BY <1>1, PercentIn
<1>4. v = [k \in D |-> v[k]]
  BY DEF Percents
<1> QED
  BY <1>2, <1>3, <1>4

InBucket(p, b) == Buckets[b][1] <= p /\ p < Buckets[b][2]
HasBucket(p) ==
  \E b \in 1..8 : InBucket(p, b) /\ \A c \in 1..8 : InBucket(p, c) => c = b
LEMMA OneBucket == ASSUME NEW p \in Nat, p <= 10000 PROVE HasBucket(p)
<1>1. /\ Buckets[1] = <<0, 3300>> /\ Buckets[2] = <<3300, 4100>>
      /\ Buckets[3] = <<4100, 5100>> /\ Buckets[4] = <<5100, 6100>>
      /\ Buckets[5] = <<6100, 7100>> /\ Buckets[6] = <<7100, 8100>>
      /\ Buckets[7] = <<8100, 9100>> /\ Buckets[8] = <<9100, 10001>>
  BY DEF Buckets
<1>2. /\ InBucket(p, 1) <=> p < 3300
      /\ InBucket(p, 2) <=> 3300 <= p /\ p < 4100
      /\ InBucket(p, 3) <=> 4100 <= p /\ p < 5100
      /\ InBucket(p, 4) <=> 5100 <= p /\ p < 6100
      /\ InBucket(p, 5) <=> 6100 <= p /\ p < 7100
      /\ InBucket(p, 6) <=> 7100 <= p /\ p < 8100
      /\ InBucket(p, 7) <=> 8100 <= p /\ p < 9100
      /\ InBucket(p, 8) <=> 9100 <= p
  BY <1>1 DEF InBucket
<1>3. \A c \in 1..8 : c = 1 \/ c = 2 \/ c = 3 \/ c = 4 \/ c = 5 \/ c = 6 \/ c = 7 \/ c = 8
  OBVIOUS
<1>4. ASSUME NEW b \in 1..8, NEW c \in 1..8, InBucket(p, b), InBucket(p, c) PROVE b = c
  BY <1>2, <1>3, <1>4
<1>5. \E b \in 1..8 : InBucket(p, b)
  BY <1>2
<1> QED
  BY <1>4, <1>5 DEF HasBucket

(* A histogram counts every result once.                                   *)
LEMMA HistogramSums ==
  ASSUME NEW v, NEW D, Percents(v, D)
  PROVE  SumFunction(Histogram(v).counts) = Histogram(v).total
<1> DEFINE h == [k \in D |-> CHOOSE b \in 1..8 : InBucket(v[k], b)]
           count == Distribution(v)
<1>1. DOMAIN Buckets = 1..8
  BY DEF Buckets
<1>2. /\ DOMAIN count = 1..8
      /\ \A b \in 1..8 : count[b] = Cardinality({k \in D : InBucket(v[k], b)})
  <2>1. Known(v) = v /\ DOMAIN v = D
    BY KnownAll, PercentIn
  <2>2. count = [b \in 1..8 |-> Cardinality({k \in D : InBucket(v[k], b)})]
    BY <1>1, <2>1 DEF Distribution, Quantify, InBucket
  <2> QED
    BY <2>2
<1>3. ASSUME NEW k \in D
      PROVE  h[k] \in 1..8 /\ \A b \in 1..8 : InBucket(v[k], b) <=> h[k] = b
  <2>1. HasBucket(v[k])
    <3>1. v[k] \in Nat /\ v[k] <= 10000
      BY PercentIn
    <3> HIDE DEF h, count
    <3> QED
      BY <3>1, OneBucket
  <2>2. PICK b \in 1..8 : InBucket(v[k], b) /\ \A c \in 1..8 : InBucket(v[k], c) => c = b
    BY <2>1 DEF HasBucket
  <2>3. h[k] = b
    BY <2>2
  <2> QED
    BY <2>2, <2>3
<1>4. ASSUME NEW b \in 1..8 PROVE count[b] = Cardinality({k \in D : h[k] = b})
  <2>1. {k \in D : h[k] = b} = {k \in D : InBucket(v[k], b)}
    BY <1>3
  <2> QED
    BY <1>2, <2>1
<1>5. IsFiniteSet(D) /\ IsFiniteSet(1..8)
  <2>1. IsFiniteSet(1..8)
    <3>1. 1 \in Int /\ 8 \in Int
      OBVIOUS
    <3> QED
      BY <3>1, FS_Interval, Zenon
  <2> QED
    BY <2>1, PercentIn
<1>6. Histogram(v).counts = count /\ Histogram(v).total = Cardinality(D)
  BY PercentIn DEF Histogram
<1> HIDE DEF h, count
<1>7. SumFunctionOnSet(count, 1..8) = Cardinality(D)
  BY <1>3, <1>4, <1>5, SumOfParts
<1> QED
  BY <1>2, <1>6, <1>7 DEF SumFunction

Grading == {"A1", "A2", "B1", "B2", "C1", "C2", "D", "E"}
LEMMA GradeKnown == ASSUME NEW p \in Nat, p <= 10000 PROVE LetterGrade(p) \in Grading
<1> DEFINE reached == {b \in DOMAIN Bands : Bands[b] <= p}
<1>1. DOMAIN Bands = Grading
  BY DEF Bands, Grading
<1>2. /\ Bands["A1"] = 9100 /\ Bands["A2"] = 8100 /\ Bands["B1"] = 7100 /\ Bands["B2"] = 6100
      /\ Bands["C1"] = 5100 /\ Bands["C2"] = 4100 /\ Bands["D"] = 3300 /\ Bands["E"] = 0
  BY DEF Bands
<1>3. \E b \in reached : \A c \in reached : Bands[c] <= Bands[b]
  <2>1. \A b \in Grading : b \in reached <=> Bands[b] <= p
    BY <1>1
  <2>2. \A b \in reached : b \in Grading
    BY <1>1
  <2> DEFINE best(b) == b \in reached /\ \A c \in reached : Bands[c] <= Bands[b]
  <2>3. \/ best("A1") \/ best("A2") \/ best("B1") \/ best("B2")
        \/ best("C1") \/ best("C2") \/ best("D") \/ best("E")
    <3> HIDE DEF reached
    <3>9. p \in Int /\ 0 <= p
      OBVIOUS
    <3>1. CASE p >= 9100
      BY <1>2, <2>1, <2>2, <3>1 DEF Grading
    <3>2. CASE 8100 <= p /\ p < 9100
      BY <1>2, <2>1, <2>2, <3>2 DEF Grading
    <3>3. CASE 7100 <= p /\ p < 8100
      BY <1>2, <2>1, <2>2, <3>3 DEF Grading
    <3>4. CASE 6100 <= p /\ p < 7100
      BY <1>2, <2>1, <2>2, <3>4 DEF Grading
    <3>5. CASE 5100 <= p /\ p < 6100
      BY <1>2, <2>1, <2>2, <3>5 DEF Grading
    <3>6. CASE 4100 <= p /\ p < 5100
      BY <1>2, <2>1, <2>2, <3>6 DEF Grading
    <3>7. CASE 3300 <= p /\ p < 4100
      BY <1>2, <2>1, <2>2, <3>7 DEF Grading
    <3>8. CASE p < 3300
      BY <1>2, <2>1, <2>2, <3>8, <3>9 DEF Grading
    <3> QED
      BY <3>1, <3>2, <3>3, <3>4, <3>5, <3>6, <3>7, <3>8
  <2> QED
    BY <2>3
<1>4. p # None
  BY NoneAssumption
<1>5. CASE reached = {}
  BY <1>4, <1>5 DEF LetterGrade, Grading
<1>6. CASE reached # {}
  <2>1. LetterGrade(p) = CHOOSE b \in reached : \A c \in reached : Bands[c] <= Bands[b]
    BY <1>4, <1>6 DEF LetterGrade
  <2>2. LetterGrade(p) \in reached
    <3> HIDE DEF reached
    <3> QED
      BY <1>3, <2>1
  <2> QED
    BY <1>1, <2>2
<1> QED
  BY <1>5, <1>6

(* A grade mix counts every result once.                                   *)
LEMMA GradeMixSums ==
  ASSUME NEW v, NEW D, Percents(v, D)
  PROVE  SumFunction(GradeMix(v).counts) = GradeMix(v).total
<1> DEFINE h == [k \in D |-> LetterGrade(v[k])]
           count == GradeCounts(v)
<1>1. DOMAIN Bands = Grading
  BY DEF Bands, Grading
<1>2. /\ DOMAIN count = Grading
      /\ \A b \in Grading : count[b] = Cardinality({k \in D : LetterGrade(v[k]) = b})
  BY <1>1, KnownAll, PercentIn DEF GradeCounts, Quantify
<1>3. \A k \in D : h[k] \in Grading
  <2> SUFFICES ASSUME NEW k \in D PROVE LetterGrade(v[k]) \in Grading
    OBVIOUS
  <2>1. v[k] \in Nat /\ v[k] <= 10000
    BY PercentIn
  <2> HIDE DEF h, count
  <2> QED
    BY <2>1, GradeKnown
<1>4. ASSUME NEW b \in Grading PROVE count[b] = Cardinality({k \in D : h[k] = b})
  <2>1. {k \in D : h[k] = b} = {k \in D : LetterGrade(v[k]) = b}
    OBVIOUS
  <2> QED
    BY <1>2, <2>1
<1>5. IsFiniteSet(D) /\ IsFiniteSet(Grading)
  <2>1. IsFiniteSet(Grading)
    BY Few DEF Grading
  <2> QED
    BY <2>1, PercentIn
<1>6. GradeMix(v).counts = count /\ GradeMix(v).total = Cardinality(D)
  BY PercentIn DEF GradeMix
<1> HIDE DEF h, count
<1>7. SumFunctionOnSet(count, Grading) = Cardinality(D)
  <2>1. PICK B : B = Grading
    OBVIOUS
  <2>2. /\ IsFiniteSet(D) /\ IsFiniteSet(B) /\ \A i \in D : h[i] \in B
        /\ \A b \in B : count[b] = Cardinality({i \in D : h[i] = b})
    BY <1>3, <1>4, <1>5, <2>1
  <2>3. SumFunctionOnSet(count, B) = Cardinality(D)
    BY <2>2, SumOfParts
  <2> QED
    BY <2>1, <2>3
<1> QED
  BY <1>2, <1>6, <1>7 DEF SumFunction

---------------------------------------------------------------------------
(* Results of a school whose marks are within their papers' maximum.       *)
Sound(q, K) == q.d \in School /\ Marked(q.d) /\ K \subseteq BaseSelect(q)

LEMMA ResultsFinite == ASSUME NEW q, NEW K, Sound(q, K) PROVE IsFiniteSet(K)
<1>1. K \subseteq Students \X Papers
  BY DEF Sound, BaseSelect, Rows
<1>2. IsFiniteSet(Students \X Papers)
  BY IdsAssumption, FS_Product
<1> QED
  BY <1>1, <1>2, FS_Subset

LEMMA PctBetween ==
  ASSUME NEW q, NEW K, Sound(q, K), NEW k \in K
  PROVE  /\ Pct(q, k) \in Nat /\ Pct(q, k) <= 10000
         /\ PaperOf(k).weight \in Nat
<1> DEFINE row == q.d.score[k]
           m == PaperOf(k).max
<1>1. /\ k \in Students \X Papers /\ q.d.score[k] # None /\ Graded(q.d.score[k])
  BY DEF Sound, BaseSelect, Rows
<1>2. row.marks \in Nat
  <2>1. q.d.score \in [Students \X Papers ->
                         {None} \cup [marks: Nat \cup {None}, absent: BOOLEAN]]
    BY DEF Sound, School
  <2>2. q.d.score[k] \in [marks: Nat \cup {None}, absent: BOOLEAN]
    BY <1>1, <2>1
  <2> QED
    BY <1>1, <2>2 DEF Graded
<1>3. k[2] \in Papers
  BY <1>1
<1>4. m \in Nat \ {0} /\ PaperOf(k).weight \in Nat
  BY <1>3, PaperAssumption DEF PaperOf
<1>5. row.marks # None /\ m # None /\ row.marks <= m
  BY <1>1, <1>2, <1>4, NoneAssumption DEF Sound, Marked
<1>6. Pct(q, k) = Rounded(10000 * row.marks, m)
  BY <1>4, <1>5 DEF Pct, Percentage
<1> HIDE DEF row, m
<1>7. PICK lo \in Int, hi \in Int : lo = 0 /\ hi = 10000
  OBVIOUS
<1>8. PICK n \in Int : n = 10000 * row.marks
  BY <1>2
<1>9. lo * m <= n /\ n <= hi * m
  BY <1>2, <1>4, <1>5, <1>7, <1>8
<1>10. Rounded(n, m) \in Int /\ lo <= Rounded(n, m) /\ Rounded(n, m) <= hi
  BY <1>4, <1>9, RoundedBetween
<1> QED
  BY <1>4, <1>6, <1>7, <1>8, <1>10

LEMMA PercentsOf == ASSUME NEW q, NEW K, Sound(q, K) PROVE Percents(Pcts(q, K), K)
BY ResultsFinite, PctBetween DEF Percents, Pcts

LEMMA RatioKnown ==
  ASSUME NEW n \in Int, NEW d \in Int PROVE Round([n |-> n, d |-> d]) = Rounded(n, d)
<1>1. [n |-> n, d |-> d] \in [n: Int, d: Int]
  OBVIOUS
<1>2. [n |-> n, d |-> d] # None
  BY <1>1, NoneAssumption
<1> QED
  BY <1>2 DEF Round

(* An average lies where the results lie, whatever the weights are.        *)
Between(q, K, lo, hi) == \A k \in K : lo <= Pct(q, k) /\ Pct(q, k) <= hi
InSpan(x, lo, hi) == x \in Int /\ lo <= x /\ x <= hi

LEMMA PlainBetween ==
  ASSUME NEW q, NEW K, Sound(q, K), K # {}, NEW lo \in Int, NEW hi \in Int,
         Between(q, K, lo, hi)
  PROVE  InSpan(Round(PlainAvg(q, K)), lo, hi)
<1> DEFINE f == [k \in K |-> Pct(q, k)]
           one == [k \in K |-> 1]
           c == Cardinality(K)
           n == SumFunctionOnSet(f, K)
<1>1. IsFiniteSet(K)
  BY ResultsFinite
<1>2. c \in Nat \ {0}
  BY <1>1, FS_CardinalityType, FS_EmptySet
<1>3. Shares(f, one, K, lo, hi)
  <2> SUFFICES ASSUME NEW k \in K
               PROVE  /\ Pct(q, k) \in Int /\ lo * 1 <= Pct(q, k) /\ Pct(q, k) <= hi * 1
    BY DEF Shares
  <2> QED
    BY PctBetween DEF Between
<1>4. SumFunctionOnSet(one, K) = c
  <2>1. \A k \in K : one[k] = 1
    OBVIOUS
  <2> HIDE DEF one
  <2> QED
    BY <1>1, <2>1, SumOfOnes
<1>5. Points(q, K) = n
  BY DEF Points, SumFunction
<1> HIDE DEF f, one, c, n
<1>6. n \in Int /\ lo * c <= n /\ n <= hi * c
  BY <1>1, <1>3, <1>4, SumBetween DEF n
<1>7. Round(PlainAvg(q, K)) = Rounded(n, c)
  BY <1>2, <1>5, <1>6, RatioKnown DEF PlainAvg, c
<1> QED
  BY <1>2, <1>6, <1>7, RoundedBetween DEF InSpan

LEMMA WeightedBetween ==
  ASSUME NEW q, NEW K, Sound(q, K), K # {}, NEW lo \in Int, NEW hi \in Int,
         Between(q, K, lo, hi)
  PROVE  InSpan(Round(WeightedAvg(q, K)), lo, hi)
<1> DEFINE f == [k \in K |-> Pct(q, k) * PaperOf(k).weight]
           w == [k \in K |-> PaperOf(k).weight]
           n == SumFunctionOnSet(f, K)
           d == SumFunctionOnSet(w, K)
<1>1. IsFiniteSet(K)
  BY ResultsFinite
<1>2. Shares(f, w, K, lo, hi)
  <2> SUFFICES ASSUME NEW k \in K
               PROVE  /\ Pct(q, k) * PaperOf(k).weight \in Int /\ PaperOf(k).weight \in Nat
                      /\ lo * PaperOf(k).weight <= Pct(q, k) * PaperOf(k).weight
                      /\ Pct(q, k) * PaperOf(k).weight <= hi * PaperOf(k).weight
    BY DEF Shares
  <2>1. /\ Pct(q, k) \in Int /\ PaperOf(k).weight \in Nat
        /\ lo <= Pct(q, k) /\ Pct(q, k) <= hi
    BY PctBetween DEF Between
  <2> QED
    BY <2>1, Product
<1>3. SumFunction(w) = d /\ SumFunction(f) = n
  BY DEF SumFunction
<1>4. WeightedAvg(q, K) = IF d > 0 THEN [n |-> n, d |-> d] ELSE PlainAvg(q, K)
  BY <1>3 DEF WeightedAvg, PlainAvg
<1> HIDE DEF f, w, n, d
<1>5. n \in Int /\ d \in Nat /\ lo * d <= n /\ n <= hi * d
  BY <1>1, <1>2, SumBetween DEF n, d
<1>6. CASE d > 0
  <2>1. Round(WeightedAvg(q, K)) = Rounded(n, d)
    BY <1>4, <1>5, <1>6, RatioKnown
  <2> QED
    BY <1>5, <1>6, <2>1, RoundedBetween DEF InSpan
<1>7. CASE ~(d > 0)
  BY <1>4, <1>7, PlainBetween
<1> QED
  BY <1>6, <1>7

(* The lowest and the highest of some results.                             *)
LEMMA Extremes ==
  ASSUME NEW v, NEW D, Percents(v, D), D # {}
  PROVE  /\ Min(Range(v)) \in Nat /\ Max(Range(v)) \in Nat
         /\ Min(Range(v)) \in Range(v)
         /\ \A k \in D : Min(Range(v)) <= v[k] /\ v[k] <= Max(Range(v))
<1> DEFINE S == {v[k] : k \in D}
<1>1. Range(v) = S
  BY PercentIn DEF Range
<1>2. IsFiniteSet(S)
  BY PercentIn, Image
<1>3. S \subseteq Nat /\ S # {}
  BY PercentIn
<1>4. \A k \in D : v[k] \in S
  OBVIOUS
<1> HIDE DEF S
<1>5. /\ Max(S) \in S /\ \A x \in S : x <= Max(S)
      /\ Min(S) \in S /\ \A x \in S : Min(S) <= x
  BY <1>2, <1>3, MaxMin
<1> QED
  BY <1>1, <1>3, <1>4, <1>5

LEMMA MedianBetween ==
  ASSUME NEW v, NEW D, Percents(v, D), D # {}
  PROVE  Median(v) \in Range(v)
<1> DEFINE S == {v[k] : k \in D}
           few(x) == Quantify(DOMAIN v, LAMBDA k : v[k] < x)
           half == Cardinality(DOMAIN v) \div 2
           T == {x \in Range(v) : few(x) <= half}
<1>1. Range(v) = S /\ DOMAIN v = D /\ IsFiniteSet(D)
  BY PercentIn DEF Range
<1>2. IsFiniteSet(S) /\ S \subseteq Nat
  BY <1>1, PercentIn, Image
<1>3. Min(S) \in T
  <2>1. Min(S) \in S /\ \A k \in D : Min(S) <= v[k]
    BY <1>1, Extremes
  <2>2. few(Min(S)) = Cardinality({k \in D : v[k] < Min(S)})
    BY <1>1 DEF Quantify
  <2>3. {k \in D : v[k] < Min(S)} = {}
    <3>1. Min(S) \in Nat /\ \A k \in D : v[k] \in Nat
      BY <1>2, <2>1, PercentIn
    <3> HIDE DEF S
    <3> QED
      BY <2>1, <3>1
  <2>4. half >= 0 /\ half \in Nat
    <3>1. Cardinality(D) \in Nat
      BY <1>1, FS_CardinalityType
    <3> QED
      BY <1>1, <3>1
  <2>5. few(Min(S)) = 0
    BY <2>2, <2>3, FS_EmptySet
  <2> HIDE DEF few, half
  <2> QED
    BY <1>1, <2>1, <2>4, <2>5
<1>4. IsFiniteSet(T) /\ T \subseteq S
  BY <1>1, <1>2, FS_Subset
<1>5. Median(v) = Max(T)
  BY DEF Median
<1> HIDE DEF T, S
<1>6. Max(T) \in T
  <2>1. T \in SUBSET Int /\ T # {}
    BY <1>2, <1>3, <1>4
  <2> QED
    BY <1>4, <2>1, MaxMin
<1> QED
  BY <1>1, <1>4, <1>5, <1>6

LEMMA SoundPart ==
  ASSUME NEW q, NEW K, Sound(q, K), NEW group, NEW v \in Groups(group, K)
  PROVE  Sound(q, Part(group, v, K)) /\ Part(group, v, K) # {}
BY DEF Sound, Groups, Part

(* Averages between the lowest and the highest.                            *)
LEMMA ValuesBetween ==
  ASSUME NEW q, NEW K, Sound(q, K), K # {}
  PROVE  LET v == Pcts(q, K)
         IN  /\ Min(Range(v)) \in Int /\ Max(Range(v)) \in Int
             /\ Between(q, K, Min(Range(v)), Max(Range(v)))
<1> DEFINE v == Pcts(q, K)
<1>1. Percents(v, K)
  BY PercentsOf
<1>2. \A k \in K : v[k] = Pct(q, k)
  BY DEF Pcts
<1> HIDE DEF v
<1>3. /\ Min(Range(v)) \in Nat /\ Max(Range(v)) \in Nat
      /\ \A k \in K : Min(Range(v)) <= v[k] /\ v[k] <= Max(Range(v))
  BY <1>1, Extremes
<1> QED
  BY <1>2, <1>3 DEF Between, v

RowFits(row) == row.lowest <= row.average /\ row.average <= row.highest

LEMMA GroupsFit ==
  ASSUME NEW q, NEW K, Sound(q, K), NEW group
  PROVE  \A row \in GroupRows(q, group, K) : RowFits(row)
<1> SUFFICES ASSUME NEW a \in Groups(group, K)
             PROVE  RowFits(GroupRow(q, a, Part(group, a, K), Pcts(q, Part(group, a, K))))
  BY DEF GroupRows
<1>1. PICK P : P = Part(group, a, K)
  OBVIOUS
<1>2. Sound(q, P) /\ P # {}
  BY <1>1, SoundPart
<1>3. PICK lo, hi : lo = Min(Range(Pcts(q, P))) /\ hi = Max(Range(Pcts(q, P)))
  OBVIOUS
<1>4. lo \in Int /\ hi \in Int /\ Between(q, P, lo, hi)
  BY <1>2, <1>3, ValuesBetween
<1>5. InSpan(Round(WeightedAvg(q, P)), lo, hi)
  BY <1>2, <1>4, WeightedBetween
<1> QED
  BY <1>1, <1>3, <1>5 DEF RowFits, GroupRow, InSpan

LEMMA AssessmentsFit ==
  ASSUME NEW q, NEW K, Sound(q, K)
  PROVE  \A row \in AssessmentRows(q, K) : RowFits(row)
<1> SUFFICES ASSUME NEW p \in Groups("assessment", K)
             PROVE  RowFits(AssessmentRow(p, Pcts(q, Part("assessment", p, K)),
                                          Round(PlainAvg(q, Part("assessment", p, K)))))
  BY DEF AssessmentRows
<1>1. PICK P : P = Part("assessment", p, K)
  OBVIOUS
<1>2. Sound(q, P) /\ P # {}
  BY <1>1, SoundPart
<1>3. PICK lo, hi : lo = Min(Range(Pcts(q, P))) /\ hi = Max(Range(Pcts(q, P)))
  OBVIOUS
<1>4. lo \in Int /\ hi \in Int /\ Between(q, P, lo, hi)
  BY <1>2, <1>3, ValuesBetween
<1>5. InSpan(Round(PlainAvg(q, P)), lo, hi)
  BY <1>2, <1>4, PlainBetween
<1> QED
  BY <1>1, <1>3, <1>5 DEF RowFits, AssessmentRow, InSpan

(* The key figures of a class or the school.                               *)
FiguresFit(o) ==
  o.results > 0 =>
    /\ o.lowest <= o.median /\ o.median <= o.highest
    /\ o.lowest <= o.average /\ o.average <= o.highest
    /\ o.high_risk <= o.at_risk /\ o.at_risk <= o.students

LEMMA RiskyAreStudents ==
  ASSUME NEW q, NEW K, IsFiniteSet(K), NEW attendance,
         NEW R \in SUBSET Standings(q, K, attendance), NEW H \in SUBSET R
  PROVE  /\ Cardinality(H) \in Nat /\ Cardinality(R) \in Nat
         /\ Cardinality(Groups("student", K)) \in Nat
         /\ Cardinality(H) <= Cardinality(R)
         /\ Cardinality(R) <= Cardinality(Groups("student", K))
<1> DEFINE G == Groups("student", K)
           f == [s \in G |-> StandingOf(q, s, Part("student", s, K), attendance)]
           g == [k \in K |-> Dimension("student", k)]
<1>1. IsFiniteSet(G)
  <2>1. G = {g[k] : k \in K}
    BY DEF Groups
  <2> HIDE DEF G, g
  <2> QED
    BY <2>1, Image
<1>2. Standings(q, K, attendance) = {f[s] : s \in G}
  BY DEF Standings
<1> HIDE DEF G, f
<1>3. /\ IsFiniteSet(Standings(q, K, attendance))
      /\ Cardinality(Standings(q, K, attendance)) <= Cardinality(G)
  BY <1>1, <1>2, Image
<1>4. IsFiniteSet(R) /\ Cardinality(R) <= Cardinality(Standings(q, K, attendance))
  BY <1>3, FS_Subset
<1>5. IsFiniteSet(H) /\ Cardinality(H) <= Cardinality(R)
  BY <1>4, FS_Subset
<1>6. /\ Cardinality(G) \in Nat /\ Cardinality(R) \in Nat /\ Cardinality(H) \in Nat
      /\ Cardinality(Standings(q, K, attendance)) \in Nat
  BY <1>1, <1>3, <1>4, <1>5, FS_CardinalityType
<1> QED
  BY <1>3, <1>4, <1>5, <1>6 DEF G

LEMMA KpisFit ==
  ASSUME NEW q, q.sc.aggregate_only = FALSE, Sound(q, BaseSelect(q))
  PROVE  FiguresFit(Kpis(CohortOverview(q)))
<1> DEFINE K == BaseSelect(q)
           v == ScoreValues(q)
           T == StudentStandings(q)
           R == {x \in T : IsAtRisk(Risk(q, x))}
           H == {x \in R : Risk(q, x).level = "high"}
           o == CohortOverview(q)
           p == Kpis(o)
<1>1. v = Pcts(q, K) /\ DOMAIN v = K /\ Percents(v, K)
  BY PercentsOf DEF ScoreValues, Pcts
<1>2. PICK attendance : T = Standings(q, K, attendance)
  BY DEF StudentStandings
<1>3. /\ o.average = Round(WeightedAvg(q, K)) /\ o.results = Cardinality(K)
      /\ o.students = Cardinality(Groups("student", K))
      /\ o.at_risk = Cardinality(R) /\ o.high_risk = Cardinality(H)
      /\ K # {} => /\ o.median = Median(v)
                   /\ o.lowest = Min(Range(v)) /\ o.highest = Max(Range(v))
  BY <1>1 DEF CohortOverview, OverallOf, Overall, Quantify
<1>4. /\ p.average = o.average /\ p.results = o.results /\ p.students = o.students
      /\ p.at_risk = o.at_risk /\ p.high_risk = o.high_risk
      /\ p.median = o.median /\ p.lowest = o.lowest /\ p.highest = o.highest
  BY DEF Kpis, CohortOverview, OverallOf, Overall
<1> HIDE DEF K, v, p, o
<1>5. IsFiniteSet(K)
  BY ResultsFinite DEF K
<1>6. Cardinality(H) <= Cardinality(R) /\ Cardinality(R) <= Cardinality(Groups("student", K))
  <2>1. R \in SUBSET Standings(q, K, attendance) /\ H \in SUBSET R
    BY <1>2
  <2> HIDE DEF R, H, T
  <2> QED
    BY <1>5, <2>1, RiskyAreStudents
<1>7. ASSUME K # {}
      PROVE  /\ Min(Range(v)) <= Median(v) /\ Median(v) <= Max(Range(v))
             /\ InSpan(Round(WeightedAvg(q, K)), Min(Range(v)), Max(Range(v)))
  <2>1. PICK lo, hi : lo = Min(Range(v)) /\ hi = Max(Range(v))
    OBVIOUS
  <2>2. lo \in Nat /\ hi \in Nat /\ \A k \in K : lo <= v[k] /\ v[k] <= hi
    BY <1>1, <1>7, <2>1, Extremes
  <2>3. PICK k \in K : Median(v) = v[k]
    BY <1>1, <1>7, MedianBetween DEF Range
  <2>4. Between(q, K, lo, hi)
    BY <1>1, <2>2 DEF Between, Pcts
  <2>5. InSpan(Round(WeightedAvg(q, K)), lo, hi)
    BY <1>7, <2>2, <2>4, WeightedBetween DEF K
  <2> QED
    BY <2>1, <2>2, <2>3, <2>5
<1>8. o.results > 0 => K # {}
  BY <1>3, FS_EmptySet
<1>9. FiguresFit(p)
  <2> HIDE DEF R, H, T
  <2> QED
    BY <1>3, <1>4, <1>6, <1>7, <1>8 DEF FiguresFit, InSpan
<1> QED
  BY <1>9 DEF p, o

---------------------------------------------------------------------------
(* The charts with such numbers.                                           *)
Counting == {"section.distribution", "school.distribution", "section.grade_mix"}
Averaging ==
  {"section.assessment_averages", "section.subject_averages", "school.grade_averages",
   "school.subject_averages", "school.assessment_type_averages"}
Fits(chart, data) ==
  /\ chart \in Counting => SumFunction(data.counts) = data.total
  /\ chart \in Averaging => \A row \in data : RowFits(row)
  /\ chart \in {"section.kpis", "school.kpis"} => FiguresFit(data)

LEMMA CountsFit ==
  ASSUME NEW q, Sound(q, BaseSelect(q))
  PROVE  /\ SumFunction(Histogram(ScoreValues(q)).counts) = Histogram(ScoreValues(q)).total
         /\ SumFunction(GradeMix(ScoreValues(q)).counts) = GradeMix(ScoreValues(q)).total
<1>1. Percents(ScoreValues(q), BaseSelect(q))
  BY PercentsOf DEF ScoreValues
<1> QED
  BY <1>1, HistogramSums, GradeMixSums

LEMMA SectionFits ==
  ASSUME NEW q, q.sc.aggregate_only = FALSE, Sound(q, BaseSelect(q)), NEW chart
  PROVE  chart \in SectionCharts => Fits(chart, SectionChart(chart, q).data)
<1>1. CASE chart = "section.kpis"
  <2>1. SectionChart(chart, q).data = Kpis(CohortOverview(q))
    BY <1>1 DEF SectionChart, Named
  <2> QED
    BY <1>1, <2>1, KpisFit DEF Fits, Counting, Averaging
<1>2. CASE chart = "section.distribution"
  <2>1. SectionChart(chart, q).data = Histogram(ScoreValues(q))
    BY <1>2 DEF SectionChart, Named
  <2> QED
    BY <1>2, <2>1, CountsFit DEF Fits, Averaging
<1>3. CASE chart = "section.grade_mix"
  <2>1. SectionChart(chart, q).data = GradeMix(ScoreValues(q))
    BY <1>3 DEF SectionChart, Named
  <2> QED
    BY <1>3, <2>1, CountsFit DEF Fits, Averaging
<1>4. CASE chart = "section.assessment_averages"
  <2>1. SectionChart(chart, q).data = AssessmentRows(q, BaseSelect(q))
    BY <1>4 DEF SectionChart, Named, AssessmentAverages
  <2> QED
    BY <1>4, <2>1, AssessmentsFit DEF Fits, Counting
<1>5. CASE chart = "section.subject_averages"
  <2>1. SectionChart(chart, q).data = GroupRows(q, "subject", BaseSelect(q))
    BY <1>5 DEF SectionChart, Named, GroupedAverages
  <2> QED
    BY <1>5, <2>1, GroupsFit DEF Fits, Counting
<1> QED
  BY <1>1, <1>2, <1>3, <1>4, <1>5 DEF Fits, Counting, Averaging, SectionCharts

LEMMA SchoolFits ==
  ASSUME NEW q, q.sc.aggregate_only = FALSE, Sound(q, BaseSelect(q)), NEW chart
  PROVE  chart \in SchoolCharts => Fits(chart, SchoolChart(chart, q).data)
<1>1. CASE chart = "school.kpis"
  <2>1. SchoolChart(chart, q).data = Kpis(CohortOverview(q))
    BY <1>1 DEF SchoolChart, Named
  <2> QED
    BY <1>1, <2>1, KpisFit DEF Fits, Counting, Averaging
<1>2. CASE chart = "school.distribution"
  <2>1. SchoolChart(chart, q).data = Histogram(ScoreValues(q))
    BY <1>2 DEF SchoolChart, Named
  <2> QED
    BY <1>2, <2>1, CountsFit DEF Fits, Averaging
<1>3. CASE chart = "school.grade_averages"
  <2>1. SchoolChart(chart, q).data = GroupRows(q, "grade", BaseSelect(q))
    BY <1>3 DEF SchoolChart, Named, GroupedAverages
  <2> QED
    BY <1>3, <2>1, GroupsFit DEF Fits, Counting
<1>4. CASE chart = "school.subject_averages"
  <2>1. SchoolChart(chart, q).data = GroupRows(q, "subject", BaseSelect(q))
    BY <1>4 DEF SchoolChart, Named, GroupedAverages
  <2> QED
    BY <1>4, <2>1, GroupsFit DEF Fits, Counting
<1>5. CASE chart = "school.assessment_type_averages"
  <2>1. SchoolChart(chart, q).data = GroupRows(q, "assessment_type", BaseSelect(q))
    BY <1>5 DEF SchoolChart, Named, GroupedAverages
  <2> QED
    BY <1>5, <2>1, GroupsFit DEF Fits, Counting
<1> QED
  BY <1>1, <1>2, <1>3, <1>4, <1>5 DEF Fits, Counting, Averaging, SchoolCharts

LEMMA SoundRows ==
  ASSUME NEW q, NEW w, NEW x, Reading(q, w, x), Marked(q.d)
  PROVE  q.sc.aggregate_only = FALSE /\ Sound(q, BaseSelect(q))
BY DEF Reading, ScopeOf, Sound

LEMMA ClassroomFits ==
  ASSUME NEW q, NEW w, NEW x, Reading(q, w, x), Marked(q.d), NEW chart \in SectionCharts,
         ~IsError(ClassroomChart(chart, q))
  PROVE  Fits(chart, ClassroomChart(chart, q).data)
<1> DEFINE f == SectionFilters(q)
           g == [q EXCEPT !.f = f]
<1>1. ~IsError(f) /\ ClassroomChart(chart, q) = SectionChart(chart, g)
  BY DEF ClassroomChart, ChartOfClass
<1>2. f = WithSection(q.f, ClassroomSection(q))
  BY <1>1, RefusedIsError DEF SectionFilters
<1>3. FilterShape(f)
  BY <1>2, WithSectionShape DEF Reading
<1>4. Reading(g, w, x) /\ Marked(g.d)
  BY <1>3, ReadingWith
<1> HIDE DEF g, f
<1>5. Fits(chart, SectionChart(chart, g).data)
  BY <1>4, SoundRows, SectionFits
<1> QED
  BY <1>1, <1>5

LEMMA HandlerFits ==
  ASSUME NEW q, NEW w, NEW x, Reading(q, w, x), Marked(q.d), NEW chart \in AllCharts,
         ~IsError(Handler(chart, q))
  PROVE  Fits(chart, Handler(chart, q).data)
<1>1. ~(chart = "student.remarks" /\ ~q.cfg.remarks)
      /\ ~(chart \in InterventionCharts /\ ~q.cfg.interventions)
  BY RefusedIsError DEF Handler
<1>2. CASE chart \in SectionCharts
  <2>1. Handler(chart, q) = ClassroomChart(chart, q)
    BY <1>1, <1>2, ChartsApart DEF Handler
  <2> QED
    BY <1>2, <2>1, ClassroomFits
<1>3. CASE chart \in SchoolCharts
  <2>1. Handler(chart, q) = SchoolChart(chart, q)
    BY <1>1, <1>3, ChartsApart DEF Handler
  <2> QED
    BY <1>3, <2>1, SoundRows, SchoolFits
<1>4. CASE chart \notin SectionCharts \cup SchoolCharts
  BY <1>4 DEF Fits, Counting, Averaging, SectionCharts, SchoolCharts
<1> QED
  BY <1>2, <1>3, <1>4

LEMMA ReplyFits ==
  ASSUME NEW q, NEW w, NEW x, Reading(q, w, x), Marked(q.d), NEW chart \in AllCharts,
         NEW way, ~IsError(Reply(way, chart, q))
  PROVE  Fits(chart, Reply(way, chart, q).data)
<1> DEFINE f == Narrow(q.sc, q.f)
           g == [q EXCEPT !.f = f]
           h == Handler(chart, g)
<1>1. /\ ~IsError(Payload(chart, q))
      /\ Reply(way, chart, q).data = Payload(chart, q).data
  BY RefusedIsError DEF Reply, Served
<1>2. ~IsError(f) /\ Payload(chart, q) = SanitizeFamilyChart(chart, h, q)
  BY <1>1 DEF Payload, Narrowed
<1>3. FilterShape(f)
  BY <1>2, NarrowShape DEF Reading
<1>4. Reading(g, w, x) /\ Marked(g.d)
  BY <1>3, ReadingWith
<1>5. CASE chart \in SectionCharts \cup SchoolCharts
  <2>1. chart \notin DOMAIN HiddenFields
    BY <1>5 DEF HiddenFields, SectionCharts, SchoolCharts
  <2>2. Payload(chart, q) = h
    BY <1>2, <2>1 DEF SanitizeFamilyChart
  <2> HIDE DEF g
  <2>3. Fits(chart, h.data)
    BY <1>1, <1>4, <2>2, HandlerFits
  <2> QED
    BY <1>1, <2>2, <2>3
<1>6. CASE chart \notin SectionCharts \cup SchoolCharts
  BY <1>6 DEF Fits, Counting, Averaging, SectionCharts, SchoolCharts
<1> QED
  BY <1>5, <1>6

(* Nothing a request or a change of the school does adds a mark.           *)
LEMMA MarksStand ==
  ASSUME PortalInv, Marked(school), [Next]_vars PROVE Marked(school')
<1> SUFFICES school'.score = school.score
  BY DEF Marked
<1>1. DOMAIN school = {"home", "active", "guardian", "assigned", "homeroom", "score",
                       "register", "remarks"}
  BY SchoolFields DEF PortalInv
<1>2. ASSUME NEW d, Change(d), d.score = school.score PROVE school'.score = school.score
  BY <1>2 DEF Change
<1>3. CASE Open \/ Answer \/ Browse \/ Visit \/ Card \/ UNCHANGED vars
  <2>1. Open => school' = school
    BY DEF Open, OpenAs
  <2>2. Answer => school' = school
    BY DEF Answer
  <2>3. Browse => school' = school
    BY DEF Browse
  <2>4. Visit => school' = school
    BY DEF Visit, VisitAs
  <2>5. Card => school' = school
    BY DEF Card, Fetch
  <2>6. UNCHANGED vars => school' = school
    BY DEF vars
  <2> QED
    BY <1>3, <2>1, <2>2, <2>3, <2>4, <2>5, <2>6
<1>4. CASE CreateRemark
  <2>1. \/ school' = school
        \/ \E n : school' = [school EXCEPT !.remarks = @ \cup {n}]
    BY <1>4 DEF CreateRemark
  <2> QED
    BY <1>1, <2>1
<1>5. CASE Move
  <2>1. PICK s \in Students, c \in Sections :
          Change([school EXCEPT !.home[s] = c])
    BY <1>5 DEF Move
  <2>2. PICK d : d = [school EXCEPT !.home[s] = c]
    OBVIOUS
  <2>3. Change(d)
    BY <2>1, <2>2
  <2>4. d.score = school.score
    BY <1>1, <2>2
  <2> QED
    BY <1>2, <2>3, <2>4
<1>6. CASE Retire
  <2>1. PICK s \in Students :
          Change([school EXCEPT !.active = @ \ {s}])
    BY <1>6 DEF Retire
  <2>2. PICK d : d = [school EXCEPT !.active = @ \ {s}]
    OBVIOUS
  <2>3. Change(d)
    BY <2>1, <2>2
  <2>4. d.score = school.score
    BY <1>1, <2>2
  <2> QED
    BY <1>2, <2>3, <2>4
<1>7. CASE Reassign
  <2>1. PICK y \in school.assigned, t \in Teachers :
          Change([school EXCEPT !.assigned = (@ \ {y}) \cup {<<t, y[2], y[3]>>}])
    BY <1>7 DEF Reassign
  <2>2. PICK d : d = [school EXCEPT !.assigned = (@ \ {y}) \cup {<<t, y[2], y[3]>>}]
    OBVIOUS
  <2>3. Change(d)
    BY <2>1, <2>2
  <2>4. d.score = school.score
    BY <1>1, <2>2
  <2> QED
    BY <1>2, <2>3, <2>4
<1>8. CASE Rehome
  <2>1. PICK c \in Sections, t \in Teachers :
          Change([school EXCEPT !.homeroom[c] = t])
    BY <1>8 DEF Rehome
  <2>2. PICK d : d = [school EXCEPT !.homeroom[c] = t]
    OBVIOUS
  <2>3. Change(d)
    BY <2>1, <2>2
  <2>4. d.score = school.score
    BY <1>1, <2>2
  <2> QED
    BY <1>2, <2>3, <2>4
<1>9. CASE Reguard
  <2>1. PICK s \in Students, g \in Guardians \cup {None} :
          Change([school EXCEPT !.guardian[s] = g])
    BY <1>9 DEF Reguard
  <2>2. PICK d : d = [school EXCEPT !.guardian[s] = g]
    OBVIOUS
  <2>3. Change(d)
    BY <2>1, <2>2
  <2>4. d.score = school.score
    BY <1>1, <2>2
  <2> QED
    BY <1>2, <2>3, <2>4
<1> QED
  BY <1>3, <1>4, <1>5, <1>6, <1>7, <1>8, <1>9 DEF Next

(* metrics.py and queries.py: histograms and grade mixes count every result*)
(* once, an average lies between the lowest and the highest result, those  *)
(* at high risk are at risk and those at risk are students, for every      *)
(* school, filter, chart and set of weights.                               *)
THEOREM NumbersSound == Spec => []NumbersCohere
<1>1. Init => Marked(school)
  BY MarksAssumption DEF Init
<1>2. PortalInv /\ Marked(school) /\ [Next]_vars => Marked(school)'
  BY MarksStand DEF Marked
<1>3. PortalInv /\ Marked(school) => NumbersCohere
  <2> SUFFICES ASSUME PortalInv, Marked(school), Answered, req.chart # None
               PROVE  Fits(req.chart, Data)
    BY InputsAssumption DEF NumbersCohere, Fits, Counting, Averaging, RowFits, FiguresFit,
       AllCharts, SectionCharts, SchoolCharts
  <2>1. req.stage = "done"
    BY DEF PortalInv, Stages, UnderWay, NoRequest
  <2>2. /\ req.chart \in AllCharts /\ req.answer = Reply(req.way, req.chart, Query(school))
        /\ school \in School /\ was \in School /\ FilterShape(req.filters)
        /\ req.viewer \in Viewers /\ ScopeOf(was, req.viewer, req.scope)
    BY <2>1 DEF PortalInv, Handled, UnderWay
  <2>3. Reading(Query(school), was, req.viewer) /\ Query(school).d = school
    BY <2>2, QueryReading DEF Query
  <2> QED
    BY <2>2, <2>3, ReplyFits DEF Answered, Data
<1> QED
  BY <1>1, <1>2, <1>3, PortalInvariant, PTL DEF Spec

---------------------------------------------------------------------------
(* Products, as the trend takes them for a common denominator.             *)
ProductStep(f, g, s) == IF s = {} THEN 1 ELSE f[Pick(s)] * g[s \ {Pick(s)}]
Products(f, g, S) == g = [s \in SUBSET S |-> ProductStep(f, g, s)]
ProductOf(f, S) == CHOOSE g : Products(f, g, S)
ProductOver(f, S) == FoldFunctionOnSet(LAMBDA a, b : a * b, 1, f, S)

LEMMA UnfoldProduct ==
  ASSUME NEW f, NEW S PROVE ProductOver(f, S) = ProductOf(f, S)[S]
BY DEF ProductOver, FoldFunctionOnSet, MapThenFoldSet, ProductOf, Products, ProductStep, Pick

LEMMA ProductFolds ==
  ASSUME NEW f, NEW S, IsFiniteSet(S) PROVE Folds("product", f, ProductOf(f, S), S)
<1>1. ASSUME NEW g PROVE Products(f, g, S) <=> Folds("product", f, g, S)
  <2>1. \A s : ProductStep(f, g, s) = FoldStep("product", f, g, s)
    BY DEF ProductStep, FoldStep, Neutral, Combine
  <2> QED
    BY <2>1 DEF Products, Folds
<1>2. \E g : Products(f, g, S)
  BY <1>1, FoldsExist
<1>3. Products(f, ProductOf(f, S), S)
  BY <1>2 DEF ProductOf
<1> QED
  BY <1>1, <1>3

LEMMA ProductUnfolds ==
  ASSUME NEW f, NEW S, IsFiniteSet(S)
  PROVE  /\ S = {} => ProductOver(f, S) = 1
         /\ S # {} => ProductOver(f, S) = f[Pick(S)] * ProductOver(f, S \ {Pick(S)})
<1>1. PICK T : T = S \ {Pick(S)}
  OBVIOUS
<1>2. IsFiniteSet(T)
  BY <1>1, FS_Subset
<1>3. Folds("product", f, ProductOf(f, S), S) /\ Folds("product", f, ProductOf(f, T), T)
  BY <1>2, ProductFolds
<1>4. /\ S = {} => ProductOf(f, S)[S] = Neutral("product")
      /\ S # {} => ProductOf(f, S)[S] = Combine("product", f[Pick(S)], ProductOf(f, T)[T])
  BY <1>1, <1>3, FoldUnfolds
<1>5. ProductOver(f, S) = ProductOf(f, S)[S] /\ ProductOver(f, T) = ProductOf(f, T)[T]
  BY UnfoldProduct
<1> QED
  BY <1>1, <1>4, <1>5 DEF Neutral, Combine

(* A product of positive numbers is a multiple of each of them.            *)
Divides(a, b) == \E c \in Nat \ {0} : b = a * c
Common(f, U) == /\ ProductOver(f, U) \in Nat \ {0}
                /\ \A x \in U : Divides(f[x], ProductOver(f, U))
LEMMA ProductCommon ==
  ASSUME NEW f, NEW S, IsFiniteSet(S), \A x \in S : f[x] \in Nat \ {0}
  PROVE  Common(f, S)
<1> DEFINE Q == {U \in SUBSET S : Common(f, U)}
<1>1. {} \in Q
  <2>1. ProductOver(f, {}) = 1
    BY ProductUnfolds, FS_EmptySet
  <2> QED
    BY <2>1 DEF Common
<1>2. ASSUME NEW U \in SUBSET S, U # {}, \A V \in SUBSET U : V # U => V \in Q
      PROVE  U \in Q
  <2>1. PICK p, V : p = Pick(U) /\ V = U \ {p}
    OBVIOUS
  <2>2. p \in U /\ V \in SUBSET U /\ V # U
    BY <1>2, <2>1, PickIn
  <2>3. Common(f, V)
    BY <1>2, <2>2
  <2>4. IsFiniteSet(U)
    BY FS_Subset
  <2>5. ProductOver(f, U) = f[p] * ProductOver(f, V)
    BY <1>2, <2>1, <2>4, ProductUnfolds
  <2>6. PICK a \in Nat \ {0}, b \in Nat \ {0} : a = f[p] /\ b = ProductOver(f, V)
    BY <2>2, <2>3 DEF Common
  <2>7. ProductOver(f, U) = a * b /\ a * b \in Nat \ {0}
    BY <2>5, <2>6
  <2>8. ASSUME NEW x \in U PROVE Divides(f[x], ProductOver(f, U))
    <3>1. CASE x = p
      BY <2>6, <2>7, <3>1 DEF Divides
    <3>2. CASE x # p
      <4>1. x \in V
        BY <2>1, <3>2
      <4>2. PICK c \in Nat \ {0} : b = f[x] * c
        BY <2>3, <2>6, <4>1 DEF Common, Divides
      <4>3. f[x] \in Nat \ {0}
        OBVIOUS
      <4>4. a * b = f[x] * (a * c) /\ a * c \in Nat \ {0}
        BY <4>2, <4>3
      <4> QED
        BY <2>7, <4>4 DEF Divides
    <3> QED
      BY <3>1, <3>2
  <2> QED
    BY <2>7, <2>8 DEF Common
<1>3. SUBSET S \subseteq Q
  <2> HIDE DEF Q
  <2> QED
    BY <1>1, <1>2, FinInduction
<1> QED
  BY <1>3

LEMMA ProductOfOnes ==
  ASSUME NEW f, NEW S, IsFiniteSet(S), \A x \in S : f[x] = 1
  PROVE  ProductOver(f, S) = 1
<1> DEFINE Q == {U \in SUBSET S : ProductOver(f, U) = 1}
<1>1. {} \in Q
  BY ProductUnfolds, FS_EmptySet
<1>2. ASSUME NEW U \in SUBSET S, U # {}, \A V \in SUBSET U : V # U => V \in Q
      PROVE  U \in Q
  <2>1. PICK p, V : p = Pick(U) /\ V = U \ {p}
    OBVIOUS
  <2>2. p \in U /\ V \in SUBSET U /\ V # U
    BY <1>2, <2>1, PickIn
  <2>3. IsFiniteSet(U)
    BY FS_Subset
  <2>4. ProductOver(f, U) = f[p] * ProductOver(f, V)
    BY <1>2, <2>1, <2>3, ProductUnfolds
  <2> QED
    BY <1>2, <2>2, <2>4
<1>3. SUBSET S \subseteq Q
  <2> HIDE DEF Q
  <2> QED
    BY <1>1, <1>2, FinInduction
<1> QED
  BY <1>3

---------------------------------------------------------------------------
(* Least squares over the positions 1 to n.                                *)
Linear(h, f, a, g, b, S) == \A x \in S : h[x] = a * f[x] + b * g[x]
LEMMA SumLinear ==
  ASSUME NEW S, IsFiniteSet(S), NEW f, NEW g, NEW h, Numbers(f, S), Numbers(g, S),
         NEW a \in Int, NEW b \in Int, Linear(h, f, a, g, b, S)
  PROVE  /\ SumFunctionOnSet(f, S) \in Int /\ SumFunctionOnSet(g, S) \in Int
         /\ SumFunctionOnSet(h, S) = a * SumFunctionOnSet(f, S) + b * SumFunctionOnSet(g, S)
<1> DEFINE F(U) == SumFunctionOnSet(f, U)
           G(U) == SumFunctionOnSet(g, U)
           H(U) == SumFunctionOnSet(h, U)
           Q == {U \in SUBSET S : H(U) = a * F(U) + b * G(U)}
<1>1. Numbers(h, S)
  BY DEF Numbers, Linear
<1>2. \A U \in SUBSET S : F(U) \in Int /\ G(U) \in Int
  BY SumTyped
<1>3. {} \in Q
  <2>1. F({}) = 0 /\ G({}) = 0 /\ H({}) = 0
    BY <1>1, SumAdds
  <2> QED
    BY <2>1
<1>4. ASSUME NEW U \in SUBSET S, NEW x \in S, x \notin U, U \in Q PROVE U \cup {x} \in Q
  <2>1. x \in S \ U
    BY <1>4
  <2>2. /\ F(U \cup {x}) = f[x] + F(U) /\ G(U \cup {x}) = g[x] + G(U)
        /\ H(U \cup {x}) = h[x] + H(U)
    BY <1>1, <2>1, SumAdds
  <2>3. f[x] \in Int /\ g[x] \in Int /\ h[x] = a * f[x] + b * g[x]
    BY DEF Numbers, Linear
  <2>4. F(U) \in Int /\ G(U) \in Int /\ H(U) = a * F(U) + b * G(U) /\ U \cup {x} \in SUBSET S
    BY <1>2, <1>4
  <2> HIDE DEF F, G, H
  <2>5. a * (f[x] + F(U)) = a * f[x] + a * F(U) /\ b * (g[x] + G(U)) = b * g[x] + b * G(U)
    BY <2>3, <2>4
  <2>6. a * f[x] \in Int /\ a * F(U) \in Int /\ b * g[x] \in Int /\ b * G(U) \in Int
    BY <2>3, <2>4
  <2>7. H(U \cup {x}) = a * F(U \cup {x}) + b * G(U \cup {x})
    BY <2>2, <2>3, <2>4, <2>5, <2>6
  <2> QED
    BY <2>4, <2>7
<1>5. SUBSET S \subseteq Q
  <2> HIDE DEF Q
  <2> QED
    BY <1>3, <1>4, AddInduction
<1> QED
  BY <1>2, <1>5

Positions(n) == [i \in 1..n |-> i]
PositionSum(n) == SumFunctionOnSet(Positions(n), 1..n)
PositionSquares(n) == SumFunctionOnSet([i \in 1..n |-> i * i], 1..n)
Spread(n) == n * PositionSquares(n) - PositionSum(n) * PositionSum(n)

LEMMA Interval == ASSUME NEW n \in Nat PROVE IsFiniteSet(1..n) /\ Cardinality(1..n) = n
<1>1. IsFiniteSet(1..n)
  BY FS_Interval
<1>2. Cardinality(1..n) = IF 1 > n THEN 0 ELSE n - 1 + 1
  BY FS_Interval
<1> QED
  BY <1>1, <1>2

LEMMA TriangleGrows ==
  ASSUME NEW m \in Int, NEW l \in Int, l = m - 1, NEW s \in Int, 2 * s = l * (l + 1)
  PROVE  2 * (m + s) = m * (m + 1)
<1>1. 2 * (m + s) = 2 * m + l * (l + 1)
  OBVIOUS
<1>2. 2 * m + l * (l + 1) = m * (m + 1)
  OBVIOUS
<1> QED
  BY <1>1, <1>2

LEMMA GaussGrows ==
  ASSUME NEW n \in Nat, NEW m \in 1..n, NEW l \in 0..n, l = m - 1,
         2 * SumFunctionOnSet(Positions(n), 1..l) = l * (l + 1)
  PROVE  2 * SumFunctionOnSet(Positions(n), 1..m) = m * (m + 1)
<1>1. PICK f : f = Positions(n)
  OBVIOUS
<1>2. f[m] = m /\ Numbers(f, 1..n)
  BY <1>1 DEF Positions, Numbers
<1>3. PICK U : U = 1..l
  OBVIOUS
<1>4. 1..m = U \cup {m} /\ U \subseteq 1..n /\ m \in (1..n) \ U
  BY <1>3
<1>5. PICK N : N = 1..n
  OBVIOUS
<1>6. IsFiniteSet(N) /\ Numbers(f, N) /\ U \in SUBSET N /\ m \in N \ U
  BY <1>2, <1>4, <1>5, Interval
<1>7. SumFunctionOnSet(f, U \cup {m}) = f[m] + SumFunctionOnSet(f, U)
  <2>1. \A V \in SUBSET N : \A x \in N \ V :
          SumFunctionOnSet(f, V \cup {x}) = f[x] + SumFunctionOnSet(f, V)
    BY <1>6, SumAdds, Zenon
  <2> QED
    BY <1>6, <2>1
<1>8. PICK s \in Int : s = SumFunctionOnSet(f, U)
  BY <1>6, SumTyped
<1>9. m \in Int /\ l \in Int /\ 2 * s = l * (l + 1)
  BY <1>1, <1>3, <1>8
<1>10. 2 * (m + s) = m * (m + 1)
  BY <1>9, TriangleGrows
<1> QED
  BY <1>1, <1>2, <1>4, <1>7, <1>8, <1>10

LEMMA GaussSum ==
  ASSUME NEW n \in Nat PROVE PositionSum(n) \in Int /\ 2 * PositionSum(n) = n * (n + 1)
<1> DEFINE T == {m \in 0..n : 2 * SumFunctionOnSet(Positions(n), 1..m) # m * (m + 1)}
<1>1. IsFiniteSet(1..n) /\ Numbers(Positions(n), 1..n)
  BY Interval DEF Numbers, Positions
<1>2. SumFunctionOnSet(Positions(n), {}) = 0
  BY <1>1, SumAdds
<1>3. 0 \notin T
  <2>1. 1..0 = {} /\ 2 * 0 = 0 * (0 + 1)
    OBVIOUS
  <2> QED
    BY <1>2, <2>1
<1>4. ASSUME NEW m \in 1..n, NEW l \in 0..n, l = m - 1, l \notin T PROVE m \notin T
  <2>1. 2 * SumFunctionOnSet(Positions(n), 1..l) = l * (l + 1)
    BY <1>4
  <2>2. 2 * SumFunctionOnSet(Positions(n), 1..m) = m * (m + 1)
    BY <1>4, <2>1, GaussGrows
  <2> QED
    BY <2>2
<1>5. T \subseteq 0..n
  OBVIOUS
<1>6. n \in 0..n /\ (n \notin T => 2 * SumFunctionOnSet(Positions(n), 1..n) = n * (n + 1))
  OBVIOUS
<1> HIDE DEF T
<1>7. T = {}
  <2> SUFFICES ASSUME T # {} PROVE FALSE
    OBVIOUS
  <2>1. PICK m \in T : \A k \in T : m =< k
    <3>1. T \subseteq Nat
      BY <1>5
    <3> QED
      BY <3>1, LeastExists
  <2>2. m \in 1..n
    BY <1>3, <1>5, <2>1
  <2>3. PICK l \in 0..n : l = m - 1
    BY <2>2
  <2>4. l \notin T
    BY <2>1, <2>2, <2>3
  <2> QED
    BY <1>4, <2>1, <2>2, <2>3, <2>4
<1>8. SumFunctionOnSet(Positions(n), 1..n) \in Int
  BY <1>1, SumTyped
<1> QED
  BY <1>6, <1>7, <1>8 DEF PositionSum

(* How far a position is from the middle, n times.                         *)
Offset(n) == [i \in 1..n |-> n * i - PositionSum(n)]
OffsetSquared(n) == [i \in 1..n |-> Offset(n)[i] * Offset(n)[i]]

LEMMA OffsetTyped ==
  ASSUME NEW n \in Nat, NEW i \in 1..n
  PROVE  /\ Offset(n)[i] \in Int /\ OffsetSquared(n)[i] \in Nat
         /\ OffsetSquared(n)[i] = Offset(n)[i] * Offset(n)[i]
         /\ Offset(n)[i] = n * i - PositionSum(n)
<1>1. PositionSum(n) \in Int
  BY GaussSum
<1>2. PICK e \in Int : e = Offset(n)[i] /\ e = n * i - PositionSum(n)
  BY <1>1 DEF Offset
<1>3. OffsetSquared(n)[i] = e * e
  BY <1>2 DEF OffsetSquared
<1>4. e * e \in Nat
  OBVIOUS
<1> QED
  BY <1>2, <1>3, <1>4

LEMMA SpreadIsSum ==
  ASSUME NEW n \in Nat
  PROVE  /\ PositionSquares(n) \in Int /\ Spread(n) \in Int
         /\ SumFunctionOnSet(OffsetSquared(n), 1..n) = n * Spread(n)
<1> DEFINE P == 1..n
           id == Positions(n)
           one == [i \in P |-> 1]
           sq == [i \in P |-> i * i]
           h == [i \in P |-> (0 - 2 * n * PositionSum(n)) * id[i]
                               + (PositionSum(n) * PositionSum(n)) * one[i]]
<1>1. PICK s \in Int : s = PositionSum(n)
  BY GaussSum
<1>2. IsFiniteSet(P) /\ Cardinality(P) = n
  BY Interval
<1>3. \A i \in P : id[i] = i /\ one[i] = 1 /\ sq[i] = i * i
  BY DEF Positions
<1>4. Numbers(id, P) /\ Numbers(one, P) /\ Numbers(sq, P)
  BY <1>3 DEF Numbers
<1>5. PICK a \in Int, b \in Int : a = 0 - 2 * n * s /\ b = s * s
  OBVIOUS
<1>6. Linear(h, id, a, one, b, P)
  BY <1>1, <1>5 DEF Linear
<1>7. SumFunctionOnSet(one, P) = n
  <2> HIDE DEF one
  <2> QED
    BY <1>2, <1>3, SumOfOnes
<1>8. SumFunctionOnSet(id, P) = s
  BY <1>1 DEF PositionSum
<1> HIDE DEF id, one, sq, h
<1>9. SumFunctionOnSet(h, P) = a * s + b * n
  <2>1. SumFunctionOnSet(h, P) = a * SumFunctionOnSet(id, P) + b * SumFunctionOnSet(one, P)
    <3> HIDE DEF P
    <3> QED
      BY <1>2, <1>4, <1>6, SumLinear
  <2> QED
    BY <1>7, <1>8, <2>1
<1>10. Numbers(h, P)
  <2>1. \A i \in P : id[i] \in Int /\ one[i] \in Int
    BY <1>4 DEF Numbers
  <2> QED
    BY <1>6, <2>1 DEF Numbers, Linear
<1>11. PICK c \in Int, d \in Int : c = n * n /\ d = 1
  OBVIOUS
<1>12. Linear(OffsetSquared(n), sq, c, h, d, P)
  <2> SUFFICES ASSUME NEW i \in P PROVE OffsetSquared(n)[i] = c * sq[i] + d * h[i]
    BY DEF Linear
  <2>1. OffsetSquared(n)[i] = (n * i - s) * (n * i - s)
    BY <1>1, OffsetTyped
  <2>2. sq[i] = i * i /\ h[i] = a * i + b
    BY <1>3, <1>5, <1>6 DEF Linear
  <2>3. (n * i - s) * (n * i - s) = (n * n) * (i * i) + ((0 - 2 * n * s) * i + s * s)
    OBVIOUS
  <2> QED
    BY <1>5, <1>11, <2>1, <2>2, <2>3
<1>13. PICK t : t = SumFunctionOnSet(sq, P)
  OBVIOUS
<1>14. /\ t \in Int
       /\ SumFunctionOnSet(OffsetSquared(n), P) = c * t + d * (a * s + b * n)
  <2>1. /\ t \in Int
        /\ SumFunctionOnSet(OffsetSquared(n), P) = c * t + d * SumFunctionOnSet(h, P)
    <3>1. Numbers(sq, P) /\ Numbers(h, P)
      BY <1>4, <1>10
    <3> HIDE DEF P
    <3> QED
      BY <1>2, <3>1, <1>12, <1>13, SumLinear
  <2> QED
    BY <1>9, <2>1
<1>15. PositionSquares(n) = t
  BY <1>13 DEF PositionSquares, sq
<1>16. Spread(n) = n * t - s * s
  BY <1>1, <1>15 DEF Spread
<1>17. (n * n) * t + 1 * ((0 - 2 * n * s) * s + (s * s) * n) = n * (n * t - s * s)
  BY <1>14
<1> QED
  BY <1>5, <1>11, <1>14, <1>15, <1>16, <1>17

(* No position but the middle is closer than half a step.                  *)
LEMMA OffsetFar ==
  ASSUME NEW n \in Nat, NEW i \in 1..n
  PROVE  /\ n * Offset(n)[i] <= 2 * OffsetSquared(n)[i]
         /\ -(n * Offset(n)[i]) <= 2 * OffsetSquared(n)[i]
<1>1. PICK s \in Int : s = PositionSum(n) /\ 2 * s = n * (n + 1)
  BY GaussSum
<1>2. PICK e \in Int : e = Offset(n)[i] /\ e = n * i - s /\ OffsetSquared(n)[i] = e * e
  BY <1>1, OffsetTyped
<1>3. PICK m \in Int : m = 2 * i - n - 1
  OBVIOUS
<1>4. 2 * e = n * m
  <2>1. 2 * e = 2 * (n * i) - 2 * s
    BY <1>2
  <2>2. n * (2 * i - n - 1) = 2 * (n * i) - n * (n + 1)
    OBVIOUS
  <2> QED
    BY <1>1, <1>3, <2>1, <2>2
<1>5. m <= m * m /\ -m <= m * m
  <2>1. CASE m = 0
    BY <2>1
  <2>2. CASE m >= 1
    <3>1. m * 1 <= m * m
      BY <2>2
    <3> QED
      BY <2>2, <3>1
  <2>3. CASE m <= -1
    <3>1. PICK k \in Nat : k = -m /\ k >= 1
      BY <2>3
    <3>2. k * 1 <= k * k /\ m * m = k * k
      BY <3>1
    <3> QED
      BY <3>1, <3>2
  <2> QED
    BY <2>1, <2>2, <2>3
<1>6. PICK w \in Nat, r \in Int : w = n * n /\ r = m * m
  OBVIOUS
<1>7. m * w <= r * w /\ (-m) * w <= r * w
  BY <1>5, <1>6, Product
<1>8. 2 * (n * e) = m * w
  <2>1. 2 * (n * e) = n * (2 * e)
    OBVIOUS
  <2>2. n * (n * m) = m * (n * n)
    OBVIOUS
  <2> QED
    BY <1>4, <1>6, <2>1, <2>2
<1>9. 4 * (e * e) = r * w
  <2>1. 4 * (e * e) = (2 * e) * (2 * e)
    OBVIOUS
  <2>2. (n * m) * (n * m) = (m * m) * (n * n)
    OBVIOUS
  <2> QED
    BY <1>4, <1>6, <2>1, <2>2
<1>10. (-m) * w = -(m * w) /\ m * w \in Int /\ r * w \in Int /\ n * e \in Int /\ e * e \in Int
  OBVIOUS
<1> QED
  BY <1>2, <1>7, <1>8, <1>9, <1>10

LEMMA SpreadPositive ==
  ASSUME NEW n \in Nat, n >= 2 PROVE Spread(n) \in Nat \ {0}
<1> DEFINE q == OffsetSquared(n)
           P == 1..n
           R == P \ {1}
<1>1. IsFiniteSet(P) /\ 1 \in P
  BY Interval
<1>2. Numbers(q, P)
  BY OffsetTyped DEF Numbers
<1>3. SumFunctionOnSet(q, P) = q[1] + SumFunctionOnSet(q, R)
  <2>1. P \in SUBSET P
    OBVIOUS
  <2>2. Splits(q, P)
    BY <1>1, <1>2, <2>1, SumSplits
  <2> QED
    BY <1>1, <2>2 DEF Splits
<1>4. PICK lo \in Int, hi \in Int : lo = 0 /\ hi = 1
  OBVIOUS
<1>5. IsFiniteSet(R)
  BY <1>1, FS_Subset
<1>6. Shares(q, q, R, lo, hi)
  BY <1>4, OffsetTyped DEF Shares
<1>7. SumFunctionOnSet(q, R) \in Nat
  BY <1>4, <1>5, <1>6, SumBetween
<1>8. q[1] \in Nat \ {0}
  <2>1. PICK s \in Int : s = PositionSum(n) /\ 2 * s = n * (n + 1)
    BY GaussSum
  <2>2. PICK e \in Int : e = n * 1 - s /\ q[1] = e * e
    BY <1>1, <2>1, OffsetTyped
  <2>3. 2 * e = n * (1 - n)
    <3>1. n * (1 - n) = 2 * n - n * (n + 1)
      OBVIOUS
    <3> QED
      BY <2>1, <2>2, <3>1
  <2>4. n * (1 - n) # 0
    OBVIOUS
  <2>5. e # 0
    BY <2>3, <2>4
  <2>6. e * e > 0
    BY <2>5
  <2> QED
    BY <2>2, <2>6
<1>9. PICK D \in Int : D = Spread(n) /\ SumFunctionOnSet(q, P) = n * D
  BY SpreadIsSum
<1>10. n * D > 0
  <2> HIDE DEF q, P, R
  <2> QED
    BY <1>3, <1>7, <1>8, <1>9
<1>11. D > 0
  BY <1>10
<1> QED
  BY <1>9, <1>11

(* The numerator of the slope.                                             *)
Tilt(n, y) ==
  n * SumFunctionOnSet([i \in 1..n |-> i * y[i]], 1..n)
    - PositionSum(n) * SumFunctionOnSet(y, 1..n)
Leaning(n, y) == [i \in 1..n |-> Offset(n)[i] * y[i]]

LEMMA TiltIsSum ==
  ASSUME NEW n \in Nat, NEW y, Numbers(y, 1..n)
  PROVE  /\ Numbers(Leaning(n, y), 1..n) /\ Tilt(n, y) \in Int
         /\ Tilt(n, y) = SumFunctionOnSet(Leaning(n, y), 1..n)
<1> DEFINE P == 1..n
           iy == [i \in P |-> i * y[i]]
<1>1. IsFiniteSet(P)
  BY Interval
<1>2. PICK s \in Int, b \in Int : s = PositionSum(n) /\ b = -s
  BY GaussSum
<1>3. \A i \in P : y[i] \in Int /\ iy[i] = i * y[i] /\ Offset(n)[i] \in Int
  BY OffsetTyped DEF Numbers
<1>4. Numbers(iy, P) /\ Numbers(Leaning(n, y), P)
  <2>1. \A i \in P : i * y[i] \in Int /\ Offset(n)[i] * y[i] \in Int
    BY <1>3
  <2> QED
    BY <2>1 DEF Numbers, Leaning
<1>5. Linear(Leaning(n, y), iy, n, y, b, P)
  <2> SUFFICES ASSUME NEW i \in P PROVE Leaning(n, y)[i] = n * iy[i] + b * y[i]
    BY DEF Linear
  <2>1. Leaning(n, y)[i] = (n * i - s) * y[i]
    BY <1>2, OffsetTyped DEF Leaning
  <2>2. PICK z \in Int : z = y[i]
    BY <1>3
  <2>3. (n * i - s) * z = n * (i * z) + b * z
    BY <1>2
  <2> QED
    BY <1>3, <2>1, <2>2, <2>3
<1>6. PICK a \in Int : a = n
  OBVIOUS
<1>7. PICK u \in Int, t \in Int :
        /\ u = SumFunctionOnSet(iy, P) /\ t = SumFunctionOnSet(y, P)
        /\ SumFunctionOnSet(Leaning(n, y), P) = a * u + b * t
  <2>1. Linear(Leaning(n, y), iy, a, y, b, P) /\ Numbers(y, P)
    BY <1>5, <1>6
  <2> HIDE DEF P, iy
  <2>2. /\ SumFunctionOnSet(iy, P) \in Int /\ SumFunctionOnSet(y, P) \in Int
        /\ SumFunctionOnSet(Leaning(n, y), P)
             = a * SumFunctionOnSet(iy, P) + b * SumFunctionOnSet(y, P)
    BY <1>1, <1>2, <1>4, <2>1, SumLinear
  <2> QED
    BY <2>2
<1>8. Tilt(n, y) = n * u - s * t
  <2>1. Tilt(n, y) = n * SumFunctionOnSet(iy, P) - PositionSum(n) * SumFunctionOnSet(y, P)
    BY DEF Tilt
  <2> HIDE DEF P, iy
  <2> QED
    BY <1>2, <1>7, <2>1
<1>9. n * u - s * t = a * u + b * t /\ n * u - s * t \in Int
  <2>1. n * u - s * t = n * u + (-s) * t /\ n * u - s * t \in Int
    OBVIOUS
  <2> QED
    BY <1>2, <1>6, <2>1
<1> QED
  BY <1>4, <1>7, <1>8, <1>9

LEMMA BoundedProduct ==
  ASSUME NEW a \in Int, NEW b \in Int, NEW A \in Nat, NEW B \in Nat,
         -A <= a, a <= A, -B <= b, b <= B
  PROVE  a * b <= A * B /\ -(A * B) <= a * b
<1>1. ASSUME NEW c \in Nat, c <= A PROVE c * b <= A * B /\ -(A * B) <= c * b
  <2>1. c * B <= A * B
    BY <1>1, Product
  <2>2. b * c <= B * c /\ (-B) * c <= b * c
    BY <1>1, Product
  <2>3. /\ b * c = c * b /\ B * c = c * B /\ (-B) * c = -(c * B)
        /\ c * b \in Int /\ c * B \in Int /\ A * B \in Int
    OBVIOUS
  <2> QED
    BY <2>1, <2>2, <2>3
<1>2. CASE a >= 0
  BY <1>1, <1>2
<1>3. CASE a < 0
  <2>1. PICK c \in Nat : c = -a /\ c <= A
    BY <1>3
  <2>2. c * b <= A * B /\ -(A * B) <= c * b
    BY <1>1, <2>1
  <2>3. a * b = -(c * b) /\ c * b \in Int /\ A * B \in Int
    BY <2>1
  <2> QED
    BY <2>2, <2>3
<1> QED
  BY <1>2, <1>3

(* Two lines of values, one in a unit of U: if no value differs by more    *)
(* than half a unit, the numerators differ by no more than a denominator.  *)
HalfUnit(n, y, z, U) ==
  \A i \in 1..n : /\ y[i] \in Int /\ z[i] \in Int
                  /\ -U <= 2 * (y[i] - U * z[i]) /\ 2 * (y[i] - U * z[i]) <= U
LEMMA TiltNear ==
  ASSUME NEW n \in Nat, n >= 2, NEW y, NEW z, NEW U \in Nat \ {0}, HalfUnit(n, y, z, U)
  PROVE  /\ Tilt(n, y) \in Int /\ Tilt(n, z) \in Int
         /\ Tilt(n, y) - U * Tilt(n, z) <= U * Spread(n)
         /\ -(U * Spread(n)) <= Tilt(n, y) - U * Tilt(n, z)
<1> DEFINE P == 1..n
           q == OffsetSquared(n)
           oy == Leaning(n, y)
           oz == Leaning(n, z)
           v == [i \in P |-> Offset(n)[i] * (y[i] - U * z[i])]
           w == [i \in P |-> n * v[i]]
<1>1. IsFiniteSet(P)
  BY Interval
<1>2. Numbers(y, P) /\ Numbers(z, P)
  BY DEF HalfUnit, Numbers
<1>3. /\ Numbers(oy, P) /\ Numbers(oz, P)
      /\ Tilt(n, y) \in Int /\ Tilt(n, y) = SumFunctionOnSet(oy, P)
      /\ Tilt(n, z) \in Int /\ Tilt(n, z) = SumFunctionOnSet(oz, P)
  BY <1>2, TiltIsSum
<1>4. PICK one \in Int, minus \in Int, zero \in Int, m \in Int :
        one = 1 /\ minus = -U /\ zero = 0 /\ m = n
  OBVIOUS
<1>5. ASSUME NEW i \in P
      PROVE  /\ v[i] \in Int /\ w[i] = n * v[i] /\ w[i] \in Int
             /\ v[i] = one * oy[i] + minus * oz[i]
             /\ q[i] \in Nat /\ (-U) * q[i] <= w[i] /\ w[i] <= U * q[i]
  <2>1. PICK e \in Int, a \in Int, b \in Int : e = Offset(n)[i] /\ a = y[i] /\ b = z[i]
    BY OffsetTyped DEF HalfUnit
  <2>2. PICK d \in Int : d = a - U * b
    OBVIOUS
  <2>3. v[i] = e * d /\ w[i] = n * (e * d) /\ oy[i] = e * a /\ oz[i] = e * b
    BY <2>1, <2>2 DEF Leaning
  <2>4. e * d = one * (e * a) + minus * (e * b)
    BY <1>4, <2>2
  <2>5. -U <= 2 * d /\ 2 * d <= U
    BY <2>1, <2>2 DEF HalfUnit
  <2>6. PICK r \in Nat : r = q[i]
    BY OffsetTyped
  <2>7. PICK f \in Int, g \in Int, R \in Nat, V \in Nat :
          f = n * e /\ g = 2 * d /\ R = 2 * r /\ V = U
    OBVIOUS
  <2>8. -R <= f /\ f <= R /\ -V <= g /\ g <= V
    <3>1. n * e <= 2 * r /\ -(n * e) <= 2 * r
      BY <2>1, <2>6, OffsetFar
    <3> QED
      BY <2>5, <2>7, <3>1
  <2>9. f * g <= R * V /\ -(R * V) <= f * g
    BY <2>8, BoundedProduct
  <2>10. f * g = 2 * (n * (e * d)) /\ R * V = 2 * (U * r) /\ n * (e * d) \in Int /\ U * r \in Int
    BY <2>7
  <2>11. (-U) * r = -(U * r) /\ e * d \in Int
    OBVIOUS
  <2>12. n * (e * d) <= U * r /\ -(U * r) <= n * (e * d)
    BY <2>9, <2>10
  <2> HIDE DEF v, w, oy, oz, q
  <2> QED
    BY <2>3, <2>4, <2>6, <2>10, <2>11, <2>12
<1>6. Numbers(v, P) /\ Linear(v, oy, one, oz, minus, P) /\ Linear(w, v, m, v, zero, P)
  <2>1. Numbers(v, P) /\ Linear(v, oy, one, oz, minus, P)
    <3> HIDE DEF v, w, oy, oz, q
    <3> QED
      BY <1>5 DEF Numbers, Linear
  <2>2. \A i \in P : w[i] = m * v[i] + zero * v[i]
    <3> HIDE DEF v, w
    <3> QED
      BY <1>4, <1>5
  <2> QED
    BY <2>1, <2>2 DEF Linear
<1> HIDE DEF P, q, oy, oz, v, w
<1>7. PICK t \in Int : t = SumFunctionOnSet(v, P)
  BY <1>1, <1>6, SumLinear
<1>8. t = Tilt(n, y) - U * Tilt(n, z)
  <2>1. t = one * Tilt(n, y) + minus * Tilt(n, z)
    BY <1>1, <1>3, <1>6, <1>7, SumLinear
  <2> QED
    BY <1>3, <1>4, <2>1
<1>9. SumFunctionOnSet(w, P) = n * t
  <2>1. SumFunctionOnSet(w, P) = m * t + zero * t
    BY <1>1, <1>6, <1>7, SumLinear
  <2> QED
    BY <1>4, <2>1
<1>10. PICK D \in Nat \ {0} : D = Spread(n) /\ SumFunctionOnSet(q, P) = n * D
  BY SpreadPositive, SpreadIsSum DEF q, P
<1>11. PICK V \in Int : V = U
  OBVIOUS
<1>12. Shares(w, q, P, minus, V)
  BY <1>4, <1>5, <1>11 DEF Shares
<1>13. minus * (n * D) <= n * t /\ n * t <= V * (n * D)
  <2>1. /\ minus * SumFunctionOnSet(q, P) <= SumFunctionOnSet(w, P)
        /\ SumFunctionOnSet(w, P) <= V * SumFunctionOnSet(q, P)
    BY <1>1, <1>12, SumBetween
  <2> QED
    BY <1>9, <1>10, <2>1
<1>14. t <= U * D /\ -(U * D) <= t
  <2>1. PICK x \in Int : x = U * D
    OBVIOUS
  <2>2. minus * (n * D) = -(n * x) /\ V * (n * D) = n * x
    BY <1>4, <1>11, <2>1
  <2>3. t <= x
    <3> SUFFICES ASSUME x + 1 <= t PROVE FALSE
      BY <2>1
    <3>1. (x + 1) * n <= t * n
      BY Product
    <3>2. (x + 1) * n = n * x + n /\ t * n = n * t /\ n * x \in Int /\ n * t \in Int
      OBVIOUS
    <3> QED
      BY <1>13, <2>2, <3>1, <3>2
  <2>4. -x <= t
    <3> SUFFICES ASSUME t <= -x - 1 PROVE FALSE
      BY <2>1
    <3>1. t * n <= (-x - 1) * n
      BY Product
    <3>2. (-x - 1) * n = -(n * x) - n /\ t * n = n * t /\ n * x \in Int /\ n * t \in Int
      OBVIOUS
    <3> QED
      BY <1>13, <2>2, <3>1, <3>2
  <2> QED
    BY <2>1, <2>3, <2>4
<1> QED
  BY <1>3, <1>8, <1>10, <1>14

(* Rounded to thousandths, the slopes are at most a hundredth apart.       *)
LEMMA RoundedNear ==
  ASSUME NEW N \in Int, NEW M \in Int, NEW U \in Nat \ {0}, NEW D \in Nat \ {0},
         N - U * M <= U * D, -(U * D) <= N - U * M
  PROVE  /\ Rounded(10 * N, U * D) \in Int /\ Rounded(10 * M, 1 * D) \in Int
         /\ Rounded(10 * M, 1 * D) - Rounded(10 * N, U * D) \in -10..10
<1>1. PICK x \in Nat \ {0} : x = U * D
  OBVIOUS
<1>2. PICK r \in Int : /\ r = Rounded(10 * N, U * D)
                       /\ (2 * x) * r <= 20 * N + x /\ 20 * N + x < (2 * x) * r + 2 * x
  <2>1. PICK a \in Int, b \in Nat \ {0} : a = 2 * (10 * N) + x /\ b = 2 * x
    BY <1>1
  <2>2. a \div b \in Int /\ b * (a \div b) <= a /\ a < b * (a \div b) + b
    BY Divided
  <2>3. a \div b = Rounded(10 * N, U * D)
    BY <1>1, <2>1 DEF Rounded
  <2> QED
    BY <2>1, <2>2, <2>3
<1>3. PICK s \in Int : /\ s = Rounded(10 * M, 1 * D)
                       /\ (2 * D) * s <= 20 * M + D /\ 20 * M + D < (2 * D) * s + 2 * D
  <2>1. PICK a \in Int, b \in Nat \ {0} : a = 2 * (10 * M) + D /\ b = 2 * D
    OBVIOUS
  <2>2. a \div b \in Int /\ b * (a \div b) <= a /\ a < b * (a \div b) + b
    BY Divided
  <2>3. a \div b = Rounded(10 * M, 1 * D)
    BY <2>1 DEF Rounded
  <2> QED
    BY <2>1, <2>2, <2>3
<1>4. PICK k \in Int : k = U * M
  OBVIOUS
<1>5. (2 * x) * s <= 20 * k + x /\ 20 * k + x < (2 * x) * s + 2 * x
  <2>1. PICK a \in Int, b \in Int, c \in Int : a = (2 * D) * s /\ b = 20 * M + D /\ c = a + 2 * D
    OBVIOUS
  <2>2. a <= b /\ b + 1 <= c
    BY <1>3, <2>1
  <2>3. a * U <= b * U /\ (b + 1) * U <= c * U
    BY <2>2, Product
  <2>4. a * U = (2 * x) * s /\ b * U = 20 * k + x /\ (b + 1) * U = b * U + U
        /\ c * U = a * U + 2 * x /\ b * U \in Int /\ a * U \in Int
    BY <1>1, <1>4, <2>1
  <2> QED
    BY <2>3, <2>4
<1>6. N - k <= x /\ -x <= N - k
  BY <1>1, <1>4
<1>7. r <= s + 10
  <2> SUFFICES ASSUME s + 11 <= r PROVE FALSE
    OBVIOUS
  <2>1. (s + 11) * (2 * x) <= r * (2 * x)
    BY Product
  <2>2. (s + 11) * (2 * x) = (2 * x) * s + 22 * x /\ r * (2 * x) = (2 * x) * r
        /\ (2 * x) * s \in Int /\ (2 * x) * r \in Int
    OBVIOUS
  <2> QED
    BY <1>2, <1>5, <1>6, <2>1, <2>2
<1>8. s <= r + 10
  <2> SUFFICES ASSUME r + 11 <= s PROVE FALSE
    OBVIOUS
  <2>1. (r + 11) * (2 * x) <= s * (2 * x)
    BY Product
  <2>2. (r + 11) * (2 * x) = (2 * x) * r + 22 * x /\ s * (2 * x) = (2 * x) * s
        /\ (2 * x) * s \in Int /\ (2 * x) * r \in Int
    OBVIOUS
  <2> QED
    BY <1>2, <1>5, <1>6, <2>1, <2>2
<1>9. s - r \in -10..10
  BY <1>7, <1>8
<1> QED
  BY <1>2, <1>3, <1>9

(* Least squares in terms of the above.                                    *)
Ratio(r) == \E n \in Int, d \in Nat \ {0} : r = [n |-> n, d |-> d]
Scaled(k, unit, n) == [i \in 1..n |-> k[i].n * (unit \div k[i].d)]

LEMMA LeastSquaresTilt ==
  ASSUME NEW n \in Nat, NEW k, DOMAIN k = 1..n, NEW unit
  PROVE  LeastSquares(k, unit) = Rounded(10 * Tilt(n, Scaled(k, unit, n)), unit * Spread(n))
<1> DEFINE P == 1..n
           y == Scaled(k, unit, n)
<1>1. Cardinality(P) = n
  BY Interval
<1>2. /\ SumFunction(y) = SumFunctionOnSet(y, P)
      /\ SumFunction([i \in P |-> i * y[i]]) = SumFunctionOnSet([i \in P |-> i * y[i]], P)
      /\ SumFunction([i \in P |-> i * i]) = PositionSquares(n)
      /\ SumFunction([i \in P |-> i]) = PositionSum(n)
  BY DEF SumFunction, Scaled, PositionSquares, PositionSum, Positions
<1>3. y = [i \in P |-> k[i].n * (unit \div k[i].d)]
  BY DEF Scaled
<1> HIDE DEF y
<1>4. LeastSquares(k, unit)
        = Rounded(10 * (n * SumFunctionOnSet([i \in P |-> i * y[i]], P)
                          - PositionSum(n) * SumFunctionOnSet(y, P)),
                  unit * (n * PositionSquares(n) - PositionSum(n) * PositionSum(n)))
  BY <1>1, <1>2, <1>3 DEF LeastSquares
<1> QED
  BY <1>4 DEF Tilt, Spread, y

LEMMA AllKnown ==
  ASSUME NEW k, NEW D, k = [i \in D |-> k[i]], \A i \in D : k[i] # None
  PROVE  Known(k) = k
<1>1. DOMAIN k = D
  OBVIOUS
<1>2. Known(k) = [i \in {i \in D : k[i] # None} |-> k[i]]
  BY <1>1 DEF Known, RestrictValues, Restrict
<1>3. {i \in D : k[i] # None} = D
  OBVIOUS
<1> QED
  BY <1>2, <1>3

LEMMA RatioFields ==
  ASSUME NEW r, Ratio(r)
  PROVE  /\ r.n \in Int /\ r.d \in Nat \ {0} /\ r # None
         /\ Round(r) = Rounded(r.n, r.d) /\ Round(r) \in Int /\ Round(r) # None
<1>1. PICK n \in Int, d \in Nat \ {0} : r = [n |-> n, d |-> d]
  BY DEF Ratio
<1>2. r.n = n /\ r.d = d
  BY <1>1
<1>3. Round(r) = Rounded(n, d)
  BY <1>1, RatioKnown
<1>4. r # None
  <2>1. r \in [n: Int, d: Int]
    BY <1>1
  <2> QED
    BY <2>1, NoneAssumption
<1>5. Rounded(n, d) \in Int
  <2>1. 2 * n + d \in Int /\ 2 * d \in Nat \ {0}
    OBVIOUS
  <2> QED
    BY <2>1, Divided DEF Rounded
<1> QED
  BY <1>2, <1>3, <1>4, <1>5, NoneAssumption

(* Some ratios in a common unit, and each rounded to a whole number.       *)
LEMMA UnitScales ==
  ASSUME NEW n \in Nat, NEW k, DOMAIN k = 1..n, \A i \in 1..n : Ratio(k[i]),
         NEW z, \A i \in 1..n : z[i] = Round(k[i])
  PROVE  Unit(k) \in Nat \ {0} /\ HalfUnit(n, Scaled(k, Unit(k), n), z, Unit(k))
<1> DEFINE den == [i \in 1..n |-> k[i].d]
<1>1. IsFiniteSet(1..n)
  BY Interval
<1>2. Unit(k) = ProductOver(den, 1..n)
  BY DEF Unit, FoldFunction, ProductOver
<1>3. \A i \in 1..n : den[i] \in Nat \ {0} /\ den[i] = k[i].d
  BY RatioFields
<1> HIDE DEF den
<1>4. Common(den, 1..n)
  BY <1>1, <1>3, ProductCommon
<1>5. PICK U \in Nat \ {0} : U = Unit(k)
  BY <1>2, <1>4 DEF Common
<1>6. ASSUME NEW i \in 1..n
      PROVE  /\ Scaled(k, U, n)[i] \in Int /\ z[i] \in Int
             /\ -U <= 2 * (Scaled(k, U, n)[i] - U * z[i])
             /\ 2 * (Scaled(k, U, n)[i] - U * z[i]) <= U
  <2>1. PICK a \in Int, d \in Nat \ {0} : a = k[i].n /\ d = k[i].d /\ z[i] = Rounded(a, d)
    BY RatioFields
  <2>2. PICK c \in Nat \ {0} : U = d * c
    BY <1>2, <1>3, <1>4, <1>5, <2>1 DEF Common, Divides
  <2>3. U \div d = c
    <3>1. PICK e \in Int : e = U \div d /\ d * e <= U /\ U < d * e + d
      <4>1. PICK x \in Int, b \in Nat \ {0} : x = U /\ b = d
        OBVIOUS
      <4>2. x \div b \in Int /\ b * (x \div b) <= x /\ x < b * (x \div b) + b
        BY Divided
      <4> QED
        BY <4>1, <4>2
    <3>2. c <= e
      <4> SUFFICES ASSUME e + 1 <= c PROVE FALSE
        BY <3>1
      <4>1. (e + 1) * d <= c * d
        BY Product
      <4>2. (e + 1) * d = d * e + d /\ c * d = d * c /\ d * e \in Int /\ d * c \in Int
        BY <3>1
      <4> QED
        BY <2>2, <3>1, <4>1, <4>2
    <3>3. e <= c
      <4> SUFFICES ASSUME c + 1 <= e PROVE FALSE
        BY <3>1
      <4>1. (c + 1) * d <= e * d
        BY Product
      <4>2. (c + 1) * d = d * c + d /\ e * d = d * e /\ d * e \in Int /\ d * c \in Int
        BY <3>1
      <4> QED
        BY <2>2, <3>1, <4>1, <4>2
    <3> QED
      BY <3>1, <3>2, <3>3
  <2>4. Scaled(k, U, n)[i] = a * c
    BY <2>1, <2>3 DEF Scaled
  <2>5. PICK s \in Int :
          /\ s = Rounded(a, d)
          /\ (2 * d) * s <= 2 * a + d /\ 2 * a + d < (2 * d) * s + 2 * d
    <3>1. PICK x \in Int, b \in Nat \ {0} : x = 2 * a + d /\ b = 2 * d
      OBVIOUS
    <3>2. x \div b \in Int /\ b * (x \div b) <= x /\ x < b * (x \div b) + b
      BY Divided
    <3>3. x \div b = Rounded(a, d)
      BY <3>1 DEF Rounded
    <3> QED
      BY <3>1, <3>2, <3>3
  <2>6. PICK l \in Int, m \in Int, h \in Int :
          l = (2 * d) * s /\ m = 2 * a + d /\ h = (2 * d) * s + 2 * d
    OBVIOUS
  <2>7. l <= m /\ m <= h
    BY <2>5, <2>6
  <2>8. l * c <= m * c /\ m * c <= h * c
    BY <2>7, Product
  <2>9. /\ l * c = 2 * (U * s) /\ m * c = 2 * (a * c) + U /\ h * c = 2 * (U * s) + 2 * U
        /\ U * s \in Int /\ a * c \in Int
    BY <2>2, <2>6
  <2>10. -U <= 2 * (a * c - U * s) /\ 2 * (a * c - U * s) <= U
    BY <2>8, <2>9
  <2> QED
    BY <2>1, <2>4, <2>5, <2>9, <2>10
<1> QED
  BY <1>5, <1>6 DEF HalfUnit

LEMMA WholeUnit ==
  ASSUME NEW n \in Nat, NEW z, z \in [1..n -> Int]
  PROVE  LET w == [i \in 1..n |-> Whole(z[i])]
         IN  Unit(w) = 1 /\ Scaled(w, 1, n) = z /\ Known(w) = w
<1> DEFINE w == [i \in 1..n |-> Whole(z[i])]
           den == [i \in 1..n |-> w[i].d]
<1>1. ASSUME NEW i \in 1..n PROVE w[i] = [n |-> z[i], d |-> 1] /\ w[i] # None
  <2>1. z[i] # None /\ z[i] \in Int
    BY NoneAssumption
  <2>2. w[i] = [n |-> z[i], d |-> 1]
    BY <2>1 DEF Whole
  <2>3. w[i] \in [n: Int, d: Int]
    BY <2>1, <2>2
  <2> QED
    BY <2>2, <2>3, NoneAssumption
<1>2. w = [i \in 1..n |-> w[i]] /\ DOMAIN w = 1..n
  OBVIOUS
<1> HIDE DEF w
<1>3. Unit(w) = ProductOver(den, 1..n)
  BY <1>2 DEF Unit, FoldFunction, ProductOver
<1>4. \A i \in 1..n : den[i] = 1
  <2> SUFFICES ASSUME NEW i \in 1..n PROVE den[i] = 1
    OBVIOUS
  <2>1. den[i] = w[i].d
    OBVIOUS
  <2>2. w[i] = [n |-> z[i], d |-> 1]
    BY <1>1
  <2> QED
    BY <2>1, <2>2
<1> HIDE DEF den
<1>5. Unit(w) = 1
  BY <1>3, <1>4, Interval, ProductOfOnes
<1>6. \A i \in 1..n : w[i].n * (1 \div w[i].d) = z[i]
  <2> SUFFICES ASSUME NEW i \in 1..n PROVE w[i].n * (1 \div w[i].d) = z[i]
    OBVIOUS
  <2>0. w[i] = [n |-> z[i], d |-> 1]
    BY <1>1
  <2>1. w[i].n = z[i] /\ w[i].d = 1 /\ z[i] \in Int
    BY <2>0
  <2>2. 1 \div 1 = 1
    OBVIOUS
  <2> QED
    BY <2>1, <2>2
<1>7. Scaled(w, 1, n) = z
  BY <1>6 DEF Scaled
<1>8. Known(w) = w
  BY <1>1, <1>2, AllKnown
<1> QED
  BY <1>5, <1>7, <1>8 DEF w

LEMMA Turned ==
  ASSUME NEW r \in Int, NEW s \in Int, s - r \in -10..10 PROVE r - s \in -10..10
OBVIOUS

LEMMA SlopesNear ==
  ASSUME NEW n \in Nat, NEW k, k = [i \in 1..n |-> k[i]], \A i \in 1..n : Ratio(k[i])
  PROVE  Near(TrendSlope(k), TrendSlope([i \in 1..n |-> Whole(Round(k[i]))]))
<1> DEFINE z == [i \in 1..n |-> Round(k[i])]
           w == [i \in 1..n |-> Whole(z[i])]
<1>1. [i \in 1..n |-> Whole(Round(k[i]))] = w
  OBVIOUS
<1>2. z \in [1..n -> Int] /\ \A i \in 1..n : z[i] = Round(k[i])
  BY RatioFields
<1>3. Known(k) = k /\ DOMAIN k = 1..n
  <2>1. \A i \in 1..n : k[i] # None
    BY RatioFields
  <2> QED
    BY <2>1, AllKnown
<1>4. DOMAIN w = 1..n
  OBVIOUS
<1> HIDE DEF z
<1>5. Unit(w) = 1 /\ Scaled(w, 1, n) = z /\ Known(w) = w
  BY <1>2, WholeUnit
<1> HIDE DEF w
<1>6. TrendSlope(k) = Slope(k) /\ TrendSlope(w) = Slope(w) /\ Cardinality(1..n) = n
  BY <1>3, <1>5, Interval DEF TrendSlope
<1>7. CASE n < 2
  <2>1. Slope(k) = None /\ Slope(w) = None
    BY <1>3, <1>4, <1>6, <1>7 DEF Slope
  <2> QED
    BY <1>1, <1>6, <2>1 DEF Near
<1>8. CASE n >= 2
  <2> DEFINE U == Unit(k)
             y == Scaled(k, U, n)
  <2>1. Slope(k) = LeastSquares(k, U) /\ Slope(w) = LeastSquares(w, 1)
    BY <1>3, <1>4, <1>5, <1>6, <1>8 DEF Slope
  <2>2. U \in Nat \ {0} /\ HalfUnit(n, y, z, U)
    BY <1>2, <1>3, UnitScales
  <2>3. /\ LeastSquares(k, U) = Rounded(10 * Tilt(n, y), U * Spread(n))
        /\ LeastSquares(w, 1) = Rounded(10 * Tilt(n, z), 1 * Spread(n))
    BY <1>3, <1>4, <1>5, LeastSquaresTilt
  <2> HIDE DEF U, y
  <2>4. /\ Tilt(n, y) \in Int /\ Tilt(n, z) \in Int
        /\ Tilt(n, y) - U * Tilt(n, z) <= U * Spread(n)
        /\ -(U * Spread(n)) <= Tilt(n, y) - U * Tilt(n, z)
    BY <1>8, <2>2, TiltNear
  <2>5. Spread(n) \in Nat \ {0}
    BY <1>8, SpreadPositive
  <2>6. PICK N \in Int, M \in Int, D \in Nat \ {0} :
          N = Tilt(n, y) /\ M = Tilt(n, z) /\ D = Spread(n)
    BY <2>4, <2>5
  <2>7. PICK r \in Int, s \in Int : /\ r = Rounded(10 * N, U * D) /\ s = Rounded(10 * M, 1 * D)
                                    /\ s - r \in -10..10
    BY <2>2, <2>4, <2>6, RoundedNear
  <2>8. TrendSlope(k) = r /\ TrendSlope(w) = s
    <3>1. LeastSquares(k, U) = Rounded(10 * N, U * D)
      BY <2>3, <2>6
    <3>2. LeastSquares(w, 1) = Rounded(10 * M, 1 * D)
      BY <2>3, <2>6
    <3> QED
      BY <1>6, <2>1, <2>7, <3>1, <3>2
  <2>9. r - s \in -10..10
    BY <2>7, Turned
  <2>10. None \notin {r, s}
    BY NoneAssumption
  <2> QED
    BY <1>1, <2>8, <2>9, <2>10 DEF Near
<1> QED
  BY <1>7, <1>8

---------------------------------------------------------------------------
(* The members of a set of numbers in their order.                         *)
Rank(S, x) == Cardinality({y \in S : y < x})
Ranked(S) == \A i \in 1..Cardinality(S) : \E x \in S : Rank(S, x) = i - 1
LEMMA EveryRank ==
  ASSUME NEW S, S \subseteq Nat, IsFiniteSet(S) PROVE Ranked(S)
<1> DEFINE Q == {U \in SUBSET S : Ranked(U)}
<1>1. {} \in Q
  <2>1. Cardinality({}) = 0
    BY FS_EmptySet
  <2> QED
    BY <2>1 DEF Ranked
<1>2. ASSUME NEW U \in SUBSET S, U # {}, \A V \in SUBSET U : V # U => V \in Q
      PROVE  U \in Q
  <2>1. IsFiniteSet(U) /\ U \in SUBSET Int /\ U \in SUBSET Nat
    <3>1. IsFiniteSet(U)
      BY FS_Subset
    <3>2. U \in SUBSET Nat
      OBVIOUS
    <3>3. U \in SUBSET Int
      BY <3>2
    <3> QED
      BY <3>1, <3>2, <3>3
  <2>2. PICK m, V : m = Max(U) /\ V = U \ {m}
    OBVIOUS
  <2>3. m \in U /\ \A x \in U : x <= m
    BY <1>2, <2>1, <2>2, MaxMin
  <2>4. V \in SUBSET U /\ V # U /\ IsFiniteSet(V)
    BY <2>1, <2>2, <2>3, FS_Subset
  <2>5. Ranked(V)
    BY <1>2, <2>4
  <2>6. PICK n \in Nat : n = Cardinality(V) /\ Cardinality(U) = n + 1
    BY <2>1, <2>2, <2>3, <2>4, FS_RemoveElement, FS_CardinalityType
  <2>7. ASSUME NEW i \in 1..(n + 1) PROVE \E x \in U : Rank(U, x) = i - 1
    <3>1. CASE i = n + 1
      <4>1. {y \in U : y < m} = V
        <5>1. \A y \in U : y \in Nat /\ m \in Nat /\ y <= m
          BY <2>1, <2>3
        <5>2. \A y \in U : y < m <=> y # m
          BY <5>1
        <5> QED
          BY <2>2, <5>2
      <4>2. Rank(U, m) = i - 1
        BY <2>6, <3>1, <4>1 DEF Rank
      <4> QED
        BY <2>3, <4>2
    <3>2. CASE i # n + 1
      <4>1. i \in 1..Cardinality(V)
        BY <2>6, <3>2
      <4>2. PICK x \in V : Rank(V, x) = i - 1
        BY <2>5, <4>1 DEF Ranked
      <4>3. x \in U /\ {y \in U : y < x} = {y \in V : y < x}
        BY <2>1, <2>2, <2>3
      <4> QED
        BY <4>2, <4>3 DEF Rank
    <3> QED
      BY <3>1, <3>2
  <2> QED
    BY <2>6, <2>7 DEF Ranked
<1>3. SUBSET S \subseteq Q
  <2> HIDE DEF Q
  <2> QED
    BY <1>1, <1>2, FinInduction
<1> QED
  BY <1>3

LEMMA ListedIn ==
  ASSUME NEW S, S \subseteq Nat, IsFiniteSet(S), NEW i \in 1..Cardinality(S)
  PROVE  Listed(S)[i] \in S
<1>1. \E x \in S : Rank(S, x) = i - 1
  BY EveryRank DEF Ranked
<1>2. Listed(S)[i] = CHOOSE x \in S : Rank(S, x) = i - 1
  BY DEF Listed, Quantify, Rank
<1> QED
  BY <1>1, <1>2

---------------------------------------------------------------------------
(* The results of one student in one subject and one class, over all the   *)
(* terms: what the student's own page and the table of the class read.     *)
LEMMA AverageIsRatio ==
  ASSUME NEW q, NEW K, Sound(q, K), K # {} PROVE Ratio(WeightedAvg(q, K))
<1> DEFINE f == [k \in K |-> Pct(q, k) * PaperOf(k).weight]
           g == [k \in K |-> Pct(q, k)]
           w == [k \in K |-> PaperOf(k).weight]
<1>1. IsFiniteSet(K)
  BY ResultsFinite
<1>2. Numbers(f, K) /\ Numbers(g, K) /\ Numbers(w, K)
  <2>1. \A k \in K : Pct(q, k) \in Int /\ PaperOf(k).weight \in Int
    BY PctBetween
  <2>2. \A k \in K : f[k] \in Int /\ g[k] \in Int /\ w[k] \in Int
    BY <2>1
  <2> QED
    BY <2>2 DEF Numbers
<1>3. /\ SumFunction(f) = SumFunctionOnSet(f, K) /\ SumFunction(g) = SumFunctionOnSet(g, K)
      /\ SumFunction(w) = SumFunctionOnSet(w, K)
  BY DEF SumFunction
<1>4. WeightedAvg(q, K) = IF SumFunction(w) > 0 THEN [n |-> SumFunction(f), d |-> SumFunction(w)]
                          ELSE [n |-> SumFunction(g), d |-> Cardinality(K)]
  BY DEF WeightedAvg, Points
<1> HIDE DEF f, g, w
<1>5. SumFunction(f) \in Int /\ SumFunction(g) \in Int /\ SumFunction(w) \in Int
  BY <1>1, <1>2, <1>3, SumTyped
<1>6. Cardinality(K) \in Nat \ {0}
  BY <1>1, FS_CardinalityType, FS_EmptySet
<1>7. CASE SumFunction(w) > 0
  <2>1. SumFunction(w) \in Nat \ {0}
    BY <1>5, <1>7
  <2> QED
    BY <1>4, <1>5, <1>7, <2>1 DEF Ratio
<1>8. CASE ~(SumFunction(w) > 0)
  BY <1>4, <1>5, <1>6, <1>8 DEF Ratio
<1> QED
  BY <1>7, <1>8

Alone(group, v, K) == Groups(group, K) = {v} /\ Part(group, v, K) = K
LEMMA OnePart ==
  ASSUME NEW group, NEW v, NEW K, K # {}, \A k \in K : Dimension(group, k) = v
  PROVE  Alone(group, v, K)
BY DEF Alone, Groups, Part

(* The filters for one student are the page's but for the student.         *)
OtherFilters(f, h) ==
  /\ f.year = h.year /\ f.term = h.term /\ f.subject = h.subject /\ f.subjects = h.subjects
  /\ f.grade = h.grade /\ f.section = h.section /\ f.sections = h.sections
  /\ f.teacher = h.teacher /\ f.type = h.type /\ f.from = h.from /\ f.to = h.to
LEMMA OwnFields ==
  ASSUME NEW g, DOMAIN g = QueryFields, FilterShape(g.f), NEW s
  PROVE  /\ OwnQuery(g, s).d = g.d /\ OwnQuery(g, s).cfg = g.cfg /\ OwnQuery(g, s).sc = g.sc
         /\ OwnQuery(g, s).last = g.last
         /\ OwnQuery(g, s).f.student = s /\ OtherFilters(OwnQuery(g, s).f, g.f)
<1>1. PICK f : f = [g.f EXCEPT !.student = s]
  OBVIOUS
<1>2. OwnQuery(g, s) = [g EXCEPT !.f = f]
  BY <1>1, FilterEdits DEF OwnQuery
<1>3. f.student = s /\ OtherFilters(f, g.f)
  BY <1>1, FilterFields DEF FilterShape, OtherFilters
<1> QED
  BY <1>2, <1>3 DEF QueryFields

LEMMA OtherResolved ==
  ASSUME NEW f, NEW h, OtherFilters(f, h)
  PROVE  /\ ResolvedSubjects(f) = ResolvedSubjects(h) /\ ResolvedSections(f) = ResolvedSections(h)
         /\ \A on : InWindow(f, on) <=> InWindow(h, on)
         /\ \A r : RemarkFilter(f, r) <=> RemarkFilter(h, r)
<1>1. ResolvedSubjects(f) = ResolvedSubjects(h) /\ ResolvedSections(f) = ResolvedSections(h)
  BY DEF OtherFilters, ResolvedSubjects, ResolvedSections
<1>2. \A on : InWindow(f, on) <=> InWindow(h, on)
  BY DEF OtherFilters, InWindow
<1>3. \A r : RemarkFilter(f, r) <=> RemarkFilter(h, r)
  BY DEF OtherFilters, RemarkFilter
<1> QED
  BY <1>1, <1>2, <1>3

(* A query for student s or for anybody.                                   *)
About(g, s) ==
  /\ DOMAIN g = QueryFields /\ FilterShape(g.f) /\ s \in Students /\ g.f.student \in {None, s}

LEMMA OwnResults ==
  ASSUME NEW g, NEW s, About(g, s)
  PROVE  /\ ResultsOf(g, s) = {k \in BaseSelect(g) : k[1] = s}
         /\ BaseSelect(OwnQuery(g, s)) = ResultsOf(g, s)
<1> DEFINE p == OwnQuery(g, s)
<1>1. /\ p.d = g.d /\ p.sc = g.sc /\ p.f.student = s /\ OtherFilters(p.f, g.f)
      /\ g.f.student \in {None, s} /\ s # None
  BY OwnFields, IdsAssumption DEF About
<1>2. ResultsOf(g, s) = BaseSelect(p)
  BY DEF ResultsOf, OwnQuery
<1> HIDE DEF p
<1>3. \A k : FilterConditions(g.d, p.f, k) <=> FilterConditions(g.d, g.f, k) /\ k[1] = s
  <2> SUFFICES ASSUME NEW k
               PROVE  FilterConditions(g.d, p.f, k) <=> FilterConditions(g.d, g.f, k) /\ k[1] = s
    OBVIOUS
  <2>1. /\ ResolvedSubjects(p.f) = ResolvedSubjects(g.f)
        /\ ResolvedSections(p.f) = ResolvedSections(g.f)
        /\ InWindow(p.f, PaperOf(k).day) <=> InWindow(g.f, PaperOf(k).day)
    BY <1>1, OtherResolved
  <2>2. Matches(p.f.student, k[1]) <=> Matches(g.f.student, k[1]) /\ k[1] = s
    BY <1>1 DEF Matches
  <2> QED
    BY <1>1, <2>1, <2>2 DEF FilterConditions, OtherFilters
<1>4. Rows(p) = {k \in Rows(g) : k[1] = s}
  BY <1>1, <1>3 DEF Rows
<1>5. BaseSelect(p) = {k \in BaseSelect(g) : k[1] = s}
  BY <1>1, <1>4 DEF BaseSelect
<1> QED
  BY <1>2, <1>5 DEF p

(* What both read of the register, the remarks and the latest results.     *)
LEMMA OwnAttendance ==
  ASSUME NEW g, NEW s, About(g, s)
  PROVE  AttendanceByStudent(OwnQuery(g, s), {s}) = AttendanceByStudent(g, {s})
<1> DEFINE p == OwnQuery(g, s)
           of(q) == {t \in {s} :
                      /\ Matches(q.f.grade, Section[q.d.home[t]].grade)
                      /\ ResolvedSections(q.f) # {} => q.d.home[t] \in ResolvedSections(q.f)
                      /\ DaysOf(q, t) # {}}
<1>1. /\ p.d = g.d /\ p.cfg = g.cfg /\ OtherFilters(p.f, g.f)
      /\ p.f.grade = g.f.grade /\ p.f.term = g.f.term /\ p.f.year = g.f.year
  BY OwnFields DEF About, OtherFilters
<1>2. {s} # None
  BY IdsAssumption DEF About
<1>3. /\ AttendanceByStudent(p, {s}) = [t \in of(p) |-> Tally(p, t, DaysOf(p, t))]
      /\ AttendanceByStudent(g, {s}) = [t \in of(g) |-> Tally(g, t, DaysOf(g, t))]
  BY <1>2 DEF AttendanceByStudent
<1> HIDE DEF p
<1>4. ResolvedSections(p.f) = ResolvedSections(g.f) /\ \A on : InWindow(p.f, on) <=> InWindow(g.f, on)
  BY <1>1, OtherResolved
<1>5. \A t : DaysOf(p, t) = DaysOf(g, t)
  BY <1>1, <1>4 DEF DaysOf
<1>6. \A t, days : Tally(p, t, days) = Tally(g, t, days)
  BY <1>1 DEF Tally
<1>7. of(p) = of(g)
  BY <1>1, <1>4, <1>5
<1> HIDE DEF of
<1> QED
  BY <1>3, <1>5, <1>6, <1>7 DEF p

LEMMA OwnConcerns ==
  ASSUME NEW g, NEW s, About(g, s)
  PROVE  ConcernRemarkCount(OwnQuery(g, s), s) = ConcernRemarkCount(g, s)
<1> DEFINE p == OwnQuery(g, s)
           concern(f, r) == /\ r.student = s /\ r.category = "concern" /\ r.age <= 30
                            /\ RemarkFilter(f, r)
<1>1. p.d = g.d /\ OtherFilters(p.f, g.f)
  BY OwnFields DEF About
<1> HIDE DEF p
<1>2. \A r : concern(p.f, r) <=> concern(g.f, r)
  BY <1>1, OtherResolved
<1>3. {r \in p.d.remarks : concern(p.f, r)} = {r \in g.d.remarks : concern(g.f, r)}
  BY <1>1, <1>2
<1> QED
  BY <1>3 DEF ConcernRemarkCount, Quantify, p

LEMMA OwnDrop ==
  ASSUME NEW g, NEW s, About(g, s)
  PROVE  RecentAssessmentDrop(OwnQuery(g, s), s) = RecentAssessmentDrop(g, s)
<1> DEFINE p == OwnQuery(g, s)
           K == ResultsOf(g, s)
           mine(b) == {k[2] : k \in Part("subject", b, K)}
<1>1. {k \in BaseSelect(g) : k[1] = s} = K /\ {k \in BaseSelect(p) : k[1] = s} = K
  BY OwnResults
<1>2. \A k : Pct(p, k) = Pct(g, k)
  BY OwnFields, SamePct DEF About
<1> HIDE DEF p, K
<1>3. \A papers : [a \in papers |-> Pct(p, <<s, a>>)] = [a \in papers |-> Pct(g, <<s, a>>)]
  BY <1>2
<1>4. \A papers : At(papers, [a \in papers |-> Pct(p, <<s, a>>)])
                    = At(papers, [a \in papers |-> Pct(g, <<s, a>>)])
  BY <1>3
<1>5. {At(papers, [a \in papers |-> Pct(p, <<s, a>>)]) : papers \in {mine(b) : b \in Groups("subject", K)}}
    = {At(papers, [a \in papers |-> Pct(g, <<s, a>>)]) : papers \in {mine(b) : b \in Groups("subject", K)}}
  BY <1>4
<1> QED
  BY <1>1, <1>5 DEF RecentAssessmentDrop, p

(* Results K of student s, all of subject b and class c, in every term.    *)
OneClass(g, s, b, c, K) ==
  /\ About(g, s) /\ g.f.term = None /\ K = ResultsOf(g, s) /\ K # {} /\ Sound(g, K)
  /\ Alone("student", s, K) /\ Alone("subject", b, K) /\ Alone("section", c, K)
  /\ c \in Nat /\ IsFiniteSet(Groups("term", K)) /\ Groups("term", K) \subseteq Nat

LEMMA IsOneClass ==
  ASSUME NEW g, NEW s, About(g, s), g.f.term = None, g.d \in School, Marked(g.d),
         NEW b, ResolvedSubjects(g.f) = {b}, NEW K, K = ResultsOf(g, s), K # {},
         Cardinality(Groups("section", K)) = 1
  PROVE  \E c : OneClass(g, s, b, c, K)
<1>1. K = {k \in BaseSelect(g) : k[1] = s}
  BY OwnResults
<1>2. Sound(g, K) /\ IsFiniteSet(K)
  <2>1. Sound(g, K)
    BY <1>1 DEF Sound
  <2> QED
    BY <2>1, ResultsFinite
<1>3. ASSUME NEW k \in K
      PROVE  /\ k[1] = s /\ PaperOf(k).subject = b /\ PaperOf(k).term \in Nat
             /\ PaperOf(k).section \in Nat
  <2>1. k \in Students \X Papers /\ FilterConditions(g.d, g.f, k) /\ k[1] = s
    BY <1>1 DEF BaseSelect, Rows
  <2>2. k[2] \in Papers
    BY <2>1
  <2>3. PaperOf(k).term \in DOMAIN Term /\ PaperOf(k).section \in Sections
    BY <2>2, PaperAssumption DEF PaperOf
  <2>4. PaperOf(k).subject = b
    BY <2>1 DEF FilterConditions
  <2> QED
    BY <2>1, <2>3, <2>4, IdsAssumption
<1>4. \A k \in K : /\ Dimension("student", k) = s /\ Dimension("subject", k) = b
                   /\ Dimension("term", k) \in Nat /\ Dimension("section", k) \in Nat
  BY <1>3 DEF Dimension
<1>5. Alone("student", s, K) /\ Alone("subject", b, K)
  BY <1>4, OnePart
<1>6. ASSUME NEW group
      PROVE  IsFiniteSet(Groups(group, K))
  <2> DEFINE h == [k \in K |-> Dimension(group, k)]
  <2>1. Groups(group, K) = {h[k] : k \in K}
    BY DEF Groups
  <2> HIDE DEF h
  <2> QED
    BY <1>2, <2>1, Image
<1>7. PICK c : Groups("section", K) = {c}
  BY <1>6, FS_Singleton
<1>8. \A k \in K : Dimension("section", k) = c
  BY <1>7 DEF Groups
<1>9. Alone("section", c, K)
  BY <1>8, OnePart
<1>10. c \in Nat
  BY <1>4, <1>8
<1>11. Groups("term", K) \subseteq Nat
  BY <1>4 DEF Groups
<1> QED
  BY <1>2, <1>5, <1>6, <1>9, <1>10, <1>11 DEF OneClass

(* What the table of the class says of the student.                        *)
StandingFields ==
  {"student", "section", "subjects_assessed", "average", "slope", "attendance", "failing",
   "drop", "concerns"}
SameKnown(x, y) ==
  /\ x.average = y.average /\ x.slope = y.slope /\ x.attendance = y.attendance
  /\ x.failing = y.failing /\ x.drop = y.drop /\ x.concerns = y.concerns
TableFacts(g, s, K) ==
  [average |-> Round(WeightedAvg(g, K)), slope |-> TrendSlope(InOrder(Averages(g, "term", K))),
   attendance |-> AttendanceOf(AttendanceByStudent(g, {s}), s).percentage,
   failing |-> Below(Averages(g, "subject", K), g.cfg.pass),
   drop |-> RecentAssessmentDrop(g, s), concerns |-> ConcernRemarkCount(g, s)]

LEMMA TableRow ==
  ASSUME NEW g, NEW s, NEW b, NEW c, NEW K, OneClass(g, s, b, c, K), ~g.sc.aggregate_only,
         NEW x \in StudentStandings(OwnQuery(g, s))
  PROVE  DOMAIN x = StandingFields /\ SameKnown(x, TableFacts(g, s, K))
<1> DEFINE p == OwnQuery(g, s)
           attendance == AttendanceByStudent(g, {s})
<1>1. About(g, s) /\ K = ResultsOf(g, s)
  BY DEF OneClass
<1>2. BaseSelect(p) = K /\ p.cfg = g.cfg /\ p.sc = g.sc /\ \A k : Pct(p, k) = Pct(g, k)
  BY <1>1, OwnResults, OwnFields, SamePct DEF About
<1>3. AttendanceByStudent(p, {s}) = attendance
  BY <1>1, OwnAttendance
<1>4. Groups("student", K) = {s} /\ Part("student", s, K) = K
  BY DEF OneClass, Alone
<1>5. Kept(p, K) = K
  <2>1. Groups("section", K) = {c} /\ Part("section", c, K) = K /\ c \in Nat
    BY DEF OneClass, Alone
  <2>2. Max({c}) = c /\ Min({c}) = c
    <3>1. {c} \in SUBSET Int /\ {c} # {}
      BY <2>1
    <3>2. IsFiniteSet({c})
      BY FS_Singleton
    <3>3. Max({c}) \in {c} /\ Min({c}) \in {c}
      BY <3>1, <3>2, MaxMin
    <3> QED
      BY <3>3
  <2>3. KeptSection(p, {c}) = c
    BY <2>2 DEF KeptSection
  <2> QED
    BY <2>1, <2>3 DEF Kept
<1>6. SameMarks(g, p, K)
  BY <1>2 DEF SameMarks
<1>7. /\ RecentAssessmentDrop(p, s) = RecentAssessmentDrop(g, s)
      /\ ConcernRemarkCount(p, s) = ConcernRemarkCount(g, s)
  BY <1>1, OwnDrop, OwnConcerns
<1> HIDE DEF p, attendance
<1>8. StudentStandings(p) = Standings(p, K, attendance)
  BY <1>2, <1>3, <1>4 DEF StudentStandings
<1>9. Standings(p, K, attendance) = {StandingOf(p, s, K, attendance)}
  BY <1>4 DEF Standings
<1>10. x = Standing(p, s, K, K, attendance)
  BY <1>5, <1>8, <1>9 DEF StandingOf, p
<1>11. /\ WeightedAvg(p, K) = WeightedAvg(g, K)
       /\ \A group : Averages(p, group, K) = Averages(g, group, K)
  BY <1>6, SameAvg, SameAverages
<1>12. DOMAIN x = StandingFields
  BY <1>10 DEF Standing, StandingFields
<1>13. /\ x.average = Round(WeightedAvg(p, K))
       /\ x.slope = TrendSlope(InOrder(Averages(p, "term", K)))
       /\ x.attendance = AttendanceOf(attendance, s).percentage
       /\ x.failing = Below(Averages(p, "subject", K), p.cfg.pass)
       /\ x.drop = RecentAssessmentDrop(p, s) /\ x.concerns = ConcernRemarkCount(p, s)
  BY <1>10 DEF Standing
<1> QED
  BY <1>2, <1>7, <1>11, <1>12, <1>13 DEF SameKnown, TableFacts, attendance

(* What the page says.                                                     *)
LEMMA MeanOfOne ==
  ASSUME NEW v \in Int, NEW b, NEW f, f = [x \in {b} |-> v] PROVE SafeMean(f) = v
<1>1. DOMAIN f = {b} /\ f[b] = v /\ f = [x \in {b} |-> f[x]]
  OBVIOUS
<1>2. Known(f) = f
  <2>1. \A x \in {b} : f[x] # None
    BY <1>1, NoneAssumption
  <2> QED
    BY <1>1, <2>1, AllKnown
<1>3. IsFiniteSet({b}) /\ Cardinality({b}) = 1
  BY FS_Singleton
<1>4. Numbers(f, {b})
  BY <1>1 DEF Numbers
<1>5. SumFunctionOnSet(f, {b}) = v
  <2>1. PICK U : U = {}
    OBVIOUS
  <2>2. U \in SUBSET {b} /\ b \in {b} \ U /\ U \cup {b} = {b}
    BY <2>1
  <2>3. SumFunctionOnSet(f, U) = 0 /\ SumFunctionOnSet(f, U \cup {b}) = f[b] + SumFunctionOnSet(f, U)
    BY <1>3, <1>4, <2>1, <2>2, SumAdds
  <2> QED
    BY <1>1, <2>2, <2>3
<1>6. SumFunction(f) = v
  BY <1>1, <1>5 DEF SumFunction
<1>7. SafeMean(f) = Rounded(v, 1)
  BY <1>1, <1>2, <1>3, <1>6 DEF SafeMean, Mean
<1>8. Rounded(v, 1) = v
  BY DEF Rounded
<1> QED
  BY <1>7, <1>8

(* Each term's average, in the order of the terms.                         *)
TermAverages(g, K) == InOrder(Averages(g, "term", K))
LEMMA TermsListed ==
  ASSUME NEW g, NEW s, NEW b, NEW c, NEW K, OneClass(g, s, b, c, K)
  PROVE  LET n == Cardinality(Groups("term", K))
             k == TermAverages(g, K)
         IN  /\ n \in Nat /\ k = [i \in 1..n |-> k[i]] /\ \A i \in 1..n : Ratio(k[i])
             /\ \A i \in 1..n : /\ Listed(Groups("term", K))[i] \in Groups("term", K)
                                /\ k[i] = Averages(g, "term", K)[Listed(Groups("term", K))[i]]
<1> DEFINE D == Groups("term", K)
           n == Cardinality(D)
           A == Averages(g, "term", K)
           k == TermAverages(g, K)
<1>1. IsFiniteSet(D) /\ D \subseteq Nat /\ Sound(g, K)
  BY DEF OneClass
<1>2. n \in Nat
  BY <1>1, FS_CardinalityType
<1>3. DOMAIN A = D /\ \A t \in D : A[t] = WeightedAvg(g, Part("term", t, K))
  BY DEF Averages
<1>4. \A t \in D : Ratio(A[t])
  <2> SUFFICES ASSUME NEW t \in D PROVE Ratio(A[t])
    OBVIOUS
  <2>1. Sound(g, Part("term", t, K)) /\ Part("term", t, K) # {}
    BY <1>1, SoundPart
  <2> QED
    BY <1>3, <2>1, AverageIsRatio
<1>5. k = [i \in 1..n |-> A[Listed(D)[i]]]
  BY <1>3 DEF TermAverages, InOrder, At
<1> HIDE DEF D, A, k
<1>6. \A i \in 1..n : Listed(D)[i] \in D
  BY <1>1, ListedIn DEF n
<1> HIDE DEF n
<1>7. \A i \in 1..n : k[i] = A[Listed(D)[i]]
  BY <1>5
<1>8. k = [i \in 1..n |-> k[i]]
  BY <1>5, <1>7
<1>9. \A i \in 1..n : Ratio(k[i])
  BY <1>4, <1>6, <1>7
<1> QED
  BY <1>2, <1>6, <1>7, <1>8, <1>9 DEF D, n, A, k

LEMMA WholeYearAlready ==
  ASSUME NEW g, DOMAIN g = QueryFields, FilterShape(g.f), g.f.term = None,
         g = [x \in QueryFields |-> g[x]], g.f = [x \in DOMAIN NoFilters |-> g.f[x]]
  PROVE  WholeYear(g) = g
<1>1. [g.f EXCEPT !.term = None] = g.f
  BY FilterFields DEF FilterShape
<1>2. WholeYear(g) = [g EXCEPT !.f = g.f]
  BY <1>1, FilterEdits DEF WholeYear
<1> QED
  BY <1>2 DEF QueryFields

LEMMA TermTrend ==
  ASSUME NEW g, NEW s, NEW b, NEW c, NEW K, OneClass(g, s, b, c, K), WholeYear(g) = g, NEW home
  PROVE  LET n == Cardinality(Groups("term", K))
             terms == StudentTermProgress(g, s, home)
         IN  [i \in DOMAIN terms |-> Whole(terms[i].average)]
               = [i \in 1..n |-> Whole(Round(TermAverages(g, K)[i]))]
<1> DEFINE D == Groups("term", K)
           n == Cardinality(D)
           A == Averages(g, "term", K)
           own == Rounds(A)
           terms == StudentTermProgress(g, s, home)
           k == TermAverages(g, K)
           cohort == CohortAverages(g, home, "term")
<1>1. K = ResultsOf(g, s)
  BY DEF OneClass
<1>2. OwnTermAverages(g, s) = own
  BY <1>1 DEF OwnTermAverages
<1>3. DOMAIN A = D /\ DOMAIN own = D /\ \A t \in D : own[t] = Round(A[t])
  BY DEF Averages, Rounds
<1> HIDE DEF A, own, cohort
<1>4. DOMAIN Listed(D) = 1..n
  BY DEF Listed
<1>5. StudentTermProgress(g, s, home) = TermRows(own, cohort)
  BY <1>2 DEF StudentTermProgress, cohort
<1>6. DOMAIN terms = 1..n /\ \A i \in 1..n : terms[i].average = own[Listed(D)[i]]
  <2> DEFINE row(i) == TermRow(Listed(D)[i], own[Listed(D)[i]],
                               IF i = 1 THEN None ELSE own[Listed(D)[i - 1]],
                               Peers(cohort, Listed(D)[i]))
  <2>1. terms = [i \in 1..n |-> row(i)]
    BY <1>3, <1>4, <1>5 DEF TermRows
  <2>2. \A i : row(i).average = own[Listed(D)[i]]
    BY DEF TermRow
  <2> HIDE DEF row, terms, n
  <2> QED
    BY <2>1, <2>2
<1>7. \A i \in 1..n : Listed(D)[i] \in D /\ k[i] = A[Listed(D)[i]]
  BY TermsListed DEF A
<1> HIDE DEF D, n, k, terms
<1>8. \A i \in 1..n : terms[i].average = Round(k[i])
  BY <1>3, <1>6, <1>7
<1>9. [i \in DOMAIN terms |-> Whole(terms[i].average)] = [i \in 1..n |-> Whole(Round(k[i]))]
  BY <1>6, <1>8
<1> QED
  BY <1>9 DEF D, n, k, terms

PageFacts(g, s, K) ==
  [average |-> Round(WeightedAvg(g, K)),
   slope |-> TrendSlope([i \in 1..Cardinality(Groups("term", K)) |->
                           Whole(Round(TermAverages(g, K)[i]))]),
   attendance |-> AttendanceOf(AttendanceByStudent(g, {s}), s).percentage,
   failing |-> IF Round(WeightedAvg(g, K)) < g.cfg.pass THEN 1 ELSE 0,
   drop |-> RecentAssessmentDrop(g, s), concerns |-> ConcernRemarkCount(g, s)]

LEMMA PageKnows ==
  ASSUME NEW g, NEW s, NEW b, NEW c, NEW K, OneClass(g, s, b, c, K), WholeYear(g) = g, NEW home
  PROVE  LET o == StudentOverview(g, s, home)
         IN  /\ o.known = PageFacts(g, s, K) /\ o.overall = PageFacts(g, s, K).average
             /\ o.risk = AssessRisk(PageFacts(g, s, K), g.cfg)
<1> DEFINE subjects == StudentSubjectSummaries(g, s, home)
           averages == Column(subjects, "average")
           terms == StudentTermProgress(g, s, home)
           attendance == AttendanceOf(AttendanceByStudent(g, {s}), s)
           own == Rounds(Averages(g, "subject", K))
           v == Round(WeightedAvg(g, K))
           known == Facts(g, s, averages, terms, attendance)
<1>1. K = ResultsOf(g, s) /\ K # {} /\ Sound(g, K) /\ Groups("subject", K) = {b} /\ Part("subject", b, K) = K
  BY DEF OneClass, Alone
<1>2. v \in Int
  BY <1>1, AverageIsRatio, RatioFields
<1>3. own = [x \in {b} |-> v]
  <2>1. Averages(g, "subject", K) = [x \in {b} |-> WeightedAvg(g, K)]
    BY <1>1 DEF Averages
  <2> QED
    BY <2>1 DEF Rounds
<1>4. averages = own
  <2>1. subjects = Summaries(g, s, own, CohortAverages(g, home, "subject"))
    BY <1>1 DEF StudentSubjectSummaries
  <2> HIDE DEF own, subjects
  <2>2. DOMAIN own = {b} /\ own = [x \in {b} |-> own[x]]
    BY <1>3
  <2>3. DOMAIN subjects = {b} /\ \A x \in {b} : subjects[x].average = own[x]
    BY <2>1, <2>2 DEF Summaries, SubjectSummary
  <2>4. Column(subjects, "average") = [x \in {b} |-> own[x]]
    BY <2>3 DEF Column
  <2> QED
    BY <2>2, <2>4
<1> HIDE DEF v, own, averages
<1>5. SafeMean(averages) = v
  BY <1>2, <1>3, <1>4, MeanOfOne
<1>6. Quantify(DOMAIN averages, LAMBDA x : averages[x] # None /\ averages[x] < g.cfg.pass)
        = IF v < g.cfg.pass THEN 1 ELSE 0
  <2> DEFINE F == {x \in DOMAIN averages : averages[x] # None /\ averages[x] < g.cfg.pass}
  <2>1. DOMAIN averages = {b} /\ averages[b] = v /\ v # None
    BY <1>2, <1>3, <1>4, NoneAssumption
  <2>2. F = IF v < g.cfg.pass THEN {b} ELSE {}
    BY <2>1
  <2>3. Cardinality({b}) = 1 /\ Cardinality({}) = 0
    BY FS_Singleton, FS_EmptySet
  <2>4. Cardinality(F) = IF v < g.cfg.pass THEN 1 ELSE 0
    BY <2>2, <2>3
  <2> QED
    BY <2>4 DEF Quantify
<1>7. [i \in DOMAIN terms |-> Whole(terms[i].average)]
        = [i \in 1..Cardinality(Groups("term", K)) |-> Whole(Round(TermAverages(g, K)[i]))]
  BY TermTrend
<1> HIDE DEF terms, attendance
<1>8. known = PageFacts(g, s, K)
  BY <1>5, <1>6, <1>7 DEF Facts, PageFacts, v, attendance
<1> HIDE DEF known, subjects
<1>9. StudentOverview(g, s, home) = Overview(g, subjects, averages, terms, attendance, known)
  BY DEF StudentOverview, OverviewOf, subjects, averages, terms, attendance, known
<1> DEFINE o == Overview(g, subjects, averages, terms, attendance, known)
<1>10. o.overall = known.average /\ o.known = known /\ o.risk = AssessRisk(known, g.cfg)
  BY DEF Overview
<1> QED
  BY <1>8, <1>9, <1>10

LEMMA RiskOfKnown ==
  ASSUME NEW x, NEW y, SameKnown(x, y), NEW c PROVE AssessRisk(x, c) = AssessRisk(y, c)
<1>1. Weights(x, c) = Weights(y, c)
  BY DEF SameKnown, Weights
<1> QED
  BY <1>1 DEF AssessRisk

(* Rounding moves a fail by no more than the limit itself.                 *)
LEMMA FailRounded ==
  ASSUME NEW n \in Int, NEW d \in Nat \ {0}, NEW pass \in Int
  PROVE  /\ Rounded(n, d) < pass => n < pass * d
         /\ n < pass * d => Rounded(n, d) <= pass
<1>1. PICK v \in Int : /\ v = Rounded(n, d)
                       /\ (2 * d) * v <= 2 * n + d /\ 2 * n + d < (2 * d) * v + 2 * d
  <2>1. PICK a \in Int, b \in Nat \ {0} : a = 2 * n + d /\ b = 2 * d
    OBVIOUS
  <2>2. a \div b \in Int /\ b * (a \div b) <= a /\ a < b * (a \div b) + b
    BY Divided
  <2>3. a \div b = Rounded(n, d)
    BY <2>1 DEF Rounded
  <2> QED
    BY <2>1, <2>2, <2>3
<1>2. ASSUME v < pass PROVE n < pass * d
  <2>1. (v + 1) * d <= pass * d
    BY <1>2, Product
  <2>2. (v + 1) * d = v * d + d /\ (2 * d) * v = 2 * (v * d) /\ v * d \in Int /\ pass * d \in Int
    OBVIOUS
  <2> QED
    BY <1>1, <2>1, <2>2
<1>3. ASSUME n < pass * d PROVE v <= pass
  <2> SUFFICES ASSUME pass + 1 <= v PROVE FALSE
    OBVIOUS
  <2>1. (pass + 1) * d <= v * d
    BY Product
  <2>2. (pass + 1) * d = pass * d + d /\ (2 * d) * v = 2 * (v * d) /\ v * d \in Int /\ pass * d \in Int
    OBVIOUS
  <2> QED
    BY <1>1, <1>3, <2>1, <2>2
<1> QED
  BY <1>1, <1>2, <1>3

LEMMA FailsBelow ==
  ASSUME NEW r, Ratio(r), NEW b, NEW A, A = [y \in {b} |-> r], NEW pass \in Int
  PROVE  /\ Below(A, pass) \in {0, 1}
         /\ Round(r) < pass => Below(A, pass) = 1
         /\ Below(A, pass) = 1 => Round(r) <= pass
<1>1. DOMAIN A = {b} /\ A[b] = r
  OBVIOUS
<1>2. PICK n \in Int, d \in Nat \ {0} : n = r.n /\ d = r.d /\ Round(r) = Rounded(n, d)
  BY RatioFields
<1> DEFINE F == {y \in DOMAIN A : A[y].n < pass * A[y].d}
<1>3. F = IF n < pass * d THEN {b} ELSE {}
  BY <1>1, <1>2
<1>4. Below(A, pass) = Cardinality(F)
  BY DEF Below, Quantify
<1>5. Cardinality({b}) = 1 /\ Cardinality({}) = 0
  BY FS_Singleton, FS_EmptySet
<1>6. Below(A, pass) = IF n < pass * d THEN 1 ELSE 0
  BY <1>3, <1>4, <1>5
<1>7. /\ Rounded(n, d) < pass => n < pass * d
      /\ n < pass * d => Rounded(n, d) <= pass
  BY FailRounded
<1> QED
  BY <1>2, <1>6, <1>7

(* The verdict y of the page, and the row x of the table.                  *)
Verdicts(g, x, y) ==
  LET fails == y.average < g.cfg.pass
  IN  /\ x.average = y.average /\ Near(x.slope, y.slope)
      /\ fails => x.failing = 1
      /\ x.failing = 1 => y.average <= g.cfg.pass
      /\ AssessRisk(y, g.cfg) = Risk(g, [x EXCEPT !.slope = y.slope,
                                                  !.failing = IF fails THEN 1 ELSE 0])
LEMMA VerdictsMeet ==
  ASSUME NEW g, NEW s, NEW b, NEW c, NEW K, OneClass(g, s, b, c, K), ~g.sc.aggregate_only,
         g.cfg.pass \in Int, NEW x \in StudentStandings(OwnQuery(g, s))
  PROVE  Verdicts(g, x, PageFacts(g, s, K))
<1> DEFINE t == TableFacts(g, s, K)
           y == PageFacts(g, s, K)
           fails == y.average < g.cfg.pass
           z == [x EXCEPT !.slope = y.slope, !.failing = IF fails THEN 1 ELSE 0]
           r == WeightedAvg(g, K)
           k == TermAverages(g, K)
           n == Cardinality(Groups("term", K))
<1>1. DOMAIN x = StandingFields /\ SameKnown(x, t)
  BY TableRow
<1>2. K # {} /\ Sound(g, K) /\ Groups("subject", K) = {b} /\ Part("subject", b, K) = K
  BY DEF OneClass, Alone
<1>3. Ratio(r)
  BY <1>2, AverageIsRatio
<1>4. Averages(g, "subject", K) = [v \in {b} |-> r]
  BY <1>2 DEF Averages
<1>5. t.average = Round(r) /\ y.average = Round(r)
  BY DEF TableFacts, PageFacts
<1>6. Near(t.slope, y.slope)
  <2>1. n \in Nat /\ k = [i \in 1..n |-> k[i]] /\ \A i \in 1..n : Ratio(k[i])
    BY TermsListed
  <2>2. t.slope = TrendSlope(k) /\ y.slope = TrendSlope([i \in 1..n |-> Whole(Round(k[i]))])
    BY DEF TableFacts, PageFacts, TermAverages
  <2> HIDE DEF n, k, t, y
  <2>3. Near(TrendSlope(k), TrendSlope([i \in 1..n |-> Whole(Round(k[i]))]))
    BY <2>1, SlopesNear
  <2> QED
    BY <2>2, <2>3
<1>7. t.failing = Below([v \in {b} |-> r], g.cfg.pass)
  BY <1>4 DEF TableFacts
<1>8. y.failing = IF fails THEN 1 ELSE 0
  BY DEF PageFacts
<1>9. /\ t.attendance = y.attendance /\ t.drop = y.drop /\ t.concerns = y.concerns
  BY DEF TableFacts, PageFacts
<1> HIDE DEF t, y, r
<1>10. (fails => t.failing = 1) /\ (t.failing = 1 => y.average <= g.cfg.pass)
  BY <1>3, <1>5, <1>7, FailsBelow
<1>11. SameKnown(y, z)
  <2>1. /\ z.slope = y.slope /\ z.failing = (IF fails THEN 1 ELSE 0) /\ z.average = x.average
        /\ z.attendance = x.attendance /\ z.drop = x.drop /\ z.concerns = x.concerns
    BY <1>1 DEF StandingFields
  <2> QED
    BY <1>1, <1>5, <1>8, <1>9, <2>1 DEF SameKnown
<1>12. AssessRisk(y, g.cfg) = Risk(g, z)
  BY <1>11, RiskOfKnown DEF Risk
<1>13. x.average = t.average /\ x.slope = t.slope /\ x.failing = t.failing
  BY <1>1 DEF SameKnown
<1> QED
  BY <1>5, <1>6, <1>10, <1>12, <1>13 DEF Verdicts, y

(* The page's figures, as the answer carries them.                         *)
KpisOf(data, o) ==
  data.overall = o.overall /\ data.slope = o.known.slope /\ data.status = o.risk

LEMMA KpisOfReply ==
  ASSUME NEW q, NEW w, NEW x, Reading(q, w, x), NEW way,
         ~IsError(Reply(way, "student.kpis", q)),
         NEW g, g = [q EXCEPT !.f = Narrow(q.sc, q.f)]
  PROVE  /\ Reading(g, w, x) /\ g.f = Narrow(q.sc, q.f) /\ g.f \in {q.f, [q.f EXCEPT !.year = q.sc.year]}
         /\ g.d = q.d /\ g.sc = q.sc /\ g.cfg = q.cfg
         /\ \E s \in Students :
              /\ g.f.student \in {None, s}
              /\ Reply(way, "student.kpis", q).who = {s}
              /\ KpisOf(Reply(way, "student.kpis", q).data, StudentOverview(g, s, HomeOf(g, s)))
<1> DEFINE f == Narrow(q.sc, q.f)
           h == Handler("student.kpis", g)
           a == Reply(way, "student.kpis", q)
           s == TargetStudent(g)
           o == StudentOverview(g, s, HomeOf(g, s))
<1>1. /\ ~IsError(Payload("student.kpis", q))
      /\ a.who = Payload("student.kpis", q).who /\ a.data = Payload("student.kpis", q).data
  BY RefusedIsError DEF Reply, Served
<1>2. ~IsError(f) /\ Payload("student.kpis", q) = SanitizeFamilyChart("student.kpis", h, q)
  BY <1>1 DEF Payload, Narrowed
<1>3. FilterShape(f)
  BY <1>2, NarrowShape DEF Reading
<1>4. Reading(g, w, x) /\ g.f = f /\ g.d = q.d /\ g.sc = q.sc /\ g.cfg = q.cfg
  BY <1>3, ReadingWith
<1>5. f \in {q.f, [q.f EXCEPT !.year = q.sc.year]}
  BY <1>2, RefusedIsError DEF Narrow
<1>6. ~IsError(h)
  BY <1>1, <1>2 DEF SanitizeFamilyChart
<1>7. h = StudentChart("student.kpis", g)
  <2>1. "student.kpis" \in StudentCharts
    BY DEF StudentCharts
  <2>2. "student.kpis" \notin InterventionCharts \cup SectionCharts \cup SchoolCharts
    BY <2>1, ChartsApart
  <2> QED
    BY <2>1, <2>2 DEF Handler
<1>8. s # None
  BY <1>6, <1>7, RefusedIsError DEF StudentChart, AboutStudent
<1>9. s \in Students
  BY <1>4, <1>8, TargetKnown, MineIsSet
<1>10. g.f.student \in {None, s}
  BY <1>8, TargetIsAsked
<1>11. h = Named({s}, StudentKpis(o))
  <2>1. StudentData("student.kpis", g, s, HomeOf(g, s)) = StudentKpis(o)
    BY DEF StudentData, SubjectCharts
  <2> QED
    BY <1>7, <1>8, <2>1 DEF StudentChart, AboutStudent
<1> HIDE DEF h, s, o
<1>12. SanitizeFamilyChart("student.kpis", h, q)
         \in {h, Named({s}, Without(StudentKpis(o), {"gap", "class_overall", "rank"}))}
  <2>1. /\ "student.kpis" \in DOMAIN HiddenFields /\ "student.kpis" \notin Tables
        /\ HiddenFields["student.kpis"] = {"gap", "class_overall", "rank"}
    BY DEF HiddenFields, Tables
  <2>2. \A v : [h EXCEPT !.data = v] = Named({s}, v)
    BY <1>11 DEF Named
  <2>3. h.data = StudentKpis(o)
    BY <1>11 DEF Named
  <2>4. CASE CohortBenchmarksVisible(q.sc, q.cfg)
    BY <2>4 DEF SanitizeFamilyChart
  <2>5. CASE ~CohortBenchmarksVisible(q.sc, q.cfg)
    BY <1>6, <2>1, <2>2, <2>3, <2>5 DEF SanitizeFamilyChart
  <2> QED
    BY <2>4, <2>5
<1>13. KpisOf(StudentKpis(o), o)
  BY DEF StudentKpis, KpisOf
<1>14. KpisOf(Without(StudentKpis(o), {"gap", "class_overall", "rank"}), o)
  <2> DEFINE k == StudentKpis(o)
             D == DOMAIN k \ {"gap", "class_overall", "rank"}
  <2>1. /\ "overall" \in D /\ "slope" \in D /\ "status" \in D
    BY DEF StudentKpis
  <2>2. Without(k, {"gap", "class_overall", "rank"}) = [y \in D |-> k[y]]
    BY DEF Without, Restrict
  <2> HIDE DEF D, k
  <2>3. [y \in D |-> k[y]].overall = k.overall /\ [y \in D |-> k[y]].slope = k.slope
        /\ [y \in D |-> k[y]].status = k.status
    BY <2>1
  <2>4. KpisOf(k, o)
    BY <1>13 DEF k
  <2>5. KpisOf([y \in D |-> k[y]], o)
    BY <2>3, <2>4 DEF KpisOf
  <2> QED
    BY <2>2, <2>5 DEF k
<1>15. a.who = {s} /\ KpisOf(a.data, o)
  BY <1>1, <1>2, <1>11, <1>12, <1>13, <1>14 DEF Named
<1> QED
  BY <1>3, <1>4, <1>5, <1>9, <1>10, <1>15 DEF o

(* The filters a request carries are records, and pick a finite number of  *)
(* subjects.                                                               *)
Plain(f) ==
  /\ f = [x \in DOMAIN NoFilters |-> f[x]]
  /\ f.subjects \notin {None, <<>>} => IsFiniteSet(Range(f.subjects))
FiltersPlain ==
  /\ req.stage # "new" => Plain(req.filters)
  /\ req.stage = "page" => Plain(req.page.form)

LEMMA FilterParamsPlain == ASSUME NEW f \in FilterParams PROVE Plain(f)
<1>1. f = [x \in DOMAIN NoFilters |-> f[x]]
  BY FilterFields DEF FilterParams
<1>2. ASSUME f.subjects \notin {None, <<>>} PROVE IsFiniteSet(Range(f.subjects))
  <2>1. f.subjects \in Seq(Subjects)
    BY <1>2 DEF FilterParams
  <2>2. PICK g : g = f.subjects
    OBVIOUS
  <2>3. DOMAIN g = 1..Len(g) /\ Len(g) \in Nat
    BY <2>1, <2>2
  <2>4. IsFiniteSet(1..Len(g))
    BY <2>3, Interval
  <2>5. IsFiniteSet({g[i] : i \in 1..Len(g)})
    BY <2>4, Image
  <2> QED
    BY <2>2, <2>3, <2>5 DEF Range
<1> QED
  BY <1>1, <1>2 DEF Plain

LEMMA CardSubjects ==
  ASSUME NEW asked, NEW f, NEW rendered, NEW pinned, "subjects" \notin pinned, NEW o
  PROVE  LET form == CardFilters(asked, f, rendered, pinned, o)
         IN  form = [x \in DOMAIN NoFilters |-> form[x]] /\ form.subjects = asked.subjects
<1>1. "subjects" \in DOMAIN NoFilters
  BY FilterFields
<1>2. "subjects" \notin Editable(rendered)
  BY DEF Editable, FilterControls
<1>3. CardFilters(asked, f, rendered, pinned, o).subjects = asked["subjects"]
  BY <1>1, <1>2 DEF CardFilters
<1>4. CardFilters(asked, f, rendered, pinned, o)
        = [x \in DOMAIN NoFilters |-> CardFilters(asked, f, rendered, pinned, o)[x]]
  BY DEF CardFilters
<1> QED
  BY <1>3, <1>4

LEMMA FormPlain ==
  ASSUME NEW q, Plain(q.f), NEW f, NEW child, NEW page, NEW cards,
         NEW declared, "subjects" \notin declared
  PROVE  Plain(RenderDashboard(q, f, child, page, cards, declared).data.form)
<1> DEFINE g == NormalizeFilterControls(f)
           o == FilterOptions(q)
           rendered == RenderedFilters(page.filters, o)
           pinned == PinnedFilters(g, rendered, declared)
           form == CardFilters(q.f, g, rendered, pinned, o)
<1>1. RenderDashboard(q, f, child, page, cards, declared).data.form = form
  BY DEF RenderDashboard
<1>2. "subjects" \notin pinned
  BY DEF PinnedFilters
<1> HIDE DEF g, o, rendered, pinned
<1>3. form = [x \in DOMAIN NoFilters |-> form[x]] /\ form.subjects = q.f.subjects
  BY <1>2, CardSubjects
<1> HIDE DEF form
<1>4. Plain(form)
  BY <1>3 DEF Plain
<1> QED
  BY <1>1, <1>4

LEMMA PageFormPlain ==
  ASSUME NEW q, Plain(q.f), NEW key, NEW s, ~IsError(GetPage(q, key, s))
  PROVE  Plain(GetPage(q, key, s).data.form)
<1> DEFINE Drawn(r) == IsError(r) \/ Plain(r.data.form)
<1>1. Drawn(Refused(404))
  BY RefusedIsError
<1>2. \A f, child, page, cards : \A declared \in {{"student"}, {"section"}, {}} :
        Drawn(RenderDashboard(q, f, child, page, cards, declared))
  BY FormPlain
<1> HIDE DEF Drawn
<1>3. Drawn(FamilyPage(q, key))
  BY <1>1, <1>2 DEF FamilyPage
<1>4. Drawn(ClassroomPage(q, key))
  BY <1>1, <1>2 DEF ClassroomPage
<1>5. Drawn(TeacherStudentDetail(q, s))
  BY <1>1, <1>2 DEF TeacherStudentDetail
<1>6. Drawn(SchoolPage(q, key))
  BY <1>2 DEF SchoolPage
<1>7. Drawn(AdminStudentPage(q, key, s))
  BY <1>1, <1>2 DEF AdminStudentPage
<1>8. Drawn(GetPage(q, key, s))
  BY <1>1, <1>3, <1>4, <1>5, <1>6, <1>7 DEF GetPage
<1> QED
  BY <1>8 DEF Drawn

LEMMA PlainKeeps ==
  ASSUME PortalInv, FiltersPlain, [Next]_vars PROVE FiltersPlain'
<1>1. DOMAIN req = RequestFields
  BY DEF PortalInv
<1>2. ASSUME UNCHANGED req PROVE FiltersPlain'
  BY <1>2 DEF FiltersPlain
<1>3. ASSUME req.stage = "open", NEW way, NEW chart, NEW answer, Finish(way, chart, answer)
      PROVE  FiltersPlain'
  <2>1. req'.stage = "done" /\ req'.filters = req.filters
    BY <1>1, <1>3 DEF Finish, RequestFields
  <2> QED
    BY <1>3, <2>1 DEF FiltersPlain
<1>4. CASE Open
  <2>1. PICK x \in Viewers, f \in Asked : OpenAs(x, f)
    BY <1>4 DEF Open
  <2>2. req'.filters = f /\ req'.stage \in {"done", "open"}
    BY <1>1, <2>1 DEF OpenAs, RequestFields
  <2>3. Plain(f)
    BY FilterParamsPlain, InputsAssumption
  <2> QED
    BY <2>2, <2>3 DEF FiltersPlain
<1>5. CASE Answer
  BY <1>3, <1>5 DEF Answer
<1>6. CASE Browse
  BY <1>3, <1>6 DEF Browse
<1>7. CASE CreateRemark
  <2>1. req.stage = "open" /\ \E way, chart, answer : Finish(way, chart, answer)
    BY <1>7 DEF CreateRemark
  <2> QED
    BY <1>3, <2>1
<1>8. CASE Visit
  <2>1. PICK x \in Viewers, v \in Visits : VisitAs(x, v)
    BY <1>8 DEF Visit
  <2> DEFINE scope == GetAccessScope(school, x, v.filters.year)
             q == [d |-> school, cfg |-> cfg, f |-> v.filters, sc |-> scope, last |-> cfg.last]
             answer == IF IsError(scope) THEN scope ELSE GetPage(q, v.key, v.student)
  <2>2. /\ req'.filters = v.filters
        /\ req'.stage = (IF IsError(answer) THEN "done" ELSE "page")
        /\ req'.page = (IF IsError(answer) THEN None ELSE answer.data)
    BY <1>1, <2>1 DEF VisitAs, RequestFields
  <2>3. Plain(v.filters) /\ q.f = v.filters
    BY FilterParamsPlain, InputsAssumption
  <2> HIDE DEF scope, q
  <2>4. ~IsError(answer) => Plain(answer.data.form)
    BY <2>3, PageFormPlain
  <2> HIDE DEF answer
  <2> QED
    BY <2>2, <2>3, <2>4 DEF FiltersPlain
<1>9. CASE Card
  <2>1. PICK chart : Fetch(chart)
    BY <1>9 DEF Card
  <2>2. req.stage = "page"
    BY <1>9 DEF Card
  <2>3. req'.filters = req.page.form /\ req'.stage = "done"
    BY <1>1, <2>1 DEF Fetch, RequestFields
  <2> QED
    BY <2>2, <2>3 DEF FiltersPlain
<1>10. CASE Move \/ Retire \/ Reassign \/ Rehome \/ Reguard
  <2>1. \E d : Change(d)
    BY <1>10 DEF Move, Retire, Reassign, Rehome, Reguard
  <2> QED
    BY <1>2, <2>1 DEF Change
<1>11. CASE UNCHANGED vars
  BY <1>2, <1>11 DEF vars
<1> QED
  BY <1>4, <1>5, <1>6, <1>7, <1>8, <1>9, <1>10, <1>11 DEF Next

LEMMA NarrowedFilters ==
  ASSUME NEW f, Plain(f), FilterShape(f), NEW y, NEW g, g \in {f, [f EXCEPT !.year = y]}
  PROVE  /\ g = [x \in DOMAIN NoFilters |-> g[x]] /\ FilterShape(g) /\ g.term = f.term
         /\ ResolvedSubjects(g) = ResolvedSubjects(f)
<1>1. /\ g.term = f.term /\ g.subject = f.subject /\ g.subjects = f.subjects
      /\ g.student = f.student /\ DOMAIN g = DOMAIN NoFilters
  BY FilterFields DEF FilterShape
<1>2. g = [x \in DOMAIN NoFilters |-> g[x]]
  <2>1. CASE g = f
    BY <2>1 DEF Plain
  <2>2. CASE g = [f EXCEPT !.year = y]
    BY <2>2 DEF FilterShape
  <2> QED
    BY <2>1, <2>2
<1>3. ResolvedSubjects(g) = ResolvedSubjects(f)
  BY <1>1 DEF ResolvedSubjects
<1> QED
  BY <1>1, <1>2, <1>3 DEF FilterShape

LEMMA OneSubject ==
  ASSUME NEW f, Plain(f), Cardinality(ResolvedSubjects(f)) = 1
  PROVE  \E b : ResolvedSubjects(f) = {b}
<1> DEFINE B == ResolvedSubjects(f)
<1>1. IsFiniteSet(B)
  BY FS_Singleton, FS_EmptySet DEF ResolvedSubjects, Plain
<1> HIDE DEF B
<1>2. \E b : B = {b}
  BY <1>1, FS_Singleton DEF B
<1> QED
  BY <1>2 DEF B

LEMMA PassIsInt == ASSUME NEW c \in Settings PROVE c.pass \in Int
<1>1. c.pass \in 0..10000
  BY SMTT(30) DEF Settings
<1>2. PICK n : n = c.pass
  OBVIOUS
<1>3. n \in 0..10000
  BY <1>1, <1>2, SMTT(30)
<1>4. n \in Int
  BY <1>3, SMTT(30)
<1> QED
  BY <1>2, <1>4, SMTT(30)

(* A caller's question about the whole year of student s in subject b, with*)
(* the results of one class.                                               *)
OneSubjectAsked(g, w, v, b, s) ==
  /\ Reading(g, w, v) /\ Marked(g.d) /\ g.cfg.pass \in Int
  /\ g = [y \in QueryFields |-> g[y]] /\ g.f = [y \in DOMAIN NoFilters |-> g.f[y]]
  /\ g.f.term = None /\ ResolvedSubjects(g.f) = {b}
  /\ s \in Students /\ g.f.student \in {None, s}
  /\ Cardinality(Groups("section", ResultsOf(g, s))) = 1
Meets(g, row, data) ==
  \E y : /\ Verdicts(g, row, y) /\ data.overall = y.average /\ data.slope = y.slope
         /\ data.status = AssessRisk(y, g.cfg)

(* One answer and one row of the table.                                    *)
LEMMA RowMeetsAnswer ==
  ASSUME NEW g, NEW w, NEW v, NEW b, NEW s, OneSubjectAsked(g, w, v, b, s),
         NEW home, NEW data, KpisOf(data, StudentOverview(g, s, home)),
         NEW row \in StudentStandings(OwnQuery(g, s))
  PROVE  Meets(g, row, data)
<1> USE DEF OneSubjectAsked
<1> DEFINE K == ResultsOf(g, s)
           o == StudentOverview(g, s, home)
           y == PageFacts(g, s, K)
<1>1. About(g, s) /\ g.d \in School
  BY DEF Reading, About
<1>2. ~g.sc.aggregate_only
  BY DEF Reading, ScopeOf
<1>3. WholeYear(g) = g
  BY <1>1, WholeYearAlready DEF About
<1> HIDE DEF K
<1>4. K # {}
  <2> SUFFICES ASSUME K = {} PROVE FALSE
    OBVIOUS
  <2>1. Groups("section", K) = {}
    BY DEF Groups
  <2> QED
    BY <2>1, FS_EmptySet DEF K
<1>5. PICK c : OneClass(g, s, b, c, K)
  BY <1>1, <1>4, IsOneClass DEF K
<1>6. o.known = y /\ o.overall = y.average /\ o.risk = AssessRisk(y, g.cfg)
  BY <1>3, <1>5, PageKnows
<1>7. Verdicts(g, row, y)
  BY <1>2, <1>5, VerdictsMeet
<1> HIDE DEF o, y
<1>8. data.overall = y.average /\ data.slope = y.slope /\ data.status = AssessRisk(y, g.cfg)
  BY <1>6 DEF KpisOf, o
<1> QED
  BY <1>7, <1>8 DEF Meets

LEMMA AnswerMeetsTable ==
  ASSUME PortalInv, Marked(school), FiltersPlain PROVE OneVerdict
<1> DEFINE q == Query(school)
           g == [q EXCEPT !.f = Narrow(req.scope, req.filters)]
<1> SUFFICES ASSUME Answered, req.chart = "student.kpis", req.filters.term = None,
                    Cardinality(ResolvedSubjects(req.filters)) = 1, NEW s \in req.answer.who,
                    Cardinality(Groups("section", BaseSelect([g EXCEPT !.f.student = s]))) = 1,
                    NEW x \in StudentStandings([g EXCEPT !.f.student = s])
             PROVE  LET fails == Data.overall < cfg.pass
                    IN  /\ x.average = Data.overall /\ Near(x.slope, Data.slope)
                        /\ fails => x.failing = 1
                        /\ x.failing = 1 => Data.overall <= cfg.pass
                        /\ Data.status = Risk(g, [x EXCEPT !.slope = Data.slope,
                                                           !.failing = IF fails THEN 1 ELSE 0])
  BY DEF OneVerdict
<1>1. req.stage = "done"
  BY InputsAssumption DEF PortalInv, Stages, UnderWay, NoRequest, AllCharts, StudentCharts
<1>2. /\ req.answer = Reply(req.way, "student.kpis", q)
      /\ school \in School /\ was \in School /\ FilterShape(req.filters) /\ cfg.pass \in Int
      /\ req.viewer \in Viewers /\ ScopeOf(was, req.viewer, req.scope) /\ Plain(req.filters)
  <2>1. req.chart # None
    BY InputsAssumption DEF AllCharts, StudentCharts
  <2>2. cfg \in Settings
    BY DEF PortalInv
  <2>3. cfg.pass \in Int
    BY <2>2, PassIsInt
  <2> QED
    BY <1>1, <2>1, <2>3 DEF PortalInv, Handled, UnderWay, FiltersPlain
<1>3. /\ Reading(q, was, req.viewer) /\ q.d = school /\ q.f = req.filters /\ q.sc = req.scope
      /\ q.cfg = cfg
  BY <1>2, QueryReading DEF Query
<1>4. g = [y \in QueryFields |-> g[y]] /\ g = [q EXCEPT !.f = Narrow(q.sc, q.f)]
  BY <1>3 DEF Query, QueryFields
<1> HIDE DEF q, g
<1>5. ~IsError(Reply(req.way, "student.kpis", q))
  BY <1>2 DEF Answered
<1>6. /\ Reading(g, was, req.viewer) /\ g.f \in {q.f, [q.f EXCEPT !.year = q.sc.year]}
      /\ g.d = q.d /\ g.cfg = q.cfg
      /\ \E t \in Students :
           /\ g.f.student \in {None, t} /\ Reply(req.way, "student.kpis", q).who = {t}
           /\ KpisOf(Reply(req.way, "student.kpis", q).data, StudentOverview(g, t, HomeOf(g, t)))
  BY <1>3, <1>4, <1>5, KpisOfReply
<1>7. /\ s \in Students /\ g.f.student \in {None, s}
      /\ KpisOf(Data, StudentOverview(g, s, HomeOf(g, s)))
  BY <1>2, <1>6 DEF Data
<1>8. /\ g.f = [y \in DOMAIN NoFilters |-> g.f[y]] /\ g.f.term = None
      /\ ResolvedSubjects(g.f) = ResolvedSubjects(req.filters)
  BY <1>2, <1>3, <1>6, NarrowedFilters
<1>9. PICK b : ResolvedSubjects(g.f) = {b}
  BY <1>2, <1>8, OneSubject
<1>10. /\ Cardinality(Groups("section", ResultsOf(g, s))) = 1
       /\ x \in StudentStandings(OwnQuery(g, s))
  BY DEF ResultsOf, OwnQuery
<1>11. Meets(g, x, Data)
  <2>1. OneSubjectAsked(g, was, req.viewer, b, s)
    BY <1>2, <1>3, <1>4, <1>6, <1>7, <1>8, <1>9, <1>10 DEF OneSubjectAsked
  <2> QED
    BY <1>7, <1>10, <2>1, RowMeetsAnswer
<1>12. g.cfg = cfg
  BY <1>3, <1>6
<1> QED
  BY <1>11, <1>12 DEF Meets, Verdicts

(* queries.py:735-801 and 809-905: the page of a student and the table of a*)
(* class, over the same results of one subject and one class, come to the  *)
(* same average and to trends a hundredth of a point apart at most, and    *)
(* with the page's trend and fail the table's verdict is the page's, for   *)
(* every school, set of marks, weights, settings and filters.              *)
THEOREM VerdictsAgree == Spec => []OneVerdict
<1>1. Init => Marked(school) /\ FiltersPlain
  BY MarksAssumption DEF Init, FiltersPlain, NoRequest
<1>2. PortalInv /\ Marked(school) /\ [Next]_vars => Marked(school)'
  BY MarksStand DEF Marked
<1>3. PortalInv /\ FiltersPlain /\ [Next]_vars => FiltersPlain'
  BY PlainKeeps
<1>4. PortalInv /\ Marked(school) /\ FiltersPlain => OneVerdict
  BY AnswerMeetsTable
<1> QED
  BY <1>1, <1>2, <1>3, <1>4, PortalInvariant, PTL DEF Spec
=============================================================================
