------------------------------- MODULE Portal -------------------------------
(***************************************************************************)
(* A request to the portals, and a school that changes under it.  The      *)
(* scope is read when the request is opened (get_access_scope), the chart, *)
(* file, list or remark is answered later; an import or an administrator   *)
(* may move a student, retire one, or change who teaches a class and who a *)
(* child's guardian is in between.  A page is one request, and each of its *)
(* cards another, with a scope of its own.                                 *)
(*                                                                         *)
(* Left out: a change between two queries of one chart; the audit event's  *)
(* own failure.                                                            *)
(***************************************************************************)
EXTENDS Pages

CONSTANTS
  Worlds,     \* bound: the schools looked at, each with its settings
  Asked,      \* the filters looked at
  Exported,   \* bound: the charts asked for as files
  Visits,     \* bound: the pages opened, each a key, a student or None, and filters
  Followed,   \* bound: the cards of a page that are followed
  Written,    \* bound: the remarks written, each with student, category, term, subject
  MaxChanges  \* bound: changes of the school

ASSUME InputsAssumption ==
  /\ Worlds \subseteq [school: School, cfg: Settings]
  /\ Asked \subseteq FilterParams
  /\ \A v \in Visits : v.student \in Students \cup {None} /\ v.filters \in FilterParams
  /\ \A r \in Written : /\ r.student \in Students /\ r.category \in RemarkCategory
                         /\ r.term \in DOMAIN Term \cup {None}
  /\ None \notin AllCharts /\ MaxChanges \in Nat

(* An import refuses marks above a paper's maximum (apply.py:674-688).     *)
Marked(d) ==
  \A k \in Students \X Papers :
    d.score[k] # None /\ d.score[k].marks # None => d.score[k].marks <= PaperOf(k).max
ASSUME MarksAssumption == \A w \in Worlds : Marked(w.school)

VARIABLES
  school,   \* its tables
  cfg,      \* the settings of its tenant
  req,      \* the request
  was,      \* history: the school when the scope was read
  changes   \* bounded by MaxChanges

vars == <<school, cfg, req, was, changes>>

NoRequest == [stage |-> "new", viewer |-> None, filters |-> None, scope |-> None,
              way |-> None, chart |-> None, page |-> None, answer |-> None]

Init ==
  /\ \E w \in Worlds : school = w.school /\ was = w.school /\ cfg = w.cfg
  /\ req = NoRequest /\ changes = 0

Query(d) ==
  [d |-> d, cfg |-> cfg, f |-> req.filters, sc |-> req.scope, last |-> cfg.last]

(* get_access_scope, then filter_params.                                   *)
OpenAs(x, f) ==
  LET scope == GetAccessScope(school, x, f.year)
  IN  /\ was' = school
      /\ req' = [req EXCEPT !.stage = IF IsError(scope) \/ ~ValidFilters(f) THEN "done" ELSE "open",
                            !.viewer = x, !.filters = f, !.scope = scope,
                            !.answer = IF IsError(scope) THEN scope
                                       ELSE IF ~ValidFilters(f) THEN Refused(422) ELSE None]
      /\ UNCHANGED <<school, cfg, changes>>

Open == req.stage = "new" /\ \E x \in Viewers, f \in Asked : OpenAs(x, f)

Finish(way, chart, answer) ==
  /\ req' = [req EXCEPT !.stage = "done", !.way = way, !.chart = chart, !.answer = answer]
  /\ UNCHANGED <<cfg, was, changes>>

Answer ==
  /\ req.stage = "open"
  /\ \E way \in {"chart", "export"}, chart \in AllCharts :
       /\ way = "export" => chart \in Exported
       /\ Finish(way, chart, Reply(way, chart, Query(school)))
  /\ UNCHANGED school

Browse ==
  /\ req.stage = "open"
  /\ \/ Finish("filters", None, GetFilterOptions(Query(school)))
     \/ \E matching \in SUBSET Students :
          Finish("search", None, FindStudents(Query(school), matching))
  /\ UNCHANGED school

(* create_remark.                                                          *)
MayRemark(r) ==
  /\ req.scope.role = "teacher" /\ cfg.remarks
  /\ Within(req.scope.student_ids, r.student)
  /\ AssertSectionSubject(req.scope, HomeOf(Query(school), r.student), r.subject)
Note(r) ==
  [student |-> r.student, category |-> r.category, term |-> r.term, year |-> CurrentYear,
   age |-> 0]
CreateRemark ==
  /\ req.stage = "open"
  /\ \E r \in Written :
       \/ /\ MayRemark(r)
          /\ Finish("remark", None, Served(Named({r.student}, None), FALSE))
          /\ school' = [school EXCEPT !.remarks = @ \cup {Note(r)}]
       \/ /\ ~MayRemark(r)
          /\ Finish("remark", None, Refused(IF req.scope.role = "teacher" THEN 404 ELSE 403))
          /\ UNCHANGED school

(* A page, and one of its cards.                                           *)
VisitAs(x, v) ==
  LET scope == GetAccessScope(school, x, v.filters.year)
      q == [d |-> school, cfg |-> cfg, f |-> v.filters, sc |-> scope, last |-> cfg.last]
      answer == IF IsError(scope) THEN scope ELSE GetPage(q, v.key, v.student)
  IN  /\ was' = school
      /\ req' = [req EXCEPT !.stage = IF IsError(answer) THEN "done" ELSE "page",
                            !.viewer = x, !.filters = v.filters, !.scope = scope,
                            !.page = IF IsError(answer) THEN None ELSE answer.data,
                            !.answer = answer]
      /\ UNCHANGED <<school, cfg, changes>>

Visit == req.stage = "new" /\ \E x \in Viewers, v \in Visits : VisitAs(x, v)

Fetch(chart) ==
  LET f == req.page.form
      scope == GetAccessScope(school, req.viewer, f.year)
      q == [d |-> school, cfg |-> cfg, f |-> f, sc |-> scope, last |-> cfg.last]
  IN  /\ was' = school
      /\ req' = [req EXCEPT !.stage = "done", !.filters = f, !.scope = scope,
                            !.way = "chart", !.chart = IF IsError(scope) THEN None ELSE chart,
                            !.answer = IF IsError(scope) THEN scope ELSE Reply("chart", chart, q)]
      /\ UNCHANGED <<school, cfg, changes>>

Card == req.stage = "page" /\ \E chart \in Followed \cap req.page.cards : Fetch(chart)

(* The school changes.  What it has become before the request is one of    *)
(* Worlds.                                                                 *)
Change(d) ==
  /\ req.stage \in {"open", "page"} /\ changes < MaxChanges /\ d # school
  /\ school' = d /\ changes' = changes + 1
  /\ UNCHANGED <<cfg, req, was>>

Move == \E s \in Students, c \in Sections : Change([school EXCEPT !.home[s] = c])
Retire == \E s \in Students : Change([school EXCEPT !.active = @ \ {s}])
Reassign ==
  \E x \in school.assigned, t \in Teachers :
    Change([school EXCEPT !.assigned = (@ \ {x}) \cup {<<t, x[2], x[3]>>}])
Rehome == \E c \in Sections, t \in Teachers : Change([school EXCEPT !.homeroom[c] = t])
Reguard ==
  \E s \in Students, g \in Guardians \cup {None} : Change([school EXCEPT !.guardian[s] = g])

Next ==
  \/ Open \/ Answer \/ Browse \/ CreateRemark
  \/ Visit \/ Card
  \/ Move \/ Retire \/ Reassign \/ Rehome \/ Reguard

Spec == Init /\ [][Next]_vars

---------------------------------------------------------------------------
Answered == req.answer # None /\ ~IsError(req.answer)
Data == req.answer.data

(* Types: the tables, the settings and the request (models.py).            *)
TypeOK ==
  /\ school \in School /\ was \in School /\ cfg \in Settings /\ changes \in 0..MaxChanges
  /\ req.viewer \in Viewers \cup {None} /\ req.stage \in {"new", "open", "page", "done"}
  /\ Answered =>
       req.answer.who \subseteq Students /\ req.answer.audited \in BOOLEAN

(* Who may know a student, in the words of README.md:145-150: a parent     *)
(* their own children, a teacher the classes they are assigned, a student  *)
(* themselves, a principal everybody.                                      *)
Teaches(d, t, c, b) == <<t, c, b>> \in d.assigned \/ d.homeroom[c] = t
MayKnow(d, x, s) ==
  \/ x.role = "admin"
  \/ x.role = "teacher" /\ s \in d.active /\ \E b \in Subjects : Teaches(d, x.id, d.home[s], b)
  \/ x.role = "parent" /\ s \in d.active /\ d.guardian[s] = x.id
  \/ x.role = "student" /\ s \in d.active /\ s = x.id

(* Nobody is named in an answer whom the caller could not know when the    *)
(* scope was read, whatever has changed since: each of the charts' queries *)
(* brings its own predicates, and forgetting one names a stranger.         *)
NamedAreKnown ==
  Answered => \A s \in req.answer.who : MayKnow(was, req.viewer, s)

(* The results a caller's answer may rest on.  A teacher's: those of the   *)
(* classes and subjects they have.  A family's: their own, and, where the  *)
(* school compares, those of the class and of the papers the child sat.    *)
Readable(k) ==
  LET x == req.viewer
      c == Paper[k[2]].section
      mine == {s \in Students : MayKnow(was, x, s)}
  IN  CASE x.role = "admin" -> TRUE
        [] x.role = "teacher" -> x.id # None /\ Teaches(was, x.id, c, Paper[k[2]].subject)
        [] OTHER -> \/ k[1] \in mine
                    \/ /\ cfg.comparison = "cohort"
                       /\ \E s \in mine : was.home[s] = c \/ school.score[<<s, k[2]>>] # None

(* The school without anything the caller may not read.                    *)
Erased ==
  LET known(s) == MayKnow(was, req.viewer, s)
  IN  [school EXCEPT
        !.score = [k \in DOMAIN @ |-> IF Readable(k) THEN @[k] ELSE None],
        !.register = [k \in DOMAIN @ |-> IF known(k[1]) THEN @[k] ELSE None],
        !.remarks = {r \in @ : known(r.student)}]

(* No answer depends on a result, a day of a register or a remark that its *)
(* caller may not read: with all of them erased the answer is the same.    *)
(* In a school that does not compare, no number of a family's answer moves *)
(* with a classmate's marks, in whatever field or chart it might hide      *)
(* (policy.py sanitizes one chart and one field at a time).                *)
AnswersRestOnReadable ==
  req.stage = "done" /\ req.chart # None /\ req.viewer.role # "admin" =>
    req.answer = Reply(req.way, req.chart, Query(Erased))

(* Numbers of one answer fit each other: a histogram and a grade mix count *)
(* every result once (metrics.py:229-244 cut the range up by hand), an     *)
(* average lies between the lowest and the highest result whatever the     *)
(* weights are, those who passed and those who did not are everybody.      *)
NumbersCohere ==
  /\ Answered /\ req.chart \in {"section.distribution", "school.distribution",
                                "section.grade_mix"} =>
       SumFunction(Data.counts) = Data.total
  /\ Answered /\ req.chart \in {"section.assessment_averages", "section.subject_averages",
                                "school.grade_averages", "school.subject_averages",
                                "school.assessment_type_averages"} =>
       \A row \in Data : row.lowest <= row.average /\ row.average <= row.highest
  /\ Answered /\ req.chart \in {"section.kpis", "school.kpis"} /\ Data.results > 0 =>
       /\ Data.lowest <= Data.median /\ Data.median <= Data.highest
       /\ Data.lowest <= Data.average /\ Data.average <= Data.highest
       /\ Data.high_risk <= Data.at_risk /\ Data.at_risk <= Data.students

(* A student's own page and the tables of a class come to the same verdict *)
(* by different ways (queries.py:735-801, 809-905: one summarises subjects *)
(* and terms, the other groups results) wherever they rest on the same     *)
(* results: one subject, all terms, one section.  The page alone rounds the*)
(* averages before it looks for a fail and fits the trend: the trends are  *)
(* at most a hundredth of a point apart, a fail at the limit may be missed,*)
(* and with the page's trend and fail the table's verdict is the page's.   *)
Near(a, b) == IF None \in {a, b} THEN a = b ELSE a - b \in -10..10

OneVerdict ==
  LET q == [Query(school) EXCEPT !.f = Narrow(req.scope, req.filters)]
  IN  Answered /\ req.chart = "student.kpis" /\ req.filters.term = None
        /\ Cardinality(ResolvedSubjects(req.filters)) = 1 =>
      \A s \in req.answer.who :
        LET table == StudentStandings([q EXCEPT !.f.student = s])
            fails == Data.overall < cfg.pass
        IN  Cardinality(Groups("section", BaseSelect([q EXCEPT !.f.student = s]))) = 1 =>
              \A x \in table :
                /\ x.average = Data.overall /\ Near(x.slope, Data.slope)
                /\ fails => x.failing = 1
                /\ x.failing = 1 => Data.overall <= cfg.pass
                /\ Data.status = Risk(q, [x EXCEPT !.slope = Data.slope,
                                                   !.failing = IF fails THEN 1 ELSE 0])

(* A card never shows another child than the page is headed with, however  *)
(* the filters were left by an earlier page and whatever the school has    *)
(* become meanwhile (portals.py:175-181), and a page offers no card whose  *)
(* chart the portal's policy then keeps from its own reader (policy.py:    *)
(* 57-83 decide about cards and about charts separately; an allowed chart  *)
(* may still have no answer).                                              *)
CardsKeepToTheirPage ==
  /\ req.stage = "page" => req.page.cards \subseteq ListCharts(req.scope, cfg)
  /\ Answered /\ req.page # None /\ req.chart \in StudentCharts /\ req.page.child # None =>
       req.answer.who = {req.page.child}

(* The claim of metrics.py:3-5, that a parent, a teacher and the principal *)
(* all see the same number computed the same way, of the class average in  *)
(* the breakdown of a student's subjects.                                  *)
ClassAverages(x, s) ==
  Column(Reply("chart", "student.subject_table",
           [Query(school) EXCEPT !.f = WithStudent(NoFilters, s),
                                 !.sc = GetAccessScope(school, x, None)]).data, "class_avg")
Agree(a, b) == \A k \in DOMAIN a \cap DOMAIN b : None \in {a[k], b[k]} \/ a[k] = b[k]

SameNumberForAll ==
  cfg.comparison = "cohort" =>
    \A s \in school.active :
      \A a, b \in {ClassAverages(x, s) :
                  x \in {v \in Viewers : (v.id # None \/ v.role = "admin") /\ MayKnow(school, v, s)}} :
        Agree(a, b)
=============================================================================
