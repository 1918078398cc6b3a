------------------------------- MODULE Charts -------------------------------
(***************************************************************************)
(* The charts (app/analytics/charts.py), and how one is answered           *)
(* (app/routers/charts.py).  The payload of a chart says whose names are   *)
(* in it (who) and carries its numbers (data): a record, or a table of     *)
(* records by subject, paper, term or student.                             *)
(*                                                                         *)
(* Left out: titles, labels, hints, tones, the order of rows.              *)
(***************************************************************************)
EXTENDS Queries

STAFF == {"admin", "teacher"}
ADMIN_ONLY == {"admin"}
PARENT_STUDENT == {"parent", "student"}

StudentCharts ==
  {"student.kpis", "student.subject_trend", "student.vs_class", "student.subject_radar",
   "student.grade_mix", "student.attendance", "student.term_progress",
   "student.subject_table", "student.assessment_table", "student.remarks",
   "student.insights", "student.insight_summary"}
SectionCharts ==
  {"section.kpis", "section.distribution", "section.assessment_averages",
   "section.subject_averages", "section.heatmap", "section.grade_mix", "section.attendance",
   "section.students_table", "section.at_risk", "section.toppers"}
SchoolCharts ==
  {"school.kpis", "school.grade_averages", "school.subject_averages",
   "school.assessment_type_averages", "school.section_matrix", "school.term_trend",
   "school.pass_rate", "school.distribution", "school.section_leaderboard",
   "school.section_compare", "school.at_risk", "school.attendance_scatter",
   "school.teacher_effectiveness"}
AllCharts == StudentCharts \cup SectionCharts \cup SchoolCharts \cup InterventionCharts

Roles(chart) ==
  CASE chart \in SchoolCharts \cup {"student.insights"} -> ADMIN_ONLY
    [] chart \in SectionCharts \cup InterventionCharts -> STAFF
    [] chart = "student.insight_summary" -> PARENT_STUDENT
    [] OTHER -> STAFF \cup PARENT_STUDENT

Sensitive ==
  {"student.insights", "section.at_risk", "school.at_risk", "school.teacher_effectiveness"}

Named(who, data) == [who |-> who, data |-> data]
Without(data, hidden) == Restrict(data, DOMAIN data \ hidden)

---------------------------------------------------------------------------
(* Student charts.                                                         *)

(* The row of a student the scope has read is not read again.              *)
HomeOf(q, s) == IF s \in DOMAIN q.sc.home THEN q.sc.home[s] ELSE q.d.home[s]

TargetStudent(q) ==
  IF Family(q.sc) THEN ResolveStudent(q.sc, q.f.student)
  ELSE IF q.f.student = None THEN DefaultStudent(q)
  ELSE IF Within(q.sc.student_ids, q.f.student) THEN q.f.student ELSE None

StudentKpis(o) ==
  [overall |-> o.overall, grade |-> o.grade, gap |-> o.gap,
   class_overall |-> o.class_overall, rank |-> <<o.rank, o.cohort>>, trend |-> o.trend,
   slope |-> o.known.slope, attendance |-> o.attendance, status |-> o.risk,
   profile |-> o.profile, assessments |-> o.assessments,
   consistency |-> ConsistencyLabel(o.consistency)]

StudentSubjectTrend(q, s) ==
  LET mine == [q EXCEPT !.f = WithStudent(q.f, s)]
      picked == Cardinality(ResolvedSubjects(q.f))
      lines(papers) ==
        [own |-> Column(papers, "pct"), marks |-> Column(papers, "marks"),
         absent |-> Column(papers, "absent"), class_avg |-> Column(papers, "class_avg")]
  IN  IF picked = 1 THEN lines(StudentAssessmentSeries(mine, s))
      ELSE [lines |-> IF picked > 1 THEN MatrixAverages(mine, "term", "subject")
                      ELSE MatrixAverages(mine, "subject", "term")]

StudentSubjectTable(rows) ==
  LET row(x) == [average |-> x.average, grade |-> LetterGrade(x.average),
                 class_avg |-> x.class_avg, gap |-> Delta(x.average, x.class_avg),
                 rank |-> <<x.place.rank, x.place.of>>, percentile |-> x.place.percentile,
                 trend |-> TrendLabel(x.slope), assessments |-> x.assessments,
                 consistency |-> ConsistencyLabel(x.consistency)]
  IN  [b \in DOMAIN rows |-> row(rows[b])]

StudentAssessmentTable(q, s) ==
  LET row(x) == [marks |-> IF x.absent THEN None ELSE x.marks, pct |-> x.pct,
                 grade |-> LetterGrade(x.pct), class_avg |-> x.class_avg,
                 gap |-> Delta(x.pct, x.class_avg)]
      table(rows) == [p \in DOMAIN rows |-> row(rows[p])]
  IN  table(StudentAssessmentSeries([q EXCEPT !.f = WithStudent(q.f, s)], s))

StudentTermRows(q, s, home) ==
  LET row(x) == [term |-> x.term, average |-> x.average, grade |-> x.grade,
                 class_avg |-> x.class_avg, rank |-> x.place.rank, cohort |-> x.place.of,
                 percentile |-> x.place.percentile, delta |-> x.delta]
      table(rows) == [i \in DOMAIN rows |-> row(rows[i])]
  IN  table(StudentTermProgress(q, s, home))

SubjectCharts ==
  {"student.vs_class", "student.subject_radar", "student.grade_mix", "student.subject_table"}
SubjectChart(chart, subjects) ==
  CASE chart = "student.vs_class" ->
         [own |-> Column(subjects, "average"), class_avg |-> Column(subjects, "class_avg"),
          class_best |-> Column(subjects, "class_best")]
    [] chart = "student.subject_radar" ->
         [own |-> Column(subjects, "average"), class_avg |-> Column(subjects, "class_avg")]
    [] chart = "student.grade_mix" -> GradeCounts(Column(subjects, "average"))
    [] chart = "student.subject_table" -> StudentSubjectTable(subjects)

StudentData(chart, q, s, home) ==
  LET mine == [q EXCEPT !.f = WithStudent(q.f, s)]
  IN  CASE chart \in SubjectCharts ->
             SubjectChart(chart, StudentSubjectSummaries(q, s, home))
        [] chart = "student.kpis" -> StudentKpis(StudentOverview(q, s, home))
        [] chart = "student.subject_trend" -> StudentSubjectTrend(q, s)
        [] chart = "student.attendance" -> AttendanceMonthly(q, s)
        [] chart = "student.term_progress" -> StudentTermRows(q, s, home)
        [] chart = "student.assessment_table" -> StudentAssessmentTable(q, s)
        [] chart = "student.remarks" -> StudentRemarks(q, s)
        [] chart = "student.insights" -> BuildStudentInsights(mine, s, home)
        [] chart = "student.insight_summary" -> BuildParentInsightSummary(mine, s, home)

(* The table prints the marks of whoever was not absent, and there may be  *)
(* none yet: a TypeError.                                                  *)
Unprintable(q, s) ==
  LET rows == StudentAssessmentSeries([q EXCEPT !.f = WithStudent(q.f, s)], s)
  IN  \E p \in DOMAIN rows : ~rows[p].absent /\ rows[p].marks = None

AboutStudent(chart, q, s) ==
  IF s = None THEN Refused(404)
  ELSE IF chart = "student.assessment_table" /\ Unprintable(q, s) THEN Refused(500)
  ELSE Named({s}, StudentData(chart, q, s, HomeOf(q, s)))

(* Fault: nobody looks whether a student was found.                        *)
StudentChart_unfound(chart, q) == Named({TargetStudent(q)}, << >>)
StudentChart(chart, q) ==
  AboutStudent(chart, q, TargetStudent(q))

---------------------------------------------------------------------------
(* Classroom charts: always one section.                                   *)
PickClassroomSection(q) ==
  LET mine == Range(q.f.sections) \cap q.sc.section_ids
  IN  IF q.sc.section_ids # None /\ mine # {} THEN Min(mine) ELSE q.f.sections[1]

ClassroomSection(q) ==
  IF q.f.section # None THEN q.f.section
  ELSE IF q.f.sections # None THEN PickClassroomSection(q)
  ELSE DefaultSectionId(q)

SectionFilters(q) ==
  LET of(c) == IF c = None \/ ~Within(q.sc.section_ids, c) THEN Refused(404)
               ELSE WithSection(q.f, c)
  IN  of(ClassroomSection(q))

StandingsTable(q, S) ==
  LET row(x) == [average |-> x.average, section |-> x.section, grade |-> LetterGrade(x.average),
                 trend |-> TermTrendLabel(x.slope), attendance |-> x.attendance,
                 failing |-> x.failing, risk |-> Risk(q, x)]
      of(s) == CHOOSE x \in S : x.student = s
  IN  Named({x.student : x \in S}, [s \in {x.student : x \in S} |-> row(of(s))])

(* section_attendance draws two of the columns.                            *)
Shown(chart, table) ==
  IF chart # "section.attendance" THEN table
  ELSE [table EXCEPT !.data = [s \in DOMAIN @ |-> Restrict(@[s], {"attendance", "average"})]]

(* Whom a chart lists of those who have results.                           *)
Listing(chart, q, S) ==
  CASE chart \in {"section.at_risk", "school.at_risk"} -> {x \in S : IsAtRisk(Risk(q, x))}
    [] chart = "section.toppers" -> Best(S, 10)
    [] OTHER -> S

Kpis(overview) == [overview EXCEPT !.toppers = {}, !.needs_attention = {}]

Histogram(values) ==
  [counts |-> Distribution(values), total |-> Cardinality(DOMAIN values)]
GradeMix(values) == [counts |-> GradeCounts(values), total |-> Cardinality(DOMAIN values)]

SectionChart(chart, q) ==
  CASE chart = "section.kpis" -> Named({}, Kpis(CohortOverview(q)))
    [] chart = "section.distribution" -> Named({}, Histogram(ScoreValues(q)))
    [] chart = "section.assessment_averages" -> Named({}, AssessmentAverages(q))
    [] chart = "section.subject_averages" -> Named({}, GroupedAverages(q, "subject"))
    [] chart = "section.heatmap" ->
         LET map(cells) == Named(DOMAIN cells, cells)
         IN  map(MatrixAverages(q, "student", "subject"))
    [] chart = "section.grade_mix" -> Named({}, GradeMix(ScoreValues(q)))
    [] OTHER -> Shown(chart, StandingsTable(q, Listing(chart, q, StudentStandings(q))))

ChartOfClass(chart, q, f) ==
  IF IsError(f) THEN f ELSE SectionChart(chart, [q EXCEPT !.f = f])
ClassroomChart(chart, q) == ChartOfClass(chart, q, SectionFilters(q))

---------------------------------------------------------------------------
(* School charts.                                                          *)

(* One section is marked, not filtered on; two or more are compared.       *)
SectionComparisonContext(f) ==
  LET picks == ResolvedSections(f)
  IN  IF f.sections # None /\ Len(f.sections) >= 2
      THEN [f |-> f, highlighted |-> picks]
      ELSE [f |-> [f EXCEPT !.section = None, !.sections = None], highlighted |-> picks]

SectionComparison(q) ==
  LET context == SectionComparisonContext(q.f)
  IN  [rows |-> GroupedAverages([q EXCEPT !.f = context.f], "section"),
       highlighted |-> context.highlighted]

(* The place of a class among the classes compared.  Classes with the same  *)
(* average are listed in no fixed order: this is the first of their places. *)
Leaderboard(q) ==
  LET place(x, rows) == 1 + Quantify(rows, LAMBDA y : y.average > x.average)
      ranked(board) == [rows |-> board.rows, highlighted |-> board.highlighted,
                        places |-> {<<x.id, place(x, board.rows)>> : x \in board.rows}]
  IN  ranked(SectionComparison(q))

(* A school without results passes nobody.                                 *)
SchoolPassRate(values, limit) ==
  LET gauge(passed) ==
        [passed |-> passed, below |-> 10000 - passed, total |-> Cardinality(DOMAIN values)]
  IN  gauge(IF DOMAIN values = {} THEN 0 ELSE PassRate(values, limit))

SchoolChart(chart, q) ==
  CASE chart = "school.kpis" -> Named({}, Kpis(CohortOverview(q)))
    [] chart = "school.grade_averages" -> Named({}, GroupedAverages(q, "grade"))
    [] chart = "school.subject_averages" -> Named({}, GroupedAverages(q, "subject"))
    [] chart = "school.assessment_type_averages" ->
         Named({}, GroupedAverages(q, "assessment_type"))
    [] chart = "school.section_matrix" -> Named({}, MatrixAverages(q, "section", "subject"))
    [] chart = "school.term_trend" ->
         Named({}, MatrixAverages(WholeYear(q), "grade", "term"))
    [] chart = "school.pass_rate" -> Named({}, SchoolPassRate(ScoreValues(q), q.cfg.pass))
    [] chart = "school.distribution" -> Named({}, Histogram(ScoreValues(q)))
    [] chart = "school.section_leaderboard" -> Named({}, Leaderboard(q))
    [] chart = "school.section_compare" -> Named({}, SectionComparison(q))
    [] chart = "school.at_risk" ->
         StandingsTable(q, Listing(chart, q, StudentStandings(q)))
    [] chart = "school.attendance_scatter" ->
         LET map(points) == Named({x.student : x \in points}, points)
         IN  map(AttendanceVsPerformance(q))
    [] chart = "school.teacher_effectiveness" -> Named({}, TeacherEffectiveness(q))

---------------------------------------------------------------------------
(* sanitize_family_chart.                                                  *)
HiddenFields ==
  [x \in {"student.kpis", "student.subject_radar", "student.subject_trend",
          "student.term_progress", "student.subject_table", "student.assessment_table"} |->
    CASE x = "student.kpis" -> {"gap", "class_overall", "rank"}
      [] x \in {"student.subject_radar", "student.subject_trend"} -> {"class_avg"}
      [] x = "student.term_progress" -> {"rank", "cohort", "percentile", "class_avg"}
      [] x = "student.subject_table" -> {"class_avg", "gap", "rank", "percentile"}
      [] x = "student.assessment_table" -> {"class_avg", "gap"}]
Tables == {"student.term_progress", "student.subject_table", "student.assessment_table"}

(* Fault: the column of a table is hidden, its cells are not.              *)
SanitizeFamilyChart_columns(chart, p, q) ==
  IF IsError(p) \/ CohortBenchmarksVisible(q.sc, q.cfg)
     \/ chart \notin DOMAIN HiddenFields \ Tables
  THEN p
  ELSE [p EXCEPT !.data = Without(@, HiddenFields[chart])]
SanitizeFamilyChart(chart, p, q) ==
  IF IsError(p) \/ CohortBenchmarksVisible(q.sc, q.cfg) \/ chart \notin DOMAIN HiddenFields
  THEN p
  ELSE IF chart \in Tables
  THEN [p EXCEPT !.data = [x \in DOMAIN @ |-> Without(@[x], HiddenFields[chart])]]
  ELSE [p EXCEPT !.data = Without(@, HiddenFields[chart])]

---------------------------------------------------------------------------
(* list_charts, get_chart and export_chart_csv.                            *)
MayGet(chart, sc, cfg) == sc.role \in Roles(chart) /\ ChartAllowedForScope(chart, sc, cfg)
ListCharts(sc, cfg) == {chart \in AllCharts : MayGet(chart, sc, cfg)}

Handler(chart, q) ==
  IF \/ chart = "student.remarks" /\ ~q.cfg.remarks
     \/ chart \in InterventionCharts /\ ~q.cfg.interventions
  THEN Refused(404)
  ELSE CASE chart \in StudentCharts -> StudentChart(chart, q)
         [] chart \in SectionCharts -> ClassroomChart(chart, q)
         [] chart \in SchoolCharts -> SchoolChart(chart, q)
         [] chart \in InterventionCharts -> Named({}, {})

Served(p, audited) ==
  IF IsError(p) THEN p ELSE [who |-> p.who, data |-> p.data, audited |-> audited]

Narrowed(chart, q, f) ==
  IF IsError(f) THEN f
  ELSE SanitizeFamilyChart(chart, Handler(chart, [q EXCEPT !.f = f]), q)
Payload(chart, q) == Narrowed(chart, q, Narrow(q.sc, q.f))

(* get_chart refuses what list_charts does not list; export_chart_csv goes *)
(* by the role and the switches of its own, and audits every file.         *)
MayExport(chart, sc, cfg) ==
  /\ cfg.exports /\ sc.role \in Roles(chart)
  /\ chart \in CohortOnly => CohortBenchmarksVisible(sc, cfg)
Reply(way, chart, q) ==
  IF IF way = "chart" THEN MayGet(chart, q.sc, q.cfg) ELSE MayExport(chart, q.sc, q.cfg)
  THEN Served(Payload(chart, q), way = "export" \/ chart \in Sensitive)
  ELSE Refused(404)

(* get_filter_options, and search_students for the principal.              *)
GetFilterOptions(q) ==
  LET bar(o) == Served(Named(o.students, o), FALSE)
  IN  bar(FilterOptions(q))
FindStudents(q, matching) ==
  IF q.sc.role # "admin" THEN Refused(403)
  ELSE Served(Named(SearchStudents(q, matching), SearchStudents(q, matching)), FALSE)
=============================================================================
