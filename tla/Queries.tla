------------------------------ MODULE Queries ------------------------------
(***************************************************************************)
(* The reads behind every chart (app/analytics/queries.py).  A query q     *)
(* carries the school it reads (d), the tenant's settings (cfg), the       *)
(* filters (f), the caller's scope (sc), and, for a student with results   *)
(* in two sections, which of the two groups the database returns last      *)
(* (last).  A result is a pair of a student and a paper.                   *)
(*                                                                         *)
(* Left out: names and labels, the order of rows where nothing depends on  *)
(* it.  A percentage is a whole number of hundredths.                      *)
(***************************************************************************)
EXTENDS AccessScope

(* The members of a set of numbers in their order.                         *)
Listed(S) ==
  [i \in 1..Cardinality(S) |-> CHOOSE x \in S : Quantify(S, LAMBDA y : y < x) = i - 1]
At(S, f) == [i \in 1..Cardinality(S) |-> f[Listed(S)[i]]]

---------------------------------------------------------------------------
(* Scope and filters.                                                      *)
PaperOf(k) == Paper[k[2]]

ScopeConditions(sc, k) ==
  /\ Within(sc.student_ids, k[1])
  /\ IF sc.section_subjects # None
     THEN <<PaperOf(k).section, PaperOf(k).subject>> \in sc.section_subjects
     ELSE sc.student_ids = None => Within(sc.section_ids, PaperOf(k).section)

Matches(wanted, v) == wanted = None \/ wanted = v
InWindow(f, on) == (f.from # None => on >= f.from) /\ (f.to # None => on <= f.to)

FilterConditions(d, f, k) ==
  LET p == PaperOf(k)
  IN  /\ Matches(f.year, Term[p.term].year) /\ Matches(f.term, p.term)
      /\ ResolvedSubjects(f) # {} => p.subject \in ResolvedSubjects(f)
      /\ ResolvedSections(f) # {} => p.section \in ResolvedSections(f)
      /\ Matches(f.grade, Section[p.section].grade) /\ Matches(f.student, k[1])
      /\ Matches(f.type, p.type) /\ InWindow(f, p.day)
      /\ f.teacher # None => <<f.teacher, p.section, p.subject>> \in d.assigned

Rows(q) ==
  {k \in Students \X Papers :
     q.d.score[k] # None /\ ScopeConditions(q.sc, k) /\ FilterConditions(q.d, q.f, k)}
Graded(row) == ~row.absent /\ row.marks # None
BaseSelect(q) == {k \in Rows(q) : Graded(q.d.score[k])}

Pct(q, k) ==
  LET row == q.d.score[k]
  IN  Percentage(row.marks, PaperOf(k).max)

(* WEIGHTED_AVG_EXPR and avg(PCT_EXPR) over a set of results.              *)
Points(q, K) == SumFunction([k \in K |-> Pct(q, k)])
WeightedAvg(q, K) ==
  LET weight == SumFunction([k \in K |-> PaperOf(k).weight])
  IN  IF weight > 0
      THEN [n |-> SumFunction([k \in K |-> Pct(q, k) * PaperOf(k).weight]), d |-> weight]
      ELSE IF K = {} THEN None ELSE [n |-> Points(q, K), d |-> Cardinality(K)]
PlainAvg(q, K) == [n |-> Points(q, K), d |-> Cardinality(K)]

(* GROUP BY.                                                               *)
Dimension(group, k) ==
  CASE group = "student" -> k[1]
    [] group = "assessment" -> k[2]
    [] group = "grade" -> Section[PaperOf(k).section].grade
    [] group = "assessment_type" -> PaperOf(k).type
    [] OTHER -> PaperOf(k)[group]
Groups(group, K) == {Dimension(group, k) : k \in K}
Part(group, v, K) == {k \in K : Dimension(group, k) = v}
Averages(q, group, K) == [v \in Groups(group, K) |-> WeightedAvg(q, Part(group, v, K))]
Rounds(f) == [v \in DOMAIN f |-> Round(f[v])]

---------------------------------------------------------------------------
(* Attendance.                                                             *)
Tally(q, s, days) ==
  LET count == [x \in AttendanceStatus |-> Quantify(days, LAMBDA t : q.d.register[<<s, t>>] = x)]
      present == AttendancePresentDays(count, q.cfg)
      total == SumFunction(count)
  IN  [count |-> count, total |-> total, present |-> present,
       percentage |-> AttendancePercentage(present, total)]

DaysOf(q, s) ==
  {t \in DOMAIN Day :
     /\ q.d.register[<<s, t>>] # None
     /\ Matches(q.f.term, Day[t].term) /\ Matches(q.f.year, Term[Day[t].term].year)
     /\ InWindow(q.f, t)}

AttendanceByStudent(q, ids) ==
  LET asked == IF ids # None THEN ids
               ELSE IF q.sc.student_ids # None THEN q.sc.student_ids
               ELSE {s \in Students : Within(q.sc.section_ids, q.d.home[s])}
      S == {s \in asked :
              /\ Matches(q.f.grade, Section[q.d.home[s]].grade)
              /\ ResolvedSections(q.f) # {} => q.d.home[s] \in ResolvedSections(q.f)
              /\ DaysOf(q, s) # {}}
  IN  [s \in S |-> Tally(q, s, DaysOf(q, s))]
NoRegister == [count |-> <<>>, total |-> 0, present |-> 0, percentage |-> None]
AttendanceOf(attendance, s) == IF s \in DOMAIN attendance THEN attendance[s] ELSE NoRegister

(* The section and grade filters are not looked at here.                   *)
AttendanceMonthly(q, s) ==
  [m \in {Day[t].month : t \in DaysOf(q, s)} |->
     Tally(q, s, {t \in DaysOf(q, s) : Day[t].month = m})]

---------------------------------------------------------------------------
(* One student.                                                            *)

(* Only section_id is set: picks in section_ids go on narrowing.           *)
ClassQuery(q, home) ==
  [q EXCEPT !.f.student = None, !.f.section = home, !.sc = CohortView(q.sc)]
CohortAverages(q, home, group) ==
  LET K == BaseSelect(ClassQuery(q, home))
  IN  [v \in Groups(group, K) |-> Rounds(Averages(q, "student", Part(group, v, K)))]
Peers(cohort, v) == IF v \in DOMAIN cohort THEN cohort[v] ELSE <<>>

ResultsOf(q, s) == BaseSelect([q EXCEPT !.f.student = s])

(* _student_series_by_subject, one subject.                                *)
Series(q, s, b) ==
  LET papers == {k[2] : k \in Part("subject", b, ResultsOf(q, s))}
  IN  At(papers, [p \in papers |-> Pct(q, <<s, p>>)])

SubjectSummary(average, peers, series) ==
  [average |-> average, class_avg |-> SafeMean(peers),
   class_best |-> IF DOMAIN peers = {} THEN None ELSE Max(Range(peers)),
   place |-> RankAndPercentile(average, peers),
   slope |-> TrendSlope([i \in DOMAIN series |-> Whole(series[i])]),
   consistency |-> Consistency(series), assessments |-> Len(series)]

Summaries(q, s, own, cohort) ==
  [b \in DOMAIN own |-> SubjectSummary(own[b], Peers(cohort, b), Series(q, s, b))]
StudentSubjectSummaries(q, s, home) ==
  Summaries(q, s, Rounds(Averages(q, "subject", ResultsOf(q, s))),
            CohortAverages(q, home, "subject"))

(* The class average of a paper is over all of its results, whoever asks.  *)
StudentAssessmentSeries(q, s) ==
  LET own == Rows([q EXCEPT !.f.student = s])
      sat(p) == {k \in Students \X {p} : q.d.score[k] # None /\ Graded(q.d.score[k])}
  IN  [p \in {k[2] : k \in own} |->
        [marks |-> q.d.score[<<s, p>>].marks, absent |-> q.d.score[<<s, p>>].absent,
         pct |-> Pct(q, <<s, p>>),
         class_avg |-> IF sat(p) = {} THEN None ELSE Round(PlainAvg(q, sat(p)))]]

WholeYear(q) == [q EXCEPT !.f.term = None]

(* Fault: the terms of a student are averaged without the weights.         *)
OwnTermAverages_plain(q, s) ==
  LET K == ResultsOf(WholeYear(q), s)
  IN  Rounds([v \in Groups("term", K) |-> PlainAvg(q, Part("term", v, K))])
OwnTermAverages(q, s) == Rounds(Averages(q, "term", ResultsOf(WholeYear(q), s)))

TermRow(term, average, before, peers) ==
  [term |-> term, average |-> average, class_avg |-> SafeMean(peers),
   place |-> RankAndPercentile(average, peers), delta |-> Delta(average, before),
   grade |-> LetterGrade(average)]

TermRows(own, cohort) ==
  LET terms == Listed(DOMAIN own)
  IN  [i \in DOMAIN terms |->
        TermRow(terms[i], own[terms[i]], IF i = 1 THEN None ELSE own[terms[i - 1]],
                Peers(cohort, terms[i]))]
StudentTermProgress(q, s, home) ==
  TermRows(OwnTermAverages(q, s), CohortAverages(WholeYear(q), home, "term"))

(* A remark without a term belongs to the year it was written in.          *)
RemarkFilter(f, r) ==
  /\ Matches(f.term, r.term)
  /\ f.year # None => IF r.term = None THEN r.year = f.year ELSE Term[r.term].year = f.year
StudentRemarks(q, s) == {r \in q.d.remarks : r.student = s /\ RemarkFilter(q.f, r)}

ConcernRemarkCount(q, s) ==
  Quantify(q.d.remarks, LAMBDA r :
    r.student = s /\ r.category = "concern" /\ r.age <= 30 /\ RemarkFilter(q.f, r))

(* The mean of the last three results less the mean of the three before,   *)
(* in the subject where it fell most.                                      *)
RecentAssessmentDrop(q, s) ==
  LET series(K) == {At(papers, [p \in papers |-> Pct(q, <<s, p>>)]) :
                      papers \in {{k[2] : k \in Part("subject", b, K)} : b \in Groups("subject", K)}}
      drop(v) == Rounded(SumFunctionOnSet(v, (Len(v) - 2)..Len(v))
                           - SumFunctionOnSet(v, (Len(v) - 5)..(Len(v) - 3)), 3)
  IN  First({drop(v) : v \in {v \in series({k \in BaseSelect(q) : k[1] = s}) : Len(v) >= 6}})

(* What is known of a student: the ground of the verdict.                  *)
Facts(q, s, averages, terms, attendance) ==
  [average |-> SafeMean(averages),
   slope |-> TrendSlope([i \in DOMAIN terms |-> Whole(terms[i].average)]),
   attendance |-> attendance.percentage,
   failing |-> Quantify(DOMAIN averages, LAMBDA b :
                 averages[b] # None /\ averages[b] < q.cfg.pass),
   drop |-> RecentAssessmentDrop(q, s), concerns |-> ConcernRemarkCount(q, s)]

Column(table, field) == [x \in DOMAIN table |-> table[x][field]]
(* The rank in the latest term that has one, and the size of its cohort.   *)
Latest(terms, field) ==
  LET I == {i \in DOMAIN terms : terms[i].place[field] # None}
  IN  IF I = {} THEN None ELSE terms[Max(I)].place[field]

Overview(q, subjects, averages, terms, attendance, facts) ==
  LET class == SafeMean(Column(subjects, "class_avg"))
  IN  [overall |-> facts.average, class_overall |-> class,
       grade |-> LetterGrade(facts.average), gap |-> Delta(facts.average, class),
       trend |-> TermTrendLabel(facts.slope), consistency |-> Consistency(averages),
       attendance |-> attendance, rank |-> Latest(terms, "rank"),
       cohort |-> Latest(terms, "of"), subjects |-> subjects,
       profile |-> StrengthProfile(averages, 3), known |-> facts,
       risk |-> AssessRisk(facts, q.cfg),
       assessments |-> SumFunction(Column(subjects, "assessments"))]
OverviewOf(q, s, subjects, terms, attendance) ==
  LET averages == Column(subjects, "average")
  IN  Overview(q, subjects, averages, terms, attendance,
               Facts(q, s, averages, terms, attendance))
StudentOverview(q, s, home) ==
  OverviewOf(q, s, StudentSubjectSummaries(q, s, home), StudentTermProgress(q, s, home),
             AttendanceOf(AttendanceByStudent(q, {s}), s))

---------------------------------------------------------------------------
(* A class or the school.                                                  *)

(* One row per student and section comes back; of a student's rows the     *)
(* last one stays.  The other numbers are over all of the results.         *)
InOrder(f) == At(DOMAIN f, f)
Below(averages, limit) ==
  Quantify(DOMAIN averages, LAMBDA b : averages[b].n < limit * averages[b].d)
KeptSection(q, C) == IF q.last = "high" THEN Max(C) ELSE Min(C)

Standing(q, s, mine, kept, attendance) ==
  [student |-> s, section |-> CHOOSE c \in Groups("section", kept) : TRUE,
   subjects_assessed |-> Cardinality(Groups("subject", kept)),
   average |-> Round(WeightedAvg(q, kept)),
   slope |-> TrendSlope(InOrder(Averages(q, "term", mine))),
   attendance |-> AttendanceOf(attendance, s).percentage,
   failing |-> Below(Averages(q, "subject", mine), q.cfg.pass),
   drop |-> RecentAssessmentDrop(q, s), concerns |-> ConcernRemarkCount(q, s)]

Kept(q, mine) == Part("section", KeptSection(q, Groups("section", mine)), mine)
StandingOf(q, s, mine, attendance) == Standing(q, s, mine, Kept(q, mine), attendance)
Standings(q, K, attendance) ==
  {StandingOf(q, s, Part("student", s, K), attendance) : s \in Groups("student", K)}
StudentStandings(q) ==
  IF q.sc.aggregate_only THEN Refused(403)
  ELSE Standings(q, BaseSelect(q), AttendanceByStudent(q, Groups("student", BaseSelect(q))))

Risk(q, x) == AssessRisk(x, q.cfg)

GroupRow(q, v, part, values) ==
  [id |-> v, average |-> Round(WeightedAvg(q, part)),
   lowest |-> Min(Range(values)), highest |-> Max(Range(values)),
   results |-> Cardinality(part), students |-> Cardinality(Groups("student", part)),
   pass_rate |-> PassRate(values, q.cfg.pass)]
Pcts(q, K) == [k \in K |-> Pct(q, k)]
GroupRows(q, group, K) ==
  LET row(v, part) == GroupRow(q, v, part, Pcts(q, part))
  IN  {row(v, Part(group, v, K)) : v \in Groups(group, K)}
GroupedAverages(q, group) == GroupRows(q, group, BaseSelect(q))

AssessmentRow(p, values, avg) ==
  [id |-> p, average |-> avg, lowest |-> Min(Range(values)), highest |-> Max(Range(values)),
   results |-> Cardinality(DOMAIN values), difficulty |-> DifficultyIndex(avg)]
AssessmentRows(q, K) ==
  LET row(p, part) == AssessmentRow(p, Pcts(q, part), Round(PlainAvg(q, part)))
  IN  {row(p, Part("assessment", p, K)) : p \in Groups("assessment", K)}
AssessmentAverages(q) == AssessmentRows(q, BaseSelect(q))

ScoreValues(q) == Pcts(q, BaseSelect(q))

Matrix(q, rows, columns, K) ==
  LET cell(part) == Round(WeightedAvg(q, part))
  IN  [x \in Groups(rows, K) |-> [y \in Groups(columns, K) |->
         cell(Part(rows, x, Part(columns, y, K)))]]
MatrixAverages(q, rows, columns) ==
  IF "student" \in {rows, columns} /\ q.sc.aggregate_only THEN Refused(403)
  ELSE Matrix(q, rows, columns, BaseSelect(q))

Median(values) ==
  LET below(v) == Quantify(DOMAIN values, LAMBDA k : values[k] < v)
  IN  Max({v \in Range(values) : below(v) <= Cardinality(DOMAIN values) \div 2})

(* The first n of a table sorted by average, best or worst first.  The code *)
(* cuts a tie at the end in no fixed order; here all who share it are in.   *)
Best(S, n) == {x \in S : Quantify(S, LAMBDA y : y.average > x.average) < n}
Worst(S, n) == {x \in S : Quantify(S, LAMBDA y : y.average < x.average) < n}

Overall(q, K, values, standings, risky, attendance) ==
  [average |-> Round(WeightedAvg(q, K)), results |-> Cardinality(K),
   students |-> Cardinality(Groups("student", K)),
   assessments |-> Cardinality(Groups("assessment", K)),
   subjects |-> Cardinality(Groups("subject", K)),
   sections |-> Cardinality(Groups("section", K)),
   pass_rate |-> PassRate(values, q.cfg.pass),
   median |-> IF K = {} THEN None ELSE Median(values),
   highest |-> IF K = {} THEN None ELSE Max(Range(values)),
   lowest |-> IF K = {} THEN None ELSE Min(Range(values)),
   spread |-> Consistency(values),
   absent |-> Quantify(Rows(q), LAMBDA k : q.d.score[k].absent),
   attendance |-> SafeMean(Column(attendance, "percentage")),
   at_risk |-> Cardinality(risky),
   high_risk |-> Quantify(risky, LAMBDA x : Risk(q, x).level = "high"),
   toppers |-> Best(standings, 5), needs_attention |-> Worst(risky, 5)]

OverallOf(q, values, standings, attendance) ==
  Overall(q, DOMAIN values, values, standings,
          {x \in standings : IsAtRisk(Risk(q, x))}, attendance)
CohortOverview(q) ==
  OverallOf(q, ScoreValues(q), StudentStandings(q), AttendanceByStudent(q, None))

(* A result counts for every teacher assigned to its class and subject.    *)
Owned(q, t, K) == {k \in K : <<t, PaperOf(k).section, PaperOf(k).subject>> \in q.d.assigned}
TeacherRow(q, t, K) ==
  [id |-> t, average |-> Round(WeightedAvg(q, K)),
   pass_rate |-> PassRate(Pcts(q, K), q.cfg.pass),
   results |-> Cardinality(K), students |-> Cardinality(Groups("student", K)),
   sections |-> Cardinality(Groups("section", K)),
   subjects |-> Cardinality(Groups("subject", K))]
TeacherRows(q, K) ==
  {TeacherRow(q, t, Owned(q, t, K)) : t \in {t \in Teachers : Owned(q, t, K) # {}}}
TeacherEffectiveness(q) == TeacherRows(q, BaseSelect(q))

AttendanceVsPerformance(q) ==
  {[student |-> x.student, x |-> x.attendance, y |-> x.average, risk |-> Risk(q, x).level] :
     x \in {x \in StudentStandings(q) : x.attendance # None /\ x.average # None}}

---------------------------------------------------------------------------
(* Defaults, search and the filter bar.                                    *)
YearOf(q) == IF q.f.year # None THEN q.f.year ELSE q.sc.year

DefaultStudent(q) ==
  First({s \in q.d.active :
           LET c == q.d.home[s]
           IN  /\ Within(q.sc.student_ids, s) /\ Within(q.sc.section_ids, c)
               /\ ResolvedSections(q.f) # {} => c \in ResolvedSections(q.f)
               /\ Matches(q.f.grade, Section[c].grade) /\ Section[c].year = YearOf(q)})

DefaultSectionId(q) ==
  First(IF q.sc.section_ids # None THEN q.sc.section_ids
        ELSE {c \in Sections : Matches(q.f.grade, Section[c].grade)
                                 /\ Section[c].year = YearOf(q)})

(* matching: the students whose number, name or address starts as asked.   *)
(* The cut after twenty names is left out.                                 *)
SearchStudents(q, matching) ==
  {s \in matching \cap q.d.active : Within(q.sc.student_ids, s)}

FilterOptions(q) ==
  LET C == {c \in Sections : Within(q.sc.section_ids, c) /\ Section[c].year = q.sc.year}
  IN  [terms |-> {t \in DOMAIN Term : Term[t].year = q.sc.year},
       subjects |-> {b \in Subjects : Within(q.sc.subject_ids, b)}, sections |-> C,
       grades |-> IF q.sc.section_ids = None THEN Grades ELSE {Section[c].grade : c \in C},
       students |-> IF q.sc.role = "admin" THEN q.d.active ELSE q.sc.students]

---------------------------------------------------------------------------
(* The report for staff, and the summary for families.  Of the remarks the *)
(* report shows the three latest; the cut is left out.                     *)
Failing(q, average) == average # None /\ average < q.cfg.pass
LowAttendance(q, o) ==
  o.attendance.percentage # None /\ o.attendance.percentage < q.cfg.attendance
When(condition, x) == IF condition THEN {<<x>>} ELSE {}
Dropped(drop) == drop # None /\ 10 * drop <= TermSlideMild

(* The two worst of the subjects that fail.                                *)
Focus(averages, failing) ==
  {b \in failing : Quantify(failing, LAMBDA c :
     averages[c] < averages[b] \/ (averages[c] = averages[b] /\ c < b)) < 2}

Advice(q, o, failing) ==
  {<<"focus", b>> : b \in Focus(Column(o.subjects, "average"), failing)}
    \cup When(Dropped(o.known.drop), "review") \cup When(o.known.concerns > 0, "remarks")
    \cup When(LowAttendance(q, o), "attendance")
Urgent(o, advice) ==
  advice \cup When(o.risk.level = "high" /\ Cardinality(advice) < 3, "meeting")

Report(q, s, o, failing, actions) ==
  [risk |-> o.risk, attendance |-> o.attendance,
   subjects |-> [b \in DOMAIN o.subjects |->
      [average |-> o.subjects[b].average, class_avg |-> o.subjects[b].class_avg,
       failing |-> b \in failing]],
   remarks |-> {r \in StudentRemarks(q, s) : r.category \in {"concern", "academic"}},
   actions |-> actions,
   targets |-> IF Cardinality(actions) < 3 THEN o.profile.weaknesses ELSE {}]
ReportOf(q, s, o, failing) == Report(q, s, o, failing, Urgent(o, Advice(q, o, failing)))
BuildStudentInsights(q, s, home) ==
  LET on(o) == ReportOf(q, s, o, {b \in DOMAIN o.subjects : Failing(q, o.subjects[b].average)})
  IN  on(StudentOverview(q, s, home))

Summary(q, o) ==
  [headline |-> o.risk.level, attendance |-> o.attendance,
   subjects |-> [b \in DOMAIN o.subjects |->
      [average |-> o.subjects[b].average, trend |-> TrendLabel(o.subjects[b].slope),
       needs_support |-> Failing(q, o.subjects[b].average)]],
   suggestions |-> [revise |-> Failing(q, o.overall), review |-> Dropped(o.known.drop),
                    attend |-> LowAttendance(q, o), remarks |-> o.known.concerns > 0]]
BuildParentInsightSummary(q, s, home) == Summary(q, StudentOverview(q, s, home))
=============================================================================
