------------------------------- MODULE Pages -------------------------------
(***************************************************************************)
(* The pages of the four portals (app/portals.py and the routers of        *)
(* families, teachers and the principal).  A page is a bar of filter       *)
(* controls and a set of cards, each of which asks for its chart later, by *)
(* a request of its own that carries the bar and what the page has pinned. *)
(*                                                                         *)
(* Left out: titles, navigation, layout; the pages for imports and for     *)
(* interventions, which have no cards.                                     *)
(***************************************************************************)
EXTENDS Charts

Page(filters, cards) == [filters |-> filters, cards |-> cards]

OverviewCards ==
  {"student.kpis", "student.subject_trend", "student.subject_radar", "student.vs_class",
   "student.grade_mix", "student.term_progress", "student.attendance"}
StudentBar == {"academic_year", "student", "term", "subject"}

STUDENT_PAGES ==
  [overview |-> Page(StudentBar, OverviewCards \cup {"student.insight_summary"}),
   subjects |-> Page(StudentBar \cup {"assessment_type"},
                     {"student.subject_table", "student.vs_class", "student.subject_radar"}),
   assessments |-> Page(StudentBar \cup {"assessment_type", "dates"},
                        {"student.subject_trend", "student.assessment_table"}),
   progress |-> Page({"academic_year", "student", "subject"},
                     {"student.term_progress", "student.grade_mix", "student.subject_trend"}),
   attendance |-> Page({"academic_year", "student", "term", "dates"},
                       {"student.attendance", "student.kpis"}),
   remarks |-> Page({"academic_year", "student", "term"},
                    {"student.remarks", "student.kpis"})]

ClassroomBar == {"academic_year", "section", "section_required", "term", "subject", "assessment_type"}
ClassroomPages ==
  [overview |-> Page(ClassroomBar,
     {"section.kpis", "section.assessment_averages", "section.grade_mix",
      "section.subject_averages", "section.distribution"}),
   assessments |-> Page(ClassroomBar \cup {"dates"},
     {"section.assessment_averages", "section.distribution", "section.grade_mix"}),
   subjects |-> Page(ClassroomBar, {"section.subject_averages", "section.heatmap"}),
   students |-> Page(ClassroomBar, {"section.students_table", "section.heatmap"}),
   attention |-> Page(ClassroomBar, {"section.at_risk", "section.toppers"}),
   attendance |-> Page(ClassroomBar \cup {"dates"}, {"section.attendance", "section.kpis"})]

SchoolBar == {"academic_year", "term", "grade", "section", "subject", "assessment_type"}
SchoolPages ==
  [overview |-> Page(SchoolBar,
     {"school.kpis", "school.term_trend", "school.pass_rate", "school.grade_averages",
      "school.subject_averages", "school.distribution", "school.assessment_type_averages"}),
   grades |-> Page(SchoolBar,
     {"school.grade_averages", "school.term_trend", "school.section_matrix"}),
   subjects |-> Page(SchoolBar,
     {"school.subject_averages", "school.assessment_type_averages", "school.distribution",
      "school.section_matrix"}),
   classes |-> Page(SchoolBar,
     {"school.section_leaderboard", "school.section_compare", "school.section_matrix"}),
   attention |-> Page(SchoolBar, {"school.at_risk", "school.attendance_scatter"}),
   teachers |-> Page(SchoolBar, {"school.teacher_effectiveness", "school.subject_averages"}),
   student |-> Page(StudentBar \cup {"assessment_type"},
                    OverviewCards \cup {"student.insights"})]

(* What staff see of one student, who is named in the address.             *)
TeacherDetail == Page({"academic_year", "term", "subject", "assessment_type"}, OverviewCards)
AdminStudentPages ==
  [overview |-> Page(StudentBar, OverviewCards \cup {"student.insights"}),
   remarks |-> STUDENT_PAGES.remarks,
   insights |-> Page(StudentBar, {"student.insights"})]

---------------------------------------------------------------------------
(* render_dashboard.                                                       *)
FilterControls ==
  [academic_year |-> {"year"}, student |-> {"student"}, term |-> {"term"},
   subject |-> {"subject"}, grade |-> {"grade"}, section |-> {"section"},
   assessment_type |-> {"type"}, dates |-> {"from", "to"}]

(* A control that offers one choice is not drawn.                          *)
RenderedFilters(visible, o) ==
  visible \ ((IF Cardinality(Years) <= 1 THEN {"academic_year"} ELSE {})
              \cup (IF Cardinality(o.students) <= 1 THEN {"student"} ELSE {}))

NormalizeFilterControls(f) ==
  LET one(single, list) == single = None /\ list # None /\ Len(list) = 1
      g == IF one(f.subject, f.subjects)
           THEN [f EXCEPT !.subject = f.subjects[1], !.subjects = None] ELSE f
  IN  IF one(g.section, g.sections)
      THEN [g EXCEPT !.section = g.sections[1], !.sections = None] ELSE g

Editable(rendered) == UNION {FilterControls[c] : c \in rendered \cap DOMAIN FilterControls}

(* Fault: what the page has resolved is not handed on.                     *)
PinnedFilters_none(f, rendered, declared) == {}
(* The fields whose values travel as hidden controls.                      *)
PinnedFilters(f, rendered, declared) ==
  {x \in declared \ Editable(rendered) : f[x] # None}

(* What the bar of a page sends with each card (queryString in filters.js, *)
(* _filters.html).  Lists in the page's own address go before the single   *)
(* value; a control shows nothing, or its first choice when it has no      *)
(* empty one, if the page's value is not among its choices.                *)
CardFilters(asked, f, rendered, pinned, o) ==
  LET offered == [term |-> o.terms, subject |-> o.subjects, grade |-> o.grades,
                  section |-> o.sections]
      blank(x) == IF x = "section" /\ "section_required" \in rendered
                  THEN First(o.sections) ELSE None
      shown(x) ==
        CASE x = "year" -> IF f.year \in Years THEN f.year ELSE Max(Years)
          [] x \in DOMAIN offered -> IF f[x] \in offered[x] THEN f[x] ELSE blank(x)
          [] OTHER -> f[x]
      listed(x) == \/ x = "subject" /\ asked.subjects # None
                   \/ x = "section" /\ asked.sections # None
  IN  [x \in DOMAIN NoFilters |->
        CASE x \in {"subjects", "sections"} -> asked[x]
          [] listed(x) -> None
          [] x \in Editable(rendered) /\ ~listed(x) -> shown(x)
          [] x \in pinned \ Editable(rendered) /\ ~listed(x) -> f[x]
          [] OTHER -> None]

RenderDashboard(q, f, child, page, cards, declared) ==
  LET g == NormalizeFilterControls(f)
      o == FilterOptions(q)
      rendered == RenderedFilters(page.filters, o)
      pinned == PinnedFilters(g, rendered, declared)
  IN  [who |-> o.students \cup ({child} \ {None}), audited |-> FALSE,
       data |-> [child |-> child, cards |-> cards,
                 form |-> CardFilters(q.f, g, rendered, pinned, o)]]

---------------------------------------------------------------------------
(* The routers.                                                            *)
FamilyPage(q, key) ==
  LET child == ResolveStudent(q.sc, q.f.student)
      page == STUDENT_PAGES[key]
  IN  IF \/ q.sc.role \notin q.cfg.portals \/ child = None
         \/ key = "remarks" /\ ~q.cfg.remarks
      THEN Refused(404)
      ELSE RenderDashboard(q, WithStudent(q.f, child), child, page,
                           FilterPortalCards(page.cards, q.sc, q.cfg), {"student"})

ClassroomPage(q, key) ==
  LET c == ResolveSection(q.sc, q.f.section)
      page == ClassroomPages[key]
  IN  IF c = None THEN Refused(404)
      ELSE RenderDashboard(q, WithSection(q.f, c), None, page, page.cards, {"section"})

TeacherStudentDetail(q, s) ==
  IF ~Within(q.sc.student_ids, s) THEN Refused(404)
  ELSE RenderDashboard(q, WithStudent(q.f, s), s, TeacherDetail, TeacherDetail.cards,
                       {"student"})

SchoolPage(q, key) ==
  RenderDashboard(q, q.f, None, SchoolPages[key], SchoolPages[key].cards, {})

AdminStudentPage(q, key, s) ==
  IF key = "remarks" /\ ~q.cfg.remarks THEN Refused(404)
  ELSE RenderDashboard(q, WithStudent(q.f, s), s, AdminStudentPages[key],
                       AdminStudentPages[key].cards, {"student"})

(* A page of the caller's own portal; s: the student named in its address. *)
GetPage(q, key, s) ==
  CASE Family(q.sc) /\ s = None /\ key \in DOMAIN STUDENT_PAGES -> FamilyPage(q, key)
    [] q.sc.role = "teacher" /\ s = None /\ key \in DOMAIN ClassroomPages ->
         ClassroomPage(q, key)
    [] q.sc.role = "teacher" /\ s # None /\ key = "overview" -> TeacherStudentDetail(q, s)
    [] q.sc.role = "admin" /\ s = None /\ key \in DOMAIN SchoolPages -> SchoolPage(q, key)
    [] q.sc.role = "admin" /\ s # None /\ key \in DOMAIN AdminStudentPages ->
         AdminStudentPage(q, key, s)
    [] OTHER -> Refused(404)
=============================================================================
