------------------------------ MODULE MCPortal ------------------------------
(* Model-checking instance of Portal: two classes of one grade and one of an *)
(* earlier year, two subjects, three students, of whom two have one guardian *)
(* and sit in different classes; six papers of one subject, so that the      *)
(* recent results can have dropped.  In the second school one student has    *)
(* moved to another class since and one has left.                            *)
EXTENDS Portal, TLC

CONSTANTS ana, ben, gita

MCSection == << [grade |-> 8, year |-> 2], [grade |-> 8, year |-> 2], [grade |-> 7, year |-> 1] >>
MCTerm == << [year |-> 1], [year |-> 2], [year |-> 2] >>
MCDay == << [term |-> 2, month |-> 1], [term |-> 3, month |-> 2], [term |-> 3, month |-> 3] >>

Sheet(c, b, t, type, day, weight) ==
  [section |-> c, subject |-> b, term |-> t, type |-> type, day |-> day, max |-> 20000,
   weight |-> weight]
MCPaper ==
  << Sheet(3, 1, 1, "final", 1, 1),
     Sheet(1, 1, 2, "unit_test", 1, 1), Sheet(1, 1, 2, "unit_test", 1, 1),
     Sheet(1, 1, 2, "mid_term", 2, 3), Sheet(1, 1, 3, "unit_test", 2, 1),
     Sheet(1, 1, 3, "unit_test", 3, 0), Sheet(1, 1, 3, "final", 3, 2),
     Sheet(1, 2, 2, "project", 1, 0), Sheet(2, 1, 2, "mid_term", 2, 1),
     Sheet(2, 2, 3, "final", 3, 2) >>

Mark(m) == [marks |-> m, absent |-> FALSE]
Away == [marks |-> None, absent |-> TRUE]
Blank == [marks |-> None, absent |-> FALSE]

(* Marks, kept in thousandths, by student and paper; -1: no row, -2: absent,*)
(* -3: not marked yet.                                                     *)
Book(rows) ==
  [k \in Students \X DOMAIN MCPaper |->
    LET m == rows[k[1]][k[2]]
    IN  CASE m = -1 -> None [] m = -2 -> Away [] m = -3 -> Blank [] OTHER -> Mark(1000 * m)]
(* The first student's terms are 1.997 points apart, 2 when rounded.       *)
Steady ==
  [Book(<< <<12, 18, 16, 20, 18, 19, 18, 14, -1, -1>>,
           <<-1, 10, 8, 6, -2, 5, 7, 4, -1, -1>>,
           <<-1, -1, -1, -1, -1, -1, -1, -1, 13, -3>> >>)
     EXCEPT ![<<1, 5>>] = Mark(18402), ![<<1, 7>>] = Mark(18400)]
Slipping == Book(<< <<-1, 15, 14, 13, 10, 9, 6, -1, -1, -1>>,
                    <<-1, 8, -1, 20, -1, 11, -3, 9, -1, -1>>,
                    <<9, 20, -1, -1, -1, -1, -1, -1, 6, 7>> >>)

Registers ==
  [k \in Students \X DOMAIN MCDay |->
    CASE k[1] = 1 -> "present"
      [] k[1] = 2 /\ k[2] = 1 -> "late"
      [] k[1] = 2 /\ k[2] # 1 -> "absent"
      [] OTHER -> IF k[2] = 1 THEN None ELSE "excused"]
Notes ==
  { [student |-> 1, category |-> "concern", term |-> 2, year |-> 2, age |-> 10],
    [student |-> 2, category |-> "concern", term |-> None, year |-> 2, age |-> 30],
    [student |-> 2, category |-> "academic", term |-> 3, year |-> 2, age |-> 5],
    [student |-> 2, category |-> "concern", term |-> 1, year |-> 1, age |-> 31] }

TheSchool(book, home, active) ==
  [home |-> home, active |-> active, guardian |-> <<gita, None, gita>>,
    assigned |-> {<<ana, 1, 1>>, <<ben, 2, 1>>, <<ben, 1, 2>>},
    homeroom |-> <<None, ana, None>>, score |-> book, register |-> Registers,
    remarks |-> Notes]

Tenant(comparison, on, late) ==
  [comparison |-> comparison, remarks |-> on, interventions |-> on,
   exports |-> on, portals |-> IF on THEN {"parent", "student"} ELSE {"student"}, late |-> late,
   excused |-> ~late, last |-> IF late THEN "low" ELSE "high", pass |-> 3300, atRisk |-> 5000, attendance |-> 7500]
MCWorlds ==
  { [school |-> TheSchool(Steady, <<1, 1, 2>>, Students), cfg |-> Tenant("self", TRUE, TRUE)],
    [school |-> TheSchool(Slipping, <<1, 2, 2>>, Students \ {3}), cfg |-> Tenant("cohort", FALSE, FALSE)] }

MCAsked ==
  { NoFilters, [NoFilters EXCEPT !.subject = 1], [NoFilters EXCEPT !.subject = 1, !.year = 9],
    [NoFilters EXCEPT !.sections = <<2, 1>>, !.student = 1],
    [NoFilters EXCEPT !.sections = <<1, 3>>],
    [NoFilters EXCEPT !.section = 1, !.subjects = <<1, 2>>, !.term = 3, !.from = 2],
    [NoFilters EXCEPT !.year = 1, !.type = "final"] }

MCExported == {"student.subject_table", "student.remarks", "section.at_risk"}
MCVisits ==
  {[key |-> "overview", student |-> None, filters |-> f] :
     f \in {NoFilters, [NoFilters EXCEPT !.student = 3],
            [NoFilters EXCEPT !.sections = <<1, 3>>, !.subjects = <<1>>],
            [NoFilters EXCEPT !.section = 2, !.year = 1, !.type = "final"]}}
  \cup {[key |-> k, student |-> None, filters |-> NoFilters] :
     k \in DOMAIN STUDENT_PAGES \cup DOMAIN ClassroomPages \cup DOMAIN SchoolPages}
  \cup {[key |-> k, student |-> s, filters |-> [NoFilters EXCEPT !.student = 1]] :
     k \in DOMAIN AdminStudentPages, s \in {2, 3}}
MCFollowed == {"student.kpis", "student.remarks", "student.insights", "section.kpis"}
MCWritten ==
  {[student |-> s, category |-> "concern", term |-> None, subject |-> b] :
     s \in {1, 3}, b \in {None, 1}}
=============================================================================
