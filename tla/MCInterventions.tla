---------------------------- MODULE MCInterventions ----------------------------
(* Model-checking instance of Interventions: an administrator and a teacher,*)
(* two requests at a time, two cases of one student, a task; payloads that  *)
(* change one thing, and two that change two.                               *)
EXTENDS Interventions, TLC

CONSTANTS adm, tea, stu, c1, c2, t1, n1, s1, s2

MCStaff == {adm, tea}
MCCases == {c1, c2}
MCTasks == {t1}
MCSessions == {s1, s2}
MCScope == [u \in MCStaff |-> {stu}]

Update(status, owner, clear) ==
  [op: {"update"}, by: {adm}, case: MCCases, status: {status}, owner: {owner},
   clear: {clear}]

UpdateTask(status, assignee, visibility) ==
  [op: {"update_task"}, by: {tea}, case: MCCases, task: MCTasks, status: {status},
   assignee: {assignee}, clear: {FALSE}, visibility: {visibility}]

MCRequests ==
  [op: {"create"}, by: {adm}, student: {stu}, owner: {None}]
  \cup UNION {Update(x, None, FALSE) : x \in CaseStatus}
  \cup Update("resolved", tea, FALSE) \cup Update(None, None, TRUE)
  \cup [op: {"contact"}, by: {adm}, case: MCCases]
  \cup [op: {"create_task"}, by: {adm}, case: MCCases, assignee: {None},
        visibility: {"staff"}]
  \cup UNION {UpdateTask(x, None, None) : x \in TaskStatus}
  \cup UpdateTask(None, tea, "assignee_only")
  \cup [op: {"complete"}, by: {adm}, case: MCCases, task: MCTasks, note: {None}]
  \cup [op: {"complete"}, by: {tea}, case: MCCases, task: MCTasks, note: {n1}]

Symmetry == Permutations(MCCases) \cup Permutations(MCSessions)
=============================================================================
