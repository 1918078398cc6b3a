----------------------------- MODULE Interventions -----------------------------
(***************************************************************************)
(* Follow-up of at-risk students: cases, their tasks and the append-only   *)
(* timeline of each case (app/routers/interventions.py, models.py,         *)
(* intervention_events.py).                                                *)
(*                                                                         *)
(* A handler reads the rows it needs and checks them, then writes: other   *)
(* sessions may commit in between.  The UPDATE of a row names the columns  *)
(* the handler changed with respect to what it read, no row is locked and  *)
(* no key makes a student's active case unique.                            *)
(*                                                                         *)
(* Left out: priorities, due dates, texts, notes of contacts.  Whether a   *)
(* student is at risk is the analytics' answer: a case may be refused for  *)
(* it at any time, which changes nothing.                                  *)
(***************************************************************************)
EXTENDS Naturals, Sequences

CONSTANTS
  Students, Cases, Tasks,
  Staff,        \* teachers and administrators
  Admins,
  Scope,        \* the students whose data a user may see
  Notes,        \* completion notes
  Requests,     \* requests that may arrive
  Sessions,     \* requests in progress at one time
  MaxCommits,   \* bound: committed requests
  None

Opt(S) == S \cup {None}

Active == {"open", "in_progress"}
CaseStatus == Active \cup {"resolved"}
Terminal == {"completed", "cancelled"}
TaskStatus == Active \cup Terminal
Visibility == {"staff", "assignee_only"}

(* A payload's absent field is None; clear_owner and clear_assignee. *)
AllRequests ==
  [op: {"create"}, by: Staff, student: Students, owner: Opt(Staff)]
  \cup [op: {"update"}, by: Staff, case: Cases, status: Opt(CaseStatus),
        owner: Opt(Staff), clear: BOOLEAN]
  \cup [op: {"contact"}, by: Staff, case: Cases]
  \cup [op: {"create_task"}, by: Staff, case: Cases, assignee: Opt(Staff),
        visibility: Visibility]
  \cup [op: {"update_task"}, by: Staff, case: Cases, task: Tasks,
        status: Opt(TaskStatus), assignee: Opt(Staff), clear: BOOLEAN,
        visibility: Opt(Visibility)]
  \cup [op: {"complete"}, by: Staff, case: Cases, task: Tasks, note: Opt(Notes)]

(* resolved and completed: the timestamp resolved_at or completed_at is set. *)
CaseRow ==
  [student: Students, status: CaseStatus, resolved: BOOLEAN, owner: Opt(Staff)]

TaskRow ==
  [case: Cases, status: TaskStatus, completed: BOOLEAN, note: Opt(Notes),
   assignee: Opt(Staff), creator: Staff, visibility: Visibility]

Event ==
  [type: {"case_created", "guardian_contacted", "case_closed"}]
  \cup [type: {"owner_changed"}, from: Opt(Staff), to: Opt(Staff)]
  \cup [type: {"status_changed"}, from: CaseStatus, to: CaseStatus]
  \cup [type: {"task_created", "task_completed"}, task: Tasks]

ASSUME InterventionsAssumption ==
  /\ Admins \subseteq Staff /\ Scope \in [Staff -> SUBSET Students]
  /\ Requests \subseteq AllRequests /\ MaxCommits \in Nat
  /\ None \notin Staff \cup Notes \cup CaseStatus \cup TaskStatus \cup Visibility
                 \cup CaseRow \cup TaskRow \cup AllRequests

VARIABLES
  cases,     \* intervention_cases, None where there is no row
  tasks,     \* action_tasks
  events,    \* intervention_events of each case, oldest first
  ses,       \* requests in progress, with the rows they read
  commits,   \* committed requests
  racedCases, racedTasks  \* history: rows whose status was set by a request
                          \* that had read another status than the row then had

raced == <<racedCases, racedTasks>>
vars == <<cases, tasks, events, ses, commits, raced>>

Session == [req: Opt(Requests), row: Opt(CaseRow), task: Opt(TaskRow)]
Idle == [req |-> None, row |-> None, task |-> None]

TypeOK ==
  /\ cases \in [Cases -> Opt(CaseRow)] /\ tasks \in [Tasks -> Opt(TaskRow)]
  /\ events \in [Cases -> Seq(Event)]
  /\ ses \in [Sessions -> Session] /\ commits \in 0..MaxCommits
  /\ racedCases \subseteq Cases /\ racedTasks \subseteq Tasks

Init ==
  /\ cases = [c \in Cases |-> None] /\ tasks = [t \in Tasks |-> None]
  /\ events = [c \in Cases |-> << >>]
  /\ ses = [s \in Sessions |-> Idle] /\ commits = 0
  /\ racedCases = {} /\ racedTasks = {}

(***************************************************************************)
(* The first half of a handler: what it reads and what it refuses.         *)
(***************************************************************************)
(* _get_case_or_404: the row, within the user's scope. *)
SeesCase(u, c) == cases[c] # None /\ cases[c].student \in Scope[u]

(* _get_task_or_404 and _can_view_task. *)
SeesTask(u, c, t) ==
  /\ SeesCase(u, c) /\ tasks[t] # None /\ tasks[t].case = c
  /\ \/ tasks[t].visibility = "staff" \/ u \in Admins
     \/ tasks[t].assignee = u \/ tasks[t].creator = u

Start(s, r, row, task) ==
  /\ ses[s] = Idle
  /\ ses' = [ses EXCEPT ![s] = [req |-> r, row |-> row, task |-> task]]
  /\ UNCHANGED <<cases, tasks, events, commits, raced>>

BeginCreate(s, r) ==
  /\ r.op = "create" /\ r.student \in Scope[r.by]
  /\ ~ \E c \in Cases :
         cases[c] # None /\ cases[c].student = r.student /\ cases[c].status \in Active
  /\ Start(s, r, None, None)

BeginOnCase(s, r) ==
  /\ r.op \in {"update", "contact", "create_task"} /\ SeesCase(r.by, r.case)
  /\ Start(s, r, cases[r.case], None)

(* Fault: a completed or cancelled task may be given any status            *)
(* (CompletedOnce).                                                        *)
BeginUpdateTask_reopens(s, r) ==
  /\ r.op = "update_task" /\ SeesTask(r.by, r.case, r.task)
  /\ Start(s, r, None, tasks[r.task])

BeginUpdateTask(s, r) ==
  /\ r.op = "update_task" /\ SeesTask(r.by, r.case, r.task)
  /\ tasks[r.task].status \in Terminal => r.status \in Opt(Terminal)
  /\ Start(s, r, None, tasks[r.task])

BeginComplete(s, r) ==
  /\ r.op = "complete" /\ SeesTask(r.by, r.case, r.task)
  /\ tasks[r.task].status \notin Terminal
  /\ Start(s, r, None, tasks[r.task])

(***************************************************************************)
(* The second half: the writes and the events, in one commit.              *)
(***************************************************************************)
Finish(s) ==
  /\ commits < MaxCommits /\ commits' = commits + 1
  /\ ses' = [ses EXCEPT ![s] = Idle]

Record(c, list) == events' = [events EXCEPT ![c] = @ \o list]

(* Fault: the UPDATE names every column, with what the handler read in     *)
(* those it leaves alone (TrailExplainsStatus, TerminalTasksStayTerminal). *)
Written_always(new, seen, now) == new

(* What a handler that read "seen" leaves in a column it sets to "new". *)
Written(new, seen, now) == IF new # seen THEN new ELSE now

(* Whether a write of a status is one of a row that has changed meanwhile. *)
WithRace(rows, x, writes, seen, now) ==
  IF writes /\ seen.status # now.status THEN rows \cup {x} ELSE rows

CommitCreate(s, c) ==
  /\ ses[s].req # None /\ ses[s].req.op = "create" /\ cases[c] = None
  /\ cases' = [cases EXCEPT ![c] = [student |-> ses[s].req.student, status |-> "open",
                                   resolved |-> FALSE, owner |-> ses[s].req.owner]]
  /\ Record(c, <<[type |-> "case_created"]>>)
  /\ Finish(s) /\ UNCHANGED <<tasks, raced>>

StatusEvents(from, to) ==
  IF from = to THEN << >>
  ELSE <<[type |-> "status_changed", from |-> from, to |-> to]>>
       \o (IF to = "resolved" THEN <<[type |-> "case_closed"]>> ELSE << >>)

OwnerEvents(from, to) ==
  IF from = to THEN << >> ELSE <<[type |-> "owner_changed", from |-> from, to |-> to]>>

NewOwner(r, seen) == IF r.clear THEN None ELSE IF r.owner # None THEN r.owner ELSE seen.owner
NewStatus(r, seen) == IF r.status # None THEN r.status ELSE seen.status

ResolvedAt(r, seen, now) ==
  IF r.status = "resolved" THEN TRUE
  ELSE IF r.status # None /\ seen.resolved THEN FALSE ELSE now.resolved

CommitUpdate(s) ==
  LET r == ses[s].req
      seen == ses[s].row
      now == cases[r.case]
  IN /\ r # None /\ r.op = "update"
     /\ cases' = [cases EXCEPT ![r.case] =
          [student |-> now.student,
           status |-> Written(NewStatus(r, seen), seen.status, now.status),
           resolved |-> ResolvedAt(r, seen, now),
           owner |-> Written(NewOwner(r, seen), seen.owner, now.owner)]]
     /\ Record(r.case, OwnerEvents(seen.owner, NewOwner(r, seen))
                       \o StatusEvents(seen.status, NewStatus(r, seen)))
     /\ racedCases' = WithRace(racedCases, r.case, r.status # None, seen, now)
     /\ Finish(s) /\ UNCHANGED <<tasks, racedTasks>>

ContactEvents(seen) ==
  <<[type |-> "guardian_contacted"]>>
  \o (IF seen.status = "open" THEN StatusEvents("open", "in_progress") ELSE << >>)

CommitContact(s) ==
  LET r == ses[s].req
      seen == ses[s].row
  IN /\ r # None /\ r.op = "contact"
     /\ cases' = IF seen.status = "open"
                 THEN [cases EXCEPT ![r.case].status = "in_progress"] ELSE cases
     /\ Record(r.case, ContactEvents(seen))
     /\ racedCases' =
          WithRace(racedCases, r.case, seen.status = "open", seen, cases[r.case])
     /\ Finish(s) /\ UNCHANGED <<tasks, racedTasks>>

(* Fault: the visibility is stored as the assignee (TypeOK). *)
NewTask_swapped(r) ==
  [case |-> r.case, status |-> "open", completed |-> FALSE, note |-> None,
   assignee |-> r.visibility, creator |-> r.by, visibility |-> r.visibility]

NewTask(r) ==
  [case |-> r.case, status |-> "open", completed |-> FALSE, note |-> None,
   assignee |-> r.assignee, creator |-> r.by, visibility |-> r.visibility]

CommitCreateTask(s, t) ==
  LET r == ses[s].req
  IN /\ r # None /\ r.op = "create_task" /\ tasks[t] = None
     /\ tasks' = [tasks EXCEPT ![t] = NewTask(r)]
     /\ Record(r.case, <<[type |-> "task_created", task |-> t]>>)
     /\ Finish(s) /\ UNCHANGED <<cases, raced>>

(* update_task: a status other than completed takes the completion back. *)
Uncompletes(r, seen) ==
  r.status # None /\ r.status # "completed" /\ seen.completed

UpdatedTask(r, seen, now) ==
  LET assignee == IF r.clear THEN None
                  ELSE IF r.assignee # None THEN r.assignee ELSE seen.assignee
      visibility == IF r.visibility # None THEN r.visibility ELSE seen.visibility
      status == IF r.status # None THEN r.status ELSE seen.status
  IN [now EXCEPT
        !.assignee = Written(assignee, seen.assignee, now.assignee),
        !.visibility = Written(visibility, seen.visibility, now.visibility),
        !.status = Written(status, seen.status, now.status),
        !.completed = IF Uncompletes(r, seen) THEN FALSE
                      ELSE r.status = "completed" \/ now.completed,
        !.note = IF Uncompletes(r, seen) THEN Written(None, seen.note, now.note)
                 ELSE now.note]

CommitUpdateTask(s) ==
  LET r == ses[s].req
      seen == ses[s].task
  IN /\ r # None /\ r.op = "update_task"
     /\ tasks' = [tasks EXCEPT ![r.task] = UpdatedTask(r, seen, @)]
     /\ racedTasks' = WithRace(racedTasks, r.task, r.status # None, seen, tasks[r.task])
     /\ Finish(s) /\ UNCHANGED <<cases, events, racedCases>>

CommitComplete(s) ==
  LET r == ses[s].req
      now == tasks[r.task]
  IN /\ r # None /\ r.op = "complete"
     /\ tasks' = [tasks EXCEPT ![r.task] =
          [now EXCEPT !.status = "completed", !.completed = TRUE,
                      !.note = Written(r.note, ses[s].task.note, now.note)]]
     /\ Record(r.case, <<[type |-> "task_completed", task |-> r.task]>>)
     /\ racedTasks' = WithRace(racedTasks, r.task, TRUE, ses[s].task, now)
     /\ Finish(s) /\ UNCHANGED <<cases, racedCases>>

(* The process dies, the client goes, the database refuses. *)
Lost(s) ==
  /\ ses[s] # Idle /\ ses' = [ses EXCEPT ![s] = Idle]
  /\ UNCHANGED <<cases, tasks, events, commits, raced>>

Handler(s) ==
  \/ \E r \in Requests : BeginCreate(s, r)
  \/ \E r \in Requests : BeginOnCase(s, r)
  \/ \E r \in Requests : BeginUpdateTask(s, r)
  \/ \E r \in Requests : BeginComplete(s, r)
  \/ \E c \in Cases : CommitCreate(s, c)
  \/ CommitUpdate(s) \/ CommitContact(s)
  \/ \E t \in Tasks : CommitCreateTask(s, t)
  \/ CommitUpdateTask(s) \/ CommitComplete(s) \/ Lost(s)

Next == \E s \in Sessions : Handler(s)

Spec == Init /\ [][Next]_vars
-----------------------------------------------------------------------------
(* What follows holds however requests overlap, of every case and task     *)
(* that is not raced: as long as nobody sets the status of a row which     *)
(* meanwhile has another status, overlapping edits of its other columns,   *)
(* overlapping contacts and requests that are lost do no harm.             *)

(* A case has resolved_at exactly while it is resolved, through closing,   *)
(* reopening and contacts (update_intervention, add_contact).              *)
ResolvedAtMatchesStatus ==
  \A c \in Cases \ racedCases :
    cases[c] # None => (cases[c].resolved <=> cases[c].status = "resolved")

(* The timeline tells the whole story of a case's status: it begins open,  *)
(* every change starts where the one before ended, the last one ends where *)
(* the case is (record_intervention_event, beside every write of status).  *)
Changes(e) == {i \in DOMAIN e : e[i].type = "status_changed"}

Explains(e, status) ==
  /\ \A i \in Changes(e) : \/ \E j \in Changes(e) : j < i
                           \/ e[i].from = "open"
  /\ \A i, j \in Changes(e) : i < j => \/ \E k \in Changes(e) : i < k /\ k < j
                                       \/ e[i].to = e[j].from
  /\ \A i \in Changes(e) : (\E j \in Changes(e) : i < j) \/ e[i].to = status
  /\ Changes(e) = {} => status = "open"

TrailExplainsStatus ==
  \A c \in Cases \ racedCases :
    IF cases[c] = None THEN events[c] = << >> ELSE Explains(events[c], cases[c].status)

(* completed_at is set exactly while a task is completed, and a note is    *)
(* that of a completion (update_task, complete_task).                      *)
CompletionMatches ==
  \A t \in Tasks \ racedTasks : tasks[t] # None =>
    /\ tasks[t].completed <=> tasks[t].status = "completed"
    /\ tasks[t].note # None => tasks[t].completed

(* "Completed or cancelled tasks cannot be reopened" (update_task).        *)
TerminalTasksStayTerminal ==
  [][\A t \in Tasks \ racedTasks' : tasks[t] # None /\ tasks[t].status \in Terminal =>
                        tasks'[t] # None /\ tasks'[t].status \in Terminal]_vars

(* No task is reported completed twice, in any timeline (complete_task).   *)
CompletedOnce ==
  \A c, d \in Cases : \A i \in DOMAIN events[c], j \in DOMAIN events[d] :
    /\ events[c][i].type = "task_completed" /\ events[d][j].type = "task_completed"
    /\ events[c][i].task = events[d][j].task /\ events[c][i].task \notin racedTasks
    => c = d /\ i = j

(* "An open intervention case already exists for this student": a student  *)
(* has at most one active case (create_intervention).                      *)
OneActiveCase ==
  \A c, d \in Cases :
    /\ cases[c] # None /\ cases[d] # None /\ cases[c].student = cases[d].student
    /\ cases[c].status \in Active /\ cases[d].status \in Active
    => c = d
=============================================================================
