-------------------------- MODULE InterventionsProofs --------------------------
(***************************************************************************)
(* Proofs about Interventions, for any students, cases, tasks and requests:*)
(* for any number of sessions, type correctness and what the timeline, the *)
(* timestamps and the terminal states promise of rows that are not raced.  *)
(***************************************************************************)
EXTENDS Interventions, SequenceTheorems, TLAPS

OnCase == {"update", "contact", "create_task"}
OnTask == {"update_task", "complete"}

(* What a request in progress has read is there, then and now. *)
Loaded ==
  \A s \in Sessions : ses[s].req # None =>
    /\ ses[s].req.op \in OnCase =>
         /\ ses[s].row \in CaseRow /\ cases[ses[s].req.case] \in CaseRow
    /\ ses[s].req.op \in OnTask =>
         /\ ses[s].task \in TaskRow /\ tasks[ses[s].req.task] \in TaskRow
         /\ tasks[ses[s].req.task].case = ses[s].req.case
         /\ cases[ses[s].req.case] \in CaseRow

TypeInv == TypeOK /\ Loaded

-----------------------------------------------------------------------------
(* The fields of a request follow from its operation. *)
LEMMA Shapes ==
  ASSUME NEW r \in AllRequests
  PROVE  /\ r.op \in {"create"} \cup OnCase \cup OnTask
         /\ r.op = "create" => r.student \in Students /\ r.owner \in Opt(Staff)
         /\ r.op \in OnCase \cup OnTask => r.case \in Cases
         /\ r.op \in OnTask => r.task \in Tasks
         /\ r.op = "update" => /\ r.status \in Opt(CaseStatus) /\ r.owner \in Opt(Staff)
                               /\ r.clear \in BOOLEAN
         /\ r.op = "create_task" => /\ r.by \in Staff /\ r.assignee \in Opt(Staff)
                                    /\ r.visibility \in Visibility
         /\ r.op = "update_task" =>
              /\ r.status \in Opt(TaskStatus) /\ r.assignee \in Opt(Staff)
              /\ r.clear \in BOOLEAN /\ r.visibility \in Opt(Visibility)
         /\ r.op = "complete" => r.note \in Opt(Notes)
<1>1. CASE r \in [op: {"create"}, by: Staff, student: Students, owner: Opt(Staff)]
  BY <1>1 DEF OnCase, OnTask
<1>2. CASE r \in [op: {"update"}, by: Staff, case: Cases, status: Opt(CaseStatus),
                  owner: Opt(Staff), clear: BOOLEAN]
  BY <1>2 DEF OnCase, OnTask
<1>3. CASE r \in [op: {"contact"}, by: Staff, case: Cases]
  BY <1>3 DEF OnCase, OnTask
<1>4. CASE r \in [op: {"create_task"}, by: Staff, case: Cases, assignee: Opt(Staff),
                  visibility: Visibility]
  BY <1>4 DEF OnCase, OnTask
<1>5. CASE r \in [op: {"update_task"}, by: Staff, case: Cases, task: Tasks,
                  status: Opt(TaskStatus), assignee: Opt(Staff), clear: BOOLEAN,
                  visibility: Opt(Visibility)]
  BY <1>5 DEF OnCase, OnTask
<1>6. CASE r \in [op: {"complete"}, by: Staff, case: Cases, task: Tasks, note: Opt(Notes)]
  BY <1>6 DEF OnCase, OnTask
<1> QED BY <1>1, <1>2, <1>3, <1>4, <1>5, <1>6 DEF AllRequests

(* The lists of events the handlers append. *)
LEMMA EventLists ==
  /\ \A k \in {"case_created", "guardian_contacted", "case_closed"} : [type |-> k] \in Event
  /\ \A k \in {"task_created", "task_completed"}, t \in Tasks :
       [type |-> k, task |-> t] \in Event
  /\ \A from, to \in CaseStatus : StatusEvents(from, to) \in Seq(Event)
  /\ \A from, to \in Opt(Staff) : OwnerEvents(from, to) \in Seq(Event)
<1>1. \A k \in {"case_created", "guardian_contacted", "case_closed"} : [type |-> k] \in Event
  BY DEF Event
<1>2. \A k \in {"task_created", "task_completed"}, t \in Tasks :
        [type |-> k, task |-> t] \in Event
  BY DEF Event
<1>3. \A from, to \in CaseStatus :
        [type |-> "status_changed", from |-> from, to |-> to] \in Event
  BY DEF Event
<1>4. \A from, to \in Opt(Staff) :
        [type |-> "owner_changed", from |-> from, to |-> to] \in Event
  BY DEF Event
<1>5. << >> \in Seq(Event) OBVIOUS
<1>6. \A x \in Event : <<x>> \in Seq(Event) OBVIOUS
<1>7. \A a, b \in Seq(Event) : a \o b \in Seq(Event) OBVIOUS
<1>8. ASSUME NEW from \in CaseStatus, NEW to \in CaseStatus
      PROVE  StatusEvents(from, to) \in Seq(Event)
  <2> DEFINE change == [type |-> "status_changed", from |-> from, to |-> to]
             close == IF to = "resolved" THEN <<[type |-> "case_closed"]>> ELSE << >>
  <2>1. <<change>> \in Seq(Event) BY <1>3, <1>6
  <2>2. [type |-> "case_closed"] \in Event BY <1>1
  <2>3. close \in Seq(Event) BY <1>5, <1>6, <2>2
  <2>4. StatusEvents(from, to) = IF from = to THEN << >> ELSE <<change>> \o close
    BY DEF StatusEvents
  <2> HIDE DEF change, close
  <2> QED BY <1>5, <1>7, <2>1, <2>3, <2>4
<1>9. ASSUME NEW from \in Opt(Staff), NEW to \in Opt(Staff)
      PROVE  OwnerEvents(from, to) \in Seq(Event)
  <2>1. <<[type |-> "owner_changed", from |-> from, to |-> to]>> \in Seq(Event)
    BY <1>4, <1>6
  <2> QED BY <1>5, <2>1 DEF OwnerEvents
<1> QED BY <1>1, <1>2, <1>8, <1>9

(* Rows that handlers write are rows. *)
LEMMA WrittenCase ==
  ASSUME NEW r \in AllRequests, r.op = "update", NEW seen \in CaseRow, NEW now \in CaseRow
  PROVE  /\ NewStatus(r, seen) \in CaseStatus /\ NewOwner(r, seen) \in Opt(Staff)
         /\ [student |-> now.student,
             status |-> Written(NewStatus(r, seen), seen.status, now.status),
             resolved |-> ResolvedAt(r, seen, now),
             owner |-> Written(NewOwner(r, seen), seen.owner, now.owner)] \in CaseRow
<1>1. /\ seen.status \in CaseStatus /\ seen.owner \in Opt(Staff)
      /\ now.status \in CaseStatus /\ now.owner \in Opt(Staff)
      /\ now.student \in Students /\ now.resolved \in BOOLEAN
  BY DEF CaseRow
<1>2. NewStatus(r, seen) \in CaseStatus
  BY <1>1, Shapes DEF NewStatus, Opt
<1>3. NewOwner(r, seen) \in Opt(Staff)
  BY <1>1, Shapes DEF NewOwner, Opt
<1>4. ResolvedAt(r, seen, now) \in BOOLEAN
  BY <1>1 DEF ResolvedAt
<1> QED BY <1>1, <1>2, <1>3, <1>4 DEF Written, CaseRow

LEMMA WrittenTask ==
  ASSUME NEW r \in AllRequests, r.op = "update_task", NEW seen \in TaskRow,
         NEW now \in TaskRow
  PROVE  /\ UpdatedTask(r, seen, now) \in TaskRow
         /\ UpdatedTask(r, seen, now).case = now.case
<1>1. /\ r.status \in Opt(TaskStatus) /\ r.assignee \in Opt(Staff)
      /\ r.visibility \in Opt(Visibility)
  BY Shapes
<1>2. /\ seen.status \in TaskStatus /\ seen.assignee \in Opt(Staff)
      /\ seen.visibility \in Visibility
      /\ now.status \in TaskStatus /\ now.assignee \in Opt(Staff)
      /\ now.visibility \in Visibility /\ now.note \in Opt(Notes)
      /\ now.completed \in BOOLEAN
  BY DEF TaskRow
<1>3. None \in Opt(Notes) /\ None \in Opt(Staff)
  BY DEF Opt
<1> DEFINE assignee == IF r.clear THEN None
                       ELSE IF r.assignee # None THEN r.assignee ELSE seen.assignee
           visibility == IF r.visibility # None THEN r.visibility ELSE seen.visibility
           status == IF r.status # None THEN r.status ELSE seen.status
           a == Written(assignee, seen.assignee, now.assignee)
           v == Written(visibility, seen.visibility, now.visibility)
           x == Written(status, seen.status, now.status)
           d == IF Uncompletes(r, seen) THEN FALSE
                ELSE r.status = "completed" \/ now.completed
           n == IF Uncompletes(r, seen) THEN Written(None, seen.note, now.note) ELSE now.note
<1>4. a \in Opt(Staff) BY <1>1, <1>2, <1>3 DEF Written
<1>5. v \in Visibility BY <1>1, <1>2 DEF Written, Opt
<1>6. x \in TaskStatus BY <1>1, <1>2 DEF Written, Opt
<1>7. d \in BOOLEAN BY <1>2
<1>8. n \in Opt(Notes) BY <1>2, <1>3 DEF Written
<1>9. UpdatedTask(r, seen, now) =
        [now EXCEPT !.assignee = a, !.visibility = v, !.status = x, !.completed = d,
                    !.note = n]
  BY DEF UpdatedTask
<1> HIDE DEF a, v, x, d, n
<1> HIDE DEF assignee, visibility, status
<1>10. UpdatedTask(r, seen, now) =
         [case |-> now.case, status |-> x, completed |-> d, note |-> n,
          assignee |-> a, creator |-> now.creator, visibility |-> v]
  BY <1>9 DEF TaskRow
<1>11. now.case \in Cases /\ now.creator \in Staff BY DEF TaskRow
<1>12. UpdatedTask(r, seen, now) \in TaskRow
  BY <1>4, <1>5, <1>6, <1>7, <1>8, <1>10, <1>11 DEF TaskRow
<1>13. UpdatedTask(r, seen, now).case = now.case BY <1>10
<1> QED BY <1>12, <1>13

(* None is no row and no request. *)
LEMMA NoneDiffers ==
  /\ None \notin CaseRow /\ None \notin TaskRow /\ None \notin AllRequests
  /\ None \notin Requests /\ Requests \subseteq AllRequests
BY InterventionsAssumption

-----------------------------------------------------------------------------
(* Every step keeps the types. *)
LEMMA TypeInit == Init => TypeInv
<1> SUFFICES ASSUME Init PROVE TypeInv OBVIOUS
<1>1. 0 \in 0..MaxCommits BY InterventionsAssumption
<1>2. TypeOK BY <1>1 DEF Init, TypeOK, Opt, Idle, Session
<1>3. Loaded BY DEF Init, Loaded, Idle
<1> QED BY <1>2, <1>3 DEF TypeInv

(* A first half changes one session only, and loads what exists. *)
LEMMA StartKeepsTypes ==
  ASSUME TypeInv, NEW s \in Sessions, NEW r \in Requests, NEW row, NEW task,
         Start(s, r, row, task),
         row \in Opt(CaseRow), task \in Opt(TaskRow),
         r.op \in OnCase => row \in CaseRow /\ cases[r.case] \in CaseRow,
         r.op \in OnTask => /\ task \in TaskRow /\ tasks[r.task] \in TaskRow
                            /\ tasks[r.task].case = r.case /\ cases[r.case] \in CaseRow
  PROVE  TypeInv'
<1>1. TypeOK /\ Loaded BY DEF TypeInv
<1>2. ses' = [ses EXCEPT ![s] = [req |-> r, row |-> row, task |-> task]]
  BY DEF Start
<1>3. ses \in [Sessions -> Session] BY <1>1 DEF TypeOK
<1>4. [req |-> r, row |-> row, task |-> task] \in Session BY DEF Session, Opt
<1>5. ses' \in [Sessions -> Session] BY <1>2, <1>3, <1>4
<1>6. TypeOK' BY <1>1, <1>5 DEF TypeOK, Start, raced
<1>7. ASSUME NEW x \in Sessions, ses'[x].req # None
      PROVE  /\ ses'[x].req.op \in OnCase =>
                  /\ ses'[x].row \in CaseRow /\ cases[ses'[x].req.case] \in CaseRow
             /\ ses'[x].req.op \in OnTask =>
                  /\ ses'[x].task \in TaskRow /\ tasks[ses'[x].req.task] \in TaskRow
                  /\ tasks[ses'[x].req.task].case = ses'[x].req.case
                  /\ cases[ses'[x].req.case] \in CaseRow
  <2>1. CASE x = s
    <3>1. ses'[x] = [req |-> r, row |-> row, task |-> task] BY <1>2, <1>3, <2>1
    <3> QED BY <3>1
  <2>2. CASE x # s
    <3>1. ses'[x] = ses[x] BY <1>2, <1>3, <2>2
    <3> QED BY <3>1, <1>1, <1>7 DEF Loaded
  <2> QED BY <2>1, <2>2
<1>8. Loaded' BY <1>7 DEF Loaded, Start
<1> QED BY <1>6, <1>8 DEF TypeInv

(* A second half, or a loss, leaves the session idle. *)
LEMMA EndKeepsTypes ==
  ASSUME TypeInv, NEW s \in Sessions, ses' = [ses EXCEPT ![s] = Idle],
         cases' \in [Cases -> Opt(CaseRow)], tasks' \in [Tasks -> Opt(TaskRow)],
         events' \in [Cases -> Seq(Event)], commits' \in 0..MaxCommits,
         racedCases' \subseteq Cases, racedTasks' \subseteq Tasks,
         \A c \in Cases : cases[c] \in CaseRow => cases'[c] \in CaseRow,
         \A t \in Tasks : tasks[t] \in TaskRow =>
                            tasks'[t] \in TaskRow /\ tasks'[t].case = tasks[t].case
  PROVE  TypeInv'
<1>1. TypeOK /\ Loaded BY DEF TypeInv
<1>2. ses \in [Sessions -> Session] BY <1>1 DEF TypeOK
<1>3. Idle \in Session BY DEF Idle, Session, Opt
<1>4. ses' \in [Sessions -> Session] BY <1>2, <1>3
<1>5. TypeOK' BY <1>4 DEF TypeOK
<1>6. ASSUME NEW x \in Sessions, ses'[x].req # None
      PROVE  /\ ses'[x].req.op \in OnCase =>
                  /\ ses'[x].row \in CaseRow /\ cases'[ses'[x].req.case] \in CaseRow
             /\ ses'[x].req.op \in OnTask =>
                  /\ ses'[x].task \in TaskRow /\ tasks'[ses'[x].req.task] \in TaskRow
                  /\ tasks'[ses'[x].req.task].case = ses'[x].req.case
                  /\ cases'[ses'[x].req.case] \in CaseRow
  <2>1. x # s BY <1>2, <1>6 DEF Idle
  <2>2. ses'[x] = ses[x] BY <1>2, <2>1
  <2>3. ses[x].req \in AllRequests
    BY <1>2, <1>6, <2>2, NoneDiffers DEF Session, Opt
  <2>4. ses[x].req.op \in OnCase \cup OnTask => ses[x].req.case \in Cases
    BY <2>3, Shapes
  <2>5. ses[x].req.op \in OnTask => ses[x].req.task \in Tasks
    BY <2>3, Shapes
  <2>6. ses[x].req # None BY <1>6, <2>2
  <2>7. ses[x].req.op \in OnCase =>
          /\ ses[x].row \in CaseRow /\ cases[ses[x].req.case] \in CaseRow
    BY <1>1, <2>6 DEF Loaded
  <2>8. ses[x].req.op \in OnTask =>
          /\ ses[x].task \in TaskRow /\ tasks[ses[x].req.task] \in TaskRow
          /\ tasks[ses[x].req.task].case = ses[x].req.case
          /\ cases[ses[x].req.case] \in CaseRow
    BY <1>1, <2>6 DEF Loaded
  <2> QED BY <2>2, <2>4, <2>5, <2>7, <2>8
<1>7. Loaded' BY <1>6 DEF Loaded
<1> QED BY <1>5, <1>7 DEF TypeInv

(* The request a session is handling, with its rows. *)
LEMMA InProgress ==
  ASSUME TypeInv, NEW s \in Sessions, ses[s].req # None
  PROVE  /\ ses[s].req \in AllRequests
         /\ ses[s].req.op \in OnCase =>
              /\ ses[s].req.case \in Cases
              /\ ses[s].row \in CaseRow /\ cases[ses[s].req.case] \in CaseRow
         /\ ses[s].req.op \in OnTask =>
              /\ ses[s].req.case \in Cases /\ ses[s].req.task \in Tasks
              /\ ses[s].task \in TaskRow /\ tasks[ses[s].req.task] \in TaskRow
              /\ tasks[ses[s].req.task].case = ses[s].req.case
              /\ cases[ses[s].req.case] \in CaseRow
<1>1. TypeOK /\ Loaded BY DEF TypeInv
<1>2. ses[s].req \in AllRequests
  BY <1>1, NoneDiffers DEF TypeOK, Session, Opt
<1> QED BY <1>1, <1>2, Shapes DEF Loaded

LEMMA FinishedCount ==
  ASSUME TypeInv, NEW s \in Sessions, Finish(s)
  PROVE  commits' \in 0..MaxCommits /\ ses' = [ses EXCEPT ![s] = Idle]
<1>1. commits \in 0..MaxCommits /\ MaxCommits \in Nat
  BY InterventionsAssumption DEF TypeInv, TypeOK
<1>2. commits < MaxCommits /\ commits' = commits + 1 /\ ses' = [ses EXCEPT ![s] = Idle]
  BY DEF Finish
<1> QED BY <1>1, <1>2

LEMMA RecordedEvents ==
  ASSUME TypeInv, NEW c \in Cases, NEW list \in Seq(Event), Record(c, list)
  PROVE  events' \in [Cases -> Seq(Event)]
<1>1. events \in [Cases -> Seq(Event)] BY DEF TypeInv, TypeOK
<1>2. events[c] \o list \in Seq(Event) BY <1>1
<1> QED BY <1>1, <1>2 DEF Record

(* What each second half writes, in the rows' terms. *)
LEMMA CreateEffect ==
  ASSUME TypeInv, NEW s \in Sessions, NEW c \in Cases, CommitCreate(s, c)
  PROVE  /\ cases[c] = None
         /\ \E row \in CaseRow : /\ row.status = "open" /\ row.resolved = FALSE
                                 /\ cases' = [cases EXCEPT ![c] = row]
         /\ Record(c, <<[type |-> "case_created"]>>) /\ Finish(s) /\ tasks' = tasks
         /\ UNCHANGED raced
<1> DEFINE r == ses[s].req
           row == [student |-> r.student, status |-> "open", resolved |-> FALSE,
                   owner |-> r.owner]
<1>1. r # None /\ r.op = "create" BY DEF CommitCreate
<1>2. r \in AllRequests BY <1>1, InProgress
<1>3. r.student \in Students /\ r.owner \in Opt(Staff) BY <1>1, <1>2, Shapes
<1>4. row \in CaseRow BY <1>3 DEF CaseRow, CaseStatus, Active
<1>5. cases' = [cases EXCEPT ![c] = row] BY DEF CommitCreate
<1>6. row.status = "open" /\ row.resolved = FALSE OBVIOUS
<1> HIDE DEF row
<1> QED BY <1>4, <1>5, <1>6 DEF CommitCreate

LEMMA ContactList ==
  ASSUME NEW seen \in CaseRow
  PROVE  ContactEvents(seen) \in Seq(Event)
<1>1. <<[type |-> "guardian_contacted"]>> \in Seq(Event) BY EventLists
<1>2. StatusEvents("open", "in_progress") \in Seq(Event)
  BY EventLists DEF CaseStatus, Active
<1> QED BY <1>1, <1>2 DEF ContactEvents

(* Every step keeps the types. *)
LEMMA TypeStep ==
  ASSUME TypeInv, NEW s \in Sessions, Handler(s)
  PROVE  TypeInv'
<1>1. TypeOK /\ Loaded BY DEF TypeInv
<1>2. /\ cases \in [Cases -> Opt(CaseRow)] /\ tasks \in [Tasks -> Opt(TaskRow)]
      /\ events \in [Cases -> Seq(Event)] /\ commits \in 0..MaxCommits
      /\ racedCases \subseteq Cases /\ racedTasks \subseteq Tasks
  BY <1>1 DEF TypeOK
<1>3. ASSUME NEW r \in Requests
      PROVE  r \in AllRequests /\ None \in Opt(CaseRow) /\ None \in Opt(TaskRow)
  BY NoneDiffers DEF Opt
<1>4. ASSUME NEW u, NEW c \in Cases, SeesCase(u, c)
      PROVE  cases[c] \in CaseRow
  BY <1>2, <1>4 DEF SeesCase, Opt
<1>5. ASSUME NEW u, NEW c \in Cases, NEW t \in Tasks, SeesTask(u, c, t)
      PROVE  tasks[t] \in TaskRow /\ tasks[t].case = c /\ cases[c] \in CaseRow
  BY <1>2, <1>4, <1>5 DEF SeesTask, Opt
<1>6. ASSUME NEW r \in Requests, BeginCreate(s, r)
      PROVE  TypeInv'
  <2>1. r.op = "create" /\ Start(s, r, None, None) BY <1>6 DEF BeginCreate
  <2> QED BY <2>1, <1>3, StartKeepsTypes DEF OnCase, OnTask
<1>7. ASSUME NEW r \in Requests, BeginOnCase(s, r)
      PROVE  TypeInv'
  <2>1. r.op \in OnCase /\ SeesCase(r.by, r.case) /\ Start(s, r, cases[r.case], None)
    BY <1>7 DEF BeginOnCase, OnCase
  <2>2. r.case \in Cases BY <2>1, <1>3, Shapes
  <2>3. cases[r.case] \in CaseRow BY <2>1, <2>2, <1>4
  <2>4. r.op \notin OnTask BY <2>1 DEF OnCase, OnTask
  <2>5. cases[r.case] \in Opt(CaseRow) BY <2>3 DEF Opt
  <2> QED BY <2>1, <2>3, <2>4, <2>5, <1>3, StartKeepsTypes
<1>8. ASSUME NEW r \in Requests, BeginUpdateTask(s, r) \/ BeginComplete(s, r)
      PROVE  TypeInv'
  <2>1. /\ r.op \in OnTask /\ SeesTask(r.by, r.case, r.task)
        /\ Start(s, r, None, tasks[r.task])
    BY <1>8 DEF BeginUpdateTask, BeginComplete, OnTask
  <2>2. r.case \in Cases /\ r.task \in Tasks BY <2>1, <1>3, Shapes
  <2>3. /\ tasks[r.task] \in TaskRow /\ tasks[r.task].case = r.case
        /\ cases[r.case] \in CaseRow
    BY <2>1, <2>2, <1>5
  <2>4. r.op \notin OnCase BY <2>1 DEF OnCase, OnTask
  <2>5. tasks[r.task] \in Opt(TaskRow) BY <2>3 DEF Opt
  <2> QED BY <2>1, <2>3, <2>4, <2>5, <1>3, StartKeepsTypes
<1>9. ASSUME NEW c \in Cases, CommitCreate(s, c)
      PROVE  TypeInv'
  <2>1. PICK row \in CaseRow : cases' = [cases EXCEPT ![c] = row]
    BY <1>9, CreateEffect
  <2>2. /\ Record(c, <<[type |-> "case_created"]>>) /\ Finish(s) /\ tasks' = tasks
        /\ racedCases' = racedCases /\ racedTasks' = racedTasks
    BY <1>9, CreateEffect DEF raced
  <2>3. <<[type |-> "case_created"]>> \in Seq(Event) BY EventLists
  <2>4. /\ cases' \in [Cases -> Opt(CaseRow)]
        /\ \A x \in Cases : cases[x] \in CaseRow => cases'[x] \in CaseRow
    BY <2>1, <1>2 DEF Opt
  <2>5. events' \in [Cases -> Seq(Event)] BY <2>2, <2>3, RecordedEvents
  <2>6. commits' \in 0..MaxCommits /\ ses' = [ses EXCEPT ![s] = Idle]
    BY <2>2, FinishedCount
  <2> QED BY <2>2, <2>4, <2>5, <2>6, <1>2, EndKeepsTypes
<1>10. ASSUME CommitUpdate(s)
       PROVE  TypeInv'
  <2> DEFINE r == ses[s].req
             seen == ses[s].row
             now == cases[r.case]
             row == [student |-> now.student,
                     status |-> Written(NewStatus(r, seen), seen.status, now.status),
                     resolved |-> ResolvedAt(r, seen, now),
                     owner |-> Written(NewOwner(r, seen), seen.owner, now.owner)]
             list == OwnerEvents(seen.owner, NewOwner(r, seen))
                     \o StatusEvents(seen.status, NewStatus(r, seen))
  <2>1. r # None /\ r.op = "update" BY <1>10 DEF CommitUpdate
  <2>2. r \in AllRequests /\ r.case \in Cases /\ seen \in CaseRow /\ now \in CaseRow
    BY <2>1, InProgress DEF OnCase
  <2>3. /\ cases' = [cases EXCEPT ![r.case] = row] /\ Record(r.case, list)
        /\ Finish(s) /\ tasks' = tasks /\ racedTasks' = racedTasks
        /\ racedCases' = WithRace(racedCases, r.case, r.status # None, seen, now)
    BY <1>10 DEF CommitUpdate
  <2>4. /\ row \in CaseRow /\ NewStatus(r, seen) \in CaseStatus
        /\ NewOwner(r, seen) \in Opt(Staff)
    BY <2>1, <2>2, WrittenCase
  <2>5. seen.status \in CaseStatus /\ seen.owner \in Opt(Staff) BY <2>2 DEF CaseRow
  <2>6. list \in Seq(Event)
    <3>1. OwnerEvents(seen.owner, NewOwner(r, seen)) \in Seq(Event)
      BY <2>4, <2>5, EventLists
    <3>2. StatusEvents(seen.status, NewStatus(r, seen)) \in Seq(Event)
      BY <2>4, <2>5, EventLists
    <3> QED BY <3>1, <3>2
  <2> HIDE DEF row, list
  <2>7. events' \in [Cases -> Seq(Event)] BY <2>2, <2>3, <2>6, RecordedEvents
  <2>8. /\ cases' \in [Cases -> Opt(CaseRow)]
        /\ \A x \in Cases : cases[x] \in CaseRow => cases'[x] \in CaseRow
    BY <2>3, <2>4, <1>2 DEF Opt
  <2>9. commits' \in 0..MaxCommits /\ ses' = [ses EXCEPT ![s] = Idle]
    BY <2>3, FinishedCount
  <2>10. racedCases' \subseteq Cases BY <1>2, <2>2, <2>3 DEF WithRace
  <2> QED BY <2>3, <2>7, <2>8, <2>9, <2>10, <1>2, EndKeepsTypes
<1>11. ASSUME CommitContact(s)
       PROVE  TypeInv'
  <2> DEFINE r == ses[s].req
             seen == ses[s].row
  <2>1. r # None /\ r.op = "contact" BY <1>11 DEF CommitContact
  <2>2. r.case \in Cases /\ seen \in CaseRow /\ cases[r.case] \in CaseRow
    BY <2>1, InProgress DEF OnCase
  <2>3. /\ cases' = IF seen.status = "open"
                    THEN [cases EXCEPT ![r.case].status = "in_progress"] ELSE cases
        /\ Record(r.case, ContactEvents(seen)) /\ Finish(s) /\ tasks' = tasks
        /\ racedTasks' = racedTasks
        /\ racedCases' =
             WithRace(racedCases, r.case, seen.status = "open", seen, cases[r.case])
    BY <1>11 DEF CommitContact
  <2>4. [cases[r.case] EXCEPT !.status = "in_progress"] \in CaseRow
    BY <2>2 DEF CaseRow, CaseStatus, Active
  <2>5. /\ cases' \in [Cases -> Opt(CaseRow)]
        /\ \A x \in Cases : cases[x] \in CaseRow => cases'[x] \in CaseRow
    <3>1. CASE seen.status = "open"
      <4>1. cases' = [cases EXCEPT ![r.case] =
                        [cases[r.case] EXCEPT !.status = "in_progress"]]
        BY <2>3, <3>1
      <4> QED BY <4>1, <2>2, <2>4, <1>2 DEF Opt
    <3>2. CASE seen.status # "open"
      BY <2>3, <3>2, <1>2
    <3> QED BY <3>1, <3>2
  <2>6. events' \in [Cases -> Seq(Event)]
    BY <2>2, <2>3, ContactList, RecordedEvents
  <2>7. commits' \in 0..MaxCommits /\ ses' = [ses EXCEPT ![s] = Idle]
    BY <2>3, FinishedCount
  <2>8. racedCases' \subseteq Cases BY <1>2, <2>2, <2>3 DEF WithRace
  <2> QED BY <2>3, <2>5, <2>6, <2>7, <2>8, <1>2, EndKeepsTypes
<1>12. ASSUME NEW t \in Tasks, CommitCreateTask(s, t)
       PROVE  TypeInv'
  <2> DEFINE r == ses[s].req
  <2>1. r # None /\ r.op = "create_task" BY <1>12 DEF CommitCreateTask
  <2>2. r \in AllRequests /\ r.case \in Cases BY <2>1, InProgress DEF OnCase
  <2>3. /\ tasks[t] = None /\ tasks' = [tasks EXCEPT ![t] = NewTask(r)]
        /\ Record(r.case, <<[type |-> "task_created", task |-> t]>>)
        /\ Finish(s) /\ cases' = cases
        /\ racedCases' = racedCases /\ racedTasks' = racedTasks
    BY <1>12 DEF CommitCreateTask, raced
  <2>4. r.by \in Staff /\ r.assignee \in Opt(Staff) /\ r.visibility \in Visibility
    BY <2>1, <2>2, Shapes
  <2>5. NewTask(r) \in TaskRow
    BY <2>2, <2>4 DEF NewTask, TaskRow, TaskStatus, Active, Opt
  <2>6. /\ tasks' \in [Tasks -> Opt(TaskRow)]
        /\ \A x \in Tasks : tasks[x] \in TaskRow =>
                              tasks'[x] \in TaskRow /\ tasks'[x].case = tasks[x].case
    BY <2>3, <2>5, <1>2, NoneDiffers DEF Opt
  <2>7. <<[type |-> "task_created", task |-> t]>> \in Seq(Event) BY EventLists
  <2>8. events' \in [Cases -> Seq(Event)] BY <2>2, <2>3, <2>7, RecordedEvents
  <2>9. commits' \in 0..MaxCommits /\ ses' = [ses EXCEPT ![s] = Idle]
    BY <2>3, FinishedCount
  <2> QED BY <2>3, <2>6, <2>8, <2>9, <1>2, EndKeepsTypes
<1>13. ASSUME CommitUpdateTask(s)
       PROVE  TypeInv'
  <2> DEFINE r == ses[s].req
             now == tasks[r.task]
  <2>1. r # None /\ r.op = "update_task" BY <1>13 DEF CommitUpdateTask
  <2>2. r \in AllRequests /\ r.task \in Tasks /\ ses[s].task \in TaskRow /\ now \in TaskRow
    BY <2>1, InProgress DEF OnTask
  <2>3. /\ tasks' = [tasks EXCEPT ![r.task] = UpdatedTask(r, ses[s].task, now)]
        /\ Finish(s) /\ cases' = cases /\ events' = events /\ racedCases' = racedCases
        /\ racedTasks' = WithRace(racedTasks, r.task, r.status # None, ses[s].task, now)
    BY <1>13 DEF CommitUpdateTask
  <2>4. /\ UpdatedTask(r, ses[s].task, now) \in TaskRow
        /\ UpdatedTask(r, ses[s].task, now).case = now.case
    BY <2>1, <2>2, WrittenTask
  <2>5. /\ tasks' \in [Tasks -> Opt(TaskRow)]
        /\ \A x \in Tasks : tasks[x] \in TaskRow =>
                              tasks'[x] \in TaskRow /\ tasks'[x].case = tasks[x].case
    BY <2>3, <2>4, <1>2 DEF Opt
  <2>6. commits' \in 0..MaxCommits /\ ses' = [ses EXCEPT ![s] = Idle]
    BY <2>3, FinishedCount
  <2>7. racedTasks' \subseteq Tasks BY <1>2, <2>2, <2>3 DEF WithRace
  <2> QED BY <2>3, <2>5, <2>6, <2>7, <1>2, EndKeepsTypes
<1>14. ASSUME CommitComplete(s)
       PROVE  TypeInv'
  <2> DEFINE r == ses[s].req
             now == tasks[r.task]
             note == Written(r.note, ses[s].task.note, now.note)
             row == [now EXCEPT !.status = "completed", !.completed = TRUE, !.note = note]
  <2>1. r # None /\ r.op = "complete" BY <1>14 DEF CommitComplete
  <2>2. /\ r \in AllRequests /\ r.case \in Cases /\ r.task \in Tasks
        /\ ses[s].task \in TaskRow /\ now \in TaskRow
    BY <2>1, InProgress DEF OnTask
  <2>3. /\ tasks' = [tasks EXCEPT ![r.task] = row]
        /\ Record(r.case, <<[type |-> "task_completed", task |-> r.task]>>)
        /\ Finish(s) /\ cases' = cases /\ racedCases' = racedCases
        /\ racedTasks' = WithRace(racedTasks, r.task, TRUE, ses[s].task, now)
    BY <1>14 DEF CommitComplete
  <2>4. note \in Opt(Notes)
    <3>1. r.note \in Opt(Notes) BY <2>1, <2>2, Shapes
    <3>2. now.note \in Opt(Notes) BY <2>2 DEF TaskRow
    <3> QED BY <3>1, <3>2 DEF Written
  <2> HIDE DEF note
  <2>5. row \in TaskRow /\ row.case = now.case
    BY <2>2, <2>4 DEF TaskRow, TaskStatus, Terminal
  <2> HIDE DEF row
  <2>6. /\ tasks' \in [Tasks -> Opt(TaskRow)]
        /\ \A x \in Tasks : tasks[x] \in TaskRow =>
                              tasks'[x] \in TaskRow /\ tasks'[x].case = tasks[x].case
    BY <2>2, <2>3, <2>5, <1>2 DEF Opt
  <2>7. <<[type |-> "task_completed", task |-> r.task]>> \in Seq(Event)
    BY <2>2, EventLists
  <2>8. events' \in [Cases -> Seq(Event)] BY <2>2, <2>3, <2>7, RecordedEvents
  <2>9. commits' \in 0..MaxCommits /\ ses' = [ses EXCEPT ![s] = Idle]
    BY <2>3, FinishedCount
  <2>10. racedTasks' \subseteq Tasks BY <1>2, <2>2, <2>3 DEF WithRace
  <2> QED BY <2>3, <2>6, <2>8, <2>9, <2>10, <1>2, EndKeepsTypes
<1>15. ASSUME Lost(s)
       PROVE  TypeInv'
  <2>1. /\ ses' = [ses EXCEPT ![s] = Idle] /\ UNCHANGED <<cases, tasks, events, commits>>
        /\ racedCases' = racedCases /\ racedTasks' = racedTasks
    BY <1>15 DEF Lost, raced
  <2> QED BY <2>1, <1>2, EndKeepsTypes
<1> QED
  BY <1>6, <1>7, <1>8, <1>9, <1>10, <1>11, <1>12, <1>13, <1>14, <1>15 DEF Handler

LEMMA TypeStutter == ASSUME TypeInv, UNCHANGED vars PROVE TypeInv'
BY DEF TypeInv, TypeOK, Loaded, vars, raced

(* Every reachable state is well typed, and what a request has read exists *)
(* as long as it is handled, for any number of sessions.                   *)
THEOREM InterventionsTypeCorrect == Spec => []TypeOK
<1>1. Init => TypeInv BY TypeInit
<1>2. TypeInv /\ [Next]_vars => TypeInv'
  BY TypeStep, TypeStutter DEF Next
<1>3. TypeInv => TypeOK BY DEF TypeInv
<1> QED BY <1>1, <1>2, <1>3, PTL DEF Spec

-----------------------------------------------------------------------------
(***************************************************************************)
(* However requests overlap.                                               *)
(***************************************************************************)
(* A row's own columns. *)
CaseMatches(row) == row.resolved <=> row.status = "resolved"

Matches(row) ==
  /\ row.completed <=> row.status = "completed"
  /\ row.note # None => row.completed

(* What a request has read was right of itself.  If it read a task that is *)
(* over, the task is over still, and has not been given a note since.      *)
ReadTask(seen, now) ==
  /\ Matches(seen)
  /\ seen.status \in Terminal =>
       now.status \in Terminal /\ (seen.note = None => now.note = None)

Reads ==
  \A s \in Sessions : ses[s].req # None =>
    /\ ses[s].req.op \in OnCase /\ ses[s].req.case \notin racedCases
         => CaseMatches(ses[s].row)
    /\ ses[s].req.op \in OnTask /\ ses[s].req.task \notin racedTasks
         => ReadTask(ses[s].task, tasks[ses[s].req.task])
    /\ ses[s].req.op = "update_task" /\ ses[s].task.status \in Terminal
         => ses[s].req.status \in Opt(Terminal)
    /\ ses[s].req.op = "complete" => ses[s].task.status \notin Terminal

(* A task that was reported completed is terminal. *)
Reported ==
  \A c \in Cases : \A i \in DOMAIN events[c] : events[c][i].type = "task_completed" =>
    /\ events[c][i].task \in Tasks /\ tasks[events[c][i].task] # None
    /\ events[c][i].task \in racedTasks \/ tasks[events[c][i].task].status \in Terminal

CaseInv == ResolvedAtMatchesStatus /\ TrailExplainsStatus
TaskInv == CompletionMatches /\ Reported /\ CompletedOnce
RaceInv == TypeInv /\ Reads /\ CaseInv /\ TaskInv

-----------------------------------------------------------------------------
(* Timelines.  A list is quiet if it changes no status.                    *)
Quiet(list) == \A i \in DOMAIN list : list[i].type # "status_changed"
NoReport(list) == \A i \in DOMAIN list : list[i].type # "task_completed"

(* The one place after the end. *)
LEMMA NextPlace ==
  ASSUME NEW m \in Nat, NEW i \in 1..(m + 1), i > m
  PROVE  i \in Int /\ i = m + 1
  OBVIOUS

LEMMA Appended ==
  ASSUME NEW e \in Seq(Event), NEW list \in Seq(Event)
  PROVE  /\ e \o list \in Seq(Event)
         /\ DOMAIN e = 1..Len(e) /\ DOMAIN list = 1..Len(list)
         /\ Len(e) \in Nat /\ Len(list) \in Nat
         /\ DOMAIN (e \o list) = 1..(Len(e) + Len(list))
         /\ \A i \in DOMAIN e : i \in DOMAIN (e \o list) /\ (e \o list)[i] = e[i]
         /\ \A i \in DOMAIN (e \o list) : i \notin DOMAIN e =>
              /\ i > Len(e) /\ i - Len(e) \in DOMAIN list
              /\ (e \o list)[i] = list[i - Len(e)]
<1>1. /\ DOMAIN e = 1..Len(e) /\ DOMAIN list = 1..Len(list)
      /\ Len(e) \in Nat /\ Len(list) \in Nat
  BY LenProperties
<1>2. e \o list \in Seq(Event) /\ Len(e \o list) = Len(e) + Len(list)
  BY ConcatProperties
<1>3. DOMAIN (e \o list) = 1..(Len(e) + Len(list))
  BY <1>2, LenProperties
<1>4. \A i \in 1..(Len(e) + Len(list)) :
        (e \o list)[i] = IF i <= Len(e) THEN e[i] ELSE list[i - Len(e)]
  BY ConcatProperties
<1>5. \A i \in DOMAIN e : i \in DOMAIN (e \o list) /\ (e \o list)[i] = e[i]
  BY <1>1, <1>3, <1>4
<1>6. \A i \in DOMAIN (e \o list) : i \notin DOMAIN e =>
        /\ i > Len(e) /\ i - Len(e) \in DOMAIN list
        /\ (e \o list)[i] = list[i - Len(e)]
  BY <1>1, <1>3, <1>4
<1> HIDE DEF Event
<1> QED BY <1>1, <1>2, <1>3, <1>5, <1>6

LEMMA Regrouped ==
  ASSUME NEW a \in Seq(Event), NEW b \in Seq(Event), NEW c \in Seq(Event)
  PROVE  (a \o b) \o c = a \o (b \o c)
BY ConcatAssociative

LEMMA QuietAppended ==
  ASSUME NEW e \in Seq(Event), NEW list \in Seq(Event), NEW x,
         Explains(e, x), Quiet(list)
  PROVE  Explains(e \o list, x)
<1> DEFINE f == e \o list
<1>1. \A i \in Changes(e) : i \in Changes(f) /\ f[i] = e[i]
  BY Appended DEF Changes
<1>2. \A i \in Changes(f) : i \in Changes(e)
  BY Appended DEF Changes, Quiet
<1> HIDE DEF f
<1>3. Changes(f) = Changes(e) BY <1>1, <1>2
<1>4. Explains(f, x) BY <1>1, <1>3 DEF Explains
<1> QED BY <1>4 DEF f

LEMMA ChangeAppended ==
  ASSUME NEW e \in Seq(Event), NEW a \in CaseStatus, NEW b \in CaseStatus, Explains(e, a)
  PROVE  Explains(e \o <<[type |-> "status_changed", from |-> a, to |-> b]>>, b)
<1> DEFINE change == [type |-> "status_changed", from |-> a, to |-> b]
           f == e \o <<change>>
           n == Len(e) + 1
<1>1. change \in Event /\ change.type = "status_changed" /\ change.from = a /\ change.to = b
  BY DEF Event
<1> HIDE DEF change
<1>2. <<change>> \in Seq(Event) /\ Len(<<change>>) = 1 /\ <<change>>[1] = change
  BY <1>1
<1>3. \A i \in Changes(e) : i \in Changes(f) /\ f[i] = e[i] /\ i < n /\ i \in Int
  BY <1>2, Appended DEF Changes
<1>4. n \in Changes(f) /\ f[n] = change /\ n \in Int
  <2>1. n \in DOMAIN f /\ n \notin DOMAIN e /\ n - Len(e) = 1 /\ n \in Int
    BY <1>2, Appended
  <2>2. f[n] = <<change>>[n - Len(e)] BY <1>2, <2>1, Appended
  <2> QED BY <1>1, <1>2, <2>1, <2>2 DEF Changes
<1>5. \A i \in Changes(f) : i \in Changes(e) \/ i = n
  BY <1>2, Appended DEF Changes
<1> HIDE DEF f, n
<1>6. \A i \in Changes(f) : \/ \E j \in Changes(f) : j < i
                            \/ f[i].from = "open"
  <2>1. CASE Changes(e) = {} BY <2>1, <1>1, <1>4, <1>5 DEF Explains
  <2>2. CASE Changes(e) # {} BY <2>2, <1>3, <1>5 DEF Explains
  <2> QED BY <2>1, <2>2
<1>7. ASSUME NEW i \in Changes(f), NEW j \in Changes(f), i < j
      PROVE  \/ \E k \in Changes(f) : i < k /\ k < j
             \/ f[i].to = f[j].from
  <2>1. i \in Changes(e) BY <1>3, <1>4, <1>5, <1>7
  <2>2. CASE j \in Changes(e) BY <2>1, <2>2, <1>3, <1>7 DEF Explains
  <2>3. CASE j = n
    <3>1. CASE \E k \in Changes(e) : i < k BY <3>1, <2>3, <1>3
    <3>2. CASE ~ \E k \in Changes(e) : i < k
      <4>1. e[i].to = a BY <2>1, <3>2 DEF Explains
      <4> QED BY <4>1, <2>1, <2>3, <1>1, <1>3, <1>4
    <3> QED BY <3>1, <3>2
  <2> QED BY <2>2, <2>3, <1>5
<1>8. \A i \in Changes(f) : (\E j \in Changes(f) : i < j) \/ f[i].to = b
  BY <1>1, <1>3, <1>4, <1>5
<1>9. Explains(f, b) BY <1>4, <1>6, <1>7, <1>8 DEF Explains
<1> QED BY <1>9 DEF f, change

(* The events of a status change explain it. *)
LEMMA StatusExplained ==
  ASSUME NEW e \in Seq(Event), NEW a \in CaseStatus, NEW b \in CaseStatus, Explains(e, a)
  PROVE  Explains(e \o StatusEvents(a, b), b)
<1> DEFINE change == <<[type |-> "status_changed", from |-> a, to |-> b]>>
           close == IF b = "resolved" THEN <<[type |-> "case_closed"]>> ELSE << >>
<1>1. CASE a = b
  <2>1. StatusEvents(a, b) = << >> BY <1>1 DEF StatusEvents
  <2>2. << >> \in Seq(Event) /\ Quiet(<< >>) BY DEF Quiet
  <2> QED BY <1>1, <2>1, <2>2, QuietAppended
<1>2. CASE a # b
  <2>1. StatusEvents(a, b) = change \o close BY <1>2 DEF StatusEvents
  <2>2. [type |-> "status_changed", from |-> a, to |-> b] \in Event BY DEF Event
  <2>3. change \in Seq(Event) BY <2>2
  <2>4. close \in Seq(Event) /\ Quiet(close)
    <3>1. [type |-> "case_closed"] \in Event BY EventLists
    <3>2. <<[type |-> "case_closed"]>> \in Seq(Event) BY <3>1
    <3>3. Quiet(<<[type |-> "case_closed"]>>) BY DEF Quiet
    <3>4. << >> \in Seq(Event) /\ Quiet(<< >>) BY DEF Quiet
    <3> QED BY <3>2, <3>3, <3>4
  <2>5. Explains(e \o change, b) BY ChangeAppended
  <2> HIDE DEF change, close
  <2>6. e \o change \in Seq(Event) BY <2>3, ConcatProperties
  <2>7. Explains((e \o change) \o close, b) BY <2>4, <2>5, <2>6, QuietAppended
  <2>8. (e \o change) \o close = e \o (change \o close)
    BY <2>3, <2>4, Regrouped
  <2> QED BY <2>1, <2>7, <2>8
<1> QED BY <1>1, <1>2

LEMMA NoReportAppended ==
  ASSUME NEW a \in Seq(Event), NEW b \in Seq(Event), NoReport(a), NoReport(b)
  PROVE  NoReport(a \o b)
BY Appended DEF NoReport

(* No list but complete_task's reports a completion. *)
LEMMA StatusReportsNothing ==
  ASSUME NEW a \in CaseStatus, NEW b \in CaseStatus
  PROVE  NoReport(StatusEvents(a, b))
<1> DEFINE change == <<[type |-> "status_changed", from |-> a, to |-> b]>>
           close == IF b = "resolved" THEN <<[type |-> "case_closed"]>> ELSE << >>
<1>1. CASE a = b BY <1>1 DEF StatusEvents, NoReport
<1>2. CASE a # b
  <2>1. StatusEvents(a, b) = change \o close BY <1>2 DEF StatusEvents
  <2>2. [type |-> "status_changed", from |-> a, to |-> b] \in Event BY DEF Event
  <2>3. change \in Seq(Event) /\ NoReport(change) BY <2>2 DEF NoReport
  <2>4. close \in Seq(Event) /\ NoReport(close)
    <3>1. [type |-> "case_closed"] \in Event BY EventLists
    <3>2. <<[type |-> "case_closed"]>> \in Seq(Event) BY <3>1
    <3>3. NoReport(<<[type |-> "case_closed"]>>) BY DEF NoReport
    <3>4. << >> \in Seq(Event) /\ NoReport(<< >>) BY DEF NoReport
    <3> QED BY <3>2, <3>3, <3>4
  <2> HIDE DEF change, close
  <2> QED BY <2>1, <2>3, <2>4, NoReportAppended
<1> QED BY <1>1, <1>2

LEMMA OwnerReportsNothing ==
  ASSUME NEW a \in Opt(Staff), NEW b \in Opt(Staff)
  PROVE  NoReport(OwnerEvents(a, b)) /\ Quiet(OwnerEvents(a, b))
BY DEF OwnerEvents, NoReport, Quiet

-----------------------------------------------------------------------------
(* What every step does to the tasks that are over, and to the races. *)
KeepsEnd ==
  \A t \in Tasks : tasks[t] # None =>
    /\ tasks'[t] # None
    /\ t \notin racedTasks' /\ tasks[t].status \in Terminal =>
         tasks'[t].status \in Terminal /\ (tasks[t].note = None => tasks'[t].note = None)

RacesGrow == racedCases \subseteq racedCases' /\ racedTasks \subseteq racedTasks'

(* A first half reads a row that is right of itself, or raced. *)
LEMMA StartReads ==
  ASSUME RaceInv, NEW s \in Sessions, NEW r \in Requests, NEW row, NEW task,
         Start(s, r, row, task),
         r.op \in OnCase => row = cases[r.case] /\ row \in CaseRow,
         r.op \in OnTask => task = tasks[r.task] /\ task \in TaskRow,
         r.op = "update_task" /\ task.status \in Terminal => r.status \in Opt(Terminal),
         r.op = "complete" => task.status \notin Terminal
  PROVE  Reads'
<1>1. /\ ses' = [ses EXCEPT ![s] = [req |-> r, row |-> row, task |-> task]]
      /\ tasks' = tasks /\ racedCases' = racedCases /\ racedTasks' = racedTasks
  BY DEF Start, raced
<1>2. /\ ses \in [Sessions -> Session] /\ Reads
      /\ ResolvedAtMatchesStatus /\ CompletionMatches
  BY DEF RaceInv, CaseInv, TaskInv, TypeInv, TypeOK
<1>3. /\ r.op \in OnCase => r.case \in Cases
      /\ r.op \in OnTask => r.task \in Tasks
  BY NoneDiffers, Shapes
<1>4. r.op \in OnCase /\ r.case \notin racedCases => CaseMatches(row)
  BY <1>2, <1>3, NoneDiffers DEF ResolvedAtMatchesStatus, CaseMatches
<1>5. r.op \in OnTask /\ r.task \notin racedTasks => ReadTask(task, tasks[r.task])
  BY <1>2, <1>3, NoneDiffers DEF CompletionMatches, Matches, ReadTask
<1>6. \A x \in Sessions :
        ses'[x] = IF x = s THEN [req |-> r, row |-> row, task |-> task] ELSE ses[x]
  BY <1>1, <1>2
<1> QED BY <1>1, <1>2, <1>4, <1>5, <1>6 DEF Reads

(* A second half, or a loss, leaves what the others have read in order. *)
LEMMA EndReads ==
  ASSUME RaceInv, NEW s \in Sessions, ses' = [ses EXCEPT ![s] = Idle],
         RacesGrow, KeepsEnd
  PROVE  Reads'
<1>1. TypeInv /\ Reads /\ ses \in [Sessions -> Session]
  BY DEF RaceInv, TypeInv, TypeOK
<1>2. SUFFICES ASSUME NEW x \in Sessions, ses'[x].req # None
               PROVE  /\ ses'[x].req.op \in OnCase /\ ses'[x].req.case \notin racedCases'
                           => CaseMatches(ses'[x].row)
                      /\ ses'[x].req.op \in OnTask /\ ses'[x].req.task \notin racedTasks'
                           => ReadTask(ses'[x].task, tasks'[ses'[x].req.task])
                      /\ ses'[x].req.op = "update_task" /\ ses'[x].task.status \in Terminal
                           => ses'[x].req.status \in Opt(Terminal)
                      /\ ses'[x].req.op = "complete" => ses'[x].task.status \notin Terminal
  BY DEF Reads
<1>3. x # s BY <1>1, <1>2 DEF Idle
<1>4. PICK S : S = ses[x] OBVIOUS
<1>5. ses'[x] = S BY <1>1, <1>3, <1>4
<1>6. S.req # None BY <1>2, <1>5
<1>7. /\ S.req.op \in OnCase /\ S.req.case \notin racedCases => CaseMatches(S.row)
      /\ S.req.op \in OnTask /\ S.req.task \notin racedTasks
           => ReadTask(S.task, tasks[S.req.task])
      /\ S.req.op = "update_task" /\ S.task.status \in Terminal
           => S.req.status \in Opt(Terminal)
      /\ S.req.op = "complete" => S.task.status \notin Terminal
  BY <1>1, <1>4, <1>6 DEF Reads
<1>8. S.req.op \in OnTask => S.req.task \in Tasks /\ tasks[S.req.task] # None
  BY <1>1, <1>4, <1>6, InProgress, NoneDiffers
<1>9. S.req.op \in OnTask /\ S.req.task \notin racedTasks'
        => ReadTask(S.task, tasks'[S.req.task])
  BY <1>7, <1>8 DEF ReadTask, KeepsEnd, RacesGrow
<1> QED BY <1>5, <1>7, <1>9 DEF RacesGrow

LEMMA ReportsKept ==
  ASSUME TypeInv, Reported, CompletedOnce, NEW c \in Cases, NEW list \in Seq(Event),
         NoReport(list), Record(c, list), RacesGrow, KeepsEnd
  PROVE  Reported' /\ CompletedOnce'
<1>1. events \in [Cases -> Seq(Event)] BY DEF TypeInv, TypeOK
<1>2. \A d \in Cases : events'[d] = IF d = c THEN events[c] \o list ELSE events[d]
  BY <1>1 DEF Record
<1>3. ASSUME NEW d \in Cases, NEW i \in DOMAIN events'[d],
             events'[d][i].type = "task_completed"
      PROVE  i \in DOMAIN events[d] /\ events'[d][i] = events[d][i]
  <2>1. CASE d # c BY <2>1, <1>2
  <2>2. CASE d = c
    <3>1. events'[d] = events[c] \o list /\ events[c] \in Seq(Event) BY <2>2, <1>1, <1>2
    <3>2. i \in DOMAIN events[c] BY <3>1, <1>3, Appended DEF NoReport
    <3> QED BY <3>1, <3>2, <2>2, Appended
  <2> QED BY <2>1, <2>2
<1>4. Reported' BY <1>3 DEF Reported, KeepsEnd, RacesGrow
<1>5. CompletedOnce' BY <1>3 DEF CompletedOnce, RacesGrow
<1> QED BY <1>4, <1>5

LEMMA ReportsUnchanged ==
  ASSUME Reported, CompletedOnce, events' = events, RacesGrow, KeepsEnd
  PROVE  Reported' /\ CompletedOnce'
BY DEF Reported, CompletedOnce, KeepsEnd, RacesGrow

(* What a step does to the timeline and the row of one case. *)
LEMMA CaseKept ==
  ASSUME TypeInv, CaseInv, NEW c \in Cases, NEW list \in Seq(Event), Record(c, list),
         NEW row \in CaseRow, cases' = [cases EXCEPT ![c] = row], RacesGrow,
         c \notin racedCases' => CaseMatches(row) /\ Explains(events[c] \o list, row.status)
  PROVE  CaseInv'
<1>1. events \in [Cases -> Seq(Event)] /\ cases \in [Cases -> Opt(CaseRow)]
  BY DEF TypeInv, TypeOK
<1>2. events' = [events EXCEPT ![c] = events[c] \o list] BY DEF Record
<1>3. \A d \in Cases : d # c => events'[d] = events[d] /\ cases'[d] = cases[d]
  BY <1>1, <1>2
<1>4. events'[c] = events[c] \o list /\ cases'[c] = row /\ row # None
  BY <1>1, <1>2, NoneDiffers
<1>5. ResolvedAtMatchesStatus'
  BY <1>3, <1>4 DEF CaseInv, ResolvedAtMatchesStatus, CaseMatches, RacesGrow
<1>6. TrailExplainsStatus'
  <2>1. ASSUME NEW d \in Cases, d \notin racedCases'
        PROVE  IF cases'[d] = None THEN events'[d] = << >>
               ELSE Explains(events'[d], cases'[d].status)
    <3>1. CASE d = c BY <3>1, <2>1, <1>4
    <3>2. CASE d # c
      <4>1. events'[d] = events[d] /\ cases'[d] = cases[d] BY <3>2, <1>3
      <4>2. IF cases[d] = None THEN events[d] = << >>
            ELSE Explains(events[d], cases[d].status)
        BY <2>1 DEF CaseInv, TrailExplainsStatus, RacesGrow
      <4> QED BY <4>1, <4>2
    <3> QED BY <3>1, <3>2
  <2> QED BY <2>1 DEF TrailExplainsStatus
<1> QED BY <1>5, <1>6 DEF CaseInv

(* The timeline of a case that is not raced explains its row. *)
LEMMA CaseNow ==
  ASSUME CaseInv, NEW c \in Cases, cases[c] \in CaseRow, c \notin racedCases
  PROVE  CaseMatches(cases[c]) /\ Explains(events[c], cases[c].status)
BY NoneDiffers DEF CaseInv, ResolvedAtMatchesStatus, TrailExplainsStatus, CaseMatches

(* Where the timeline of an existing case gets a quiet list. *)
LEMMA CaseQuiet ==
  ASSUME TypeInv, CaseInv, NEW c \in Cases, NEW list \in Seq(Event), Record(c, list),
         Quiet(list), cases' = cases, cases[c] \in CaseRow, RacesGrow
  PROVE  CaseInv'
<1>1. events[c] \in Seq(Event) BY DEF TypeInv, TypeOK
<1>2. c \notin racedCases' => c \notin racedCases BY DEF RacesGrow
<1>3. c \notin racedCases' =>
        CaseMatches(cases[c]) /\ Explains(events[c] \o list, cases[c].status)
  BY <1>1, <1>2, CaseNow, QuietAppended
<1>4. cases' = [cases EXCEPT ![c] = cases[c]] BY DEF TypeInv, TypeOK
<1> QED BY <1>3, <1>4, CaseKept

LEMMA CaseUnchanged ==
  ASSUME CaseInv, cases' = cases, events' = events, RacesGrow PROVE CaseInv'
BY DEF CaseInv, ResolvedAtMatchesStatus, TrailExplainsStatus, RacesGrow

LEMMA TasksUnchanged ==
  ASSUME CompletionMatches, tasks' = tasks, RacesGrow
  PROVE  CompletionMatches' /\ KeepsEnd
BY DEF CompletionMatches, KeepsEnd, RacesGrow

-----------------------------------------------------------------------------
(* Handler by handler.  A status that is written on a row which is what was*)
(* read goes on from where the timeline ends.                              *)
LEMMA UpdateRace ==
  ASSUME RaceInv, NEW s \in Sessions, CommitUpdate(s)
  PROVE  RacesGrow /\ KeepsEnd /\ CaseInv' /\ TaskInv'
<1> DEFINE r == ses[s].req
           seen == ses[s].row
           now == cases[r.case]
           x == seen.status
           y == NewStatus(r, seen)
           owners == OwnerEvents(seen.owner, NewOwner(r, seen))
           new == [student |-> now.student, status |-> Written(y, x, now.status),
                   resolved |-> ResolvedAt(r, seen, now),
                   owner |-> Written(NewOwner(r, seen), seen.owner, now.owner)]
<1>1. r # None /\ r.op = "update" BY DEF CommitUpdate
<1>2. TypeInv /\ Reads /\ CaseInv /\ TaskInv BY DEF RaceInv
<1>3. r \in AllRequests /\ r.case \in Cases /\ seen \in CaseRow /\ now \in CaseRow
  BY <1>1, <1>2, InProgress DEF OnCase
<1>4. /\ cases' = [cases EXCEPT ![r.case] = new]
      /\ Record(r.case, owners \o StatusEvents(x, y)) /\ Finish(s) /\ tasks' = tasks
      /\ racedCases' = WithRace(racedCases, r.case, r.status # None, seen, now)
      /\ racedTasks' = racedTasks
  BY DEF CommitUpdate
<1>5. x \in CaseStatus /\ seen.owner \in Opt(Staff) BY <1>3 DEF CaseRow
<1>6. y \in CaseStatus /\ NewOwner(r, seen) \in Opt(Staff) /\ new \in CaseRow
  BY <1>1, <1>3, WrittenCase
<1>7. /\ owners \in Seq(Event) /\ StatusEvents(x, y) \in Seq(Event)
      /\ Quiet(owners) /\ NoReport(owners) /\ NoReport(StatusEvents(x, y))
  BY <1>5, <1>6, EventLists, OwnerReportsNothing, StatusReportsNothing
<1>8. /\ racedCases \subseteq racedCases'
      /\ r.case \notin racedCases' /\ r.status # None => x = now.status
  BY <1>4 DEF WithRace
<1>9. RacesGrow BY <1>4, <1>8 DEF RacesGrow
<1>10. events[r.case] \in Seq(Event) BY <1>2, <1>3 DEF TypeInv, TypeOK
<1>11. "resolved" # None /\ now.resolved \in BOOLEAN /\ now.status \in CaseStatus
  BY <1>3, InterventionsAssumption DEF CaseStatus, CaseRow
<1>12. /\ new.status = Written(y, x, now.status) /\ new.resolved = ResolvedAt(r, seen, now)
       /\ y = IF r.status # None THEN r.status ELSE x
  BY DEF NewStatus
<1> HIDE DEF new, owners, y
<1>13. ASSUME r.case \notin racedCases'
       PROVE  CaseMatches(new)
              /\ Explains(events[r.case] \o (owners \o StatusEvents(x, y)), new.status)
  <2>1. r.case \notin racedCases BY <1>8, <1>13
  <2>2. CaseMatches(now) /\ Explains(events[r.case], now.status)
    BY <1>2, <1>3, <2>1, CaseNow
  <2>3. CaseMatches(seen) BY <1>1, <1>2, <2>1 DEF Reads, OnCase
  <2>4. events[r.case] \o owners \in Seq(Event) BY <1>7, <1>10, ConcatProperties
  <2>5. Explains(events[r.case] \o owners, now.status)
    BY <1>7, <1>10, <2>2, QuietAppended
  <2>6. (events[r.case] \o owners) \o StatusEvents(x, y)
          = events[r.case] \o (owners \o StatusEvents(x, y))
    BY <1>7, <1>10, Regrouped
  <2>7. CASE r.status = None
    <3>1. y = x /\ new.status = now.status BY <1>12, <2>7 DEF Written
    <3>2. new.resolved = now.resolved BY <1>11, <1>12, <2>7 DEF ResolvedAt
    <3>3. StatusEvents(x, y) = << >> BY <3>1 DEF StatusEvents
    <3>4. (events[r.case] \o owners) \o << >> = events[r.case] \o owners
      BY <2>4, ConcatEmptySeq
    <3> QED BY <2>2, <2>5, <2>6, <3>1, <3>2, <3>3, <3>4 DEF CaseMatches
  <2>8. CASE r.status # None
    <3>1. x = now.status BY <1>8, <1>13, <2>8
    <3>2. y = r.status /\ new.status = y BY <1>12, <2>8, <3>1 DEF Written
    <3>3. new.resolved <=> y = "resolved"
      BY <1>11, <1>12, <2>2, <2>3, <2>8, <3>1, <3>2 DEF ResolvedAt, CaseMatches
    <3>4. Explains((events[r.case] \o owners) \o StatusEvents(x, y), y)
      BY <1>5, <1>6, <2>4, <2>5, <3>1, StatusExplained
    <3> QED BY <2>6, <3>2, <3>3, <3>4 DEF CaseMatches
  <2> QED BY <2>7, <2>8
<1>14. /\ owners \o StatusEvents(x, y) \in Seq(Event)
       /\ NoReport(owners \o StatusEvents(x, y))
  BY <1>7, ConcatProperties, NoReportAppended
<1>15. CaseInv' BY <1>2, <1>3, <1>4, <1>6, <1>9, <1>13, <1>14, CaseKept
<1>16. CompletionMatches' /\ KeepsEnd BY <1>2, <1>4, <1>9, TasksUnchanged DEF TaskInv
<1>17. Reported' /\ CompletedOnce'
  BY <1>2, <1>3, <1>4, <1>9, <1>14, <1>16, ReportsKept DEF TaskInv
<1> QED BY <1>9, <1>15, <1>16, <1>17 DEF TaskInv

LEMMA ContactRace ==
  ASSUME RaceInv, NEW s \in Sessions, CommitContact(s)
  PROVE  RacesGrow /\ KeepsEnd /\ CaseInv' /\ TaskInv'
<1> DEFINE r == ses[s].req
           seen == ses[s].row
           now == cases[r.case]
           hello == <<[type |-> "guardian_contacted"]>>
<1>1. r # None /\ r.op = "contact" BY DEF CommitContact
<1>2. TypeInv /\ Reads /\ CaseInv /\ TaskInv BY DEF RaceInv
<1>3. r.case \in Cases /\ seen \in CaseRow /\ now \in CaseRow
  BY <1>1, <1>2, InProgress DEF OnCase
<1>4. /\ cases' = IF seen.status = "open"
                  THEN [cases EXCEPT ![r.case].status = "in_progress"] ELSE cases
      /\ Record(r.case, ContactEvents(seen)) /\ Finish(s) /\ tasks' = tasks
      /\ racedCases' = WithRace(racedCases, r.case, seen.status = "open", seen, now)
      /\ racedTasks' = racedTasks
  BY DEF CommitContact
<1>5. /\ racedCases \subseteq racedCases'
      /\ r.case \notin racedCases' /\ seen.status = "open" => now.status = "open"
  BY <1>4 DEF WithRace
<1>6. RacesGrow BY <1>4, <1>5 DEF RacesGrow
<1>7. events[r.case] \in Seq(Event) BY <1>2, <1>3 DEF TypeInv, TypeOK
<1>8. hello \in Seq(Event) /\ Quiet(hello) /\ NoReport(hello)
  <2>1. [type |-> "guardian_contacted"] \in Event BY EventLists
  <2> QED BY <2>1 DEF Quiet, NoReport
<1>9. ContactEvents(seen) \in Seq(Event) BY <1>3, ContactList
<1> HIDE DEF hello
<1>10. NoReport(ContactEvents(seen)) /\ CaseInv'
  <2>1. CASE seen.status = "open"
    <3> DEFINE moved == StatusEvents("open", "in_progress")
               new == [now EXCEPT !.status = "in_progress"]
    <3>1. ContactEvents(seen) = hello \o moved BY <2>1 DEF ContactEvents, hello
    <3>2. "open" \in CaseStatus /\ "in_progress" \in CaseStatus
      BY DEF CaseStatus, Active
    <3>3. moved \in Seq(Event) /\ NoReport(moved)
      BY <3>2, EventLists, StatusReportsNothing
    <3>4. cases' = [cases EXCEPT ![r.case] = new] BY <1>4, <2>1
    <3>5. new \in CaseRow /\ new.status = "in_progress" /\ new.resolved = now.resolved
      BY <1>3, <3>2 DEF CaseRow
    <3> HIDE DEF moved
    <3>6. NoReport(ContactEvents(seen)) BY <3>1, <3>3, <1>8, NoReportAppended
    <3>7. ASSUME r.case \notin racedCases'
          PROVE  CaseMatches(new)
                 /\ Explains(events[r.case] \o ContactEvents(seen), new.status)
      <4>1. now.status = "open" /\ r.case \notin racedCases BY <1>5, <2>1, <3>7
      <4>2. CaseMatches(now) /\ Explains(events[r.case], "open")
        BY <1>2, <1>3, <4>1, CaseNow
      <4>3. ~ now.resolved BY <4>1, <4>2 DEF CaseMatches
      <4>4. events[r.case] \o hello \in Seq(Event) BY <1>7, <1>8, ConcatProperties
      <4>5. Explains(events[r.case] \o hello, "open")
        BY <4>2, <1>7, <1>8, QuietAppended
      <4>6. Explains((events[r.case] \o hello) \o moved, "in_progress")
        BY <4>4, <4>5, <3>2, StatusExplained DEF moved
      <4>7. (events[r.case] \o hello) \o moved = events[r.case] \o (hello \o moved)
        BY <3>3, <1>7, <1>8, Regrouped
      <4> HIDE DEF new
      <4> QED BY <3>1, <3>5, <4>3, <4>6, <4>7 DEF CaseMatches
    <3> HIDE DEF new, r, seen, now
    <3>8. CaseInv' BY <1>2, <1>3, <1>4, <1>6, <1>9, <3>4, <3>5, <3>7, CaseKept
    <3> QED BY <3>6, <3>8
  <2>2. CASE seen.status # "open"
    <3>1. ContactEvents(seen) = hello \o << >> BY <2>2 DEF ContactEvents, hello
    <3>2. hello \o << >> = hello BY <1>8, ConcatEmptySeq
    <3>3. cases' = cases BY <1>4, <2>2
    <3>4. CaseInv' BY <3>1, <3>2, <3>3, <1>2, <1>3, <1>4, <1>6, <1>8, CaseQuiet
    <3> QED BY <3>1, <3>2, <3>4, <1>8
  <2> QED BY <2>1, <2>2
<1>11. CompletionMatches' /\ KeepsEnd BY <1>2, <1>4, <1>6, TasksUnchanged DEF TaskInv
<1>12. Reported' /\ CompletedOnce'
  BY <1>2, <1>3, <1>4, <1>6, <1>9, <1>10, <1>11, ReportsKept DEF TaskInv
<1> QED BY <1>6, <1>10, <1>11, <1>12 DEF TaskInv

LEMMA CreateRace ==
  ASSUME RaceInv, NEW s \in Sessions, NEW c \in Cases, CommitCreate(s, c)
  PROVE  RacesGrow /\ KeepsEnd /\ CaseInv' /\ TaskInv'
<1> DEFINE list == <<[type |-> "case_created"]>>
<1>1. TypeInv /\ CaseInv /\ TaskInv BY DEF RaceInv
<1>2. /\ cases[c] = None /\ Record(c, list) /\ Finish(s) /\ tasks' = tasks
      /\ UNCHANGED raced
      /\ \E row \in CaseRow : /\ row.status = "open" /\ row.resolved = FALSE
                              /\ cases' = [cases EXCEPT ![c] = row]
  BY <1>1, CreateEffect
<1>3. PICK row \in CaseRow : /\ row.status = "open" /\ row.resolved = FALSE
                             /\ cases' = [cases EXCEPT ![c] = row]
  BY <1>2
<1>4. list \in Seq(Event) /\ Quiet(list) /\ NoReport(list)
  <2>1. [type |-> "case_created"] \in Event BY EventLists
  <2> QED BY <2>1 DEF Quiet, NoReport
<1> HIDE DEF list
<1>5. RacesGrow BY <1>2 DEF raced, RacesGrow
<1>6. c \notin racedCases' => events[c] \in Seq(Event) /\ events[c] = << >>
  BY <1>1, <1>2 DEF TypeInv, TypeOK, CaseInv, TrailExplainsStatus, raced
<1>7. Explains(<< >>, "open") BY DEF Explains, Changes
<1>8. c \notin racedCases' => CaseMatches(row) /\ Explains(events[c] \o list, row.status)
  BY <1>3, <1>4, <1>6, <1>7, QuietAppended DEF CaseMatches
<1>9. CaseInv' BY <1>1, <1>2, <1>3, <1>4, <1>5, <1>8, CaseKept
<1>10. CompletionMatches' /\ KeepsEnd BY <1>1, <1>2, <1>5, TasksUnchanged DEF TaskInv
<1>11. Reported' /\ CompletedOnce'
  BY <1>1, <1>2, <1>4, <1>5, <1>10, ReportsKept DEF TaskInv
<1> QED BY <1>5, <1>9, <1>10, <1>11 DEF TaskInv

LEMMA CreateTaskRace ==
  ASSUME RaceInv, NEW s \in Sessions, NEW t \in Tasks, CommitCreateTask(s, t)
  PROVE  RacesGrow /\ KeepsEnd /\ CaseInv' /\ TaskInv'
<1> DEFINE r == ses[s].req
           list == <<[type |-> "task_created", task |-> t]>>
<1>1. TypeInv /\ CaseInv /\ TaskInv BY DEF RaceInv
<1>2. /\ r # None /\ r.op = "create_task" /\ tasks[t] = None
      /\ tasks' = [tasks EXCEPT ![t] = NewTask(r)] /\ Record(r.case, list)
      /\ Finish(s) /\ cases' = cases
      /\ racedCases' = racedCases /\ racedTasks' = racedTasks
  BY DEF CommitCreateTask, raced
<1>3. r.case \in Cases /\ cases[r.case] \in CaseRow
  BY <1>1, <1>2, InProgress DEF OnCase
<1>4. list \in Seq(Event) /\ Quiet(list) /\ NoReport(list)
  <2>1. [type |-> "task_created", task |-> t] \in Event BY EventLists
  <2> QED BY <2>1 DEF Quiet, NoReport
<1> HIDE DEF list
<1>5. RacesGrow BY <1>2 DEF RacesGrow
<1>6. CaseInv' BY <1>1, <1>2, <1>3, <1>4, <1>5, CaseQuiet
<1>7. tasks \in [Tasks -> Opt(TaskRow)] /\ tasks' \in [Tasks -> Opt(TaskRow)]
  BY <1>1, TypeStep DEF TypeInv, TypeOK, Handler
<1>8. \A x \in Tasks : tasks'[x] = IF x = t THEN NewTask(r) ELSE tasks[x]
  BY <1>2, <1>7
<1>9. /\ NewTask(r).status = "open" /\ NewTask(r).completed = FALSE
      /\ NewTask(r).note = None
  BY DEF NewTask
<1>10. KeepsEnd BY <1>2, <1>8 DEF KeepsEnd
<1>11. CompletionMatches'
  BY <1>1, <1>2, <1>8, <1>9 DEF TaskInv, CompletionMatches
<1>12. Reported' /\ CompletedOnce'
  BY <1>1, <1>2, <1>3, <1>4, <1>5, <1>10, ReportsKept DEF TaskInv
<1> QED BY <1>5, <1>6, <1>10, <1>11, <1>12 DEF TaskInv

(* What update_task leaves of a task, if it sets the status of what it read*)
(* or leaves the status alone.                                             *)
LEMMA UpdatedMatches ==
  ASSUME NEW r \in AllRequests, r.op = "update_task",
         NEW seen \in TaskRow, NEW now \in TaskRow, ReadTask(seen, now), Matches(now),
         r.status # None => seen.status = now.status,
         seen.status \in Terminal => r.status \in Opt(Terminal)
  PROVE  LET new == UpdatedTask(r, seen, now)
         IN /\ Matches(new)
            /\ now.status \in Terminal =>
                 new.status \in Terminal /\ (now.note = None => new.note = None)
<1> DEFINE new == UpdatedTask(r, seen, now)
           status == IF r.status # None THEN r.status ELSE seen.status
<1>1. r.status \in Opt(TaskStatus) BY Shapes
<1>2. seen.completed \in BOOLEAN /\ now.completed \in BOOLEAN BY DEF TaskRow
<1>3. /\ new.status = Written(status, seen.status, now.status)
      /\ new.completed = IF Uncompletes(r, seen) THEN FALSE
                         ELSE r.status = "completed" \/ now.completed
      /\ new.note = IF Uncompletes(r, seen) THEN Written(None, seen.note, now.note)
                    ELSE now.note
  BY DEF UpdatedTask, TaskRow
<1>4. "completed" # None
  BY InterventionsAssumption DEF TaskStatus, Terminal
<1> HIDE DEF new
<1>5. CASE r.status = None
  <2>1. ~ Uncompletes(r, seen) BY <1>5 DEF Uncompletes
  <2>2. new.status = now.status /\ new.completed = now.completed /\ new.note = now.note
    BY <1>2, <1>3, <1>4, <1>5, <2>1 DEF Written
  <2> QED BY <2>2 DEF Matches, new
<1>6. CASE r.status # None
  <2>1. new.status = r.status /\ seen.status = now.status
    BY <1>3, <1>6 DEF Written
  <2>2. now.status \in Terminal => new.status \in Terminal
    BY <1>6, <2>1 DEF Opt
  <2>3. seen.completed = now.completed
    BY <1>2, <2>1 DEF ReadTask, Matches
  <2>4. CASE Uncompletes(r, seen)
    <3>1. r.status # "completed" /\ seen.completed BY <2>4 DEF Uncompletes
    <3>2. seen.status \in Terminal
      BY <3>1 DEF ReadTask, Matches, Terminal
    <3>3. new.note = None
      BY <1>3, <2>4, <3>2 DEF ReadTask, Written
    <3>4. new.completed = FALSE BY <1>3, <2>4
    <3> QED BY <2>1, <2>2, <3>1, <3>3, <3>4 DEF Matches, new
  <2>5. CASE ~ Uncompletes(r, seen)
    <3>1. r.status = "completed" \/ ~ now.completed
      BY <1>6, <2>3, <2>5 DEF Uncompletes
    <3>2. new.note = now.note /\ (new.completed <=> r.status = "completed")
      BY <1>2, <1>3, <2>5, <3>1
    <3>3. new.note # None => new.completed
      BY <3>1, <3>2 DEF Matches
    <3> QED BY <2>1, <2>2, <3>2, <3>3 DEF Matches, new
  <2> QED BY <2>4, <2>5
<1> QED BY <1>5, <1>6 DEF new

(* A task that is not raced is right of itself. *)
LEMMA TaskNow ==
  ASSUME TaskInv, NEW t \in Tasks, tasks[t] \in TaskRow, t \notin racedTasks
  PROVE  Matches(tasks[t])
BY NoneDiffers DEF TaskInv, CompletionMatches, Matches

LEMMA UpdateTaskRace ==
  ASSUME RaceInv, NEW s \in Sessions, CommitUpdateTask(s)
  PROVE  RacesGrow /\ KeepsEnd /\ CaseInv' /\ TaskInv'
<1> DEFINE r == ses[s].req
           seen == ses[s].task
           now == tasks[r.task]
           new == UpdatedTask(r, seen, now)
<1>1. TypeInv /\ Reads /\ CaseInv /\ TaskInv BY DEF RaceInv
<1>2. r # None /\ r.op = "update_task" BY DEF CommitUpdateTask
<1>3. r \in AllRequests /\ r.task \in Tasks /\ seen \in TaskRow /\ now \in TaskRow
  BY <1>1, <1>2, InProgress DEF OnTask
<1>4. seen.status \in Terminal => r.status \in Opt(Terminal)
  BY <1>1, <1>2 DEF Reads
<1>5. /\ tasks' = [tasks EXCEPT ![r.task] = new] /\ Finish(s)
      /\ cases' = cases /\ events' = events /\ racedCases' = racedCases
      /\ racedTasks' = WithRace(racedTasks, r.task, r.status # None, seen, now)
  BY DEF CommitUpdateTask
<1>6. /\ racedTasks \subseteq racedTasks'
      /\ r.task \notin racedTasks' /\ r.status # None => seen.status = now.status
  BY <1>5 DEF WithRace
<1>7. RacesGrow BY <1>5, <1>6 DEF RacesGrow
<1>8. ASSUME r.task \notin racedTasks'
      PROVE  /\ Matches(new)
             /\ now.status \in Terminal =>
                  new.status \in Terminal /\ (now.note = None => new.note = None)
  <2>1. r.task \notin racedTasks BY <1>6, <1>8
  <2>2. Matches(now) BY <1>1, <1>3, <2>1, TaskNow
  <2>3. ReadTask(seen, now) BY <1>1, <1>2, <2>1 DEF Reads, OnTask
  <2> QED BY <1>2, <1>3, <1>4, <1>6, <1>8, <2>2, <2>3, UpdatedMatches
<1>9. new \in TaskRow BY <1>2, <1>3, WrittenTask
<1>10. new # None BY <1>9, NoneDiffers
<1> HIDE DEF new
<1>11. tasks \in [Tasks -> Opt(TaskRow)] BY <1>1 DEF TypeInv, TypeOK
<1>12. \A t \in Tasks : tasks'[t] = IF t = r.task THEN new ELSE tasks[t]
  BY <1>5, <1>11
<1>13. KeepsEnd BY <1>8, <1>10, <1>12 DEF KeepsEnd
<1>14. CompletionMatches'
  BY <1>1, <1>6, <1>8, <1>12 DEF TaskInv, CompletionMatches, Matches
<1>15. Reported' /\ CompletedOnce'
  BY <1>1, <1>5, <1>7, <1>13, ReportsUnchanged DEF TaskInv
<1>16. CaseInv' BY <1>1, <1>5, <1>7, CaseUnchanged
<1> QED BY <1>7, <1>13, <1>14, <1>15, <1>16 DEF TaskInv

(* A completion is reported of a task that was not terminal, or is raced. *)
LEMMA CompleteRace ==
  ASSUME RaceInv, NEW s \in Sessions, CommitComplete(s)
  PROVE  RacesGrow /\ KeepsEnd /\ CaseInv' /\ TaskInv'
<1> DEFINE r == ses[s].req
           row == tasks[r.task]
           note == Written(r.note, ses[s].task.note, row.note)
           new == [row EXCEPT !.status = "completed", !.completed = TRUE, !.note = note]
           report == [type |-> "task_completed", task |-> r.task]
           list == <<report>>
           n == Len(events[r.case]) + 1
<1>1. TypeInv /\ Reads /\ CaseInv /\ TaskInv BY DEF RaceInv
<1>2. r # None /\ r.op = "complete" BY DEF CommitComplete
<1>3. /\ r.case \in Cases /\ r.task \in Tasks /\ row \in TaskRow
      /\ cases[r.case] \in CaseRow
  BY <1>1, <1>2, InProgress DEF OnTask
<1>4. /\ tasks' = [tasks EXCEPT ![r.task] = new] /\ Finish(s)
      /\ cases' = cases /\ Record(r.case, list) /\ racedCases' = racedCases
      /\ racedTasks' = WithRace(racedTasks, r.task, TRUE, ses[s].task, row)
  BY DEF CommitComplete
<1>5. /\ racedTasks \subseteq racedTasks'
      /\ r.task \notin racedTasks' => row.status \notin Terminal
  <2>1. ses[s].task.status \notin Terminal BY <1>1, <1>2 DEF Reads
  <2> QED BY <2>1, <1>4 DEF WithRace
<1>5a. RacesGrow BY <1>5, <1>4 DEF RacesGrow
<1>6. /\ list \in Seq(Event) /\ Quiet(list) /\ Len(list) = 1
      /\ list[1] = report /\ report.type = "task_completed" /\ report.task = r.task
  <2>1. report \in Event BY <1>3, EventLists
  <2> QED BY <2>1 DEF Quiet
<1>7. new.status = "completed" /\ new.completed = TRUE
  BY <1>3 DEF TaskRow
<1>8. new # None
  <2>1. tasks' \in [Tasks -> Opt(TaskRow)] /\ (row \in TaskRow => new \in TaskRow)
    <3>1. note \in Opt(Notes)
      <4>1. r.note \in Opt(Notes) BY <1>1, <1>2, InProgress, Shapes
      <4>2. row.note \in Opt(Notes) BY <1>3 DEF TaskRow
      <4> QED BY <4>1, <4>2 DEF Written
    <3> HIDE DEF note
    <3>2. new \in TaskRow
      BY <1>3, <3>1 DEF TaskRow, TaskStatus, Terminal
    <3>3. tasks \in [Tasks -> Opt(TaskRow)] BY <1>1 DEF TypeInv, TypeOK
    <3> QED BY <1>4, <3>2, <3>3 DEF Opt
  <2> QED BY <2>1, <1>3, NoneDiffers
<1> HIDE DEF new, report, list
<1>9. CaseInv' BY <1>5a, <1>1, <1>3, <1>4, <1>6, CaseQuiet
<1>10. tasks \in [Tasks -> Opt(TaskRow)] /\ events \in [Cases -> Seq(Event)]
  BY <1>1 DEF TypeInv, TypeOK
<1>11. \A x \in Tasks : tasks'[x] = IF x = r.task THEN new ELSE tasks[x]
  BY <1>4, <1>10
<1>12. KeepsEnd BY <1>5, <1>8, <1>11 DEF KeepsEnd
<1>13. CompletionMatches' BY <1>1, <1>5, <1>7, <1>11 DEF TaskInv, CompletionMatches
<1>14. \A d \in Cases : events'[d] = IF d = r.case THEN events[d] \o list ELSE events[d]
  BY <1>4, <1>10 DEF Record
<1>15. ASSUME NEW d \in Cases, NEW i \in DOMAIN events'[d],
              events'[d][i].type = "task_completed"
       PROVE  \/ /\ i \in DOMAIN events[d] /\ events'[d][i] = events[d][i]
                 /\ r.task \notin racedTasks' => events[d][i].task # r.task
              \/ d = r.case /\ i = n /\ events'[d][i].task = r.task
  <2>1. CASE i \in DOMAIN events[d]
    <3>1. events'[d][i] = events[d][i]
      <4>1. events[d] \in Seq(Event) /\ list \in Seq(Event) BY <1>6, <1>10
      <4>2. (events[d] \o list)[i] = events[d][i] BY <2>1, <4>1, Appended
      <4> QED BY <4>2, <1>14
    <3>2. r.task \notin racedTasks' => events[d][i].task # r.task
      BY <2>1, <3>1, <1>1, <1>5, <1>15 DEF TaskInv, Reported
    <3> QED BY <2>1, <3>1, <3>2
  <2>2. CASE i \notin DOMAIN events[d]
    <3>1. d = r.case /\ events'[d] = events[d] \o list
      BY <2>2, <1>14
    <3>2. /\ i > Len(events[d]) /\ i - Len(events[d]) \in DOMAIN list
          /\ events'[d][i] = list[i - Len(events[d])]
      <4>1. events[d] \in Seq(Event) /\ list \in Seq(Event) BY <1>6, <1>10
      <4>2. i \in DOMAIN (events[d] \o list) BY <3>1
      <4> QED BY <2>2, <3>1, <4>1, <4>2, Appended
    <3>3. DOMAIN list = 1..1 /\ Len(events[d]) \in Nat
          /\ DOMAIN (events[d] \o list) = 1..(Len(events[d]) + 1)
      <4>1. events[d] \in Seq(Event) /\ list \in Seq(Event) /\ Len(list) = 1
        BY <1>6, <1>10
      <4>2. DOMAIN list = 1..Len(list) /\ Len(events[d]) \in Nat
        BY <4>1, Appended
      <4>3. DOMAIN (events[d] \o list) = 1..(Len(events[d]) + Len(list))
        BY <4>1, Appended
      <4> QED BY <4>1, <4>2, <4>3
    <3>4. i \in Int /\ i = n
      <4>1. i \in 1..(Len(events[d]) + 1)
        BY <3>1, <3>3
      <4>2. i \in Int /\ i = Len(events[d]) + 1
        BY <3>2, <3>3, <4>1, NextPlace
      <4> QED BY <3>1, <4>2 DEF n
    <3>5. i - Len(events[d]) = 1 BY <3>2, <3>3
    <3> QED BY <3>1, <3>2, <3>4, <3>5, <1>6
  <2> QED BY <2>1, <2>2
<1> HIDE DEF n
<1>16. Reported'
  <2> SUFFICES ASSUME NEW d \in Cases, NEW i \in DOMAIN events'[d],
                      events'[d][i].type = "task_completed"
               PROVE  /\ events'[d][i].task \in Tasks /\ tasks'[events'[d][i].task] # None
                      /\ \/ events'[d][i].task \in racedTasks'
                         \/ tasks'[events'[d][i].task].status \in Terminal
    BY DEF Reported
  <2>1. CASE i \in DOMAIN events[d] /\ events'[d][i] = events[d][i]
    BY <2>1, <1>1, <1>5, <1>12 DEF TaskInv, Reported, KeepsEnd
  <2>2. CASE events'[d][i].task = r.task
    BY <2>2, <1>3, <1>7, <1>8, <1>11 DEF Terminal
  <2> QED BY <2>1, <2>2, <1>15
<1>17. CompletedOnce'
  <2> SUFFICES ASSUME NEW c \in Cases, NEW d \in Cases, NEW i \in DOMAIN events'[c],
                      NEW j \in DOMAIN events'[d],
                      events'[c][i].type = "task_completed",
                      events'[d][j].type = "task_completed",
                      events'[c][i].task = events'[d][j].task,
                      events'[c][i].task \notin racedTasks'
               PROVE  c = d /\ i = j
    BY DEF CompletedOnce
  <2>1. CASE events'[c][i].task = r.task BY <2>1, <1>15
  <2>2. CASE events'[c][i].task # r.task
    <3>1. i \in DOMAIN events[c] /\ events'[c][i] = events[c][i] BY <2>2, <1>15
    <3>2. j \in DOMAIN events[d] /\ events'[d][j] = events[d][j] BY <2>2, <1>15
    <3> QED BY <3>1, <3>2, <1>1, <1>5 DEF TaskInv, CompletedOnce
  <2> QED BY <2>1, <2>2
<1> QED BY <1>5a, <1>9, <1>12, <1>13, <1>16, <1>17 DEF TaskInv

-----------------------------------------------------------------------------
LEMMA BeginRace ==
  ASSUME RaceInv, NEW s \in Sessions, NEW r \in Requests,
         \/ BeginCreate(s, r) \/ BeginOnCase(s, r)
         \/ BeginUpdateTask(s, r) \/ BeginComplete(s, r)
  PROVE  Reads' /\ UNCHANGED <<cases, tasks, events, racedCases, racedTasks>>
<1>1. /\ cases \in [Cases -> Opt(CaseRow)] /\ tasks \in [Tasks -> Opt(TaskRow)]
      /\ r \in AllRequests
  BY NoneDiffers DEF RaceInv, TypeInv, TypeOK
<1>2. CASE BeginCreate(s, r)
  <2>1. r.op = "create" /\ Start(s, r, None, None) BY <1>2 DEF BeginCreate
  <2> QED BY <2>1, StartReads DEF OnCase, OnTask, Start, raced
<1>3. CASE BeginOnCase(s, r)
  <2>1. r.op \in OnCase /\ Start(s, r, cases[r.case], None) /\ SeesCase(r.by, r.case)
    BY <1>3 DEF BeginOnCase, OnCase
  <2>2. cases[r.case] \in CaseRow BY <1>1, <2>1, Shapes DEF SeesCase, Opt
  <2> QED BY <2>1, <2>2, StartReads DEF OnCase, OnTask, Start, raced
<1>4. CASE BeginUpdateTask(s, r) \/ BeginComplete(s, r)
  <2>1. /\ r.op \in OnTask /\ Start(s, r, None, tasks[r.task])
        /\ SeesTask(r.by, r.case, r.task)
        /\ r.op = "update_task" /\ tasks[r.task].status \in Terminal
             => r.status \in Opt(Terminal)
        /\ r.op = "complete" => tasks[r.task].status \notin Terminal
    BY <1>4 DEF BeginUpdateTask, BeginComplete, OnTask
  <2>2. tasks[r.task] \in TaskRow BY <1>1, <2>1, Shapes DEF SeesTask, Opt
  <2> QED BY <2>1, <2>2, StartReads DEF OnCase, OnTask, Start, raced
<1> QED BY <1>2, <1>3, <1>4

LEMMA TablesUnchanged ==
  ASSUME CaseInv, TaskInv, UNCHANGED <<cases, tasks, events, racedCases, racedTasks>>
  PROVE  RacesGrow /\ KeepsEnd /\ CaseInv' /\ TaskInv'
<1>1. RacesGrow BY DEF RacesGrow
<1>2. CompletionMatches' /\ KeepsEnd BY <1>1, TasksUnchanged DEF TaskInv
<1>3. Reported' /\ CompletedOnce' BY <1>1, <1>2, ReportsUnchanged DEF TaskInv
<1> QED BY <1>1, <1>2, <1>3, CaseUnchanged DEF TaskInv

LEMMA RaceStep ==
  ASSUME RaceInv, [Next]_vars
  PROVE  RaceInv' /\ KeepsEnd
<1>1. TypeInv /\ Reads /\ CaseInv /\ TaskInv BY DEF RaceInv
<1>2. TypeInv' BY <1>1, TypeStep, TypeStutter DEF Next
<1>3. CASE UNCHANGED vars
  <2>1. Reads' BY <1>1, <1>3 DEF Reads, ReadTask, vars, raced
  <2>2. CaseInv' /\ TaskInv' /\ KeepsEnd BY <1>1, <1>3, TablesUnchanged DEF vars, raced
  <2> QED BY <1>2, <2>1, <2>2 DEF RaceInv
<1>4. ASSUME NEW s \in Sessions, Handler(s)
      PROVE  Reads' /\ CaseInv' /\ TaskInv' /\ KeepsEnd
  <2>1. ASSUME NEW r \in Requests,
               \/ BeginCreate(s, r) \/ BeginOnCase(s, r)
               \/ BeginUpdateTask(s, r) \/ BeginComplete(s, r)
        PROVE  Reads' /\ CaseInv' /\ TaskInv' /\ KeepsEnd
    BY <2>1, <1>1, BeginRace, TablesUnchanged
  <2>2. ASSUME \/ \E c \in Cases : CommitCreate(s, c)
               \/ CommitUpdate(s) \/ CommitContact(s)
               \/ \E t \in Tasks : CommitCreateTask(s, t)
               \/ CommitUpdateTask(s) \/ CommitComplete(s)
        PROVE  Reads' /\ CaseInv' /\ TaskInv' /\ KeepsEnd
    <3>1. RacesGrow /\ KeepsEnd /\ CaseInv' /\ TaskInv'
      BY <2>2, CreateRace, UpdateRace, ContactRace, CreateTaskRace, UpdateTaskRace,
         CompleteRace
    <3>2. Finish(s)
      BY <2>2 DEF CommitCreate, CommitUpdate, CommitContact, CommitCreateTask,
                  CommitUpdateTask, CommitComplete
    <3> QED BY <3>1, <3>2, EndReads DEF Finish
  <2>3. ASSUME Lost(s)
        PROVE  Reads' /\ CaseInv' /\ TaskInv' /\ KeepsEnd
    <3>1. /\ ses' = [ses EXCEPT ![s] = Idle]
          /\ UNCHANGED <<cases, tasks, events, racedCases, racedTasks>>
      BY <2>3 DEF Lost, raced
    <3> QED BY <3>1, <1>1, EndReads, TablesUnchanged
  <2> QED BY <1>4, <2>1, <2>2, <2>3 DEF Handler
<1>5. CASE Next BY <1>2, <1>4, <1>5 DEF Next, RaceInv
<1> QED BY <1>3, <1>5

LEMMA RaceInit == Init => RaceInv
<1> SUFFICES ASSUME Init PROVE RaceInv OBVIOUS
<1>1. TypeInv BY TypeInit
<1>2. Reads BY DEF Init, Reads, Idle
<1>3. CaseInv BY DEF Init, CaseInv, ResolvedAtMatchesStatus, TrailExplainsStatus
<1>4. \A c \in Cases : events[c] = << >> BY DEF Init
<1>5. TaskInv
  BY <1>4 DEF Init, TaskInv, CompletionMatches, Reported, CompletedOnce
<1> QED BY <1>1, <1>2, <1>3, <1>5 DEF RaceInv

LEMMA RaceInvariance == Spec => []RaceInv
<1>1. RaceInv /\ [Next]_vars => RaceInv' BY RaceStep
<1> QED BY <1>1, RaceInit, PTL DEF Spec

(* However requests overlap, resolved_at is set exactly while a case is    *)
(* resolved, of every case that is not raced (update_intervention,         *)
(* add_contact).                                                           *)
THEOREM ResolvedAtSound == Spec => []ResolvedAtMatchesStatus
<1>1. RaceInv => ResolvedAtMatchesStatus BY DEF RaceInv, CaseInv
<1> QED BY <1>1, RaceInvariance, PTL

(* However requests overlap, the status changes on the timeline of a case  *)
(* that is not raced lead from open to its status without a gap            *)
(* (record_intervention_event).                                            *)
THEOREM TrailSound == Spec => []TrailExplainsStatus
<1>1. RaceInv => TrailExplainsStatus BY DEF RaceInv, CaseInv
<1> QED BY <1>1, RaceInvariance, PTL

(* However requests overlap, completed_at and the note of a task that is   *)
(* not raced agree with its status (update_task, complete_task).           *)
THEOREM CompletionSound == Spec => []CompletionMatches
<1>1. RaceInv => CompletionMatches BY DEF RaceInv, TaskInv
<1> QED BY <1>1, RaceInvariance, PTL

(* However requests overlap, the completion of a task that is not raced is *)
(* reported at most once (complete_task refuses terminal tasks and none is *)
(* reopened).                                                              *)
THEOREM ReportedOnce == Spec => []CompletedOnce
<1>1. RaceInv => CompletedOnce BY DEF RaceInv, TaskInv
<1> QED BY <1>1, RaceInvariance, PTL

(* However requests overlap, "Completed or cancelled tasks cannot be       *)
(* reopened", unless a task is raced (update_task).                        *)
THEOREM TerminalIsFinal == Spec => TerminalTasksStayTerminal
<1>1. RaceInv /\ [Next]_vars =>
        [\A t \in Tasks \ racedTasks' : tasks[t] # None /\ tasks[t].status \in Terminal =>
                            tasks'[t] # None /\ tasks'[t].status \in Terminal]_vars
  BY RaceStep DEF KeepsEnd
<1>2. Spec => [][\A t \in Tasks \ racedTasks' :
                   tasks[t] # None /\ tasks[t].status \in Terminal =>
                   tasks'[t] # None /\ tasks'[t].status \in Terminal]_vars
  BY <1>1, RaceInvariance, PTL DEF Spec
<1> QED BY <1>2 DEF TerminalTasksStayTerminal
=============================================================================
