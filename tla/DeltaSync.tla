------------------------------- MODULE DeltaSync -------------------------------
(***************************************************************************)
(* Imports of whole ERP bundles: run_connector_sync fetches the current    *)
(* export, compares its fingerprint with the one stored for the channel,   *)
(* and either skips it or applies it (app/import_/connectors/runner.py,    *)
(* apply_directory in app/import_/apply.py); a webhook or an upload        *)
(* applies without comparing.  Nothing stops two imports from overlapping. *)
(*                                                                         *)
(* A successful import is three commits: the rows, the import_runs entry,  *)
(* the fingerprint.  The process may die between them.  Entries of status  *)
(* SKIPPED and FAILED are left out: nothing reads them, and with them the  *)
(* failed fetch, of which such an entry is the whole effect.               *)
(*                                                                         *)
(* Of a bundle the scores are modelled line by line, and the students its  *)
(* users.csv creates, without whom a line has nobody to belong to.         *)
(* BundleApply models its other files, which here only may be what the     *)
(* database refuses; ImportConflicts what a line does to an existing row.  *)
(***************************************************************************)
EXTENDS MappingQueue, Naturals

CONSTANTS
  Bundles,     \* contents an export can have
  Students,    \* admission numbers
  Enrolled,    \* those of the students there are at the beginning
  Lines,       \* lines of scores, numbered in the order of their files
  LinesOf,     \* the lines of a bundle
  CodeOf,      \* the assessment code of a line
  StudentOf,   \* the student of a line
  Fits,        \* the assessments whose section and range admit a line
  Enrols,      \* the students a bundle's users.csv may create
  Invalid,     \* bundles that fail validation
  Refusable,   \* bundles the database may refuse for their other files
  SyncJobs,    \* connector syncs that may run at the same time
  PushJobs,    \* webhook and upload imports that may run at the same time
  Live,        \* does the connector read the drop directory in place?
  MaxExports,  \* bound: how often the ERP replaces its export or pushes one
  MaxFaults,   \* bound: crashes
  NoBundle

Jobs == SyncJobs \cup PushJobs

(* What scores has one row for: the key uq_score_per_student.              *)
Rows == Assessments \X Students

ASSUME BundleAssumption ==
  /\ Invalid \subseteq Bundles /\ NoBundle \notin Bundles
  /\ Refusable \subseteq Bundles /\ Enrolled \subseteq Students
  /\ Lines \subseteq Nat /\ LinesOf \in [Bundles -> SUBSET Lines]
  /\ CodeOf \in [Lines -> Codes] /\ StudentOf \in [Lines -> Students]
  /\ Fits \in [Lines -> SUBSET Assessments]
  /\ Enrols \in [Bundles -> SUBSET Students]
  /\ Live \in BOOLEAN /\ MaxExports \in Nat /\ MaxFaults \in Nat

VARIABLES
  drop,        \* what the ERP exports now
  exports,     \* how often it changed or was pushed
  students,    \* the tenant's students
  score,       \* the bundle whose line a row of scores holds
  stored,      \* import_sync_state.bundle_fingerprint of the channel
  logged,      \* bundles with an entry of status APPLIED in import_runs
  job,         \* the imports
  faults,      \* crashes so far
  committed,   \* history: bundles whose rows some import has committed
  covered      \* history: codes such an import had to score or to hold

world == <<drop, exports, faults>>
tables == <<students, score, stored, logged, committed, covered>>
syncVars == <<world, tables, job>>
vars == <<queueVars, syncVars>>

Stages == {"idle", "fetched", "due", "applying", "rows", "logged"}

(* bundle is what was fetched and fingerprinted, content what is applied.  *)
(* Of an import that applies: todo are the lines still to be read, enrols  *)
(* the students it has inserted, owes the codes of the lines whose student *)
(* there was when it came to the scores (history), held the codes for which*)
(* it has inserted a queue row, adds the rows of scores it has added,      *)
(* pending those of them it has not flushed, wrote the rows it will write. *)
Job == [stage: Stages, kind: {"sync", "force", "push"},
        bundle: Bundles \cup {NoBundle}, content: Bundles \cup {NoBundle},
        todo: SUBSET Lines, enrols: SUBSET Students, owes: SUBSET Codes,
        held: SUBSET Codes, adds: SUBSET Rows, pending: SUBSET Rows,
        wrote: SUBSET Rows]

NoJob == [stage |-> "idle", kind |-> "sync", bundle |-> NoBundle, content |-> NoBundle,
          todo |-> {}, enrols |-> {}, owes |-> {}, held |-> {}, adds |-> {},
          pending |-> {}, wrote |-> {}]

TypeOK ==
  /\ QueueTypeOK
  /\ drop \in Bundles /\ exports \in 0..MaxExports /\ faults \in 0..MaxFaults
  /\ students \subseteq Students
  /\ score \in [Rows -> Bundles \cup {NoBundle}]
  /\ stored \in Bundles \cup {NoBundle}
  /\ logged \subseteq Bundles
  /\ job \in [Jobs -> Job]
  /\ committed \subseteq Bundles /\ covered \subseteq Codes

Init ==
  /\ QueueInit
  /\ drop \in Bundles /\ exports = 0 /\ faults = 0
  /\ students = Enrolled
  /\ score = [r \in Rows |-> NoBundle]
  /\ stored = NoBundle /\ logged = {} /\ committed = {} /\ covered = {}
  /\ job = [j \in Jobs |-> NoJob]

Set(j, fields) == job' = [job EXCEPT ![j] = fields]
End(j) == Set(j, NoJob)

(* The ERP replaces its export.                                            *)
Export(b) ==
  /\ b # drop /\ exports < MaxExports
  /\ drop' = b /\ exports' = exports + 1
  /\ UNCHANGED <<queueVars, tables, job, faults>>

(* materialize_bundle, compute_bundle_fingerprint.                         *)
Fetch(j, kind) ==
  /\ j \in SyncJobs /\ job[j].stage = "idle"
  /\ Set(j, [NoJob EXCEPT !.stage = "fetched", !.kind = kind, !.bundle = drop])
  /\ UNCHANGED <<queueVars, world, tables>>

(* A webhook or an upload brings its own bundle.                           *)
Push(j, b) ==
  /\ j \in PushJobs /\ job[j].stage = "idle" /\ exports < MaxExports
  /\ exports' = exports + 1
  /\ Set(j, [NoJob EXCEPT !.stage = "due", !.kind = "push", !.bundle = b])
  /\ UNCHANGED <<queueVars, tables, drop, faults>>

(* Fault: a channel that has a fingerprint is taken to be up to date.      *)
Unchanged_known(j) == job[j].kind = "sync" /\ stored # NoBundle

Unchanged(j) == job[j].kind = "sync" /\ stored = job[j].bundle

Skip(j) ==
  /\ job[j].stage = "fetched" /\ Unchanged(j)
  /\ End(j)
  /\ UNCHANGED <<queueVars, world, tables>>

Compare(j) ==
  /\ job[j].stage = "fetched" /\ ~Unchanged(j)
  /\ Set(j, [job[j] EXCEPT !.stage = "due"])
  /\ UNCHANGED <<queueVars, world, tables>>

(* apply_directory reads the files: of a live directory, as they are now.  *)
ContentNow(j) == IF Live /\ job[j].kind # "push" THEN drop ELSE job[j].bundle

Refuse(j) ==
  /\ job[j].stage = "due" /\ ContentNow(j) \in Invalid
  /\ End(j)
  /\ UNCHANGED <<queueVars, world, tables>>

(* Structure and users.  Which of the users lines create their student is  *)
(* BundleApply's matter; a student whom another import has inserted and not*)
(* committed makes this one wait.                                          *)
EnrolsElsewhere(j, new) == \E i \in Jobs \ {j} : new \cap job[i].enrols # {}

Begin(j, new) ==
  LET b == ContentNow(j)
  IN /\ job[j].stage = "due" /\ b \notin Invalid
     /\ new \subseteq Enrols[b] \ students /\ ~EnrolsElsewhere(j, new)
     /\ Set(j, [job[j] EXCEPT !.stage = "applying", !.content = b,
          !.todo = LinesOf[b], !.enrols = new,
          !.owes = {CodeOf[l] : l \in {k \in LinesOf[b] : StudentOf[k] \in students \cup new}}])
     /\ UNCHANGED <<queueVars, world, tables>>

(***************************************************************************)
(* The lines of scores.csv, in their order.                                *)
(***************************************************************************)
HasLine(j, l) ==
  /\ job[j].stage = "applying" /\ l \in job[j].todo
  /\ \A k \in job[j].todo : l <= k

(* A line has a student among the committed ones and the import's own.  A  *)
(* tenant without a school has no students: each is in a class of one.     *)
HasStudent(j, l) == StudentOf[l] \in students \cup job[j].enrols

(* _resolve_assessment: any one when several carry the code.               *)
Resolves(l, a) == extid[a] = CodeOf[l]

(* A warning, and nothing else: the line's student is not there, which is  *)
(* looked at before its code is; or the assessment is of another class, or *)
(* its range does not admit the marks.                                     *)
SkipLine(j, l) ==
  /\ HasLine(j, l)
  /\ \/ ~HasStudent(j, l)
     \/ \E a \in Assessments \ Fits[l] : Resolves(l, a)
  /\ Set(j, [job[j] EXCEPT !.todo = @ \ {l}])
  /\ UNCHANGED <<queueVars, world, tables>>

(* The row an accepted line comes to.                                      *)
RowOf(l, a) == <<a, StudentOf[l]>>

Meets(j, l, a) == HasLine(j, l) /\ HasStudent(j, l) /\ Resolves(l, a) /\ a \in Fits[l]

(* The row is in the table, or added by this import.                       *)
Present(j, r) == score[r] # NoBundle \/ r \in job[j].adds

(* The row is written at the commit, unless it already was what the line   *)
(* says.                                                                   *)
WriteRow(j, l, r) ==
  /\ r \notin job[j].pending
  /\ Set(j, [job[j] EXCEPT !.todo = @ \ {l},
                           !.wrote = IF score[r] = job[j].content THEN @ ELSE @ \cup {r},
                           !.adds = IF Present(j, r) THEN @ ELSE @ \cup {r},
                           !.pending = IF Present(j, r) THEN @ ELSE @ \cup {r}])
  /\ UNCHANGED <<queueVars, world, tables>>

(* Fault: the line is taken for any assessment that has a code.            *)
ScoreLine_any_assessment(j, l, a) ==
  /\ HasLine(j, l) /\ HasStudent(j, l) /\ extid[a] # NoCode
  /\ WriteRow(j, l, RowOf(l, a))

ScoreLine(j, l, a) == Meets(j, l, a) /\ WriteRow(j, l, RowOf(l, a))

(* The row there is disagrees and the analytics own it (ImportConflicts):  *)
(* queue_import_conflict, which flushes.                                   *)
DisputeLine(j, l, a) ==
  /\ Meets(j, l, a) /\ Present(j, RowOf(l, a)) /\ RowOf(l, a) \notin job[j].pending
  /\ Set(j, [job[j] EXCEPT !.todo = @ \ {l}, !.pending = {}])
  /\ UNCHANGED <<queueVars, world, tables>>

(* A second line for a row the import has added and not flushed: the lookup*)
(* does not see it, it is added again, and the next flush is refused.  What*)
(* the import does until then nobody sees.                                 *)
RepeatLine(j, l, a) ==
  /\ Meets(j, l, a) /\ RowOf(l, a) \in job[j].pending
  /\ End(j)
  /\ UNCHANGED <<queueVars, world, tables>>

(* No assessment carries the code: queue_unmapped_assessment, which flushes*)
(* unless the code is decided.  A code held by the uncommitted insert of   *)
(* another import makes this one wait.                                     *)
HeldElsewhere(j, c) == \E i \in Jobs \ {j} : c \in job[i].held

Unresolved(l) == \A a \in Assessments : ~Resolves(l, a)

(* Fault: only a sync holds codes; a push drops the line.                  *)
HoldLine_syncs_only(j, l) ==
  LET c == CodeOf[l]
  IN /\ HasLine(j, l) /\ HasStudent(j, l) /\ Unresolved(l) /\ ~HeldElsewhere(j, c)
     /\ Set(j, [job[j] EXCEPT !.todo = @ \ {l},
          !.held = IF MustHold(c) /\ job[j].kind # "push" THEN @ \cup {c} ELSE @,
          !.pending = IF queue[c] \in {"none", "pending"} THEN {} ELSE @])
     /\ UNCHANGED <<queueVars, world, tables>>

HoldLine(j, l) ==
  LET c == CodeOf[l]
  IN /\ HasLine(j, l) /\ HasStudent(j, l) /\ Unresolved(l) /\ ~HeldElsewhere(j, c)
     /\ Set(j, [job[j] EXCEPT !.todo = @ \ {l},
          !.held = IF MustHold(c) THEN @ \cup {c} ELSE @,
          !.pending = IF queue[c] \in {"none", "pending"} THEN {} ELSE @])
     /\ UNCHANGED <<queueVars, world, tables>>

(* A unique key refuses an insert of this session: another import inserted *)
(* the same student, queue row or score first (or two imports wait for each*)
(* other).  Everything rolls back, and no run is recorded.                 *)
Clash(j) ==
  /\ \/ /\ job[j].stage = "due"
        /\ EnrolsElsewhere(j, Enrols[ContentNow(j)] \ students)
     \/ /\ job[j].stage = "applying"
        /\ \/ \E l \in job[j].todo : HeldElsewhere(j, CodeOf[l]) /\ MustHold(CodeOf[l])
           \/ \E r \in job[j].adds : score[r] # NoBundle
  /\ End(j)
  /\ UNCHANGED <<queueVars, world, tables>>

(* The database refuses what another file of the bundle says, as a second  *)
(* line of a new section does (BundleApply).                               *)
RefuseFiles(j) ==
  /\ job[j].stage = "applying" /\ job[j].content \in Refusable
  /\ End(j)
  /\ UNCHANGED <<queueVars, world, tables>>

CommitRows(j) ==
  /\ job[j].stage = "applying" /\ job[j].todo = {}
  /\ \A r \in job[j].adds : score[r] = NoBundle
  /\ Hold(job[j].held)
  /\ students' = students \cup job[j].enrols
  /\ score' = [r \in Rows |-> IF r \in job[j].wrote THEN job[j].content ELSE score[r]]
  /\ committed' = committed \cup {job[j].content}
  /\ covered' = covered \cup job[j].owes
  /\ Set(j, [job[j] EXCEPT !.stage = "rows", !.enrols = {}, !.owes = {}, !.held = {},
                           !.adds = {}, !.pending = {}, !.wrote = {}])
  /\ UNCHANGED <<world, stored, logged>>

(* record_import_run, with the audit event of an operator's upload.        *)
LogRun(j) ==
  /\ job[j].stage = "rows"
  /\ logged' = logged \cup {job[j].content}
  /\ IF job[j].kind = "push" THEN End(j) ELSE Set(j, [job[j] EXCEPT !.stage = "logged"])
  /\ UNCHANGED <<queueVars, world, students, score, stored, committed, covered>>

(* save_applied_fingerprint, of what was fetched.  Reading and writing the *)
(* state row is one step: of two imports that cross here, one writes last, *)
(* or its first insert is refused and it ends as in Crash.                 *)
(* Fault: the fingerprint is saved before the bundle is applied.           *)
SaveFingerprint_early(j) ==
  /\ job[j].stage \in {"due", "logged"}
  /\ stored' = job[j].bundle
  /\ IF job[j].stage = "logged" THEN End(j) ELSE UNCHANGED job
  /\ UNCHANGED <<queueVars, world, students, score, logged, committed, covered>>

SaveFingerprint(j) ==
  /\ job[j].stage = "logged"
  /\ stored' = job[j].bundle
  /\ End(j)
  /\ UNCHANGED <<queueVars, world, students, score, logged, committed, covered>>

(* The process dies; an open transaction is rolled back.                   *)
Crash(j) ==
  /\ job[j].stage # "idle" /\ faults < MaxFaults
  /\ faults' = faults + 1
  /\ End(j)
  /\ UNCHANGED <<queueVars, tables, drop, exports>>

Proceed(j) ==
  \/ Skip(j) \/ Compare(j) \/ Refuse(j)
  \/ \E new \in SUBSET Students : Begin(j, new)
  \/ \E l \in job[j].todo :
       \/ SkipLine(j, l) \/ HoldLine(j, l)
       \/ \E a \in Assessments :
            ScoreLine(j, l, a) \/ DisputeLine(j, l, a) \/ RepeatLine(j, l, a)
  \/ Clash(j) \/ RefuseFiles(j)
  \/ CommitRows(j) \/ LogRun(j) \/ SaveFingerprint(j)

Administer(r) == AdminStep(r) /\ UNCHANGED syncVars

Next ==
  \/ \E b \in Bundles : Export(b)
  \/ \E j \in Jobs :
       \/ \E kind \in {"sync", "force"} : Fetch(j, kind)
       \/ \E b \in Bundles : Push(j, b)
       \/ Proceed(j)
       \/ Crash(j)
  \/ \E r \in Admins : Administer(r)

Spec == Init /\ [][Next]_vars

(* The schedule starts a sync again and again, and an import that runs goes*)
(* on.  Nothing makes the ERP, an administrator or a push start.           *)
FairSpec ==
  /\ Spec
  /\ \A j \in SyncJobs : WF_vars(Fetch(j, "sync"))
  /\ \A j \in Jobs : WF_vars(Proceed(j))

-----------------------------------------------------------------------------
(* A fingerprint is stored only for a bundle that was valid, whose rows are*)
(* committed and whose run is recorded, however imports overlap and        *)
(* wherever they die (runner.py: the fingerprint is the last commit).      *)
FingerprintWasApplied ==
  stored # NoBundle =>
    stored \in (committed \cap logged) \ Invalid

(* No code is lost: once an import is committed, the queue knows every code*)
(* of a line whose student there was when it came to the scores, unless an *)
(* assessment carries it.  (The other lines are dropped with a warning.)   *)
UnmappedCodesAreHeld ==
  \A c \in covered : queue[c] = "none" => \E a \in Assessments : extid[a] = c

(* A score comes from a line of a committed bundle about its student, which*)
(* names the code its assessment carries, also when the assessment was     *)
(* mapped meanwhile, and was within the assessment's class and range.      *)
ComesFrom(r, b) ==
  \E l \in LinesOf[b] : Resolves(l, r[1]) /\ r[1] \in Fits[l] /\ r[2] = StudentOf[l]

ScoresComeFromTheirCode ==
  \A r \in Rows :
    score[r] # NoBundle => score[r] \in committed /\ ComesFrom(r, score[r])

(* No two lines of the bundle are about one row.                           *)
Distinct(b) ==
  \A k, l \in LinesOf[b] : CodeOf[k] = CodeOf[l] /\ StudentOf[k] = StudentOf[l] => k = l

(* A valid export that stays is applied in the end, and known as applied:  *)
(* one that does not name a row of scores twice, and of which the database *)
(* takes the other files.  Any other may be refused each time it is tried. *)
StableExportIsApplied ==
  \A b \in Bundles \ (Invalid \cup Refusable) :
    Distinct(b) => (<>[](drop = b) => <>(stored = b))

(* A score held for an administrator lands once its code is mapped and the *)
(* export that carries it stays.                                           *)
HeldScoresLand ==
  \A b \in Bundles \ (Invalid \cup Refusable) :
    Distinct(b) =>
      \A l \in LinesOf[b] : \A a \in Fits[l] :
        <>[](drop = b /\ Resolves(l, a) /\ StudentOf[l] \in students)
          => <>(score[<<a, StudentOf[l]>>] # NoBundle)
=============================================================================
