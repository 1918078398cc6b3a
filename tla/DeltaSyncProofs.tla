---------------------------- MODULE DeltaSyncProofs ----------------------------
(* Proofs about MappingQueue and DeltaSync, which composes it, for every     *)
(* value of their constants.                                                 *)
EXTENDS DeltaSync, TLAPS

---------------------------------------------------------------------------
(* The queue by itself.                                                     *)

(* Type correctness, however many administrators decide at the same time.  *)
LEMMA QueueTypeStep == QueueTypeOK /\ [QueueNext]_queueVars => QueueTypeOK'
<1> SUFFICES ASSUME QueueTypeOK, [QueueNext]_queueVars PROVE QueueTypeOK'
  OBVIOUS
<1> USE DEF QueueTypeOK, Statuses, Request, NoRequest
<1>1. CASE \E D \in SUBSET {c \in Codes : MustHold(c)} : Hold(D)
  BY <1>1 DEF Hold
<1>2. ASSUME NEW r \in Admins, NEW c \in Codes, NEW a \in Assessments, MapRead(r, c, a)
      PROVE  QueueTypeOK'
  BY <1>2 DEF MapRead
<1>3. ASSUME NEW r \in Admins, NEW c \in Codes, RejectRead(r, c)
      PROVE  QueueTypeOK'
  BY <1>3 DEF RejectRead
<1>4. ASSUME NEW r \in Admins, MapCommit(r) PROVE QueueTypeOK'
  <2>1. req[r].code \in Codes \cup {NoCode} /\ req[r].asm \in Assessments \cup {NoAssessment}
    OBVIOUS
  <2> QED
    BY <1>4, <2>1 DEF MapCommit
<1>5. ASSUME NEW r \in Admins, RejectCommit(r) PROVE QueueTypeOK'
  BY <1>5 DEF RejectCommit
<1>6. ASSUME NEW r \in Admins, RequestLost(r) PROVE QueueTypeOK'
  BY <1>6 DEF RequestLost
<1>7. CASE UNCHANGED queueVars
  BY <1>7 DEF queueVars
<1> QED
  BY <1>1, <1>2, <1>3, <1>4, <1>5, <1>6, <1>7 DEF QueueNext, AdminStep

(* Every reachable state of the queue is well typed (import_mapping_queue, *)
(* assessments.external_id and the open administrators' requests).         *)
THEOREM QueueTypeCorrect == QueueSpec => []QueueTypeOK
<1>1. QueueInit => QueueTypeOK
  BY DEF QueueInit, QueueTypeOK, Statuses, Request, NoRequest
<1> QED
  BY <1>1, QueueTypeStep, PTL DEF QueueSpec

(***************************************************************************)
(* One administrator at a time.  What a request has checked then still     *)
(* holds at its commit: only an import can come in between, and it touches *)
(* no code that has a row.                                                 *)
(***************************************************************************)
SingleAdmin == \A r, s \in Admins : r = s

RequestCurrent(r) ==
  /\ req[r].op = "map" =>
       /\ req[r].code \in Codes /\ req[r].asm \in Assessments
       /\ MayMap(req[r].code, req[r].asm)
       /\ req[r].seen = extid[req[r].asm]
  /\ req[r].op = "reject" => req[r].code \in Codes /\ MayReject(req[r].code)

RequestsCurrent == \A r \in Admins : RequestCurrent(r)

QueueInv == QueueTypeOK /\ RequestsCurrent /\ QueueMatchesAssessments

LEMMA QueueInvInit == QueueInit => QueueInv
<1> SUFFICES ASSUME QueueInit PROVE QueueInv
  OBVIOUS
<1> USE DEF QueueInit, NoRequest
<1>1. QueueTypeOK
  BY DEF QueueTypeOK, Statuses, Request
<1>2. RequestsCurrent
  BY DEF RequestsCurrent, RequestCurrent
<1>3. QueueMatchesAssessments
  BY QueueAssumption DEF QueueMatchesAssessments
<1> QED
  BY <1>1, <1>2, <1>3 DEF QueueInv

LEMMA HoldKeepsQueueInv ==
  ASSUME QueueInv, NEW D \in SUBSET {c \in Codes : MustHold(c)}, Hold(D)
  PROVE  RequestsCurrent' /\ QueueMatchesAssessments'
<1> USE DEF QueueInv, Hold, MustHold, QueueTypeOK
<1>1. \A c \in Codes : queue[c] # "none" => queue'[c] = queue[c]
  OBVIOUS
<1>2. \A c \in Codes : queue[c] = "none" => queue'[c] \in {"none", "pending"}
  OBVIOUS
<1>3. RequestsCurrent'
  BY <1>1 DEF RequestsCurrent, RequestCurrent, MayMap, MayReject
<1>4. QueueMatchesAssessments'
  BY <1>1, <1>2 DEF QueueMatchesAssessments
<1> QED
  BY <1>3, <1>4

LEMMA MapCommitKeepsQueueInv ==
  ASSUME QueueInv, SingleAdmin, NEW r \in Admins, MapCommit(r)
  PROVE  RequestsCurrent' /\ QueueMatchesAssessments'
<1> DEFINE c == req[r].code
           a == req[r].asm
<1>1. /\ c \in Codes /\ a \in Assessments
      /\ queue[c] = "pending" /\ extid[a] \in {NoCode, c}
      /\ \A b \in Assessments \ {a} : extid[b] # c
      /\ req[r].seen = extid[a]
  BY DEF QueueInv, RequestsCurrent, RequestCurrent, MayMap, MapCommit
<1>2. /\ queue' = [queue EXCEPT ![c] = "mapped"]
      /\ target' = [target EXCEPT ![c] = a]
      /\ extid' = IF req[r].seen = c THEN extid ELSE [extid EXCEPT ![a] = c]
      /\ req' = [req EXCEPT ![r] = NoRequest]
  BY DEF MapCommit
<1>3. RequestsCurrent'
  BY <1>2 DEF SingleAdmin, QueueInv, QueueTypeOK, RequestsCurrent, RequestCurrent, NoRequest
<1>4. ASSUME NEW d \in Codes, NEW b \in Assessments
      PROVE  extid'[b] = d <=> queue'[d] = "mapped" /\ target'[d] = b
  <2> HIDE DEF c, a
  <2>1. extid'[b] = IF b = a THEN c ELSE extid[b]
    BY <1>1, <1>2 DEF QueueInv, QueueTypeOK
  <2>2. /\ queue'[d] = IF d = c THEN "mapped" ELSE queue[d]
        /\ target'[d] = IF d = c THEN a ELSE target[d]
    BY <1>2 DEF QueueInv, QueueTypeOK
  <2>3. /\ extid[b] = d <=> queue[d] = "mapped" /\ target[d] = b
        /\ extid[a] = d <=> queue[d] = "mapped" /\ target[d] = a
    BY <1>1 DEF QueueInv, QueueMatchesAssessments
  <2> QED
    BY <1>1, <2>1, <2>2, <2>3, QueueAssumption
<1> QED
  BY <1>3, <1>4 DEF QueueMatchesAssessments

LEMMA QueueInvStep == QueueInv /\ SingleAdmin /\ [QueueNext]_queueVars => QueueInv'
<1> SUFFICES ASSUME QueueInv, SingleAdmin, [QueueNext]_queueVars PROVE QueueInv'
  OBVIOUS
<1>0. QueueTypeOK'
  BY QueueTypeStep DEF QueueInv
<1> SUFFICES RequestsCurrent' /\ QueueMatchesAssessments'
  BY <1>0 DEF QueueInv
<1> USE DEF QueueInv, QueueTypeOK
<1>1. CASE \E D \in SUBSET {c \in Codes : MustHold(c)} : Hold(D)
  BY <1>1, HoldKeepsQueueInv
<1>2. ASSUME NEW r \in Admins, NEW c \in Codes, NEW a \in Assessments, MapRead(r, c, a)
      PROVE  RequestsCurrent' /\ QueueMatchesAssessments'
  <2>1. UNCHANGED <<queue, target, extid>>
    BY <1>2 DEF MapRead
  <2>2. MayMap(c, a)
    BY <1>2 DEF MapRead
  <2>3. \A s \in Admins : s = r
    BY DEF SingleAdmin
  <2>4. req'[r] = [op |-> "map", code |-> c, asm |-> a, seen |-> extid[a]]
    BY <1>2 DEF MapRead
  <2>5. RequestCurrent(r)'
    BY <2>1, <2>2, <2>4 DEF RequestCurrent, MayMap
  <2> QED
    BY <2>1, <2>3, <2>5 DEF RequestsCurrent, QueueMatchesAssessments
<1>3. ASSUME NEW r \in Admins, NEW c \in Codes, RejectRead(r, c)
      PROVE  RequestsCurrent' /\ QueueMatchesAssessments'
  BY <1>3 DEF RejectRead, SingleAdmin, RequestsCurrent, RequestCurrent, MayReject,
              QueueMatchesAssessments
<1>4. ASSUME NEW r \in Admins, MapCommit(r)
      PROVE  RequestsCurrent' /\ QueueMatchesAssessments'
  BY <1>4, MapCommitKeepsQueueInv
<1>5. ASSUME NEW r \in Admins, RejectCommit(r)
      PROVE  RequestsCurrent' /\ QueueMatchesAssessments'
  <2>1. req[r].code \in Codes /\ queue[req[r].code] = "pending"
    BY <1>5 DEF RejectCommit, RequestsCurrent, RequestCurrent, MayReject
  <2>2. RequestsCurrent'
    BY <1>5 DEF RejectCommit, SingleAdmin, RequestsCurrent, RequestCurrent, NoRequest
  <2>3. QueueMatchesAssessments'
    BY <1>5, <2>1 DEF RejectCommit, QueueMatchesAssessments
  <2> QED
    BY <2>2, <2>3
<1>6. ASSUME NEW r \in Admins, RequestLost(r)
      PROVE  RequestsCurrent' /\ QueueMatchesAssessments'
  BY <1>6 DEF RequestLost, SingleAdmin, RequestsCurrent, RequestCurrent, NoRequest,
              QueueMatchesAssessments
<1>7. CASE UNCHANGED queueVars
  BY <1>7 DEF queueVars, RequestsCurrent, RequestCurrent, MayMap, MayReject,
              QueueMatchesAssessments
<1> QED
  BY <1>1, <1>2, <1>3, <1>4, <1>5, <1>6, <1>7 DEF QueueNext, AdminStep

LEMMA QueueInvariance == ASSUME SingleAdmin PROVE QueueSpec => []QueueInv
<1>1. SingleAdmin
  OBVIOUS
<1> QED
  BY <1>1, QueueInvInit, QueueInvStep, PTL DEF QueueSpec

(* While administrators decide one at a time, a code is mapped to an       *)
(* assessment exactly when that assessment carries it                      *)
(* (resolve_mapping_to_assessment writes both sides in one commit).        *)
THEOREM QueueAgrees == ASSUME SingleAdmin PROVE QueueSpec => []QueueMatchesAssessments
<1>1. SingleAdmin
  OBVIOUS
<1>2. QueueInv => QueueMatchesAssessments
  BY DEF QueueInv
<1> QED
  BY <1>1, <1>2, QueueInvariance, PTL

-----------------------------------------------------------------------------
(* The refinement.  A commit of the queue is a step of the lifecycle; all  *)
(* that only moves a request is a stutter.                                 *)
LEMMA InitRefines == QueueInit => Lifecycle!Init
BY DEF QueueInit, Lifecycle!Init, decisionOf

LEMMA MapRefines ==
  ASSUME QueueInv, NEW r \in Admins, MapCommit(r)
  PROVE  Lifecycle!Next
<1> DEFINE c == req[r].code
           a == req[r].asm
<1>1. /\ c \in Codes /\ a \in Assessments
      /\ queue[c] = "pending" /\ extid[a] \in {NoCode, c}
  BY DEF QueueInv, RequestsCurrent, RequestCurrent, MayMap, MapCommit
<1>2. /\ queue' = [queue EXCEPT ![c] = "mapped"]
      /\ target' = [target EXCEPT ![c] = a]
  BY DEF MapCommit
<1> HIDE DEF c, a
<1>3. decisionOf[c] = "pending"
  BY <1>1 DEF decisionOf
<1>4. ASSUME NEW d \in Codes PROVE decisionOf[d] # a
  <2>1. CASE queue[d] = "mapped"
    <3>1. target[d] = a => extid[a] = d /\ d # c
      BY <1>1, <2>1 DEF QueueInv, QueueMatchesAssessments
    <3> QED
      BY <1>1, <2>1, <3>1, QueueAssumption DEF decisionOf
  <2>2. CASE queue[d] # "mapped"
    <3>1. queue[d] \in {"none", "pending", "rejected"}
      BY <2>2 DEF QueueInv, QueueTypeOK, Statuses
    <3>2. decisionOf[d] = queue[d]
      BY <2>2 DEF decisionOf
    <3> QED
      BY <1>1, <3>1, <3>2, QueueAssumption
  <2> QED
    BY <2>1, <2>2
<1>5. decisionOf' = [decisionOf EXCEPT ![c] = a]
  BY <1>1, <1>2 DEF decisionOf, QueueInv, QueueTypeOK
<1>6. Lifecycle!Assign(c, a)
  BY <1>3, <1>4, <1>5 DEF Lifecycle!Assign
<1> QED
  BY <1>1, <1>6 DEF Lifecycle!Next

LEMMA RejectRefines ==
  ASSUME QueueInv, NEW r \in Admins, RejectCommit(r)
  PROVE  Lifecycle!Next
<1> DEFINE c == req[r].code
<1>1. c \in Codes /\ queue[c] = "pending"
  BY DEF QueueInv, RequestsCurrent, RequestCurrent, MayReject, RejectCommit
<1>2. queue' = [queue EXCEPT ![c] = "rejected"] /\ target' = target
  BY DEF RejectCommit
<1> HIDE DEF c
<1>3. decisionOf[c] = "pending"
  BY <1>1 DEF decisionOf
<1>4. decisionOf' = [decisionOf EXCEPT ![c] = "rejected"]
  BY <1>1, <1>2 DEF decisionOf, QueueInv, QueueTypeOK
<1>5. Lifecycle!Reject(c)
  BY <1>3, <1>4 DEF Lifecycle!Reject
<1> QED
  BY <1>1, <1>5 DEF Lifecycle!Next

LEMMA HoldRefines ==
  ASSUME QueueInv, NEW D \in SUBSET {c \in Codes : MustHold(c)}, Hold(D)
  PROVE  Lifecycle!Next
<1>1. \A c \in D : c \in Codes /\ decisionOf[c] = "none"
  BY DEF MustHold, decisionOf
<1>2. decisionOf' = [c \in Codes |-> IF c \in D THEN "pending" ELSE decisionOf[c]]
  <2>1. \A c \in Codes : decisionOf'[c] = IF c \in D THEN "pending" ELSE decisionOf[c]
    BY DEF Hold, decisionOf
  <2> QED
    BY <2>1 DEF decisionOf
<1>3. Lifecycle!HoldSome(D)
  BY <1>1, <1>2 DEF Lifecycle!HoldSome
<1> QED
  BY <1>1, <1>3 DEF Lifecycle!Next

LEMMA StepRefines ==
  QueueInv /\ [QueueNext]_queueVars => [Lifecycle!Next]_decisionOf
<1> SUFFICES ASSUME QueueInv, [QueueNext]_queueVars PROVE [Lifecycle!Next]_decisionOf
  OBVIOUS
<1>1. CASE \E D \in SUBSET {c \in Codes : MustHold(c)} : Hold(D)
  BY <1>1, HoldRefines
<1>2. CASE \E r \in Admins : MapCommit(r)
  BY <1>2, MapRefines
<1>3. CASE \E r \in Admins : RejectCommit(r)
  BY <1>3, RejectRefines
<1>4. CASE UNCHANGED <<queue, target>>
  BY <1>4 DEF decisionOf
<1> QED
  BY <1>1, <1>2, <1>3, <1>4
     DEF QueueNext, AdminStep, MapRead, RejectRead, RequestLost, queueVars

(* While administrators decide one at a time, the queue implements the     *)
(* life of a code: held once, decided once, never decided again.           *)
THEOREM QueueImplementsLifecycle == ASSUME SingleAdmin PROVE QueueSpec => LifecycleSpec
<1>1. SingleAdmin
  OBVIOUS
<1> QED
  BY <1>1, InitRefines, StepRefines, QueueInvariance, PTL
     DEF QueueSpec, LifecycleSpec, Lifecycle!Spec

---------------------------------------------------------------------------
(* The imports that feed it.                                                *)

(***************************************************************************)
(* The inductive invariant, for any number of imports and administrators.  *)
(* TypeOK alone does not say that the codes an import holds are without a  *)
(* row when it commits, nor what an import has established at each stage.  *)
(***************************************************************************)
StillDue(J, c) ==
  \E l \in J.todo : CodeOf[l] = c /\ StudentOf[l] \in students \cup J.enrols

JobOK(J) ==
  /\ J.held # {} => J.stage = "applying"
  /\ \A c \in J.held : queue[c] = "none"
  /\ J.stage # "idle" => J.bundle \in Bundles
  /\ J.stage \in {"applying", "rows", "logged"} => J.content \in Bundles \ Invalid
  /\ \A c \in J.owes : queue[c] # "none" \/ c \in J.held \/ StillDue(J, c)
  /\ J.stage \in {"rows", "logged"} => J.content \in committed
  /\ J.stage = "logged" => J.content \in logged

JobsOK == \A j \in Jobs : JobOK(job[j])

(* The unique key on (tenant_id, external_key).                            *)
HeldApart == \A i, j \in Jobs : i # j => job[i].held \cap job[j].held = {}

(* What an administrator or an assessment refers to has a row.             *)
CodesKnown ==
  /\ \A r \in Admins : req[r].op # "idle" =>
       req[r].code \in Codes /\ queue[req[r].code] # "none"
  /\ \A a \in Assessments : extid[a] # NoCode => queue[extid[a]] # "none"

CommittedKnown ==
  /\ \A b \in committed : b \notin Invalid
  /\ \A c \in covered : queue[c] # "none"

SyncInv == TypeOK /\ JobsOK /\ HeldApart /\ CodesKnown /\ CommittedKnown

LEMMA NoJobOK == NoJob \in Job /\ JobOK(NoJob) /\ NoJob.held = {}
BY DEF NoJob, Job, Stages, JobOK

LEMMA SyncInvInit == Init => SyncInv
<1> SUFFICES ASSUME Init PROVE SyncInv
  OBVIOUS
<1>1. QueueTypeOK
  BY DEF Init, QueueInit, QueueTypeOK, Statuses, Request, NoRequest
<1>2. TypeOK
  BY <1>1, NoJobOK, BundleAssumption DEF Init, TypeOK
<1>3. JobsOK /\ HeldApart
  BY NoJobOK DEF Init, JobsOK, HeldApart
<1>4. CodesKnown
  BY DEF Init, QueueInit, CodesKnown, NoRequest
<1>5. CommittedKnown
  BY DEF Init, CommittedKnown
<1> QED
  BY <1>2, <1>3, <1>4, <1>5 DEF SyncInv

(* A step of one import that leaves the queue alone.                       *)
LEMMA SetKeepsInv ==
  ASSUME SyncInv, NEW j \in Jobs, NEW T \in Job, Set(j, T), UNCHANGED queueVars,
         UNCHANGED <<students, committed, covered>>, logged \subseteq logged', JobOK(T)',
         \A c \in T.held : \A i \in Jobs \ {j} : c \notin job[i].held
  PROVE  /\ job' \in [Jobs -> Job]
         /\ JobsOK' /\ HeldApart' /\ CodesKnown' /\ CommittedKnown'
<1>1. job \in [Jobs -> Job] /\ job' = [job EXCEPT ![j] = T]
  BY DEF SyncInv, TypeOK, Set
<1>2. \A i \in Jobs : job'[i] = IF i = j THEN T ELSE job[i]
  BY <1>1
<1>3. UNCHANGED <<queue, target, extid, req>>
  BY DEF queueVars
<1>4. JobsOK'
  <2>1. ASSUME NEW i \in Jobs, i # j PROVE JobOK(job[i])'
    BY <1>2, <1>3, <2>1 DEF SyncInv, JobsOK, JobOK, StillDue
  <2> QED
    BY <1>2, <2>1 DEF JobsOK
<1>5. HeldApart'
  BY <1>2 DEF SyncInv, HeldApart
<1>6. CodesKnown' /\ CommittedKnown'
  BY <1>3 DEF SyncInv, CodesKnown, CommittedKnown
<1> QED
  BY <1>1, <1>4, <1>5, <1>6

LEMMA EndKeepsInv ==
  ASSUME SyncInv, NEW j \in Jobs, End(j), UNCHANGED queueVars,
         UNCHANGED <<students, committed, covered>>, logged \subseteq logged'
  PROVE  /\ job' \in [Jobs -> Job]
         /\ JobsOK' /\ HeldApart' /\ CodesKnown' /\ CommittedKnown'
<1>1. JobOK(NoJob)'
  BY DEF NoJob, JobOK
<1> QED
  BY <1>1, NoJobOK, SetKeepsInv DEF End

LEMMA FetchPushKeepInv ==
  ASSUME SyncInv, NEW j \in Jobs, NEW kind \in {"sync", "force"}, NEW b \in Bundles,
         Fetch(j, kind) \/ Push(j, b)
  PROVE  SyncInv'
<1>1. QueueTypeOK' /\ UNCHANGED queueVars
  BY DEF SyncInv, TypeOK, Fetch, Push, queueVars, QueueTypeOK
<1>2. CASE Fetch(j, kind)
  <2>0. PICK T : T = [NoJob EXCEPT !.stage = "fetched", !.kind = kind, !.bundle = drop]
    OBVIOUS
  <2>1. T \in Job /\ JobOK(T)' /\ T.held = {}
    BY <2>0 DEF SyncInv, TypeOK, NoJob, Job, Stages, JobOK
  <2>2. Set(j, T)
    BY <1>2, <2>0 DEF Fetch
  <2>3. UNCHANGED <<world, tables>>
    BY <1>2 DEF Fetch
  <2> QED
    BY <1>1, <2>1, <2>2, <2>3, SetKeepsInv DEF SyncInv, TypeOK, world, tables
<1>3. CASE Push(j, b)
  <2>0. PICK T : T = [NoJob EXCEPT !.stage = "due", !.kind = "push", !.bundle = b]
    OBVIOUS
  <2>1. T \in Job /\ JobOK(T)' /\ T.held = {}
    BY <2>0 DEF NoJob, Job, Stages, JobOK
  <2>2. Set(j, T)
    BY <1>3, <2>0 DEF Push
  <2>3. UNCHANGED <<drop, faults, tables>> /\ exports' = exports + 1 /\ exports < MaxExports
    BY <1>3 DEF Push
  <2>4. exports' \in 0..MaxExports
    BY <2>3, BundleAssumption DEF SyncInv, TypeOK
  <2> QED
    BY <1>1, <2>1, <2>2, <2>3, <2>4, SetKeepsInv DEF SyncInv, TypeOK, tables
<1> QED
  BY <1>2, <1>3

(* The import ends without a trace.                                        *)
EndsUnseen(j) ==
  \/ Skip(j) \/ Refuse(j) \/ Clash(j) \/ RefuseFiles(j) \/ Crash(j)
  \/ \E l \in job[j].todo, a \in Assessments : RepeatLine(j, l, a)

LEMMA EndsKeepInv ==
  ASSUME SyncInv, NEW j \in Jobs, EndsUnseen(j)
  PROVE  SyncInv'
<1>1. End(j) /\ UNCHANGED <<queueVars, tables, drop, exports>>
  BY DEF EndsUnseen, Skip, Refuse, Clash, RefuseFiles, RepeatLine, Crash, world
<1>2. faults' \in 0..MaxFaults
  <2>1. faults' = faults \/ (faults' = faults + 1 /\ faults < MaxFaults)
    BY DEF EndsUnseen, Skip, Refuse, Clash, RefuseFiles, RepeatLine, Crash, world
  <2> QED
    BY <2>1, BundleAssumption DEF SyncInv, TypeOK
<1>3. QueueTypeOK'
  BY <1>1 DEF SyncInv, TypeOK, queueVars, QueueTypeOK
<1> QED
  BY <1>1, <1>2, <1>3, EndKeepsInv DEF SyncInv, TypeOK, tables

(* What Begin leaves in the import that applies the bundle b.              *)
Began(J, b, new) ==
  [J EXCEPT !.stage = "applying", !.content = b, !.todo = LinesOf[b], !.enrols = new,
   !.owes = {CodeOf[l] : l \in {k \in LinesOf[b] : StudentOf[k] \in students \cup new}}]

LEMMA CompareBeginKeepInv ==
  ASSUME SyncInv, NEW j \in Jobs, NEW new \in SUBSET Students,
         Compare(j) \/ Begin(j, new)
  PROVE  SyncInv'
<1>0. job[j] \in Job /\ JobOK(job[j])
  BY DEF SyncInv, TypeOK, JobsOK
<1>1. UNCHANGED <<queueVars, world, tables>>
  BY DEF Compare, Begin
<1>2. QueueTypeOK'
  BY <1>1 DEF SyncInv, TypeOK, queueVars, QueueTypeOK
<1>3. CASE Compare(j)
  <2>0. PICK T : T = [job[j] EXCEPT !.stage = "due"]
    OBVIOUS
  <2>1. T \in Job /\ job[j].stage = "fetched" /\ job[j].held = {}
    BY <1>0, <1>3, <2>0 DEF Job, Stages, Compare, JobOK
  <2>2. JobOK(T)' /\ T.held = {}
    BY <1>0, <1>1, <2>0, <2>1 DEF Job, JobOK, StillDue, queueVars, tables
  <2>3. Set(j, T)
    BY <1>3, <2>0 DEF Compare
  <2> QED
    BY <1>1, <1>2, <2>1, <2>2, <2>3, SetKeepsInv DEF SyncInv, TypeOK, world, tables
<1>4. CASE Begin(j, new)
  <2>a. PICK b : b = ContentNow(j)
    OBVIOUS
  <2>b. PICK T : T = Began(job[j], b, new)
    OBVIOUS
  <2>0. b \in Bundles \ Invalid
    BY <1>0, <1>4, <2>a DEF Begin, ContentNow, JobOK, SyncInv, TypeOK
  <2>1. Set(j, T)
    BY <1>4, <2>a, <2>b DEF Begin, Began
  <2>2. job[j].stage = "due" /\ job[j].held = {}
    BY <1>0, <1>4 DEF Begin, JobOK
  <2>c. PICK O : O = {CodeOf[l] : l \in {k \in LinesOf[b] : StudentOf[k] \in students \cup new}}
    OBVIOUS
  <2>d. O \subseteq Codes /\ LinesOf[b] \subseteq Lines
    BY <2>0, <2>c, BundleAssumption
  <2>3. T \in Job
    BY <1>0, <2>0, <2>b, <2>c, <2>d DEF Began, Job, Stages
  <2>4. /\ T.held = {} /\ T.stage = "applying" /\ T.content = b /\ T.todo = LinesOf[b]
        /\ T.enrols = new /\ T.owes = O /\ T.bundle \in Bundles
    BY <1>0, <2>2, <2>b, <2>c DEF Began, Job, JobOK
  <2>5. \A c \in T.owes : StillDue(T, c)'
    BY <1>1, <2>4, <2>c DEF StillDue, tables
  <2>6. JobOK(T)'
    BY <2>0, <2>4, <2>5 DEF JobOK
  <2> QED
    BY <1>1, <1>2, <2>1, <2>3, <2>4, <2>6, SetKeepsInv DEF SyncInv, TypeOK, world, tables
<1> QED
  BY <1>3, <1>4

(***************************************************************************)
(* A line that holds no code.  Whoever looked its code up has found it, or *)
(* the line has no student.                                                *)
(***************************************************************************)
Forgets(J, T, l) ==
  /\ T.stage = J.stage /\ T.content = J.content /\ T.bundle = J.bundle /\ T.kind = J.kind
  /\ T.todo = J.todo \ {l} /\ T.enrols = J.enrols /\ T.owes = J.owes

LEMMA LineKeepsInv ==
  ASSUME SyncInv, NEW j \in Jobs, NEW l \in Lines, NEW T \in Job, Set(j, T),
         UNCHANGED <<queueVars, world, tables>>, Forgets(job[j], T, l),
         T.held = job[j].held, job[j].stage = "applying",
         ~HasStudent(j, l) \/ \E a \in Assessments : Resolves(l, a)
  PROVE  SyncInv'
<1>0. job[j] \in Job /\ JobOK(job[j])
  BY DEF SyncInv, TypeOK, JobsOK
<1>1. QueueTypeOK'
  BY DEF SyncInv, TypeOK, queueVars, QueueTypeOK
<1>2. HasStudent(j, l) => queue[CodeOf[l]] # "none"
  BY QueueAssumption, BundleAssumption DEF SyncInv, CodesKnown, Resolves
<1>3. \A c \in T.owes : queue[c] # "none" \/ c \in T.held \/ StillDue(T, c)
  <2> SUFFICES ASSUME NEW c \in T.owes, queue[c] = "none", c \notin T.held
               PROVE  StillDue(T, c)
    OBVIOUS
  <2>1. PICK k \in job[j].todo : CodeOf[k] = c /\ StudentOf[k] \in students \cup job[j].enrols
    BY <1>0 DEF JobOK, StillDue, Forgets
  <2>2. k # l
    BY <1>2, <2>1 DEF HasStudent
  <2> QED
    BY <2>1, <2>2 DEF StillDue, Forgets
<1>4. JobOK(T)'
  BY <1>0, <1>3 DEF JobOK, StillDue, Forgets, queueVars, tables
<1>5. \A d \in T.held : \A i \in Jobs \ {j} : d \notin job[i].held
  BY DEF SyncInv, HeldApart
<1> QED
  BY <1>1, <1>4, <1>5, SetKeepsInv DEF SyncInv, TypeOK, world, tables

(* What WriteRow leaves of the import.                                     *)
WroteRow(J, l, r, b, present) ==
  [J EXCEPT !.todo = @ \ {l},
            !.wrote = IF score[r] = b THEN @ ELSE @ \cup {r},
            !.adds = IF present THEN @ ELSE @ \cup {r},
            !.pending = IF present THEN @ ELSE @ \cup {r}]

LEMMA ScoreLineKeepsInv ==
  ASSUME SyncInv, NEW j \in Jobs, NEW l \in job[j].todo, NEW a \in Assessments,
         ScoreLine(j, l, a)
  PROVE  SyncInv'
<1>a. PICK r : r = RowOf(l, a)
  OBVIOUS
<1>b. PICK present \in BOOLEAN : present = Present(j, r)
  BY DEF Present
<1>c. PICK T : T = WroteRow(job[j], l, r, job[j].content, present)
  OBVIOUS
<1>0. job[j] \in Job /\ l \in Lines
  BY DEF SyncInv, TypeOK, Job
<1>1. Set(j, T) /\ UNCHANGED <<queueVars, world, tables>> /\ job[j].stage = "applying"
  BY <1>a, <1>b, <1>c DEF ScoreLine, WriteRow, WroteRow, Meets, HasLine
<1>2. Resolves(l, a)
  BY DEF ScoreLine, Meets
<1>3. r \in Rows
  BY <1>0, <1>a, BundleAssumption DEF RowOf, Rows
<1>4. T \in Job
  BY <1>0, <1>3, <1>c DEF WroteRow, Job
<1>5. Forgets(job[j], T, l) /\ T.held = job[j].held
  BY <1>0, <1>c DEF WroteRow, Job, Forgets
<1> QED
  BY <1>0, <1>1, <1>2, <1>4, <1>5, LineKeepsInv

LEMMA SkipKeepsInv ==
  ASSUME SyncInv, NEW j \in Jobs, NEW l \in job[j].todo, SkipLine(j, l)
  PROVE  SyncInv'
<1>0. job[j] \in Job /\ l \in Lines
  BY DEF SyncInv, TypeOK, Job
<1>1. PICK T : T = [job[j] EXCEPT !.todo = @ \ {l}]
  OBVIOUS
<1>2. T \in Job /\ Forgets(job[j], T, l) /\ T.held = job[j].held
  BY <1>0, <1>1 DEF Job, Forgets
<1>3. /\ job[j].stage = "applying" /\ UNCHANGED <<queueVars, world, tables>>
      /\ ~HasStudent(j, l) \/ \E x \in Assessments : Resolves(l, x)
  BY DEF SkipLine, HasLine
<1>4. Set(j, T)
  BY <1>1 DEF SkipLine
<1> QED
  BY <1>0, <1>2, <1>3, <1>4, LineKeepsInv

LEMMA DisputeKeepsInv ==
  ASSUME SyncInv, NEW j \in Jobs, NEW l \in job[j].todo, NEW a \in Assessments,
         DisputeLine(j, l, a)
  PROVE  SyncInv'
<1>0. job[j] \in Job /\ l \in Lines
  BY DEF SyncInv, TypeOK, Job
<1>1. PICK T : T = [job[j] EXCEPT !.todo = @ \ {l}, !.pending = {}]
  OBVIOUS
<1>2. T \in Job /\ Forgets(job[j], T, l) /\ T.held = job[j].held
  BY <1>0, <1>1 DEF Job, Forgets
<1>3. /\ job[j].stage = "applying" /\ UNCHANGED <<queueVars, world, tables>>
      /\ \E x \in Assessments : Resolves(l, x)
  BY DEF DisputeLine, Meets, HasLine
<1>4. Set(j, T)
  BY <1>1 DEF DisputeLine
<1> QED
  BY <1>0, <1>2, <1>3, <1>4, LineKeepsInv

(* What HoldLine leaves of the import; must: the code has no row yet.      *)
HeldLine(J, l, c) ==
  [J EXCEPT !.todo = @ \ {l}, !.held = IF MustHold(c) THEN @ \cup {c} ELSE @,
            !.pending = IF queue[c] \in {"none", "pending"} THEN {} ELSE @]

LEMMA HoldLineKeepsInv ==
  ASSUME SyncInv, NEW j \in Jobs, NEW l \in job[j].todo, HoldLine(j, l)
  PROVE  SyncInv'
<1>a. PICK c : c = CodeOf[l]
  OBVIOUS
<1>c. PICK T : T = HeldLine(job[j], l, c)
  OBVIOUS
<1>0. job[j] \in Job /\ JobOK(job[j]) /\ l \in Lines
  BY DEF SyncInv, TypeOK, JobsOK, Job
<1>1. Set(j, T) /\ UNCHANGED <<queueVars, world, tables>> /\ job[j].stage = "applying"
      /\ ~HeldElsewhere(j, c)
  BY <1>a, <1>c DEF HoldLine, HasLine, HeldLine
<1>2. QueueTypeOK'
  BY <1>1 DEF SyncInv, TypeOK, queueVars, QueueTypeOK
<1>3. c \in Codes
  BY <1>0, <1>a, BundleAssumption
<1>4. T \in Job
  BY <1>0, <1>3, <1>c DEF HeldLine, Job
<1>5. /\ T.held = IF MustHold(c) THEN job[j].held \cup {c} ELSE job[j].held
      /\ Forgets(job[j], T, l)
  BY <1>0, <1>c DEF HeldLine, Job, Forgets
<1>6. queue[c] # "none" \/ c \in T.held
  BY <1>5 DEF MustHold
<1>7. \A d \in T.held : queue[d] = "none"
  BY <1>0, <1>5 DEF JobOK, MustHold
<1>8. \A d \in T.owes : queue[d] # "none" \/ d \in T.held \/ StillDue(T, d)
  <2> SUFFICES ASSUME NEW d \in T.owes, queue[d] = "none", d \notin T.held
               PROVE  StillDue(T, d)
    OBVIOUS
  <2>1. PICK k \in job[j].todo : CodeOf[k] = d /\ StudentOf[k] \in students \cup job[j].enrols
    BY <1>0, <1>5 DEF JobOK, StillDue, Forgets
  <2>2. k # l
    BY <1>a, <1>6, <2>1
  <2> QED
    BY <1>5, <2>1, <2>2 DEF StillDue, Forgets
<1>9. JobOK(T)'
  BY <1>0, <1>1, <1>5, <1>7, <1>8 DEF JobOK, StillDue, Forgets, queueVars, tables
<1>10. \A d \in T.held : \A i \in Jobs \ {j} : d \notin job[i].held
  BY <1>1, <1>5 DEF SyncInv, HeldApart, HeldElsewhere
<1> QED
  BY <1>1, <1>2, <1>4, <1>9, <1>10, SetKeepsInv DEF SyncInv, TypeOK, world, tables

(* The commit of an import: the codes it held become pending.              *)
Committed(J) ==
  [J EXCEPT !.stage = "rows", !.enrols = {}, !.owes = {}, !.held = {},
            !.adds = {}, !.pending = {}, !.wrote = {}]

LEMMA CommitRowsKeepsInv ==
  ASSUME SyncInv, NEW j \in Jobs, CommitRows(j)
  PROVE  SyncInv'
<1>a. PICK T : T = Committed(job[j])
  OBVIOUS
<1>b. PICK b : b = job[j].content
  OBVIOUS
<1>0. /\ job[j] \in Job /\ JobOK(job[j]) /\ job \in [Jobs -> Job]
      /\ job[j].stage = "applying" /\ job[j].todo = {} /\ b \in Bundles \ Invalid
  BY <1>b DEF SyncInv, TypeOK, JobsOK, CommitRows, JobOK
<1>1. /\ Set(j, T) /\ Hold(job[j].held) /\ UNCHANGED <<world, stored, logged>>
      /\ committed' = committed \cup {b}
      /\ students' = students \cup job[j].enrols /\ covered' = covered \cup job[j].owes
      /\ score' = [r \in Rows |-> IF r \in job[j].wrote THEN b ELSE score[r]]
  BY <1>a, <1>b DEF CommitRows, Committed
<1>2. UNCHANGED <<target, extid, req>>
      /\ queue' = [c \in Codes |-> IF c \in job[j].held THEN "pending" ELSE queue[c]]
  BY <1>1 DEF Hold
<1>3. QueueTypeOK'
  BY <1>2 DEF SyncInv, TypeOK, QueueTypeOK, Statuses
<1>4. T \in Job
  BY <1>0, <1>a DEF Committed, Job, Stages
<1>5. /\ T.held = {} /\ T.owes = {} /\ T.stage = "rows" /\ T.content = b
      /\ T.bundle = job[j].bundle
  BY <1>0, <1>a, <1>b DEF Committed, Job
<1>6. \A i \in Jobs : job'[i] = IF i = j THEN T ELSE job[i]
  BY <1>0, <1>1 DEF Set
<1>7. TypeOK'
  <2>1. score' \in [Rows -> Bundles \cup {NoBundle}]
    BY <1>0, <1>1 DEF SyncInv, TypeOK
  <2>2. job' \in [Jobs -> Job]
    BY <1>0, <1>1, <1>4 DEF Set
  <2>3. students' \subseteq Students /\ covered' \subseteq Codes
    BY <1>0, <1>1 DEF SyncInv, TypeOK, Job
  <2> QED
    BY <1>0, <1>1, <1>3, <2>1, <2>2, <2>3 DEF SyncInv, TypeOK, world
<1>8. \A c \in Codes : queue[c] # "none" => queue'[c] # "none"
  BY <1>2
<1>9. JobsOK'
  <2>1. JobOK(T)'
    BY <1>0, <1>1, <1>5 DEF JobOK
  <2>2. ASSUME NEW i \in Jobs, i # j PROVE JobOK(job[i])'
    <3>1. job[i] \in Job /\ JobOK(job[i]) /\ job'[i] = job[i]
      BY <1>6, <2>2 DEF SyncInv, TypeOK, JobsOK
    <3>2. \A c \in job[i].held : queue'[c] = "none"
      <4>1. \A c \in job[i].held : c \in Codes /\ c \notin job[j].held /\ queue[c] = "none"
        BY <2>2, <3>1 DEF SyncInv, HeldApart, Job, JobOK
      <4> QED
        BY <1>2, <4>1
    <3>3. \A c \in job[i].owes :
            queue'[c] # "none" \/ c \in job[i].held \/ StillDue(job[i], c)'
      <4>1. \A c \in job[i].owes : StillDue(job[i], c) => StillDue(job[i], c)'
        BY <1>1, <3>1 DEF StillDue
      <4> QED
        BY <1>8, <3>1, <4>1 DEF JobOK, Job
    <3> QED
      BY <1>1, <3>1, <3>2, <3>3 DEF JobOK
  <2> QED
    BY <1>6, <2>1, <2>2 DEF JobsOK
<1>10. HeldApart'
  BY <1>5, <1>6 DEF SyncInv, HeldApart
<1>11. CodesKnown'
  BY <1>2, <1>8 DEF SyncInv, CodesKnown, TypeOK, QueueTypeOK
<1>12. CommittedKnown'
  <2>1. \A c \in job[j].owes : queue'[c] # "none"
    <3>1. \A c \in job[j].owes : c \in Codes /\ (queue[c] # "none" \/ c \in job[j].held)
      BY <1>0 DEF JobOK, Job, StillDue
    <3> QED
      BY <1>2, <3>1
  <2>2. \A c \in covered : queue'[c] # "none"
    BY <1>8 DEF SyncInv, TypeOK, CommittedKnown
  <2> QED
    BY <1>0, <1>1, <2>1, <2>2 DEF SyncInv, CommittedKnown
<1> QED
  BY <1>7, <1>9, <1>10, <1>11, <1>12 DEF SyncInv

LEMMA LogSaveKeepInv ==
  ASSUME SyncInv, NEW j \in Jobs, LogRun(j) \/ SaveFingerprint(j)
  PROVE  SyncInv'
<1>0. job[j] \in Job /\ JobOK(job[j])
  BY DEF SyncInv, TypeOK, JobsOK
<1>1. /\ UNCHANGED <<queueVars, world, students, score, committed, covered>>
      /\ logged \subseteq logged'
  BY DEF LogRun, SaveFingerprint
<1>2. QueueTypeOK'
  BY <1>1 DEF SyncInv, TypeOK, queueVars, QueueTypeOK
<1>3. CASE LogRun(j)
  <2>0. PICK T : T = [job[j] EXCEPT !.stage = "logged"]
    OBVIOUS
  <2>1. /\ job[j].stage = "rows" /\ logged' = logged \cup {job[j].content}
        /\ stored' = stored /\ (End(j) \/ Set(j, T))
    BY <1>3, <2>0 DEF LogRun
  <2>2. logged' \subseteq Bundles
    BY <1>0, <2>1 DEF SyncInv, TypeOK, JobOK
  <2>3. T \in Job
    BY <1>0, <2>0 DEF Job, Stages
  <2>4. /\ T.held = job[j].held /\ T.stage = "logged" /\ T.content = job[j].content
        /\ T.bundle = job[j].bundle /\ T.owes = job[j].owes /\ T.todo = job[j].todo
        /\ T.enrols = job[j].enrols
    BY <1>0, <2>0 DEF Job
  <2>5. JobOK(T)' /\ T.held = {}
    BY <1>0, <1>1, <2>1, <2>4 DEF JobOK, StillDue, queueVars
  <2> QED
    BY <1>1, <1>2, <2>1, <2>2, <2>3, <2>5, SetKeepsInv, EndKeepsInv
       DEF SyncInv, TypeOK, world
<1>4. CASE SaveFingerprint(j)
  <2>1. End(j) /\ logged' = logged /\ stored' = job[j].bundle
    BY <1>4 DEF SaveFingerprint
  <2>2. stored' \in Bundles \cup {NoBundle}
    BY <1>0, <2>1 DEF Job
  <2> QED
    BY <1>1, <1>2, <2>1, <2>2, EndKeepsInv DEF SyncInv, TypeOK, world
<1> QED
  BY <1>3, <1>4

LEMMA AdministerKeepsInv ==
  ASSUME SyncInv, NEW r \in Admins, Administer(r)
  PROVE  SyncInv'
<1>1. UNCHANGED <<world, tables, job>> /\ AdminStep(r)
  BY DEF Administer, syncVars
<1>2. QueueTypeOK /\ QueueTypeOK'
  BY <1>1, QueueTypeStep DEF SyncInv, TypeOK, QueueNext
<1>3. TypeOK'
  BY <1>1, <1>2 DEF SyncInv, TypeOK, world, tables
<1>4. CodesKnown' /\ \A c \in Codes : queue[c] = "none" <=> queue'[c] = "none"
  <2>1. CodesKnown
    BY DEF SyncInv
  <2> USE <1>2, <2>1 DEF CodesKnown, QueueTypeOK
  <2>2. ASSUME NEW c \in Codes, NEW a \in Assessments, MapRead(r, c, a)
        PROVE  CodesKnown' /\ \A d \in Codes : queue[d] = "none" <=> queue'[d] = "none"
    BY <2>2 DEF MapRead, MayMap
  <2>3. ASSUME NEW c \in Codes, RejectRead(r, c)
        PROVE  CodesKnown' /\ \A d \in Codes : queue[d] = "none" <=> queue'[d] = "none"
    BY <2>3 DEF RejectRead, MayReject
  <2>4. ASSUME MapCommit(r)
        PROVE  CodesKnown' /\ \A d \in Codes : queue[d] = "none" <=> queue'[d] = "none"
    <3>1. req[r].code \in Codes /\ queue[req[r].code] # "none"
      BY <2>4 DEF MapCommit
    <3>2. \A d \in Codes : queue'[d] = IF d = req[r].code THEN "mapped" ELSE queue[d]
      BY <2>4 DEF MapCommit
    <3>3. \A a \in Assessments : extid'[a] = extid[a] \/ extid'[a] = req[r].code
      BY <2>4 DEF MapCommit
    <3>4. \A s \in Admins : req'[s] = IF s = r THEN NoRequest ELSE req[s]
      BY <2>4 DEF MapCommit
    <3>5. \A s \in Admins : req'[s].op # "idle" => req'[s] = req[s]
      BY <3>4 DEF NoRequest
    <3> QED
      BY <3>1, <3>2, <3>3, <3>5
  <2>5. ASSUME RejectCommit(r)
        PROVE  CodesKnown' /\ \A d \in Codes : queue[d] = "none" <=> queue'[d] = "none"
    BY <2>5 DEF RejectCommit, NoRequest
  <2>6. ASSUME RequestLost(r)
        PROVE  CodesKnown' /\ \A d \in Codes : queue[d] = "none" <=> queue'[d] = "none"
    BY <2>6 DEF RequestLost, NoRequest
  <2> QED
    BY <1>1, <2>2, <2>3, <2>4, <2>5, <2>6 DEF AdminStep
<1>5. JobsOK'
  <2> SUFFICES ASSUME NEW j \in Jobs PROVE JobOK(job[j])'
    BY DEF JobsOK
  <2>1. job[j] \in Job /\ JobOK(job[j]) /\ job' = job
    BY <1>1 DEF SyncInv, TypeOK, JobsOK
  <2>2. \A c \in job[j].held : queue'[c] = "none"
    BY <1>4, <2>1 DEF Job, JobOK
  <2>3. \A c \in job[j].owes : queue'[c] # "none" \/ c \in job[j].held \/ StillDue(job[j], c)
    BY <1>4, <2>1 DEF JobOK, Job
  <2> QED
    BY <1>1, <2>1, <2>2, <2>3 DEF JobOK, StillDue, tables
<1>6. HeldApart'
  BY <1>1 DEF SyncInv, HeldApart
<1>7. CommittedKnown'
  BY <1>1, <1>4 DEF SyncInv, TypeOK, CommittedKnown, tables
<1> QED
  BY <1>3, <1>4, <1>5, <1>6, <1>7 DEF SyncInv

LEMMA ExportKeepsInv ==
  ASSUME SyncInv, NEW b \in Bundles, Export(b)
  PROVE  SyncInv'
<1>1. UNCHANGED <<queueVars, tables, job, faults>> /\ drop' = b
      /\ exports' = exports + 1 /\ exports < MaxExports
  BY DEF Export
<1>2. exports' \in 0..MaxExports
  BY <1>1, BundleAssumption DEF SyncInv, TypeOK
<1>3. TypeOK'
  BY <1>1, <1>2 DEF SyncInv, TypeOK, QueueTypeOK, queueVars, tables
<1> QED
  BY <1>1, <1>3 DEF SyncInv, JobsOK, JobOK, StillDue, HeldApart, CodesKnown, CommittedKnown,
                    queueVars, tables

LEMMA SyncInvStep == SyncInv /\ [Next]_vars => SyncInv'
<1> SUFFICES ASSUME SyncInv, [Next]_vars PROVE SyncInv'
  OBVIOUS
<1>1. CASE \E b \in Bundles : Export(b)
  BY <1>1, ExportKeepsInv
<1>2. ASSUME NEW j \in Jobs, NEW kind \in {"sync", "force"}, Fetch(j, kind) PROVE SyncInv'
  BY <1>2, FetchPushKeepInv DEF SyncInv, TypeOK
<1>3. ASSUME NEW j \in Jobs, NEW b \in Bundles, Push(j, b) PROVE SyncInv'
  BY <1>3, FetchPushKeepInv
<1>4. ASSUME NEW j \in Jobs, Proceed(j) PROVE SyncInv'
  <2>1. CASE EndsUnseen(j)
    BY <2>1, EndsKeepInv
  <2>2. CASE \E new \in SUBSET Students : Compare(j) \/ Begin(j, new)
    BY <2>2, CompareBeginKeepInv
  <2>3. CASE \E l \in job[j].todo, a \in Assessments : ScoreLine(j, l, a)
    BY <2>3, ScoreLineKeepsInv
  <2>4. CASE \E l \in job[j].todo, a \in Assessments : DisputeLine(j, l, a)
    BY <2>4, DisputeKeepsInv
  <2>5. CASE \E l \in job[j].todo : SkipLine(j, l)
    BY <2>5, SkipKeepsInv
  <2>6. CASE \E l \in job[j].todo : HoldLine(j, l)
    BY <2>6, HoldLineKeepsInv
  <2>7. CASE CommitRows(j)
    BY <2>7, CommitRowsKeepsInv
  <2>8. CASE LogRun(j) \/ SaveFingerprint(j)
    BY <2>8, LogSaveKeepInv
  <2> QED
    BY <1>4, <2>1, <2>2, <2>3, <2>4, <2>5, <2>6, <2>7, <2>8 DEF Proceed, EndsUnseen
<1>5. ASSUME NEW j \in Jobs, Crash(j) PROVE SyncInv'
  BY <1>5, EndsKeepInv DEF EndsUnseen
<1>6. CASE \E r \in Admins : Administer(r)
  BY <1>6, AdministerKeepsInv
<1>7. CASE UNCHANGED vars
  BY <1>7 DEF vars, queueVars, syncVars, world, tables, SyncInv, TypeOK, QueueTypeOK,
              JobsOK, JobOK, StillDue, HeldApart, CodesKnown, CommittedKnown
<1> QED
  BY <1>1, <1>2, <1>3, <1>4, <1>5, <1>6, <1>7 DEF Next

LEMMA SyncInvariance == Spec => []SyncInv
BY SyncInvInit, SyncInvStep, PTL DEF Spec

(* Every reachable state of the composition is well typed, whatever the    *)
(* number of imports and administrators.                                   *)
THEOREM SyncTypeCorrect == Spec => []TypeOK
<1>1. SyncInv => TypeOK
  BY DEF SyncInv
<1> QED
  BY <1>1, SyncInvariance, PTL

(* No committed import loses a code of a line that had its student when it *)
(* came to the scores, whatever overlaps: no code of another line, import  *)
(* or administrator takes the place of its row (queue_unmapped_assessment).*)
THEOREM NoCodeLost == Spec => []UnmappedCodesAreHeld
<1>1. SyncInv => UnmappedCodesAreHeld
  BY DEF SyncInv, CommittedKnown, UnmappedCodesAreHeld
<1> QED
  BY <1>1, SyncInvariance, PTL

-----------------------------------------------------------------------------
(* Towards the queue every import is an atomic Hold: the composition       *)
(* implements the queue by itself.                                         *)
LEMMA SyncStepIsQueueStep == SyncInv /\ [Next]_vars => [QueueNext]_queueVars
<1> SUFFICES ASSUME SyncInv, [Next]_vars PROVE [QueueNext]_queueVars
  OBVIOUS
<1>1. ASSUME NEW j \in Jobs, CommitRows(j) PROVE QueueNext
  <2>1. job[j].held \in SUBSET {c \in Codes : MustHold(c)}
    BY DEF SyncInv, TypeOK, Job, JobsOK, JobOK, MustHold
  <2> QED
    BY <1>1, <2>1 DEF CommitRows, QueueNext
<1>2. CASE \E r \in Admins : Administer(r)
  BY <1>2 DEF Administer, QueueNext
<1>3. CASE UNCHANGED vars
  BY <1>3 DEF vars
<1>4. ASSUME NEW j \in Jobs, Proceed(j), ~CommitRows(j) PROVE UNCHANGED queueVars
  <2>1. ASSUME NEW new \in SUBSET Students, Begin(j, new) PROVE UNCHANGED queueVars
    BY <2>1 DEF Begin
  <2>2. ASSUME NEW l \in job[j].todo, NEW a \in Assessments,
               ScoreLine(j, l, a) \/ DisputeLine(j, l, a) \/ RepeatLine(j, l, a)
        PROVE  UNCHANGED queueVars
    BY <2>2 DEF ScoreLine, WriteRow, DisputeLine, RepeatLine
  <2>3. ASSUME NEW l \in job[j].todo, SkipLine(j, l) \/ HoldLine(j, l)
        PROVE  UNCHANGED queueVars
    BY <2>3 DEF SkipLine, HoldLine
  <2>4. CASE \/ Skip(j) \/ Compare(j) \/ Refuse(j) \/ Clash(j) \/ RefuseFiles(j)
             \/ LogRun(j) \/ SaveFingerprint(j)
    BY <2>4 DEF Skip, Compare, Refuse, Clash, RefuseFiles, LogRun, SaveFingerprint
  <2> QED
    BY <1>4, <2>1, <2>2, <2>3, <2>4 DEF Proceed
<1>5. ASSUME NEW j \in Jobs, \/ \E kind \in {"sync", "force"} : Fetch(j, kind)
                             \/ \E b \in Bundles : Push(j, b)
                             \/ Crash(j)
      PROVE  UNCHANGED queueVars
  BY <1>5 DEF Fetch, Push, Crash
<1>6. ASSUME NEW b \in Bundles, Export(b) PROVE UNCHANGED queueVars
  BY <1>6 DEF Export
<1> QED
  BY <1>1, <1>2, <1>3, <1>4, <1>5, <1>6 DEF Next

(* Overlapping imports and administrators keep the rules of the mapping    *)
(* queue (the unique key on external_key makes each import's hold atomic). *)
THEOREM SyncImplementsQueue == Spec => QueueSpec
<1>1. Init => QueueInit
  BY DEF Init
<1> QED
  BY <1>1, SyncInvariance, SyncStepIsQueueStep, PTL DEF Spec, QueueSpec

(* And so, with one administrator at a time, they keep the life of a code, *)
(* and the queue and the assessments agree.                                *)
THEOREM SyncKeepsLifecycle == ASSUME SingleAdmin PROVE Spec => LifecycleSpec
<1>1. SingleAdmin
  OBVIOUS
<1> QED
  BY <1>1, SyncImplementsQueue, QueueImplementsLifecycle, PTL

(* The same for the agreement of import_mapping_queue with assessments.    *)
THEOREM SyncQueueAgrees == ASSUME SingleAdmin PROVE Spec => []QueueMatchesAssessments
<1>1. SingleAdmin
  OBVIOUS
<1> QED
  BY <1>1, SyncImplementsQueue, QueueAgrees, PTL

-----------------------------------------------------------------------------
(***************************************************************************)
(* The stored fingerprint, for connectors that copy the export before they *)
(* compute it (SFTP and REST): what is applied is what was fingerprinted.  *)
(***************************************************************************)
AppliesFetched ==
  \A j \in Jobs : job[j].stage \in {"applying", "rows", "logged"} =>
    job[j].content = job[j].bundle

FingerprintInv == AppliesFetched /\ FingerprintWasApplied

(* A step of one import that does not save a fingerprint.                  *)
LEMMA SetKeepsFingerprint ==
  ASSUME SyncInv, FingerprintInv, NEW j \in Jobs, NEW T, Set(j, T), stored' = stored,
         committed \subseteq committed', logged \subseteq logged',
         T.stage \in {"applying", "rows", "logged"} => T.content = T.bundle
  PROVE  FingerprintInv'
<1>1. \A i \in Jobs : job'[i] = IF i = j THEN T ELSE job[i]
  BY DEF SyncInv, TypeOK, Set
<1>2. AppliesFetched'
  BY <1>1 DEF FingerprintInv, AppliesFetched
<1>3. FingerprintWasApplied'
  BY DEF FingerprintInv, FingerprintWasApplied
<1> QED
  BY <1>2, <1>3 DEF FingerprintInv

LEMMA ProceedKeepsFingerprint ==
  ASSUME SyncInv, FingerprintInv, ~Live, NEW j \in Jobs, Proceed(j)
  PROVE  FingerprintInv'
<1>0. job[j] \in Job /\ JobOK(job[j])
  BY DEF SyncInv, TypeOK, JobsOK
<1>1. NoJob.stage = "idle"
  BY DEF NoJob
<1>2. CASE EndsUnseen(j)
  BY <1>1, <1>2, SetKeepsFingerprint
     DEF EndsUnseen, Skip, Refuse, Clash, RefuseFiles, RepeatLine, Crash, End, tables
<1>3. CASE Compare(j)
  <2>1. PICK T : T = [job[j] EXCEPT !.stage = "due"]
    OBVIOUS
  <2>2. T.stage = "due"
    BY <1>0, <2>1 DEF Job
  <2> QED
    BY <1>3, <2>1, <2>2, SetKeepsFingerprint DEF Compare, tables
<1>4. ASSUME NEW new \in SUBSET Students, Begin(j, new) PROVE FingerprintInv'
  <2>1. PICK b : b = job[j].bundle
    OBVIOUS
  <2>2. PICK T : T = Began(job[j], b, new)
    OBVIOUS
  <2>3. ContentNow(j) = b
    BY <2>1 DEF ContentNow
  <2>4. T.content = T.bundle
    BY <1>0, <2>1, <2>2 DEF Began, Job
  <2>5. Set(j, T)
    BY <1>4, <2>2, <2>3 DEF Begin, Began
  <2> QED
    BY <1>4, <2>4, <2>5, SetKeepsFingerprint DEF Begin, tables
<1>5. ASSUME NEW T, Set(j, T), UNCHANGED tables, T.stage = job[j].stage,
             T.content = job[j].content, T.bundle = job[j].bundle
      PROVE  FingerprintInv'
  BY <1>5, SetKeepsFingerprint DEF tables, FingerprintInv, AppliesFetched
<1>6. ASSUME NEW l \in job[j].todo, SkipLine(j, l) \/ HoldLine(j, l)
      PROVE  FingerprintInv'
  <2>0. UNCHANGED tables
    BY <1>6 DEF SkipLine, HoldLine
  <2>1. CASE SkipLine(j, l)
    <3>1. PICK T : T = [job[j] EXCEPT !.todo = @ \ {l}]
      OBVIOUS
    <3>2. T.stage = job[j].stage /\ T.content = job[j].content /\ T.bundle = job[j].bundle
      BY <1>0, <3>1 DEF Job
    <3> QED
      BY <1>5, <2>0, <2>1, <3>1, <3>2 DEF SkipLine
  <2>2. CASE HoldLine(j, l)
    <3>2. PICK T : T = HeldLine(job[j], l, CodeOf[l])
      OBVIOUS
    <3>3. T.stage = job[j].stage /\ T.content = job[j].content /\ T.bundle = job[j].bundle
      BY <1>0, <3>2 DEF HeldLine, Job
    <3>4. Set(j, T)
      BY <2>2, <3>2 DEF HoldLine, HeldLine
    <3> QED
      BY <1>5, <2>0, <3>3, <3>4
  <2> QED
    BY <1>6, <2>1, <2>2
<1>11. ASSUME NEW l \in job[j].todo, NEW a \in Assessments,
              ScoreLine(j, l, a) \/ DisputeLine(j, l, a)
       PROVE  FingerprintInv'
  <2>0. UNCHANGED tables
    BY <1>11 DEF ScoreLine, WriteRow, DisputeLine
  <2>2. CASE DisputeLine(j, l, a)
    <3>1. PICK T : T = [job[j] EXCEPT !.todo = @ \ {l}, !.pending = {}]
      OBVIOUS
    <3>2. T.stage = job[j].stage /\ T.content = job[j].content /\ T.bundle = job[j].bundle
      BY <1>0, <3>1 DEF Job
    <3> QED
      BY <1>5, <2>0, <2>2, <3>1, <3>2 DEF DisputeLine
  <2>3. CASE ScoreLine(j, l, a)
    <3>1. PICK present \in BOOLEAN : present = Present(j, RowOf(l, a))
      BY DEF Present
    <3>2. PICK T : T = WroteRow(job[j], l, RowOf(l, a), job[j].content, present)
      OBVIOUS
    <3>3. T.stage = job[j].stage /\ T.content = job[j].content /\ T.bundle = job[j].bundle
      BY <1>0, <3>2 DEF WroteRow, Job
    <3>4. Set(j, T)
      BY <2>3, <3>1, <3>2 DEF ScoreLine, WriteRow, WroteRow
    <3> QED
      BY <1>5, <2>0, <3>3, <3>4
  <2> QED
    BY <1>11, <2>2, <2>3
<1>7. CASE CommitRows(j)
  <2>1. PICK T : T = Committed(job[j])
    OBVIOUS
  <2>2. T.content = job[j].content /\ T.bundle = job[j].bundle
    BY <1>0, <2>1 DEF Committed, Job
  <2>3. job[j].content = job[j].bundle
    BY <1>7 DEF CommitRows, FingerprintInv, AppliesFetched
  <2>4. Set(j, T) /\ stored' = stored /\ logged' = logged /\ committed \subseteq committed'
    BY <1>7, <2>1 DEF CommitRows, Committed
  <2> QED
    BY <2>2, <2>3, <2>4, SetKeepsFingerprint
<1>8. CASE LogRun(j)
  <2>1. PICK T : T = [job[j] EXCEPT !.stage = "logged"]
    OBVIOUS
  <2>2. T.content = job[j].content /\ T.bundle = job[j].bundle
    BY <1>0, <2>1 DEF Job
  <2>3. job[j].content = job[j].bundle
    BY <1>8 DEF LogRun, FingerprintInv, AppliesFetched
  <2>4. /\ Set(j, NoJob) \/ Set(j, T)
        /\ stored' = stored /\ committed' = committed /\ logged \subseteq logged'
    BY <1>8, <2>1 DEF LogRun, End
  <2> QED
    BY <1>1, <2>2, <2>3, <2>4, SetKeepsFingerprint
<1>9. CASE SaveFingerprint(j)
  <2>1. /\ job[j].stage = "logged" /\ stored' = job[j].bundle /\ Set(j, NoJob)
        /\ committed' = committed /\ logged' = logged
    BY <1>9 DEF SaveFingerprint, End
  <2>2. job[j].content = job[j].bundle
    BY <2>1 DEF FingerprintInv, AppliesFetched
  <2>3. FingerprintWasApplied'
    BY <1>0, <2>1, <2>2 DEF JobOK, FingerprintWasApplied
  <2>4. \A i \in Jobs : job'[i] = IF i = j THEN NoJob ELSE job[i]
    BY <2>1 DEF SyncInv, TypeOK, Set
  <2>5. AppliesFetched'
    BY <1>1, <2>4 DEF FingerprintInv, AppliesFetched
  <2> QED
    BY <2>3, <2>5 DEF FingerprintInv
<1>10. CASE \E l \in job[j].todo, a \in Assessments : RepeatLine(j, l, a)
  BY <1>2, <1>10 DEF EndsUnseen
<1> QED
  BY <1>2, <1>3, <1>4, <1>6, <1>7, <1>8, <1>9, <1>10, <1>11 DEF Proceed, EndsUnseen

LEMMA FingerprintStep ==
  SyncInv /\ FingerprintInv /\ ~Live /\ [Next]_vars => FingerprintInv'
<1> SUFFICES ASSUME SyncInv, FingerprintInv, ~Live, [Next]_vars PROVE FingerprintInv'
  OBVIOUS
<1>1. ASSUME NEW b \in Bundles, Export(b) PROVE FingerprintInv'
  BY <1>1 DEF Export, tables, FingerprintInv, AppliesFetched, FingerprintWasApplied
<1>2. ASSUME NEW j \in Jobs, NEW kind \in {"sync", "force"}, Fetch(j, kind)
      PROVE  FingerprintInv'
  <2>1. PICK T : T = [NoJob EXCEPT !.stage = "fetched", !.kind = kind, !.bundle = drop]
    OBVIOUS
  <2>2. T.stage = "fetched"
    BY <2>1 DEF NoJob
  <2> QED
    BY <1>2, <2>1, <2>2, SetKeepsFingerprint DEF Fetch, tables
<1>3. ASSUME NEW j \in Jobs, NEW b \in Bundles, Push(j, b) PROVE FingerprintInv'
  <2>1. PICK T : T = [NoJob EXCEPT !.stage = "due", !.kind = "push", !.bundle = b]
    OBVIOUS
  <2>2. T.stage = "due"
    BY <2>1 DEF NoJob
  <2> QED
    BY <1>3, <2>1, <2>2, SetKeepsFingerprint DEF Push, tables
<1>4. ASSUME NEW j \in Jobs, Proceed(j) PROVE FingerprintInv'
  BY <1>4, ProceedKeepsFingerprint
<1>5. ASSUME NEW j \in Jobs, Crash(j) PROVE FingerprintInv'
  <2>1. NoJob.stage = "idle"
    BY DEF NoJob
  <2> QED
    BY <1>5, <2>1, SetKeepsFingerprint DEF Crash, End, tables
<1>6. ASSUME NEW r \in Admins, Administer(r) PROVE FingerprintInv'
  BY <1>6 DEF Administer, syncVars, tables, FingerprintInv, AppliesFetched,
              FingerprintWasApplied
<1>7. CASE UNCHANGED vars
  BY <1>7 DEF vars, syncVars, tables, FingerprintInv, AppliesFetched,
              FingerprintWasApplied
<1> QED
  BY <1>1, <1>2, <1>3, <1>4, <1>5, <1>6, <1>7 DEF Next

(* With a connector that copies the export, however imports overlap and    *)
(* wherever they die, the stored fingerprint is that of a valid bundle     *)
(* whose rows and run entry are committed (runner.py saves it last).       *)
THEOREM FingerprintSound == ASSUME ~Live PROVE Spec => []FingerprintWasApplied
<1>1. ~Live
  OBVIOUS
<1>2. Init => FingerprintInv
  BY DEF Init, NoJob, FingerprintInv, AppliesFetched, FingerprintWasApplied
<1>3. FingerprintInv => FingerprintWasApplied
  BY DEF FingerprintInv
<1> QED
  BY <1>1, <1>2, <1>3, SyncInvariance, FingerprintStep, PTL DEF Spec

-----------------------------------------------------------------------------
(***************************************************************************)
(* Where scores come from, with one administrator at a time: an assessment *)
(* that has a code keeps it, also while an import is under way.            *)
(***************************************************************************)
WritesOK(J) ==
  /\ J.wrote # {} => J.stage = "applying"
  /\ J.stage = "applying" => J.todo \subseteq LinesOf[J.content]
  /\ \A r \in J.wrote : ComesFrom(r, J.content)

ScoreInv == ScoresComeFromTheirCode /\ \A j \in Jobs : WritesOK(job[j])

LEMMA SetKeepsScores ==
  ASSUME SyncInv, ScoreInv, NEW j \in Jobs, NEW T, Set(j, T), score' = score,
         extid' = extid, committed' = committed, WritesOK(T)'
  PROVE  ScoreInv'
<1>1. \A i \in Jobs : job'[i] = IF i = j THEN T ELSE job[i]
  BY DEF SyncInv, TypeOK, Set
<1>2. \A i \in Jobs : WritesOK(job[i])'
  BY <1>1 DEF ScoreInv, WritesOK, ComesFrom, Resolves
<1> QED
  BY <1>2 DEF ScoreInv, ScoresComeFromTheirCode, ComesFrom, Resolves

LEMMA NoJobWrites == WritesOK(NoJob)'
BY DEF WritesOK, NoJob

LEMMA CommitKeepsScores ==
  ASSUME SyncInv, ScoreInv, NEW j \in Jobs, CommitRows(j)
  PROVE  ScoreInv'
<1>1. PICK T : T = Committed(job[j])
  OBVIOUS
<1>2. PICK b : b = job[j].content
  OBVIOUS
<1>3. /\ job[j] \in Job /\ WritesOK(job[j])
      /\ b \in Bundles
  BY <1>2 DEF SyncInv, TypeOK, JobsOK, JobOK, ScoreInv, CommitRows
<1>4. /\ T.stage = "rows" /\ T.wrote = {}
  BY <1>1, <1>3 DEF Committed, Job
<1>5. /\ Set(j, T) /\ extid' = extid /\ committed' = committed \cup {b}
      /\ score' = [r \in Rows |-> IF r \in job[j].wrote THEN b ELSE score[r]]
  BY <1>1, <1>2 DEF CommitRows, Committed, Hold
<1>6. \A i \in Jobs : job'[i] = IF i = j THEN T ELSE job[i]
  BY <1>5 DEF SyncInv, TypeOK, Set
<1>7. \A i \in Jobs : WritesOK(job[i])'
  <2>1. WritesOK(T)'
    BY <1>4 DEF WritesOK
  <2> QED
    BY <1>5, <1>6, <2>1 DEF ScoreInv, WritesOK, ComesFrom, Resolves
<1>8. ScoresComeFromTheirCode'
  <2> SUFFICES ASSUME NEW r \in Rows, score'[r] # NoBundle
               PROVE  (score[r] \in committed /\ ComesFrom(r, score[r]))'
    BY DEF ScoresComeFromTheirCode, ComesFrom
  <2>0. PICK d : d = score'[r]
    OBVIOUS
  <2>1. d \in committed' /\ ComesFrom(r, d)
    <3>1. CASE r \in job[j].wrote
      BY <1>2, <1>3, <1>5, <2>0, <3>1 DEF WritesOK
    <3>2. CASE r \notin job[j].wrote
      <4>1. score'[r] = score[r]
        BY <1>5, <3>2
      <4>2. score[r] \in committed /\ ComesFrom(r, score[r])
        BY <4>1 DEF ScoreInv, ScoresComeFromTheirCode
      <4> QED
        BY <1>5, <2>0, <4>1, <4>2
    <3> QED
      BY <3>1, <3>2
  <2>2. PICK l \in LinesOf[d] : Resolves(l, r[1]) /\ r[1] \in Fits[l] /\ r[2] = StudentOf[l]
    BY <2>1 DEF ComesFrom
  <2>3. Resolves(l, r[1])'
    BY <1>5, <2>2 DEF Resolves
  <2>4. \E k \in LinesOf[d] : Resolves(k, r[1])' /\ r[1] \in Fits[k] /\ r[2] = StudentOf[k]
    BY <2>2, <2>3
  <2> QED
    BY <2>0, <2>1, <2>4 DEF ComesFrom
<1> QED
  BY <1>7, <1>8 DEF ScoreInv

(* A line that writes nothing.                                             *)
LEMMA LineKeepsScores ==
  ASSUME SyncInv, ScoreInv, NEW j \in Jobs, NEW T, Set(j, T),
         UNCHANGED <<queueVars, tables>>, T.stage = job[j].stage,
         T.content = job[j].content, T.todo \subseteq job[j].todo,
         \A r \in T.wrote : r \in job[j].wrote \/ ComesFrom(r, job[j].content),
         job[j].stage = "applying"
  PROVE  ScoreInv'
<1>1. WritesOK(job[j])
  BY DEF ScoreInv
<1>2. WritesOK(T)'
  <2>1. PICK b : b = job[j].content
    OBVIOUS
  <2>2. T.stage = "applying" /\ T.content = b /\ T.todo \subseteq LinesOf[b]
    BY <1>1, <2>1 DEF WritesOK
  <2>3. ASSUME NEW r \in T.wrote PROVE ComesFrom(r, b)'
    <3>1. ComesFrom(r, b)
      BY <1>1, <2>1 DEF WritesOK
    <3> QED
      BY <3>1 DEF ComesFrom, Resolves, queueVars
  <2> QED
    BY <2>2, <2>3 DEF WritesOK, ComesFrom
<1> QED
  BY <1>2, SetKeepsScores DEF tables, queueVars

LEMMA ProceedKeepsScores ==
  ASSUME SyncInv, ScoreInv, NEW j \in Jobs, Proceed(j)
  PROVE  ScoreInv'
<1>0. job[j] \in Job /\ WritesOK(job[j])
  BY DEF SyncInv, TypeOK, ScoreInv
<1>1. CASE EndsUnseen(j)
  BY <1>1, NoJobWrites, SetKeepsScores
     DEF EndsUnseen, Skip, Refuse, Clash, RefuseFiles, RepeatLine, Crash, End, tables, queueVars
<1>2. CASE Compare(j)
  <2>1. PICK T : T = [job[j] EXCEPT !.stage = "due"]
    OBVIOUS
  <2>2. T.stage = "due" /\ T.wrote = {}
    BY <1>0, <1>2, <2>1 DEF Job, Compare, WritesOK
  <2>3. WritesOK(T)'
    BY <2>2 DEF WritesOK
  <2> QED
    BY <1>2, <2>1, <2>3, SetKeepsScores DEF Compare, tables, queueVars
<1>3. ASSUME NEW new \in SUBSET Students, Begin(j, new) PROVE ScoreInv'
  <2>1. PICK b : b = ContentNow(j)
    OBVIOUS
  <2>2. PICK T : T = Began(job[j], b, new)
    OBVIOUS
  <2>3. T.wrote = {} /\ T.content = b /\ T.todo = LinesOf[b]
    BY <1>0, <1>3, <2>2 DEF Began, Job, Begin, WritesOK
  <2>4. WritesOK(T)'
    BY <2>3 DEF WritesOK
  <2>5. Set(j, T)
    BY <1>3, <2>1, <2>2 DEF Begin, Began
  <2> QED
    BY <1>3, <2>4, <2>5, SetKeepsScores DEF Begin, tables, queueVars
<1>4. ASSUME NEW l \in job[j].todo, NEW a \in Assessments, ScoreLine(j, l, a)
      PROVE  ScoreInv'
  <2>1. PICK r : r = RowOf(l, a)
    OBVIOUS
  <2>2. PICK present \in BOOLEAN : present = Present(j, r)
    BY DEF Present
  <2>3. PICK T : T = WroteRow(job[j], l, r, job[j].content, present)
    OBVIOUS
  <2>4. /\ T.stage = job[j].stage /\ T.content = job[j].content
        /\ T.todo \subseteq job[j].todo /\ T.wrote \subseteq job[j].wrote \cup {r}
    BY <1>0, <2>3 DEF WroteRow, Job
  <2>5. job[j].stage = "applying" /\ Resolves(l, a) /\ a \in Fits[l]
    BY <1>4 DEF ScoreLine, Meets, HasLine
  <2>6. ComesFrom(r, job[j].content)
    BY <1>0, <2>1, <2>5 DEF WritesOK, ComesFrom, RowOf
  <2>7. Set(j, T) /\ UNCHANGED <<queueVars, tables>>
    BY <1>4, <2>1, <2>2, <2>3 DEF ScoreLine, WriteRow, WroteRow
  <2> QED
    BY <2>4, <2>5, <2>6, <2>7, LineKeepsScores
<1>5. ASSUME NEW l \in job[j].todo, NEW a \in Assessments, DisputeLine(j, l, a)
      PROVE  ScoreInv'
  <2>1. PICK T : T = [job[j] EXCEPT !.todo = @ \ {l}, !.pending = {}]
    OBVIOUS
  <2>2. /\ T.stage = job[j].stage /\ T.content = job[j].content
        /\ T.todo \subseteq job[j].todo /\ T.wrote = job[j].wrote
    BY <1>0, <2>1 DEF Job
  <2>3. Set(j, T) /\ UNCHANGED <<queueVars, tables>> /\ job[j].stage = "applying"
    BY <1>5, <2>1 DEF DisputeLine, Meets, HasLine
  <2> QED
    BY <2>2, <2>3, LineKeepsScores
<1>6. ASSUME NEW l \in job[j].todo, SkipLine(j, l) PROVE ScoreInv'
  <2>1. PICK T : T = [job[j] EXCEPT !.todo = @ \ {l}]
    OBVIOUS
  <2>2. /\ T.stage = job[j].stage /\ T.content = job[j].content
        /\ T.todo \subseteq job[j].todo /\ T.wrote = job[j].wrote
    BY <1>0, <2>1 DEF Job
  <2>3. Set(j, T) /\ UNCHANGED <<queueVars, tables>> /\ job[j].stage = "applying"
    BY <1>6, <2>1 DEF SkipLine, HasLine
  <2> QED
    BY <2>2, <2>3, LineKeepsScores
<1>7. ASSUME NEW l \in job[j].todo, HoldLine(j, l) PROVE ScoreInv'
  <2>2. PICK T : T = HeldLine(job[j], l, CodeOf[l])
    OBVIOUS
  <2>3. /\ T.stage = job[j].stage /\ T.content = job[j].content
        /\ T.todo \subseteq job[j].todo /\ T.wrote = job[j].wrote
    BY <1>0, <2>2 DEF HeldLine, Job
  <2>4. Set(j, T) /\ UNCHANGED <<queueVars, tables>> /\ job[j].stage = "applying"
    BY <1>7, <2>2 DEF HoldLine, HasLine, HeldLine
  <2> QED
    BY <2>3, <2>4, LineKeepsScores
<1>8. CASE CommitRows(j)
  BY <1>8, CommitKeepsScores
<1>9. CASE LogRun(j)
  <2>1. PICK T : T = [job[j] EXCEPT !.stage = "logged"]
    OBVIOUS
  <2>2. T.stage = "logged" /\ T.wrote = {}
    BY <1>0, <1>9, <2>1 DEF Job, LogRun, WritesOK
  <2>3. WritesOK(T)'
    BY <2>2 DEF WritesOK
  <2>4. Set(j, NoJob) \/ Set(j, T)
    BY <1>9, <2>1 DEF LogRun, End
  <2> QED
    BY <1>9, <2>3, <2>4, NoJobWrites, SetKeepsScores DEF LogRun, queueVars
<1>10. CASE SaveFingerprint(j)
  BY <1>10, NoJobWrites, SetKeepsScores DEF SaveFingerprint, End, queueVars
<1> QED
  BY <1>1, <1>2, <1>3, <1>4, <1>5, <1>6, <1>7, <1>8, <1>9, <1>10 DEF Proceed, EndsUnseen

(* An assessment that has a code keeps it.                                 *)
LEMMA CodesStay ==
  ASSUME QueueInv, NEW r \in Admins, AdminStep(r),
         NEW a \in Assessments, extid[a] # NoCode
  PROVE  extid'[a] = extid[a]
<1>1. CASE MapCommit(r)
  <2>1. /\ req[r].asm \in Assessments /\ extid[req[r].asm] \in {NoCode, req[r].code}
        /\ extid \in [Assessments -> Codes \cup {NoCode}]
    BY <1>1 DEF MapCommit, QueueInv, QueueTypeOK, RequestsCurrent, RequestCurrent, MayMap
  <2> QED
    BY <1>1, <2>1 DEF MapCommit
<1> QED
  BY <1>1 DEF AdminStep, MapRead, RejectRead, RejectCommit, RequestLost

LEMMA AdministerKeepsScores ==
  ASSUME SyncInv, QueueInv, ScoreInv, NEW v \in Admins, Administer(v)
  PROVE  ScoreInv'
<1>1. UNCHANGED <<world, tables, job>> /\ AdminStep(v)
  BY DEF Administer, syncVars
<1>2. \A a \in Assessments : extid[a] \in Codes => extid'[a] = extid[a]
  BY <1>1, CodesStay, QueueAssumption
<1>3. ASSUME NEW r \in Rows, NEW b \in Bundles, ComesFrom(r, b)
      PROVE  ComesFrom(r, b)'
  <2>1. PICK l \in LinesOf[b] : Resolves(l, r[1]) /\ r[1] \in Fits[l] /\ r[2] = StudentOf[l]
    BY <1>3 DEF ComesFrom
  <2>2. l \in Lines /\ r[1] \in Assessments
    BY BundleAssumption DEF Rows
  <2>3. Resolves(l, r[1])'
    BY <1>2, <2>1, <2>2, BundleAssumption DEF Resolves
  <2> QED
    BY <2>1, <2>3 DEF ComesFrom
<1>4. ScoresComeFromTheirCode'
  <2> SUFFICES ASSUME NEW r \in Rows, score[r] # NoBundle
               PROVE  score[r] \in committed /\ ComesFrom(r, score[r])'
    BY <1>1 DEF ScoresComeFromTheirCode, ComesFrom, tables
  <2>1. score[r] \in Bundles /\ score[r] \in committed /\ ComesFrom(r, score[r])
    BY DEF ScoreInv, ScoresComeFromTheirCode, SyncInv, TypeOK
  <2>2. PICK b : b = score[r]
    OBVIOUS
  <2>3. ComesFrom(r, b)'
    BY <1>3, <2>1, <2>2
  <2> QED
    BY <1>1, <2>1, <2>2, <2>3 DEF ComesFrom, tables
<1>5. ASSUME NEW j \in Jobs PROVE WritesOK(job[j])'
  <2>1. job[j] \in Job /\ JobOK(job[j]) /\ WritesOK(job[j])
    BY DEF SyncInv, TypeOK, JobsOK, ScoreInv
  <2>2. PICK b : b = job[j].content
    OBVIOUS
  <2>3. \A r \in job[j].wrote : r \in Rows /\ b \in Bundles /\ ComesFrom(r, b)
    BY <2>1, <2>2 DEF Job, JobOK, WritesOK
  <2>4. \A r \in job[j].wrote : ComesFrom(r, b)'
    BY <1>3, <2>3
  <2> QED
    BY <1>1, <2>1, <2>2, <2>4 DEF WritesOK, ComesFrom
<1> QED
  BY <1>4, <1>5 DEF ScoreInv

LEMMA ScoreStep ==
  SyncInv /\ QueueInv /\ ScoreInv /\ [Next]_vars => ScoreInv'
<1> SUFFICES ASSUME SyncInv, QueueInv, ScoreInv, [Next]_vars PROVE ScoreInv'
  OBVIOUS
<1> USE DEF tables, queueVars
<1>1. ASSUME NEW b \in Bundles, Export(b) PROVE ScoreInv'
  BY <1>1 DEF Export, ScoreInv, WritesOK, ScoresComeFromTheirCode, ComesFrom, Resolves
<1>2. ASSUME NEW j \in Jobs, NEW kind \in {"sync", "force"}, Fetch(j, kind)
      PROVE  ScoreInv'
  <2>1. PICK T : T = [NoJob EXCEPT !.stage = "fetched", !.kind = kind, !.bundle = drop]
    OBVIOUS
  <2>2. WritesOK(T)'
    BY <2>1 DEF NoJob, WritesOK
  <2> QED
    BY <1>2, <2>1, <2>2, SetKeepsScores DEF Fetch
<1>3. ASSUME NEW j \in Jobs, NEW b \in Bundles, Push(j, b) PROVE ScoreInv'
  <2>1. PICK T : T = [NoJob EXCEPT !.stage = "due", !.kind = "push", !.bundle = b]
    OBVIOUS
  <2>2. WritesOK(T)'
    BY <2>1 DEF NoJob, WritesOK
  <2> QED
    BY <1>3, <2>1, <2>2, SetKeepsScores DEF Push
<1>4. ASSUME NEW j \in Jobs, Proceed(j) PROVE ScoreInv'
  BY <1>4, ProceedKeepsScores
<1>5. ASSUME NEW j \in Jobs, Crash(j) PROVE ScoreInv'
  BY <1>5, NoJobWrites, SetKeepsScores DEF Crash, End
<1>6. ASSUME NEW r \in Admins, Administer(r) PROVE ScoreInv'
  BY <1>6, AdministerKeepsScores
<1>7. CASE UNCHANGED vars
  BY <1>7 DEF vars, syncVars, ScoreInv, WritesOK, ScoresComeFromTheirCode, ComesFrom,
             Resolves
<1> QED
  BY <1>1, <1>2, <1>3, <1>4, <1>5, <1>6, <1>7 DEF Next

(* With one administrator at a time, every score comes from a committed    *)
(* bundle that names the code its assessment carries, whatever was mapped  *)
(* while imports were under way (_apply_scores looks the code up by line). *)
THEOREM ScoresSound == ASSUME SingleAdmin PROVE Spec => []ScoresComeFromTheirCode
<1>1. SingleAdmin
  OBVIOUS
<1>2. Init => ScoreInv
  BY DEF Init, NoJob, ScoreInv, WritesOK, ScoresComeFromTheirCode
<1>3. ScoreInv => ScoresComeFromTheirCode
  BY DEF ScoreInv
<1> QED
  BY <1>1, <1>2, <1>3, SyncInvariance, SyncImplementsQueue, QueueInvariance, ScoreStep,
     PTL DEF Spec
=============================================================================
