----------------------------- MODULE MappingQueue -----------------------------
(***************************************************************************)
(* The import mapping queue: external assessment codes no assessment       *)
(* carries yet, held until an administrator maps or rejects them           *)
(* (app/import_/mapping_queue.py, app/routers/import_mapping.py).          *)
(*                                                                         *)
(* An administrator's request is one database session: it reads and checks *)
(* first and writes at its commit, holding no lock in between that another *)
(* request's checks would notice.                                          *)
(*                                                                         *)
(* A definition under a comment "Fault:" is the one after it with a seeded *)
(* fault; no action uses it.                                               *)
(***************************************************************************)
CONSTANTS
  Codes,         \* external keys an import can mention
  Assessments,   \* the tenant's assessments
  Admins,        \* administrators' requests that may run at the same time
  NoCode,        \* Assessment.external_id is NULL
  NoAssessment   \* mapped_assessment_id is NULL

ASSUME QueueAssumption ==
  /\ NoCode \notin Codes /\ NoAssessment \notin Assessments
  /\ Assessments \cap {"none", "pending", "rejected"} = {}

VARIABLES
  queue,   \* status of a code's row in import_mapping_queue, "none" without one
  target,  \* its mapped_assessment_id
  extid,   \* Assessment.external_id
  req      \* the administrators' open requests

queueVars == <<queue, target, extid, req>>

Statuses == {"none", "pending", "mapped", "rejected"}

(* seen is the assessment's external_id as the request read it.            *)
Request == [op: {"idle", "map", "reject"}, code: Codes \cup {NoCode},
            asm: Assessments \cup {NoAssessment}, seen: Codes \cup {NoCode}]

NoRequest == [op |-> "idle", code |-> NoCode, asm |-> NoAssessment, seen |-> NoCode]

QueueTypeOK ==
  /\ queue \in [Codes -> Statuses]
  /\ target \in [Codes -> Assessments \cup {NoAssessment}]
  /\ extid \in [Assessments -> Codes \cup {NoCode}]
  /\ req \in [Admins -> Request]

QueueInit ==
  /\ queue = [c \in Codes |-> "none"]
  /\ target = [c \in Codes |-> NoAssessment]
  /\ extid = [a \in Assessments |-> NoCode]
  /\ req = [r \in Admins |-> NoRequest]

(* queue_unmapped_assessment inserts a row only for a code without one: a  *)
(* decided code stays decided, and a pending one is merely refreshed.      *)
(* Fault: a rejected code is queued again.                                 *)
MustHold_rejected(c) == queue[c] \in {"none", "rejected"}

MustHold(c) == queue[c] = "none"

(* The commit of an import that holds the codes of D.                      *)
Hold(D) ==
  /\ queue' = [c \in Codes |-> IF c \in D THEN "pending" ELSE queue[c]]
  /\ UNCHANGED <<target, extid, req>>

(* resolve_mapping_to_assessment, up to its flush.                         *)
(* Fault: does not look whether the assessment has another code.           *)
MayMap_any_assessment(c, a) ==
  /\ queue[c] = "pending"
  /\ \A b \in Assessments \ {a} : extid[b] # c

MayMap(c, a) ==
  /\ queue[c] = "pending"
  /\ \A b \in Assessments \ {a} : extid[b] # c
  /\ extid[a] \in {NoCode, c}

MapRead(r, c, a) ==
  /\ req[r].op = "idle"
  /\ MayMap(c, a)
  /\ req' = [req EXCEPT ![r] = [op |-> "map", code |-> c, asm |-> a, seen |-> extid[a]]]
  /\ UNCHANGED <<queue, target, extid>>

(* reject_mapping, up to its flush.                                        *)
MayReject(c) == queue[c] = "pending"

RejectRead(r, c) ==
  /\ req[r].op = "idle"
  /\ MayReject(c)
  /\ req' = [req EXCEPT ![r] =
       [op |-> "reject", code |-> c, asm |-> NoAssessment, seen |-> NoCode]]
  /\ UNCHANGED <<queue, target, extid>>

(* The commit of map_queue_item.  An external_id that already was the code *)
(* is no change, so it is not written.                                     *)
(* Fault: records the external key as the row's assessment.                *)
MapCommit_key(r) ==
  LET c == req[r].code
      a == req[r].asm
  IN /\ req[r].op = "map"
     /\ queue' = [queue EXCEPT ![c] = "mapped"]
     /\ target' = [target EXCEPT ![c] = c]
     /\ extid' = IF req[r].seen = c THEN extid ELSE [extid EXCEPT ![a] = c]
     /\ req' = [req EXCEPT ![r] = NoRequest]

MapCommit(r) ==
  LET c == req[r].code
      a == req[r].asm
  IN /\ req[r].op = "map"
     /\ queue' = [queue EXCEPT ![c] = "mapped"]
     /\ target' = [target EXCEPT ![c] = a]
     /\ extid' = IF req[r].seen = c THEN extid ELSE [extid EXCEPT ![a] = c]
     /\ req' = [req EXCEPT ![r] = NoRequest]

(* The commit of reject_queue_item.                                        *)
RejectCommit(r) ==
  /\ req[r].op = "reject"
  /\ queue' = [queue EXCEPT ![req[r].code] = "rejected"]
  /\ req' = [req EXCEPT ![r] = NoRequest]
  /\ UNCHANGED <<target, extid>>

(* A request ends without a commit.                                        *)
RequestLost(r) ==
  /\ req[r].op # "idle"
  /\ req' = [req EXCEPT ![r] = NoRequest]
  /\ UNCHANGED <<queue, target, extid>>

AdminStep(r) ==
  \/ \E c \in Codes, a \in Assessments : MapRead(r, c, a)
  \/ \E c \in Codes : RejectRead(r, c)
  \/ MapCommit(r)
  \/ RejectCommit(r)
  \/ RequestLost(r)

QueueNext ==
  \/ \E D \in SUBSET {c \in Codes : MustHold(c)} : Hold(D)
  \/ \E r \in Admins : AdminStep(r)

QueueSpec == QueueInit /\ [][QueueNext]_queueVars

-----------------------------------------------------------------------------
(* What the code does not keep when two administrators cross: a code       *)
(* answers to at most one assessment, so that an import's lookup by        *)
(* external_id (_resolve_assessment, apply.py) has one possible answer.    *)
OneAssessmentPerCode ==
  \A a, b \in Assessments : extid[a] = extid[b] /\ extid[a] # NoCode => a = b

(* The queue and the assessments tell the same story: a code is mapped to  *)
(* an assessment exactly when that assessment carries it.                  *)
QueueMatchesAssessments ==
  \A c \in Codes, a \in Assessments :
    extid[a] = c <=> queue[c] = "mapped" /\ target[c] = a

(* The queue implements the life of a code as CodeLifecycle promises it:   *)
(* held once, decided once, one assessment per code and code per assessment.*)
decisionOf ==
  [c \in Codes |-> IF queue[c] = "mapped" THEN target[c] ELSE queue[c]]

Lifecycle == INSTANCE CodeLifecycle WITH decision <- decisionOf

LifecycleSpec == Lifecycle!Spec
=============================================================================
