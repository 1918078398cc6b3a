--------------------------- MODULE ImportConflicts ---------------------------
(***************************************************************************)
(* Ownership-aware import of keyed rows, and the queue of disagreements an *)
(* administrator settles.                                                  *)
(*                                                                         *)
(* A row stands for a Score (keyed by assessment and student) or an        *)
(* Attendance mark (keyed by student and day): _apply_scores and           *)
(* _apply_attendance in app/import_/apply.py treat the two alike, and only *)
(* the set of compared columns differs.  A line stands for one CSV line    *)
(* that reached the upsert: its student and assessment resolved and its    *)
(* values were in range (a line that fails one of these only warns).       *)
(*                                                                         *)
(* An import and a resolution are each one SQLAlchemy session.  A session  *)
(* reads a committed row once, changes its own copy, and at commit writes  *)
(* only the columns whose copy differs from what it read; it takes no row  *)
(* lock.  Commits of two sessions can therefore cross.                     *)
(*                                                                         *)
(* A definition X_..., under a comment "Fault:", is X with one seeded fault;*)
(* no action uses it.  Put in the place of X it must break the property    *)
(* its comment names.                                                      *)
(***************************************************************************)
EXTENDS Naturals, Sequences

CONSTANTS
  Keys,        \* natural keys of the rows
  Fields,      \* compared columns: SCORE_FIELDS or ATTENDANCE_FIELDS
  Values,      \* values of a compared column
  Sessions,    \* database sessions that may be open at the same time
  MaxLines,    \* bound: lines in one imported file
  NoRow,       \* no such row
  NoConflict,  \* no such import_conflicts row
  Unread,      \* not in the session's identity map
  Unsaid       \* the ERP has said nothing that still stands

(* source_system of a row: owned here, owned by an ERP, or NULL.           *)
Owners == {"analytics", "erp", "none"}

Vals == [Fields -> Values]
Row == [vals: Vals, owner: Owners]

Resolved == {"keep_local", "accept_erp", "per_field"}
Choices == [Fields -> {"local", "incoming", "unset"}]
NoChoice == [f \in Fields |-> "unset"]
Conflict == [status: Resolved \cup {"pending"}, local: Row, incoming: Row,
             fields: SUBSET Fields, choices: Choices]

ASSUME ConstantsAssumption ==
  /\ MaxLines \in Nat
  /\ NoRow \notin Row /\ Unread \notin Row /\ NoRow # Unread
  /\ NoConflict \notin Conflict /\ Unread \notin Conflict /\ NoConflict # Unread
  /\ Unsaid \notin Vals

VARIABLES
  row,        \* the scores (or attendance) table
  conflict,   \* the import_conflicts table, unique per row
  sess,       \* the open database sessions
  disputed    \* history: last values the ERP sent for a row since anyone
              \* with authority (an operator, an administrator) decided it

vars == <<row, conflict, sess, disputed>>

(***************************************************************************)
(* Sessions.  base is what was read, img the session's copy; likewise      *)
(* cbase and cimg for conflicts.  fresh holds the rows added and not yet   *)
(* flushed, which the session's own queries do not see (autoflush=False);  *)
(* twice those of them added twice.  said is history: the                  *)
(* values the file's lines carried for each row so far.                    *)
(***************************************************************************)
Kinds == {"erp", "operator", "admin"}

Session ==
  [kind: Kinds \cup {"idle"},
   base: [Keys -> Row \cup {NoRow, Unread}], img: [Keys -> Row \cup {Unread}],
   cbase: [Keys -> Conflict \cup {NoConflict, Unread}],
   cimg: [Keys -> Conflict \cup {Unread}],
   fresh: SUBSET Keys, twice: SUBSET Keys, lines: 0..MaxLines,
   said: [Keys -> Seq(Vals)]]

Opened(kind) ==
  [kind |-> kind,
   base |-> [k \in Keys |-> Unread], img |-> [k \in Keys |-> Unread],
   cbase |-> [k \in Keys |-> Unread], cimg |-> [k \in Keys |-> Unread],
   fresh |-> {}, twice |-> {}, lines |-> 0, said |-> [k \in Keys |-> << >>]]

Idle == Opened("idle")

TypeOK ==
  /\ row \in [Keys -> Row \cup {NoRow}]
  /\ conflict \in [Keys -> Conflict \cup {NoConflict}]
  /\ sess \in [Sessions -> Session]
  /\ disputed \in [Keys -> Vals \cup {Unsaid}]

Init ==
  /\ row = [k \in Keys |-> NoRow]
  /\ conflict = [k \in Keys |-> NoConflict]
  /\ sess = [s \in Sessions |-> Idle]
  /\ disputed = [k \in Keys |-> Unsaid]

Analytics(r) == r # NoRow /\ r.owner = "analytics"
DiffFields(r, q) == {f \in Fields : r.vals[f] # q.vals[f]}

(* What the session's query for a row or a conflict returns: its own copy  *)
(* when it holds one, else what is committed.                              *)
SeenRow(s, k) == IF sess[s].img[k] = Unread THEN row[k] ELSE sess[s].img[k]
SeenConflict(s, k) ==
  IF sess[s].cimg[k] = Unread THEN conflict[k] ELSE sess[s].cimg[k]

BaseRow(s, k) == IF sess[s].img[k] = Unread THEN row[k] ELSE sess[s].base[k]
BaseConflict(s, k) ==
  IF sess[s].cimg[k] = Unread THEN conflict[k] ELSE sess[s].cbase[k]

Open(s, kind) ==
  /\ sess[s].kind = "idle"
  /\ sess' = [sess EXCEPT ![s] = Opened(kind)]
  /\ UNCHANGED <<row, conflict, disputed>>

(***************************************************************************)
(* One line of an import.                                                  *)
(***************************************************************************)
Importing(s) == sess[s].kind \in {"erp", "operator"} /\ sess[s].lines < MaxLines

(* The session after the line: the row as read, and the session's copy.    *)
Taken(s, k, line, base, img) ==
  [sess[s] EXCEPT !.base[k] = base, !.img[k] = img,
                  !.lines = @ + 1, !.said[k] = Append(@, line.vals)]

(* The key has no row that this session can see: add one.  A key already   *)
(* added and still unflushed is added a second time.                       *)
InsertLine(s, k, line) ==
  /\ Importing(s)
  /\ k \in sess[s].fresh \/ SeenRow(s, k) = NoRow
  /\ sess' = [sess EXCEPT ![s] =
       [Taken(s, k, line, NoRow, line) EXCEPT
          !.fresh = sess[s].fresh \cup {k},
          !.twice = sess[s].twice \cup ({k} \cap sess[s].fresh)]]
  /\ UNCHANGED <<row, conflict, disputed>>

(* Fault: asks who owns the incoming line (ErpPreservesAnalyticsValues).   *)
MustQueue_incoming(s, k, line) ==
  /\ sess[s].kind = "erp"
  /\ line.owner = "analytics"
  /\ DiffFields(SeenRow(s, k), line) # {}

MustQueue(s, k, line) ==
  /\ sess[s].kind = "erp"
  /\ Analytics(SeenRow(s, k))
  /\ DiffFields(SeenRow(s, k), line) # {}

(* Fault: a decided conflict is refreshed but stays decided                *)
(* (UnansweredDisagreementIsPending).                                      *)
Queued_not_reopened(s, k, line) ==
  LET old == SeenConflict(s, k)
  IN [status |-> IF old = NoConflict THEN "pending" ELSE old.status,
      local |-> SeenRow(s, k), incoming |-> line,
      fields |-> DiffFields(SeenRow(s, k), line), choices |-> NoChoice]

(* queue_import_conflict: a decided conflict is reopened, both snapshots   *)
(* are replaced.                                                           *)
Queued(s, k, line) ==
  LET old == SeenConflict(s, k)
  IN [status |-> "pending", local |-> SeenRow(s, k), incoming |-> line,
      fields |-> DiffFields(SeenRow(s, k), line),
      choices |-> IF old # NoConflict /\ old.status = "pending"
                  THEN old.choices ELSE NoChoice]

(* The row is owned here and the ERP disagrees: keep it, queue the line.   *)
(* A new conflict is flushed at once, and every pending insert with it; a  *)
(* row added twice makes that flush fail, which ends the session.          *)
QueueLine(s, k, line) ==
  /\ Importing(s) /\ k \notin sess[s].fresh /\ SeenRow(s, k) # NoRow
  /\ MustQueue(s, k, line)
  /\ LET flushes == SeenConflict(s, k) = NoConflict
     IN sess' = [sess EXCEPT ![s] =
          IF flushes /\ sess[s].twice # {} THEN Idle
          ELSE [Taken(s, k, line, BaseRow(s, k), SeenRow(s, k)) EXCEPT
                  !.cbase[k] = BaseConflict(s, k),
                  !.cimg[k] = Queued(s, k, line),
                  !.fresh = IF flushes THEN {} ELSE sess[s].fresh]]
  /\ UNCHANGED <<row, conflict, disputed>>

(* Otherwise the line replaces the row's values and its owner.             *)
OverwriteLine(s, k, line) ==
  /\ Importing(s) /\ k \notin sess[s].fresh /\ SeenRow(s, k) # NoRow
  /\ ~MustQueue(s, k, line)
  /\ sess' = [sess EXCEPT ![s] = Taken(s, k, line, BaseRow(s, k), line)]
  /\ UNCHANGED <<row, conflict, disputed>>

(***************************************************************************)
(* An administrator's resolution: only a pending conflict, and from its    *)
(* snapshots, not from the row as it is now.                               *)
(***************************************************************************)
(* Fault: a decided conflict can be decided again (VerdictStands).         *)
MayResolve_decided(s, k) ==
  /\ sess[s].kind = "admin" /\ \A j \in Keys : sess[s].cimg[j] = Unread
  /\ conflict[k] # NoConflict

MayResolve(s, k) ==
  /\ sess[s].kind = "admin" /\ \A j \in Keys : sess[s].cimg[j] = Unread
  /\ conflict[k] # NoConflict /\ conflict[k].status = "pending"

Decide(s, k, verdict, choices, newRow) ==
  /\ sess' = [sess EXCEPT ![s] =
       [sess[s] EXCEPT !.base[k] = row[k], !.img[k] = newRow, !.cbase[k] = conflict[k],
                       !.cimg[k] = [conflict[k] EXCEPT !.status = verdict,
                                                       !.choices = choices]]]
  /\ UNCHANGED <<row, conflict, disputed>>

(* Fault: stores the name of a choice, not of a strategy (TypeOK).         *)
ResolveKeepLocal_choice(s, k) ==
  /\ MayResolve(s, k)
  /\ Decide(s, k, "local", NoChoice, row[k])

ResolveKeepLocal(s, k) ==
  /\ MayResolve(s, k)
  /\ Decide(s, k, "keep_local", NoChoice, row[k])

(* A NULL source_system in the merged values leaves the owner alone.       *)
ResolveAcceptErp(s, k) ==
  LET inc == conflict[k].incoming
  IN /\ MayResolve(s, k)
     /\ Decide(s, k, "accept_erp", NoChoice,
               [vals |-> inc.vals,
                owner |-> IF inc.owner = "none" THEN row[k].owner ELSE inc.owner])

(* A column not chosen as incoming takes its value from the local snapshot.*)
ResolvePerField(s, k, choices) ==
  LET c == conflict[k]
      chosen == {f \in Fields : choices[f] # "unset"}
  IN /\ MayResolve(s, k)
     /\ chosen # {} /\ chosen \subseteq c.fields
     /\ Decide(s, k, "per_field", choices,
               [vals |-> [f \in Fields |-> IF choices[f] = "incoming"
                                           THEN c.incoming.vals[f]
                                           ELSE c.local.vals[f]],
                owner |-> IF c.incoming.owner = "none"
                          THEN c.local.owner ELSE c.incoming.owner])

(***************************************************************************)
(* Commit.  The database keeps every column the session did not change.    *)
(***************************************************************************)
MergeRow(db, base, img) ==
  [vals |-> [f \in Fields |-> IF img.vals[f] # base.vals[f]
                              THEN img.vals[f] ELSE db.vals[f]],
   owner |-> IF img.owner # base.owner THEN img.owner ELSE db.owner]

MergeConflict(db, base, img) ==
  [status |-> IF img.status # base.status THEN img.status ELSE db.status,
   local |-> IF img.local # base.local THEN img.local ELSE db.local,
   incoming |-> IF img.incoming # base.incoming THEN img.incoming ELSE db.incoming,
   fields |-> IF img.fields # base.fields THEN img.fields ELSE db.fields,
   choices |-> IF img.choices # base.choices THEN img.choices ELSE db.choices]

CommittedRow(s, k) ==
  IF sess[s].img[k] = Unread THEN row[k]
  ELSE IF sess[s].base[k] = NoRow THEN sess[s].img[k]
  ELSE MergeRow(row[k], sess[s].base[k], sess[s].img[k])

CommittedConflict(s, k) ==
  IF sess[s].cimg[k] = Unread THEN conflict[k]
  ELSE IF sess[s].cbase[k] = NoConflict THEN sess[s].cimg[k]
  ELSE MergeConflict(conflict[k], sess[s].cbase[k], sess[s].cimg[k])

(* A unique constraint refuses the commit: a row or a conflict inserted    *)
(* here exists by now, or a row was added twice.                           *)
Clash(s) ==
  \/ sess[s].twice # {}
  \/ \E k \in Keys : \/ sess[s].img[k] # Unread /\ sess[s].base[k] = NoRow
                        /\ row[k] # NoRow
                     \/ sess[s].cimg[k] # Unread /\ sess[s].cbase[k] = NoConflict
                        /\ conflict[k] # NoConflict

(* The ERP's last word stands until an operator or an administrator writes *)
(* the row.                                                                *)
Standing(s, k) ==
  IF sess[s].img[k] = Unread THEN disputed[k]
  ELSE IF sess[s].kind = "erp" THEN sess[s].said[k][Len(sess[s].said[k])]
  ELSE Unsaid

Commit(s) ==
  /\ sess[s].kind # "idle" /\ ~Clash(s)
  /\ row' = [k \in Keys |-> CommittedRow(s, k)]
  /\ conflict' = [k \in Keys |-> CommittedConflict(s, k)]
  /\ disputed' = [k \in Keys |-> Standing(s, k)]
  /\ sess' = [sess EXCEPT ![s] = Idle]

(* The session ends without a commit: a constraint refused it, or the      *)
(* process or its connection died.                                         *)
Abort(s) ==
  /\ sess[s].kind # "idle"
  /\ sess' = [sess EXCEPT ![s] = Idle]
  /\ UNCHANGED <<row, conflict, disputed>>

Next ==
  \E s \in Sessions :
    \/ \E kind \in Kinds : Open(s, kind)
    \/ \E k \in Keys, line \in Row : InsertLine(s, k, line)
    \/ \E k \in Keys, line \in Row : QueueLine(s, k, line)
    \/ \E k \in Keys, line \in Row : OverwriteLine(s, k, line)
    \/ \E k \in Keys : ResolveKeepLocal(s, k)
    \/ \E k \in Keys : ResolveAcceptErp(s, k)
    \/ \E k \in Keys, choices \in Choices : ResolvePerField(s, k, choices)
    \/ Commit(s)
    \/ Abort(s)

Spec == Init /\ [][Next]_vars

-----------------------------------------------------------------------------
(* The snapshots of a conflict always disagree, in exactly the recorded    *)
(* columns, and the local one was owned here: resolve_import_conflict      *)
(* (conflicts.py) merges them column by column and never finds a choice    *)
(* without a value.                                                        *)
SnapshotsDisagree ==
  \A k \in Keys : conflict[k] # NoConflict =>
    /\ conflict[k].local.owner = "analytics"
    /\ conflict[k].fields = DiffFields(conflict[k].local, conflict[k].incoming)
    /\ conflict[k].fields # {}

(* An ERP import does not change the values of a row owned here, unless    *)
(* the same file first agreed with them and so took the row over: apart    *)
(* from that only an operator's bundle and an administrator's resolution   *)
(* do (apply.py, the conflict branch of _apply_scores, _apply_attendance). *)
ErpPreservesAnalyticsValues ==
  [][\A k \in Keys :
       (Analytics(row[k]) /\ row'[k].vals # row[k].vals) =>
         \E s \in Sessions :
           /\ sess[s].kind # "idle" /\ sess'[s] = Idle
           /\ sess[s].kind = "erp" =>
                \E i \in 1..Len(sess[s].said[k]) : sess[s].said[k][i] = row[k].vals]_vars

(* Whenever a row owned here differs from the last values the ERP sent and *)
(* nobody has decided between them since, the administrator's queue holds  *)
(* that very disagreement, still pending.                                  *)
UnansweredDisagreementIsPending ==
  \A k \in Keys :
    (Analytics(row[k]) /\ disputed[k] # Unsaid /\ disputed[k] # row[k].vals) =>
      /\ conflict[k] # NoConflict
      /\ conflict[k].status = "pending"
      /\ conflict[k].incoming.vals = disputed[k]

(* A verdict on a conflict is final until the ERP disagrees again: it is   *)
(* never replaced by another verdict, and only an ERP import reopens it.   *)
VerdictStands ==
  [][\A k \in Keys :
       (conflict[k] # NoConflict /\ conflict[k].status \in Resolved
          /\ conflict'[k] # conflict[k]) =>
         /\ conflict'[k].status = "pending"
         /\ \E s \in Sessions : sess[s].kind = "erp" /\ sess'[s] = Idle]_vars

(* A column an administrator chose to keep in a per-field resolution keeps *)
(* its value through later ERP imports until the conflict is reopened.     *)
LocalChoiceSurvivesErp ==
  [][\A k \in Keys, f \in Fields :
       (conflict[k] # NoConflict /\ conflict[k].status = "per_field"
          /\ conflict[k].choices[f] = "local" /\ conflict'[k] = conflict[k]
          /\ row'[k].vals[f] # row[k].vals[f]) =>
         \E s \in Sessions : sess[s].kind = "operator" /\ sess'[s] = Idle]_vars
=============================================================================
