------------------------ MODULE ImportConflictsProofs ------------------------
(* Proofs about ImportConflicts, for every value of its constants.         *)
EXTENDS ImportConflicts, TLAPS

(***************************************************************************)
(* Type correctness, whatever the number of sessions.  TypeOK is not       *)
(* inductive by itself: a commit merges the copies of a session into the   *)
(* tables, so a copy must come with what was read, and an import's copy    *)
(* with a line of the file; and a verdict needs the conflict's row.        *)
(***************************************************************************)
CopyOK(S, k) ==
  /\ S.img[k] # Unread =>
       S.base[k] = NoRow \/ (S.base[k] \in Row /\ row[k] # NoRow)
  /\ S.cimg[k] # Unread =>
       S.cbase[k] = NoConflict \/ (S.cbase[k] \in Conflict /\ conflict[k] # NoConflict)
  /\ S.cimg[k] # Unread => S.img[k] # Unread
  /\ S.kind = "erp" /\ S.img[k] # Unread => S.said[k] # << >>

CopiesOK == \A s \in Sessions, k \in Keys : CopyOK(sess[s], k)

(* No row is ever deleted, so a conflict's row is there when it is settled. *)
ConflictsHaveRows == \A k \in Keys : conflict[k] # NoConflict => row[k] # NoRow

TypeInv == TypeOK /\ CopiesOK /\ ConflictsHaveRows

LEMMA OpenedIsSession ==
  ASSUME NEW kind \in Kinds \cup {"idle"}
  PROVE  /\ Opened(kind) \in Session
         /\ \A k \in Keys : CopyOK(Opened(kind), k)
<1>1. Opened(kind) \in Session
  BY ConstantsAssumption DEF Opened, Session
<1>2. ASSUME NEW k \in Keys PROVE CopyOK(Opened(kind), k)
  BY DEF Opened, CopyOK
<1> QED
  BY <1>1, <1>2

LEMMA SeenRowType ==
  ASSUME TypeInv, NEW s \in Sessions, NEW k \in Keys
  PROVE  /\ SeenRow(s, k) \in Row \cup {NoRow}
         /\ BaseRow(s, k) \in Row \cup {NoRow, Unread}
         /\ BaseRow(s, k) = NoRow \/ (BaseRow(s, k) \in Row /\ row[k] # NoRow)
<1>1. sess[s] \in Session /\ CopyOK(sess[s], k) /\ row[k] \in Row \cup {NoRow}
  BY DEF TypeInv, TypeOK, CopiesOK
<1> QED
  BY <1>1 DEF SeenRow, BaseRow, Session, CopyOK

LEMMA SeenConflictType ==
  ASSUME TypeInv, NEW s \in Sessions, NEW k \in Keys
  PROVE  /\ SeenConflict(s, k) \in Conflict \cup {NoConflict}
         /\ BaseConflict(s, k) \in Conflict \cup {NoConflict, Unread}
         /\ \/ BaseConflict(s, k) = NoConflict
            \/ BaseConflict(s, k) \in Conflict /\ conflict[k] # NoConflict
<1>1. sess[s] \in Session /\ CopyOK(sess[s], k) /\ conflict[k] \in Conflict \cup {NoConflict}
  BY DEF TypeInv, TypeOK, CopiesOK
<1> QED
  BY <1>1 DEF SeenConflict, BaseConflict, Session, CopyOK

LEMMA QueuedType ==
  ASSUME TypeInv, NEW s \in Sessions, NEW k \in Keys, NEW line \in Row,
         SeenRow(s, k) # NoRow
  PROVE  Queued(s, k, line) \in Conflict
<1>1. SeenRow(s, k) \in Row
  BY SeenRowType
<1>2. DiffFields(SeenRow(s, k), line) \in SUBSET Fields
  BY DEF DiffFields
<1>3. NoChoice \in Choices
  BY DEF NoChoice, Choices
<1>4. (IF SeenConflict(s, k) # NoConflict /\ SeenConflict(s, k).status = "pending"
       THEN SeenConflict(s, k).choices ELSE NoChoice) \in Choices
  BY <1>3, SeenConflictType DEF Conflict
<1> QED
  BY <1>1, <1>2, <1>4 DEF Queued, Conflict

LEMMA MergeRowType ==
  ASSUME NEW d \in Row, NEW b \in Row, NEW i \in Row
  PROVE  MergeRow(d, b, i) \in Row
BY DEF MergeRow, Row, Vals

LEMMA MergeConflictType ==
  ASSUME NEW d \in Conflict, NEW b \in Conflict, NEW i \in Conflict
  PROVE  MergeConflict(d, b, i) \in Conflict
BY DEF MergeConflict, Conflict

(* A step that touches only one session.                                   *)
LEMMA SessionStepType ==
  ASSUME TypeInv, NEW s \in Sessions, NEW S \in Session,
         \A k \in Keys : CopyOK(S, k),
         sess' = [sess EXCEPT ![s] = S], UNCHANGED <<row, conflict, disputed>>
  PROVE  TypeInv'
<1>1. TypeOK' /\ ConflictsHaveRows'
  BY DEF TypeInv, TypeOK, ConflictsHaveRows
<1>2. ASSUME NEW t \in Sessions, NEW k \in Keys PROVE CopyOK(sess[t], k)'
  <2>1. CopyOK(sess'[t], k)
    BY DEF TypeInv, TypeOK, CopiesOK
  <2> QED
    BY <2>1 DEF CopyOK
<1> QED
  BY <1>1, <1>2 DEF TypeInv, CopiesOK

(* One line taken in, its copy with what was read.                         *)
LEMMA TakenType ==
  ASSUME TypeInv, NEW s \in Sessions, NEW k \in Keys, NEW line \in Row, Importing(s),
         NEW base \in Row \cup {NoRow, Unread}, NEW img \in Row,
         base = NoRow \/ (base \in Row /\ row[k] # NoRow)
  PROVE  /\ Taken(s, k, line, base, img) \in Session
         /\ \A j \in Keys : CopyOK(Taken(s, k, line, base, img), j)
<1> DEFINE old == sess[s]  S == Taken(s, k, line, base, img)
<1>1. old \in Session /\ \A j \in Keys : CopyOK(old, j)
  BY DEF TypeInv, TypeOK, CopiesOK
<1>2. old.lines + 1 \in 0..MaxLines
  BY <1>1, ConstantsAssumption DEF Importing, Session
<1>3. /\ Append(old.said[k], line.vals) \in Seq(Vals)
      /\ Append(old.said[k], line.vals) # << >>
  <2>1. old.said[k] \in Seq(Vals) /\ line.vals \in Vals
    BY <1>1 DEF Session, Row
  <2> QED
    BY <2>1
<1>4. S \in Session
  BY <1>1, <1>2, <1>3 DEF Taken, Session
<1>5. ASSUME NEW j \in Keys PROVE CopyOK(S, j)
  BY <1>1, <1>3, ConstantsAssumption DEF CopyOK, Session, Taken
<1> QED
  BY <1>4, <1>5

LEMMA InsertLineType ==
  ASSUME TypeInv, NEW s \in Sessions, NEW k \in Keys, NEW line \in Row,
         InsertLine(s, k, line)
  PROVE  TypeInv'
<1> DEFINE old == sess[s]
           T == Taken(s, k, line, NoRow, line)
           S == [T EXCEPT !.fresh = old.fresh \cup {k},
                          !.twice = old.twice \cup ({k} \cap old.fresh)]
<1>1. old \in Session
  BY DEF TypeInv, TypeOK
<1>2. T \in Session /\ \A j \in Keys : CopyOK(T, j)
  BY TakenType DEF InsertLine
<1>3. S \in Session /\ \A j \in Keys : CopyOK(S, j)
  <2> HIDE DEF T
  <2> QED BY <1>1, <1>2 DEF Session, CopyOK
<1>4. sess' = [sess EXCEPT ![s] = S] /\ UNCHANGED <<row, conflict, disputed>>
  BY DEF InsertLine
<1> QED
  BY <1>3, <1>4, SessionStepType

LEMMA QueueLineType ==
  ASSUME TypeInv, NEW s \in Sessions, NEW k \in Keys, NEW line \in Row,
         QueueLine(s, k, line)
  PROVE  TypeInv'
<1> DEFINE T == Taken(s, k, line, BaseRow(s, k), SeenRow(s, k))
           flushes == SeenConflict(s, k) = NoConflict
           S == [T EXCEPT !.cbase[k] = BaseConflict(s, k),
                          !.cimg[k] = Queued(s, k, line),
                          !.fresh = IF flushes THEN {} ELSE sess[s].fresh]
           N == IF flushes /\ sess[s].twice # {} THEN Idle ELSE S
<1>1. sess[s] \in Session
  BY DEF TypeInv, TypeOK
<1>0. SeenRow(s, k) \in Row
  BY SeenRowType DEF QueueLine
<1>2. T \in Session /\ \A j \in Keys : CopyOK(T, j)
  BY <1>0, TakenType, SeenRowType DEF QueueLine
<1>7. T.img[k] # Unread
  BY <1>0, <1>1, ConstantsAssumption DEF Taken, Session
<1>3. /\ Queued(s, k, line) \in Conflict
      /\ BaseConflict(s, k) \in Conflict \cup {NoConflict, Unread}
      /\ BaseConflict(s, k) = NoConflict \/ (BaseConflict(s, k) \in Conflict
                                             /\ conflict[k] # NoConflict)
  BY QueuedType, SeenConflictType DEF QueueLine
<1>4. S \in Session /\ \A j \in Keys : CopyOK(S, j)
  <2> HIDE DEF T
  <2> QED BY <1>1, <1>2, <1>3, <1>7 DEF Session, CopyOK
<1>5. N \in Session /\ \A j \in Keys : CopyOK(N, j)
  <2> HIDE DEF S
  <2> QED BY <1>4, OpenedIsSession DEF Idle
<1>6. sess' = [sess EXCEPT ![s] = N] /\ UNCHANGED <<row, conflict, disputed>>
  BY DEF QueueLine
<1> QED
  BY <1>5, <1>6, SessionStepType

LEMMA OverwriteLineType ==
  ASSUME TypeInv, NEW s \in Sessions, NEW k \in Keys, NEW line \in Row,
         OverwriteLine(s, k, line)
  PROVE  TypeInv'
BY TakenType, SeenRowType, SessionStepType DEF OverwriteLine

LEMMA DecideType ==
  ASSUME TypeInv, NEW s \in Sessions, NEW k \in Keys, NEW verdict \in Resolved,
         NEW choices \in Choices, NEW newRow \in Row,
         MayResolve(s, k), Decide(s, k, verdict, choices, newRow)
  PROVE  TypeInv'
<1> DEFINE c == [conflict[k] EXCEPT !.status = verdict, !.choices = choices]
           S == [sess[s] EXCEPT !.base[k] = row[k], !.img[k] = newRow,
                                !.cbase[k] = conflict[k], !.cimg[k] = c]
<1>1. /\ sess[s] \in Session /\ \A j \in Keys : CopyOK(sess[s], j)
      /\ row[k] \in Row /\ conflict[k] \in Conflict
  BY DEF TypeInv, TypeOK, CopiesOK, ConflictsHaveRows, MayResolve
<1>2. c \in Conflict
  BY <1>1 DEF Conflict
<1>3. S \in Session /\ \A j \in Keys : CopyOK(S, j)
  <2> HIDE DEF c
  <2> QED BY <1>1, <1>2, ConstantsAssumption DEF Session, CopyOK, MayResolve
<1>4. sess' = [sess EXCEPT ![s] = S] /\ UNCHANGED <<row, conflict, disputed>>
  BY DEF Decide
<1> QED
  BY <1>3, <1>4, SessionStepType

LEMMA ResolveType ==
  ASSUME TypeInv, NEW s \in Sessions, NEW k \in Keys,
         \/ ResolveKeepLocal(s, k)
         \/ ResolveAcceptErp(s, k)
         \/ \E choices \in Choices : ResolvePerField(s, k, choices)
  PROVE  TypeInv'
<1>1. MayResolve(s, k)
  BY DEF ResolveKeepLocal, ResolveAcceptErp, ResolvePerField
<1>2. row[k] \in Row /\ conflict[k] \in Conflict /\ NoChoice \in Choices
  BY <1>1 DEF TypeInv, TypeOK, ConflictsHaveRows, MayResolve, NoChoice, Choices
<1>3. CASE ResolveKeepLocal(s, k)
  BY <1>1, <1>2, <1>3, DecideType DEF ResolveKeepLocal, Resolved
<1>4. CASE ResolveAcceptErp(s, k)
  <2> DEFINE inc == conflict[k].incoming
             new == [vals |-> inc.vals,
                     owner |-> IF inc.owner = "none" THEN row[k].owner ELSE inc.owner]
  <2>1. new \in Row
    BY <1>2 DEF Conflict, Row
  <2> QED
    BY <1>1, <1>2, <1>4, <2>1, DecideType DEF ResolveAcceptErp, Resolved
<1>5. ASSUME NEW choices \in Choices, ResolvePerField(s, k, choices)
      PROVE  TypeInv'
  <2> DEFINE c == conflict[k]
             new == [vals |-> [f \in Fields |-> IF choices[f] = "incoming"
                                                THEN c.incoming.vals[f]
                                                ELSE c.local.vals[f]],
                     owner |-> IF c.incoming.owner = "none"
                               THEN c.local.owner ELSE c.incoming.owner]
  <2>1. new \in Row
    BY <1>2 DEF Conflict, Row, Vals
  <2> QED
    BY <1>1, <1>5, <2>1, DecideType DEF ResolvePerField, Resolved
<1> QED
  BY <1>3, <1>4, <1>5

LEMMA CommitType ==
  ASSUME TypeInv, NEW s \in Sessions, Commit(s)
  PROVE  TypeInv'
<1>0. /\ sess[s] \in Session /\ \A k \in Keys : CopyOK(sess[s], k)
      /\ row \in [Keys -> Row \cup {NoRow}]
      /\ conflict \in [Keys -> Conflict \cup {NoConflict}]
      /\ \A k \in Keys : conflict[k] # NoConflict => row[k] # NoRow
  BY DEF TypeInv, TypeOK, CopiesOK, ConflictsHaveRows
<1>1. ASSUME NEW k \in Keys
      PROVE  /\ CommittedRow(s, k) \in Row \cup {NoRow}
             /\ row[k] # NoRow \/ sess[s].img[k] # Unread => CommittedRow(s, k) \in Row
  BY <1>0, MergeRowType DEF CommittedRow, Session, CopyOK
<1>2. ASSUME NEW k \in Keys
      PROVE  /\ CommittedConflict(s, k) \in Conflict \cup {NoConflict}
             /\ conflict[k] # NoConflict => CommittedConflict(s, k) # NoConflict
             /\ CommittedConflict(s, k) # NoConflict =>
                  conflict[k] # NoConflict \/ sess[s].img[k] # Unread
  BY <1>0, MergeConflictType, ConstantsAssumption DEF CommittedConflict, Session, CopyOK
<1>3. ASSUME NEW k \in Keys PROVE Standing(s, k) \in Vals \cup {Unsaid}
  <2>1. sess[s].said[k] \in Seq(Vals) /\ disputed[k] \in Vals \cup {Unsaid}
    BY <1>0 DEF TypeInv, TypeOK, Session
  <2>2. CASE sess[s].kind = "erp" /\ sess[s].img[k] # Unread
    <3>1. sess[s].said[k] # << >>
      BY <1>0, <2>2 DEF CopyOK
    <3> QED
      BY <2>1, <2>2, <3>1 DEF Standing
  <2>3. CASE ~(sess[s].kind = "erp" /\ sess[s].img[k] # Unread)
    BY <2>1, <2>3 DEF Standing
  <2> QED
    BY <2>2, <2>3
<1>4. /\ row' = [k \in Keys |-> CommittedRow(s, k)]
      /\ conflict' = [k \in Keys |-> CommittedConflict(s, k)]
      /\ disputed' = [k \in Keys |-> Standing(s, k)]
      /\ sess' = [sess EXCEPT ![s] = Idle]
  BY DEF Commit
<1>5. Idle \in Session
  BY OpenedIsSession DEF Idle
<1>6. TypeOK'
  BY <1>1, <1>2, <1>3, <1>4, <1>5 DEF TypeInv, TypeOK
<1>7. ASSUME NEW t \in Sessions, NEW k \in Keys PROVE CopyOK(sess[t], k)'
  <2>1. CASE t = s
    BY <1>4, <2>1 DEF TypeInv, TypeOK, CopyOK, Idle, Opened
  <2>2. CASE t # s
    <3>1. sess'[t] = sess[t] /\ CopyOK(sess[t], k)
      BY <1>4, <2>2 DEF TypeInv, TypeOK, CopiesOK
    <3>2. row[k] # NoRow => row'[k] # NoRow
      BY <1>1, <1>4, ConstantsAssumption
    <3>3. conflict[k] # NoConflict => conflict'[k] # NoConflict
      BY <1>2, <1>4
    <3> QED
      BY <3>1, <3>2, <3>3 DEF CopyOK
  <2> QED
    BY <2>1, <2>2
<1>8. ConflictsHaveRows'
  <2> SUFFICES ASSUME NEW k \in Keys, conflict'[k] # NoConflict PROVE row'[k] # NoRow
    BY DEF ConflictsHaveRows
  <2>1. row[k] # NoRow \/ sess[s].img[k] # Unread
    BY <1>0, <1>2, <1>4
  <2> QED
    BY <1>1, <1>4, <2>1, ConstantsAssumption
<1> QED
  BY <1>6, <1>7, <1>8 DEF TypeInv, CopiesOK

LEMMA OpenAbortType ==
  ASSUME TypeInv, NEW s \in Sessions,
         (\E kind \in Kinds : Open(s, kind)) \/ Abort(s)
  PROVE  TypeInv'
BY OpenedIsSession, SessionStepType DEF Open, Abort, Idle

LEMMA TypeInit == Init => TypeInv
<1> SUFFICES ASSUME Init PROVE TypeInv
  OBVIOUS
<1>1. TypeOK
  BY OpenedIsSession DEF Init, TypeOK, Idle
<1>2. CopiesOK
  BY OpenedIsSession DEF Init, CopiesOK, Idle
<1> QED
  BY <1>1, <1>2 DEF TypeInv, ConflictsHaveRows, Init

LEMMA TypeStep == TypeInv /\ [Next]_vars => TypeInv'
<1> SUFFICES ASSUME TypeInv, [Next]_vars PROVE TypeInv'
  OBVIOUS
<1>1. CASE UNCHANGED vars
  BY <1>1 DEF vars, TypeInv, TypeOK, CopiesOK, CopyOK, ConflictsHaveRows
<1>2. CASE Next
  BY <1>2, OpenAbortType, InsertLineType, QueueLineType, OverwriteLineType,
     ResolveType, CommitType
  DEF Next
<1> QED
  BY <1>1, <1>2

(* Tables and sessions always hold values of their types, and a conflict's *)
(* row exists whenever an administrator settles it (resolve_import_conflict *)
(* never meets its "row not found" branch), with any number of sessions.   *)
THEOREM TypeCorrect == Spec => [](TypeOK /\ ConflictsHaveRows)
<1>1. TypeInv => TypeOK /\ ConflictsHaveRows
  BY DEF TypeInv
<1> QED
  BY <1>1, TypeInit, TypeStep, PTL DEF Spec

-----------------------------------------------------------------------------
(***************************************************************************)
(* One session at a time.  The inductive invariant says what an open       *)
(* session's copies are worth: they were read from the tables as they still*)
(* are, so a commit writes exactly what the session decided.  (With two    *)
(* sessions the first two conjuncts fail, and the safety properties with   *)
(* them.)                                                                  *)
(***************************************************************************)
SingleSession == \A s, t \in Sessions : s = t

LastSaid(S, k) == S.said[k][Len(S.said[k])]
Said(S, k, v) == \E i \in 1..Len(S.said[k]) : S.said[k][i] = v

Disagrees(c) ==
  /\ c.local.owner = "analytics"
  /\ c.fields = DiffFields(c.local, c.incoming)
  /\ c.fields # {}

CopySound(S, k) ==
  /\ S.img[k] # Unread => S.base[k] = row[k]
  /\ S.cimg[k] # Unread => S.cbase[k] = conflict[k] /\ Disagrees(S.cimg[k])
  /\ k \in S.fresh => S.img[k] # Unread /\ S.base[k] = NoRow /\ S.kind # "admin"
  /\ S.kind = "erp" /\ S.img[k] # Unread /\ Analytics(row[k]) =>
       \/ S.img[k].vals = row[k].vals /\ S.img[k].owner = "analytics"
       \/ Said(S, k, row[k].vals)
  /\ S.kind = "erp" /\ S.img[k] # Unread =>
       \/ S.img[k].owner # "analytics" \/ LastSaid(S, k) = S.img[k].vals
       \/ /\ S.cimg[k] # Unread /\ S.cimg[k].status = "pending"
          /\ S.cimg[k].incoming.vals = LastSaid(S, k)
  /\ S.cimg[k] # Unread =>
       \/ S.kind = "erp" /\ S.cimg[k].status = "pending"
       \/ S.kind = "admin" /\ conflict[k] # NoConflict /\ conflict[k].status = "pending"

CopiesSound == \A s \in Sessions, k \in Keys : CopySound(sess[s], k)

SerialInv ==
  TypeInv /\ CopiesSound /\ SnapshotsDisagree /\ UnansweredDisagreementIsPending

LEMMA AppendFacts ==
  ASSUME NEW q \in Seq(Vals), NEW v \in Vals
  PROVE  /\ Len(Append(q, v)) \in Nat /\ Len(Append(q, v)) = Len(q) + 1 /\ Len(q) \in Nat
         /\ Append(q, v)[Len(q) + 1] = v
         /\ \A i \in 1..Len(q) : Append(q, v)[i] = q[i]
OBVIOUS

(* What one line does to the record of what the file said.                 *)
LEMMA TakenSaid ==
  ASSUME TypeInv, NEW s \in Sessions, NEW k \in Keys, NEW line \in Row, NEW base, NEW img,
         NEW T, T = Taken(s, k, line, base, img)
  PROVE  /\ T.kind = sess[s].kind /\ T.cbase = sess[s].cbase /\ T.cimg = sess[s].cimg
         /\ T.fresh = sess[s].fresh /\ T.twice = sess[s].twice
         /\ T.base[k] = base /\ T.img[k] = img
         /\ LastSaid(T, k) = line.vals /\ Said(T, k, line.vals)
         /\ \A v \in Vals : Said(sess[s], k, v) => Said(T, k, v)
         /\ \A j \in Keys : j # k => /\ T.base[j] = sess[s].base[j]
                                     /\ T.img[j] = sess[s].img[j]
                                     /\ T.said[j] = sess[s].said[j]
<1> DEFINE S == sess[s]
<1>1. S \in Session /\ S.said[k] \in Seq(Vals) /\ line.vals \in Vals
  BY DEF TypeInv, TypeOK, Session, Row
<1>2. /\ T.kind = S.kind /\ T.cbase = S.cbase /\ T.cimg = S.cimg
      /\ T.fresh = S.fresh /\ T.twice = S.twice
      /\ T.base[k] = base /\ T.img[k] = img /\ T.said[k] = Append(S.said[k], line.vals)
      /\ \A j \in Keys : j # k => /\ T.base[j] = S.base[j] /\ T.img[j] = S.img[j]
                                  /\ T.said[j] = S.said[j]
  BY <1>1 DEF Taken, Session
<1>3. /\ LastSaid(T, k) = line.vals /\ Said(T, k, line.vals)
      /\ \A v \in Vals : Said(S, k, v) => Said(T, k, v)
  <2> HIDE DEF S
  <2>1. /\ Len(T.said[k]) = Len(S.said[k]) + 1 /\ Len(S.said[k]) \in Nat
        /\ T.said[k][Len(S.said[k]) + 1] = line.vals
        /\ \A i \in 1..Len(S.said[k]) : T.said[k][i] = S.said[k][i]
    BY <1>1, <1>2, AppendFacts
  <2>2. LastSaid(T, k) = line.vals
    BY <2>1 DEF LastSaid
  <2>3. Said(T, k, line.vals)
    <3>1. Len(S.said[k]) + 1 \in 1..Len(T.said[k])
      BY <2>1
    <3> QED
      BY <2>1, <3>1 DEF Said
  <2>4. ASSUME NEW v \in Vals, Said(S, k, v) PROVE Said(T, k, v)
    <3>1. PICK i \in 1..Len(S.said[k]) : S.said[k][i] = v
      BY <2>4 DEF Said
    <3>2. i \in 1..Len(T.said[k]) /\ T.said[k][i] = v
      BY <2>1, <3>1
    <3> QED
      BY <3>2 DEF Said
  <2> QED
    BY <2>2, <2>3, <2>4
<1> QED
  BY <1>2, <1>3

LEMMA SessionStepSound ==
  ASSUME SerialInv, TypeInv', NEW s \in Sessions, NEW S \in Session,
         \A k \in Keys : CopySound(S, k),
         sess' = [sess EXCEPT ![s] = S], UNCHANGED <<row, conflict, disputed>>
  PROVE  SerialInv'
<1>1. ASSUME NEW t \in Sessions, NEW k \in Keys PROVE CopySound(sess[t], k)'
  <2>1. CopySound(sess'[t], k)
    BY DEF SerialInv, TypeInv, TypeOK, CopiesSound
  <2> QED
    BY <2>1 DEF CopySound, Analytics
<1>2. SnapshotsDisagree' /\ UnansweredDisagreementIsPending'
  BY DEF SerialInv, SnapshotsDisagree, UnansweredDisagreementIsPending, Analytics
<1> QED
  BY <1>1, <1>2 DEF SerialInv, CopiesSound

LEMMA SeenIsCommitted ==
  ASSUME SerialInv, NEW s \in Sessions, NEW k \in Keys
  PROVE  /\ BaseRow(s, k) = row[k] /\ BaseConflict(s, k) = conflict[k]
         /\ (k \in sess[s].fresh \/ SeenRow(s, k) = NoRow) => row[k] = NoRow
<1>1. sess[s] \in Session /\ CopySound(sess[s], k)
  BY DEF SerialInv, TypeInv, TypeOK, CopiesSound
<1> QED
  BY <1>1, ConstantsAssumption DEF BaseRow, BaseConflict, SeenRow, CopySound, Session

(* Keys a step does not touch.                                             *)
LEMMA SameCopySound ==
  ASSUME NEW S, NEW T, NEW j \in Keys, CopySound(S, j),
         T.kind = S.kind, T.base[j] = S.base[j], T.img[j] = S.img[j],
         T.cbase[j] = S.cbase[j], T.cimg[j] = S.cimg[j], T.said[j] = S.said[j],
         j \in T.fresh => j \in S.fresh
  PROVE  CopySound(T, j)
<1>1. LastSaid(T, j) = LastSaid(S, j) /\ (Said(T, j, row[j].vals) <=> Said(S, j, row[j].vals))
  BY DEF LastSaid, Said
<1> QED
  BY <1>1 DEF CopySound

LEMMA InsertLineSound ==
  ASSUME SerialInv, TypeInv', NEW s \in Sessions, NEW k \in Keys, NEW line \in Row,
         InsertLine(s, k, line)
  PROVE  SerialInv'
<1> DEFINE old == sess[s]
           T == Taken(s, k, line, NoRow, line)
           S == [T EXCEPT !.fresh = old.fresh \cup {k},
                          !.twice = old.twice \cup ({k} \cap old.fresh)]
<1>1. old \in Session /\ \A j \in Keys : CopySound(old, j)
  BY DEF SerialInv, TypeInv, TypeOK, CopiesSound
<1>2. T \in Session
  BY TakenType DEF InsertLine, SerialInv
<1>3. row[k] = NoRow
  BY SeenIsCommitted DEF InsertLine
<1>4. /\ T.kind = old.kind /\ T.cbase = old.cbase /\ T.cimg = old.cimg
      /\ T.base[k] = NoRow /\ T.img[k] = line /\ LastSaid(T, k) = line.vals
      /\ \A j \in Keys : j # k => /\ T.base[j] = old.base[j] /\ T.img[j] = old.img[j]
                                  /\ T.said[j] = old.said[j]
  BY TakenSaid DEF SerialInv
<1>5. /\ S \in Session /\ S.kind = T.kind /\ S.cbase = T.cbase /\ S.cimg = T.cimg
      /\ S.base = T.base /\ S.img = T.img /\ S.said = T.said
      /\ S.fresh = old.fresh \cup {k}
  <2> HIDE DEF T
  <2> QED BY <1>1, <1>2 DEF Session
<1>6. ASSUME NEW j \in Keys PROVE CopySound(S, j)
  <2> HIDE DEF S, T
  <2>1. CASE j = k
    <3>1. LastSaid(S, k) = line.vals
      BY <1>4, <1>5 DEF LastSaid
    <3> QED
      BY <1>1, <1>3, <1>4, <1>5, <2>1, <3>1, ConstantsAssumption
      DEF CopySound, Analytics, InsertLine, Importing
  <2>2. CASE j # k
    BY <1>1, <1>4, <1>5, <2>2, SameCopySound
  <2> QED BY <2>1, <2>2
<1>7. sess' = [sess EXCEPT ![s] = S] /\ UNCHANGED <<row, conflict, disputed>>
  BY DEF InsertLine
<1> QED
  BY <1>5, <1>6, <1>7, SessionStepSound

LEMMA OverwriteLineSound ==
  ASSUME SerialInv, TypeInv', NEW s \in Sessions, NEW k \in Keys, NEW line \in Row,
         OverwriteLine(s, k, line)
  PROVE  SerialInv'
<1> DEFINE old == sess[s]
           T == Taken(s, k, line, BaseRow(s, k), line)
<1>1. old \in Session /\ \A j \in Keys : CopySound(old, j)
  BY DEF SerialInv, TypeInv, TypeOK, CopiesSound
<1>2. BaseRow(s, k) = row[k] /\ BaseRow(s, k) \in Row \cup {NoRow, Unread}
      /\ (BaseRow(s, k) = NoRow \/ (BaseRow(s, k) \in Row /\ row[k] # NoRow))
      /\ SeenRow(s, k) \in Row /\ row[k] \in Row \cup {NoRow}
  BY SeenIsCommitted, SeenRowType DEF OverwriteLine, SerialInv, TypeInv, TypeOK
<1>3. T \in Session
  BY <1>2, TakenType DEF OverwriteLine, SerialInv
<1>4. /\ T.kind = old.kind /\ T.cbase = old.cbase /\ T.cimg = old.cimg
      /\ T.fresh = old.fresh /\ T.base[k] = row[k] /\ T.img[k] = line
      /\ LastSaid(T, k) = line.vals /\ Said(T, k, line.vals)
      /\ \A v \in Vals : Said(old, k, v) => Said(T, k, v)
      /\ \A j \in Keys : j # k => /\ T.base[j] = old.base[j] /\ T.img[j] = old.img[j]
                                  /\ T.said[j] = old.said[j]
  <2> HIDE DEF T
  <2>1. TypeInv /\ BaseRow(s, k) = row[k]
    BY <1>2 DEF SerialInv
  <2> QED
    BY <2>1, TakenSaid DEF T
<1>5. ASSUME old.kind = "erp", Analytics(row[k]) PROVE Said(T, k, row[k].vals)
  <2>1. CASE old.img[k] # Unread /\ Said(old, k, row[k].vals)
    BY <1>2, <1>4, <1>5, <2>1 DEF Analytics, Row
  <2>2. CASE SeenRow(s, k).owner = "analytics" /\ SeenRow(s, k).vals = row[k].vals
    <3>1. DiffFields(SeenRow(s, k), line) = {}
      BY <1>2, <1>5, <2>2, ConstantsAssumption DEF OverwriteLine, MustQueue, Analytics
    <3>2. line.vals = row[k].vals
      BY <1>2, <2>2, <3>1 DEF DiffFields, Row, Vals
    <3> QED
      BY <1>4, <3>2
  <2>3. \/ old.img[k] # Unread /\ Said(old, k, row[k].vals)
        \/ SeenRow(s, k).owner = "analytics" /\ SeenRow(s, k).vals = row[k].vals
    BY <1>1, <1>2, <1>5 DEF CopySound, SeenRow, Analytics
  <2> QED
    BY <2>1, <2>2, <2>3
<1>6. ASSUME NEW j \in Keys PROVE CopySound(T, j)
  <2> HIDE DEF T
  <2>1. CASE j = k
    BY <1>1, <1>2, <1>4, <1>5, <2>1, ConstantsAssumption DEF CopySound, OverwriteLine
  <2>2. CASE j # k
    BY <1>1, <1>4, <2>2, SameCopySound
  <2> QED BY <2>1, <2>2
<1>7. sess' = [sess EXCEPT ![s] = T] /\ UNCHANGED <<row, conflict, disputed>>
  BY DEF OverwriteLine
<1> QED
  BY <1>3, <1>6, <1>7, SessionStepSound

LEMMA QueueLineSound ==
  ASSUME SerialInv, TypeInv', NEW s \in Sessions, NEW k \in Keys, NEW line \in Row,
         QueueLine(s, k, line)
  PROVE  SerialInv'
<1> DEFINE old == sess[s]
           seen == SeenRow(s, k)
           c == Queued(s, k, line)
           T == Taken(s, k, line, BaseRow(s, k), seen)
           flushes == SeenConflict(s, k) = NoConflict
           S == [T EXCEPT !.cbase[k] = BaseConflict(s, k), !.cimg[k] = c,
                          !.fresh = IF flushes THEN {} ELSE sess[s].fresh]
           N == IF flushes /\ sess[s].twice # {} THEN Idle ELSE S
<1>1. old \in Session /\ \A j \in Keys : CopySound(old, j)
  BY DEF SerialInv, TypeInv, TypeOK, CopiesSound
<1>2. /\ BaseRow(s, k) = row[k] /\ BaseRow(s, k) \in Row \cup {NoRow, Unread}
      /\ BaseRow(s, k) = NoRow \/ (BaseRow(s, k) \in Row /\ row[k] # NoRow)
      /\ seen \in Row /\ row[k] \in Row \cup {NoRow} /\ BaseConflict(s, k) = conflict[k]
      /\ c \in Conflict /\ conflict[k] \in Conflict \cup {NoConflict}
  BY SeenIsCommitted, SeenRowType, QueuedType DEF QueueLine, SerialInv, TypeInv, TypeOK
<1>3. T \in Session
  BY <1>2, TakenType DEF QueueLine, SerialInv
<1>4. /\ T.kind = old.kind /\ T.cbase = old.cbase /\ T.cimg = old.cimg
      /\ T.base[k] = row[k] /\ T.img[k] = seen
      /\ LastSaid(T, k) = line.vals /\ Said(T, k, line.vals)
      /\ \A v \in Vals : Said(old, k, v) => Said(T, k, v)
      /\ \A j \in Keys : j # k => /\ T.base[j] = old.base[j] /\ T.img[j] = old.img[j]
                                  /\ T.said[j] = old.said[j]
  <2> HIDE DEF T
  <2>1. TypeInv /\ BaseRow(s, k) = row[k]
    BY <1>2 DEF SerialInv
  <2> QED
    BY <2>1, TakenSaid DEF T
<1>5. /\ S \in Session /\ S.kind = T.kind /\ S.base = T.base /\ S.img = T.img
      /\ S.said = T.said /\ S.fresh \subseteq old.fresh
      /\ S.cbase[k] = conflict[k] /\ S.cimg[k] = c
      /\ \A j \in Keys : j # k => S.cbase[j] = old.cbase[j] /\ S.cimg[j] = old.cimg[j]
  <2> HIDE DEF T, c
  <2> QED BY <1>1, <1>2, <1>3, <1>4 DEF Session
<1>6. /\ Disagrees(c) /\ c.status = "pending" /\ c.incoming.vals = line.vals
      /\ old.kind = "erp" /\ k \notin old.fresh
  BY DEF QueueLine, MustQueue, Queued, Disagrees, Analytics
<1>7. ASSUME NEW j \in Keys PROVE CopySound(S, j)
  <2> HIDE DEF S, T, c
  <2>1. CASE j = k
    <3>1. LastSaid(S, k) = line.vals /\ \A v \in Vals : Said(old, k, v) => Said(S, k, v)
      BY <1>4, <1>5 DEF LastSaid, Said
    <3>2. Analytics(row[k]) =>
            \/ seen.vals = row[k].vals /\ seen.owner = "analytics"
            \/ Said(S, k, row[k].vals)
      BY <1>1, <1>2, <1>6, <3>1 DEF CopySound, SeenRow, Analytics, Row
    <3> QED
      BY <1>2, <1>4, <1>5, <1>6, <2>1, <3>1, <3>2, ConstantsAssumption DEF CopySound
  <2>2. CASE j # k
    BY <1>1, <1>4, <1>5, <2>2, SameCopySound
  <2> QED BY <2>1, <2>2
<1>8. N \in Session /\ \A j \in Keys : CopySound(N, j)
  <2>1. \A j \in Keys : CopySound(Idle, j)
    BY DEF Idle, Opened, CopySound
  <2> HIDE DEF S
  <2> QED BY <1>5, <1>7, <2>1, OpenedIsSession DEF Idle
<1>9. sess' = [sess EXCEPT ![s] = N] /\ UNCHANGED <<row, conflict, disputed>>
  BY DEF QueueLine
<1> QED
  BY <1>8, <1>9, SessionStepSound

LEMMA ResolveSound ==
  ASSUME SerialInv, TypeInv', NEW s \in Sessions, NEW k \in Keys, NEW verdict, NEW choices,
         NEW newRow, MayResolve(s, k), Decide(s, k, verdict, choices, newRow)
  PROVE  SerialInv'
<1> DEFINE c == [conflict[k] EXCEPT !.status = verdict, !.choices = choices]
           S == [sess[s] EXCEPT !.base[k] = row[k], !.img[k] = newRow,
                                !.cbase[k] = conflict[k], !.cimg[k] = c]
<1>1. /\ sess[s] \in Session /\ \A j \in Keys : CopySound(sess[s], j)
      /\ conflict[k] \in Conflict /\ Disagrees(conflict[k])
  BY DEF SerialInv, TypeInv, TypeOK, CopiesSound, MayResolve, SnapshotsDisagree, Disagrees
<1>2. sess' = [sess EXCEPT ![s] = S] /\ UNCHANGED <<row, conflict, disputed>>
  BY DEF Decide
<1>3. S \in Session /\ sess[s].kind = "admin" /\ sess[s].fresh \subseteq Keys
  <2>1. sess'[s] = S /\ sess'[s] \in Session
    BY <1>2 DEF TypeInv, TypeOK, SerialInv
  <2> QED
    BY <1>1, <2>1 DEF MayResolve, Session
<1>4. Disagrees(c)
  BY <1>1 DEF Disagrees, Conflict
<1>5. /\ S.kind = "admin" /\ S.base[k] = row[k] /\ S.img[k] = newRow
      /\ S.cbase[k] = conflict[k] /\ S.cimg[k] = c /\ S.said = sess[s].said
      /\ S.fresh = sess[s].fresh
      /\ \A j \in Keys : j # k =>
           /\ S.base[j] = sess[s].base[j] /\ S.img[j] = sess[s].img[j]
           /\ S.cbase[j] = sess[s].cbase[j] /\ S.cimg[j] = sess[s].cimg[j]
  BY <1>1, <1>3 DEF Session
<1>6. ASSUME NEW j \in Keys PROVE CopySound(S, j)
  <2> HIDE DEF S, c
  <2>1. CASE j = k
    BY <1>1, <1>3, <1>4, <1>5, <2>1 DEF CopySound, MayResolve
  <2>2. CASE j # k
    BY <1>1, <1>3, <1>5, <2>2, SameCopySound
  <2> QED BY <2>1, <2>2
<1> QED
  BY <1>2, <1>3, <1>6, SessionStepSound

LEMMA MergeRowSame ==
  ASSUME NEW b \in Row, NEW i \in Row PROVE MergeRow(b, b, i) = i
BY DEF MergeRow, Row, Vals

LEMMA MergeConflictSame ==
  ASSUME NEW b \in Conflict, NEW i \in Conflict PROVE MergeConflict(b, b, i) = i
BY DEF MergeConflict, Conflict

(* What was read still stands, so a commit writes the session's copies.    *)
LEMMA CommitWritesCopies ==
  ASSUME SerialInv, NEW s \in Sessions, NEW k \in Keys
  PROVE  /\ CommittedRow(s, k) = SeenRow(s, k)
         /\ CommittedConflict(s, k) = SeenConflict(s, k)
<1>1. /\ sess[s] \in Session /\ CopySound(sess[s], k) /\ CopyOK(sess[s], k)
      /\ row[k] \in Row \cup {NoRow} /\ conflict[k] \in Conflict \cup {NoConflict}
  BY DEF SerialInv, TypeInv, TypeOK, CopiesSound, CopiesOK
<1>2. CommittedRow(s, k) = SeenRow(s, k)
  BY <1>1, MergeRowSame DEF CommittedRow, SeenRow, CopySound, CopyOK, Session
<1>3. CommittedConflict(s, k) = SeenConflict(s, k)
  BY <1>1, MergeConflictSame DEF CommittedConflict, SeenConflict, CopySound, CopyOK, Session
<1> QED
  BY <1>2, <1>3

LEMMA CommitSound ==
  ASSUME SerialInv, SingleSession, TypeInv', NEW s \in Sessions, Commit(s)
  PROVE  SerialInv'
<1>1. /\ sess' = [sess EXCEPT ![s] = Idle]
      /\ \A k \in Keys : /\ row'[k] = SeenRow(s, k) /\ conflict'[k] = SeenConflict(s, k)
                         /\ disputed'[k] = Standing(s, k)
  BY CommitWritesCopies DEF Commit
<1>2. /\ sess \in [Sessions -> Session] /\ sess[s] \in Session
      /\ \A k \in Keys : CopySound(sess[s], k) /\ CopyOK(sess[s], k)
  BY DEF SerialInv, TypeInv, TypeOK, CopiesSound, CopiesOK
<1>3. CopiesSound'
  <2>1. \A t \in Sessions : sess'[t] = Idle
    BY <1>1, <1>2 DEF SingleSession
  <2> QED
    BY <2>1 DEF CopiesSound, CopySound, Idle, Opened
<1>4. SnapshotsDisagree'
  <2> SUFFICES ASSUME NEW k \in Keys, conflict'[k] # NoConflict PROVE Disagrees(conflict'[k])
    BY DEF SnapshotsDisagree, Disagrees
  <2> QED
    BY <1>1, <1>2 DEF SerialInv, SnapshotsDisagree, Disagrees, SeenConflict, CopySound
<1>5. UnansweredDisagreementIsPending'
  <2> SUFFICES ASSUME NEW k \in Keys, row'[k] # NoRow, row'[k].owner = "analytics",
                      disputed'[k] # Unsaid, disputed'[k] # row'[k].vals
               PROVE  /\ conflict'[k] # NoConflict /\ conflict'[k].status = "pending"
                      /\ conflict'[k].incoming.vals = disputed'[k]
    BY DEF UnansweredDisagreementIsPending, Analytics
  <2>1. CASE sess[s].img[k] = Unread
    <3>1. sess[s].cimg[k] = Unread
      BY <1>2, <2>1 DEF CopyOK
    <3> QED
      BY <1>1, <2>1, <3>1
      DEF SerialInv, UnansweredDisagreementIsPending, Analytics, SeenRow, SeenConflict, Standing
  <2>2. CASE sess[s].img[k] # Unread
    <3>1. sess[s].kind = "erp" /\ disputed'[k] = LastSaid(sess[s], k)
      BY <1>1, <2>2 DEF Standing, LastSaid
    <3>2. row'[k] = sess[s].img[k]
      BY <1>1, <2>2 DEF SeenRow
    <3>3. /\ sess[s].cimg[k] # Unread /\ sess[s].cimg[k].status = "pending"
          /\ sess[s].cimg[k].incoming.vals = disputed'[k]
      BY <1>2, <2>2, <3>1, <3>2 DEF CopySound
    <3> QED
      BY <1>1, <1>2, <3>3, ConstantsAssumption DEF SeenConflict, Session
  <2> QED
    BY <2>1, <2>2
<1> QED
  BY <1>3, <1>4, <1>5 DEF SerialInv

LEMMA SerialInit == Init => SerialInv
<1> SUFFICES ASSUME Init PROVE SerialInv
  OBVIOUS
<1>1. CopiesSound
  BY DEF Init, CopiesSound, CopySound, Idle, Opened
<1>2. SnapshotsDisagree /\ UnansweredDisagreementIsPending
  BY DEF Init, SnapshotsDisagree, UnansweredDisagreementIsPending, Analytics
<1> QED
  BY <1>1, <1>2, TypeInit DEF SerialInv

LEMMA SerialStep == SerialInv /\ SingleSession /\ [Next]_vars => SerialInv'
<1> SUFFICES ASSUME SerialInv, SingleSession, [Next]_vars PROVE SerialInv'
  OBVIOUS
<1>0. TypeInv /\ TypeInv'
  BY TypeStep DEF SerialInv
<1>1. CASE UNCHANGED vars
  <2>1. CopiesSound'
    BY <1>1 DEF vars, SerialInv, CopiesSound, CopySound, Analytics
  <2>2. SnapshotsDisagree' /\ UnansweredDisagreementIsPending'
    BY <1>1 DEF vars, SerialInv, SnapshotsDisagree, UnansweredDisagreementIsPending, Analytics
  <2> QED
    BY <1>0, <2>1, <2>2 DEF SerialInv
<1>2. ASSUME NEW s \in Sessions, (\E kind \in Kinds : Open(s, kind)) \/ Abort(s)
      PROVE  SerialInv'
  <2>1. PICK kind \in Kinds \cup {"idle"} :
          sess' = [sess EXCEPT ![s] = Opened(kind)] /\ UNCHANGED <<row, conflict, disputed>>
    BY <1>2 DEF Open, Abort, Idle
  <2>2. \A k \in Keys : CopySound(Opened(kind), k)
    BY DEF CopySound, Opened
  <2> QED
    BY <1>0, <2>1, <2>2, OpenedIsSession, SessionStepSound
<1>3. ASSUME NEW s \in Sessions, NEW k \in Keys,
             \/ ResolveKeepLocal(s, k)
             \/ ResolveAcceptErp(s, k)
             \/ \E choices \in Choices : ResolvePerField(s, k, choices)
      PROVE  SerialInv'
  BY <1>0, <1>3, ResolveSound DEF ResolveKeepLocal, ResolveAcceptErp, ResolvePerField
<1> QED
  BY <1>0, <1>1, <1>2, <1>3, InsertLineSound, QueueLineSound, OverwriteLineSound, CommitSound
  DEF Next

LEMMA SerialInvariance ==
  ASSUME SingleSession PROVE Spec => []SerialInv
BY SerialInit, SerialStep, PTL DEF Spec

(* With one session at a time, the snapshots of every conflict disagree in *)
(* exactly the recorded columns: a per-field merge is always well defined  *)
(* (queue_import_conflict, resolve_import_conflict).                       *)
THEOREM ConflictsAreDisagreements ==
  ASSUME SingleSession PROVE Spec => []SnapshotsDisagree
<1>1. SerialInv => SnapshotsDisagree
  BY DEF SerialInv
<1> QED
  BY <1>1, SerialInvariance, PTL

(* With one session at a time, no disagreement between the ERP and a row   *)
(* owned here is lost: it waits in the administrator's queue until someone *)
(* decides it (_apply_scores, _apply_attendance).                          *)
THEOREM DisagreementsAreQueued ==
  ASSUME SingleSession PROVE Spec => []UnansweredDisagreementIsPending
<1>1. SerialInv => UnansweredDisagreementIsPending
  BY DEF SerialInv
<1> QED
  BY <1>1, SerialInvariance, PTL

(* Tables change in commits only.                                          *)
LEMMA TablesChangeInCommits ==
  ASSUME [Next]_vars
  PROVE  (\E s \in Sessions : Commit(s)) \/ UNCHANGED <<row, conflict, disputed>>
<1>1. CASE UNCHANGED vars
  BY <1>1 DEF vars
<1>2. ASSUME NEW s \in Sessions,
             \/ \E kind \in Kinds : Open(s, kind)
             \/ \E k \in Keys, line \in Row :
                  InsertLine(s, k, line) \/ QueueLine(s, k, line) \/ OverwriteLine(s, k, line)
             \/ Abort(s)
      PROVE  UNCHANGED <<row, conflict, disputed>>
  BY <1>2 DEF Open, InsertLine, QueueLine, OverwriteLine, Abort
<1>3. ASSUME NEW s \in Sessions, NEW k \in Keys,
             \/ ResolveKeepLocal(s, k) \/ ResolveAcceptErp(s, k)
             \/ \E choices \in Choices : ResolvePerField(s, k, choices)
      PROVE  UNCHANGED <<row, conflict, disputed>>
  BY <1>3 DEF ResolveKeepLocal, ResolveAcceptErp, ResolvePerField, Decide
<1> QED
  BY <1>1, <1>2, <1>3 DEF Next

(* With one session at a time, an ERP import leaves the values of a row    *)
(* owned here alone, unless the file itself stated those values first.     *)
THEOREM ErpPreservation ==
  ASSUME SingleSession PROVE Spec => ErpPreservesAnalyticsValues
<1> DEFINE Preserved(k) ==
      (Analytics(row[k]) /\ row'[k].vals # row[k].vals) =>
         \E s \in Sessions :
           /\ sess[s].kind # "idle" /\ sess'[s] = Idle
           /\ sess[s].kind = "erp" =>
                \E i \in 1..Len(sess[s].said[k]) : sess[s].said[k][i] = row[k].vals
<1>1. ASSUME SerialInv, [Next]_vars, NEW k \in Keys PROVE Preserved(k)
  <2> SUFFICES ASSUME Analytics(row[k]), row'[k].vals # row[k].vals
               PROVE  \E s \in Sessions :
                        /\ sess[s].kind # "idle" /\ sess'[s] = Idle
                        /\ sess[s].kind = "erp" =>
                             \E i \in 1..Len(sess[s].said[k]) :
                               sess[s].said[k][i] = row[k].vals
    OBVIOUS
  <2>1. PICK s \in Sessions : Commit(s)
    BY <1>1, TablesChangeInCommits
  <2>2. sess[s] \in Session /\ CopySound(sess[s], k) /\ sess'[s] = Idle
         /\ sess[s].kind # "idle"
    BY <1>1, <2>1 DEF SerialInv, TypeInv, TypeOK, CopiesSound, Commit
  <2>3. row'[k] = SeenRow(s, k)
    BY <1>1, <2>1, CommitWritesCopies DEF Commit
  <2>4. sess[s].kind = "erp" => Said(sess[s], k, row[k].vals)
    BY <2>2, <2>3 DEF SeenRow, CopySound
  <2> QED
    BY <2>2, <2>4 DEF Said
<1>2. SerialInv /\ [Next]_vars => [\A k \in Keys : Preserved(k)]_vars
  BY <1>1
<1> QED
  BY <1>2, SerialInvariance, PTL DEF Spec, ErpPreservesAnalyticsValues

(* With one session at a time, a verdict is never replaced by another and  *)
(* only a new disagreement of the ERP reopens it.                          *)
THEOREM VerdictsStand ==
  ASSUME SingleSession PROVE Spec => VerdictStands
<1> DEFINE Stands(k) ==
      (conflict[k] # NoConflict /\ conflict[k].status \in Resolved
          /\ conflict'[k] # conflict[k]) =>
         /\ conflict'[k].status = "pending"
         /\ \E s \in Sessions : sess[s].kind = "erp" /\ sess'[s] = Idle
<1>1. ASSUME SerialInv, [Next]_vars, NEW k \in Keys PROVE Stands(k)
  <2> SUFFICES ASSUME conflict[k] # NoConflict, conflict[k].status \in Resolved,
                      conflict'[k] # conflict[k]
               PROVE  /\ conflict'[k].status = "pending"
                      /\ \E s \in Sessions : sess[s].kind = "erp" /\ sess'[s] = Idle
    OBVIOUS
  <2>1. PICK s \in Sessions : Commit(s)
    BY <1>1, TablesChangeInCommits
  <2>2. sess[s] \in Session /\ CopySound(sess[s], k) /\ sess'[s] = Idle
    BY <1>1, <2>1 DEF SerialInv, TypeInv, TypeOK, CopiesSound, Commit
  <2>3. conflict'[k] = SeenConflict(s, k)
    BY <1>1, <2>1, CommitWritesCopies DEF Commit
  <2>4. sess[s].cimg[k] # Unread /\ conflict'[k] = sess[s].cimg[k]
    BY <2>3 DEF SeenConflict
  <2>5. sess[s].kind = "erp" /\ conflict'[k].status = "pending"
    BY <2>2, <2>4 DEF CopySound, Resolved
  <2> QED
    BY <2>2, <2>5
<1>2. SerialInv /\ [Next]_vars => [\A k \in Keys : Stands(k)]_vars
  BY <1>1
<1> QED
  BY <1>2, SerialInvariance, PTL DEF Spec, VerdictStands
=============================================================================
