---------------------------- MODULE MCBundleApply ----------------------------
(* Model-checking instance of BundleApply: one grade with two sections, two *)
(* subjects, two logins, two admission numbers; remarks of one student.    *)
EXTENDS BundleApply, TLC

CONSTANTS g, A, B, math, art, u1, u2, adm1, adm2, n1, n2, id1

MCSections == {A, B}
MCSubjects == {math, art}
MCUsers == {u1, u2}
MCAdmissions == {adm1, adm2}
MCNotes == {n1, n2}
MCGradeOf == [c \in MCSections |-> g]

Structure == [file: {"structure"}, section: MCSections, subject: MCSubjects]

User(role, adm, section, subject) ==
  [file: {"users"}, user: MCUsers, role: {role}, adm: {adm}, section: {section},
   subject: {subject}]

UserLines ==
  User("student", adm1, A, None) \cup User("student", adm2, B, None)
  \cup User("parent", adm1, None, None) \cup User("teacher", None, A, math)

Remarks ==
  [file: {"remarks"}, adm: {adm1}, id: {id1}, note: MCNotes]
  \cup [file: {"remarks"}, adm: {adm1}, id: {None}, note: {n1}]

MCFileLines == Structure \cup UserLines \cup Remarks
MCStructureLines == Structure
Symmetry == Permutations(MCUsers)
=============================================================================
