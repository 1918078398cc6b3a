------------------------------ MODULE MCDeltaSync ------------------------------
(* Model-checking instance of DeltaSync: an export that names two codes and  *)
(* a student it may create, one that names a row twice, and one that does    *)
(* not validate.                                                             *)
EXTENDS DeltaSync

CONSTANTS b1, b2, bad, c1, c2, old, new, m1, m2

MCBundles == {b1, b2, bad}
MCCodes == {c1, c2}
MCInvalid == {bad}
MCRefusable == {b2}
MCStudents == {old, new}
MCEnrolled == {old}
MCAssessments == {m1, m2}

MCLines == 1..4
MCLinesOf == [b \in MCBundles |-> IF b = b1 THEN {1, 2} ELSE {3, 4}]
MCCodeOf == <<c1, c2, c1, c1>>
MCStudentOf == <<old, new, old, old>>
MCFits == [l \in MCLines |-> IF l = 2 THEN {m1} ELSE MCAssessments]
MCEnrols == [b \in MCBundles |-> IF b = b1 THEN {new} ELSE {}]
=============================================================================
