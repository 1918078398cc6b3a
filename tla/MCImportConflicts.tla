-------------------------- MODULE MCImportConflicts --------------------------
(* Model-checking instance of ImportConflicts.                             *)
EXTENDS ImportConflicts, TLC

CONSTANTS marks_obtained, is_absent, v1, v2

MCFields == {marks_obtained, is_absent}
MCOneField == {marks_obtained}
MCValues == {v1, v2}
Symmetry == Permutations(MCFields) \cup Permutations(MCValues) \cup Permutations(Sessions)
=============================================================================
