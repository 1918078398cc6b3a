---------------------------- MODULE CodeLifecycle ----------------------------
(***************************************************************************)
(* What the mapping queue promises: the first import that mentions an      *)
(* unknown assessment code holds it; an administrator then decides once,   *)
(* either for one assessment, which answers to no other code, or against   *)
(* the code.                                                               *)
(***************************************************************************)
CONSTANTS Codes, Assessments

VARIABLE decision

States == {"none", "pending", "rejected"} \cup Assessments

Init == decision = [c \in Codes |-> "none"]

Assign(c, a) ==
  /\ decision[c] = "pending"
  /\ \A d \in Codes : decision[d] # a
  /\ decision' = [decision EXCEPT ![c] = a]

Reject(c) ==
  /\ decision[c] = "pending"
  /\ decision' = [decision EXCEPT ![c] = "rejected"]

(* Several unknown codes of one file are held together, at its commit.     *)
HoldSome(D) ==
  /\ \A c \in D : decision[c] = "none"
  /\ decision' = [c \in Codes |-> IF c \in D THEN "pending" ELSE decision[c]]

Next ==
  \/ \E D \in SUBSET Codes : HoldSome(D)
  \/ \E c \in Codes, a \in Assessments : Assign(c, a)
  \/ \E c \in Codes : Reject(c)

Spec == Init /\ [][Next]_decision
=============================================================================
