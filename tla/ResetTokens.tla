----------------------------- MODULE ResetTokens -----------------------------
(***************************************************************************)
(* What the password reset tokens of an account promise: at most one is    *)
(* open at a time, an open token sets the password once, and then, or when *)
(* another one is issued, or when the password changes otherwise, or in    *)
(* time, it closes for good.                                               *)
(***************************************************************************)
EXTENDS Naturals

CONSTANTS Tokens, NoToken

VARIABLES
  open,      \* the token that would be accepted now
  issued,    \* the tokens handed out so far
  sets       \* how often each token set the password

Init == open = NoToken /\ issued = {} /\ sets = [t \in Tokens |-> 0]

Issue(t) ==
  /\ t \notin issued
  /\ open' = t /\ issued' = issued \cup {t} /\ UNCHANGED sets

Redeem(t) ==
  /\ open = t
  /\ open' = NoToken /\ sets' = [sets EXCEPT ![t] = @ + 1] /\ UNCHANGED issued

Close == open' = NoToken /\ UNCHANGED <<issued, sets>>

Next == Close \/ \E t \in Tokens : Issue(t) \/ Redeem(t)

Spec == Init /\ [][Next]_<<open, issued, sets>>
=============================================================================
