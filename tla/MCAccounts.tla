------------------------------ MODULE MCAccounts ------------------------------
(* Model-checking instance of Accounts: two requests at a time.  v1 logs    *)
(* in, enrols, or is an administrator's reset of the second factor; e1 is   *)
(* any of the others.                                                       *)
EXTENDS Accounts, TLC

CONSTANTS t1, t2, k1, k2, e1, v1

MCTokens == {t1, t2}
MCCodes == {k1, k2}
MCSessions == {e1, v1}
MCCarries ==
  LET beside == {"login", "enrol", "mfa_reset"}
  IN  e1 :> Kinds \ beside @@ v1 :> beside
Symmetry == Permutations(MCTokens) \cup Permutations(MCCodes)
=============================================================================
