---------------------------- MODULE AccountsProofs ----------------------------
(***************************************************************************)
(* Proofs about Accounts, for any tokens, codes and requests: type         *)
(* correctness, and what cookies, the audit trail and recovery codes       *)
(* promise, however many requests write the account at once; and what a    *)
(* code and a reset link are good for when one request at a time may spend *)
(* codes, or tokens, whatever the others do.                               *)
(***************************************************************************)
EXTENDS Accounts, SequenceTheorems, FiniteSetTheorems, TLAPS

(* What a request in progress has read, and how far it is. *)
WellFormed(s) == ses[s] # None =>
  /\ ses[s].kind \in Carries[s]
  /\ ses[s].kind # "invite" => user \in UserRow /\ ses[s].row \in UserRow
  /\ ses[s].kind = "reset" => ses[s].token \in Tokens
  /\ ses[s].kind = "recover" => ses[s].code \in Codes
  /\ ses[s].stage # "read" => ses[s].kind \in {"issue", "reset", "change"}

TypeInv == TypeOK /\ \A s \in Sessions : WellFormed(s)

Untouched == UNCHANGED <<required, rows, cookies, mfa, opened, orphans>>

(* What the reads of a handler establish. *)
Started(s, kind, token, code) ==
  /\ Start(s, kind, token, code)
  /\ kind \in Kinds /\ token \in Opt(Tokens) /\ code \in Opt(Codes)
  /\ IF kind = "invite" THEN user = None ELSE user # None
  /\ IF kind = "reset" THEN token \in Tokens /\ tokens[token] = "unused" ELSE token = None
  /\ kind = "recover" => code \in Codes /\ codes[code] = "unused"
  /\ kind = "codes" => user.totp

-----------------------------------------------------------------------------
(* Every first half of a handler is a start of one of the kinds. *)
LEMMA BeginStarts ==
  ASSUME NEW s \in Sessions, Begin(s)
  PROVE  \E kind \in Kinds, token \in Opt(Tokens), code \in Opt(Codes) :
           Started(s, kind, token, code)
<1> USE DEF Started, Kinds, Opt, Exists
<1>1. CASE BeginLogin(s)
  <2>1. Started(s, "login", None, None) BY <1>1 DEF BeginLogin
  <2> QED BY <2>1
<1>2. CASE BeginVerify(s)
  <2>1. Started(s, "verify", None, None) BY <1>2 DEF BeginVerify, Holds
  <2> QED BY <2>1
<1>3. CASE BeginEnrol(s)
  <2>1. Started(s, "enrol", None, None)
    BY <1>3 DEF BeginEnrol, Holds, LoggedIn, Accepts
  <2> QED BY <2>1
<1>4. CASE BeginConfirm(s)
  <2>1. Started(s, "confirm", None, None)
    BY <1>4 DEF BeginConfirm, Holds, LoggedIn, Accepts
  <2> QED BY <2>1
<1>5. CASE BeginCodes(s)
  <2>1. Started(s, "codes", None, None) BY <1>5 DEF BeginCodes, LoggedIn, Accepts
  <2> QED BY <2>1
<1>6. CASE BeginMfaReset(s)
  <2>1. Started(s, "mfa_reset", None, None) BY <1>6 DEF BeginMfaReset
  <2> QED BY <2>1
<1>7. CASE BeginIssue(s)
  <2>1. Started(s, "issue", None, None) BY <1>7 DEF BeginIssue
  <2> QED BY <2>1
<1>8. CASE BeginChange(s)
  <2>1. Started(s, "change", None, None) BY <1>8 DEF BeginChange, LoggedIn, Accepts
  <2> QED BY <2>1
<1>9. CASE BeginInvite(s)
  <2>1. Started(s, "invite", None, None) BY <1>9 DEF BeginInvite
  <2> QED BY <2>1
<1>10. ASSUME NEW c \in Codes, BeginRecover(s, c)
       PROVE  Started(s, "recover", None, c)
  BY <1>10 DEF BeginRecover, Holds
<1>11. ASSUME NEW t \in Tokens, BeginReset(s, t)
       PROVE  Started(s, "reset", t, None)
  BY <1>11 DEF BeginReset
<1>12. CASE \E c \in Codes : BeginRecover(s, c)
  BY <1>10, <1>12
<1>13. CASE \E t \in Tokens : BeginReset(s, t)
  BY <1>11, <1>13
<1> HIDE DEF Started, Kinds, Opt, Exists
<1> QED
  BY <1>1, <1>2, <1>3, <1>4, <1>5, <1>6, <1>7, <1>8, <1>9, <1>12, <1>13 DEF Begin

(* A request that sets the password is the same request, a stage later. *)
LEMMA Staged ==
  ASSUME ses \in [Sessions -> Opt(Request)], NEW s \in Sessions, ses[s] \in Request,
         ses' = [ses EXCEPT ![s] = [ses[s] EXCEPT !.stage = "set"]]
  PROVE  /\ ses' \in [Sessions -> Opt(Request)]
         /\ ses'[s].kind = ses[s].kind /\ ses'[s].row = ses[s].row
         /\ ses'[s].code = ses[s].code
         /\ \A r \in Sessions \ {s} : ses'[r] = ses[r]
<1> DEFINE q == [ses[s] EXCEPT !.stage = "set"]
<1>1. /\ q \in Request /\ q.kind = ses[s].kind /\ q.row = ses[s].row
      /\ q.code = ses[s].code
  BY DEF Request
<1>2. ses' = [ses EXCEPT ![s] = q] OBVIOUS
<1> HIDE DEF q
<1> QED BY <1>1, <1>2 DEF Opt

(* The request a start leaves behind. *)
LEMMA StartedRequest ==
  ASSUME TypeInv, NEW s \in Sessions, NEW kind, NEW token, NEW code,
         Started(s, kind, token, code)
  PROVE  /\ Untouched /\ ses' \in [Sessions -> Opt(Request)]
         /\ ses'[s] # None /\ \A r \in Sessions \ {s} : ses'[r] = ses[r]
         /\ ses'[s].kind = kind /\ ses'[s].row = user /\ ses'[s].era = Len(revoked)
         /\ ses'[s].token = token /\ ses'[s].code = code /\ ses'[s].stage = "read"
         /\ ses'[s].old = {}
         /\ kind \in Carries[s]
<1> DEFINE q == [kind |-> kind, row |-> user, era |-> Len(revoked), token |-> token,
                 code |-> code, stage |-> "read", old |-> {}]
<1>1. ses' = [ses EXCEPT ![s] = q] /\ Untouched /\ kind \in Carries[s]
  BY DEF Started, Start, Untouched
<1>2. Len(revoked) \in Nat /\ user \in Opt(UserRow) /\ ses \in [Sessions -> Opt(Request)]
  BY DEF TypeInv, TypeOK
<1>3. q \in Request
  BY <1>2 DEF Started, Request
<1>4. q # None BY <1>3, AccountsAssumption
<1> QED BY <1>1, <1>2, <1>3, <1>4 DEF Opt

(* The steps of Next, with a start in place of the first halves. *)
Advance(s) ==
  \/ RevokeTokens(s) \/ Lose(s)
  \/ FinishLogin(s) \/ FinishVerify(s) \/ FinishRecover(s) \/ FinishEnrol(s)
  \/ FinishConfirm(s) \/ FinishMfaReset(s) \/ FinishReset(s) \/ SetPassword(s)
  \/ FinishChange(s)
  \/ \E new \in SUBSET Codes : FinishCodes(s, new)
  \/ \E t \in Tokens : FinishIssue(s, t)
  \/ \E t \in Tokens : FinishInvite(s, t)

LEMMA Steps ==
  ASSUME [Next]_vars
  PROVE  \/ \E s \in Sessions, kind \in Kinds,
               token \in Opt(Tokens), code \in Opt(Codes) : Started(s, kind, token, code)
         \/ \E s \in Sessions : Advance(s)
         \/ \E t \in Tokens : Expire(t)
         \/ \E k \in {"pending", "enrol"} : ExpireMfa(k)
         \/ UNCHANGED vars
<1>1. CASE \E s \in Sessions : Begin(s)
  BY <1>1, BeginStarts
<1>2. CASE \E s \in Sessions : RevokeTokens(s) \/ Finish(s) \/ Lose(s)
  BY <1>2 DEF Finish, Advance
<1> QED BY <1>1, <1>2 DEF Next

LEMMA DoneSessions ==
  ASSUME TypeOK, NEW s \in Sessions, Done(s)
  PROVE  /\ ses'[s] = None /\ \A r \in Sessions \ {s} : ses'[r] = ses[r]
         /\ ses' \in [Sessions -> Opt(Request)]
  BY DEF TypeOK, Done, Opt

(* The same request, after its UPDATE of the tokens. *)
LEMMA RevokingRequest ==
  ASSUME TypeInv, NEW s \in Sessions, RevokeTokens(s)
  PROVE  /\ Untouched /\ ses' \in [Sessions -> Opt(Request)]
         /\ ses[s] # None /\ ses'[s] # None
         /\ ses[s].kind \in {"issue", "reset", "change"} /\ ses[s].stage = "read"
         /\ ses'[s].kind = ses[s].kind /\ ses'[s].row = ses[s].row
         /\ ses'[s].era = ses[s].era
         /\ ses'[s].token = ses[s].token /\ ses'[s].code = ses[s].code
         /\ ses'[s].stage = "revoked"
         /\ ses'[s].old = Unspent \cup ({ses[s].token} \ {None})
         /\ \A r \in Sessions \ {s} : ses'[r] = ses[r]
<1> DEFINE old == Unspent \cup ({ses[s].token} \ {None})
           q == [ses[s] EXCEPT !.stage = "revoked", !.old = old]
<1>1. /\ ses[s] \in Request /\ ses \in [Sessions -> Opt(Request)] /\ ses[s] # None
      /\ ses[s].kind \in {"issue", "reset", "change"} /\ ses[s].stage = "read"
  BY DEF TypeInv, TypeOK, Opt, RevokeTokens
<1>2. ses[s].token \in Opt(Tokens)
  BY <1>1 DEF Request
<1>3. old \in SUBSET Tokens
  BY <1>2 DEF Opt, Unspent
<1>4. ses' = [ses EXCEPT ![s] = q] /\ Untouched
  BY <1>1 DEF RevokeTokens, Untouched, Opt
<1> HIDE DEF old
<1>5. q \in Request /\ q.kind = ses[s].kind /\ q.row = ses[s].row /\ q.era = ses[s].era
      /\ q.token = ses[s].token /\ q.code = ses[s].code /\ q.stage = "revoked" /\ q.old = old
  BY <1>1, <1>3 DEF Request
<1>6. q # None
  BY <1>5, AccountsAssumption
<1> HIDE DEF q
<1>7. ses'[s] = q /\ ses' \in [Sessions -> Opt(Request)]
  BY <1>1, <1>4, <1>5 DEF Opt
<1> QED BY <1>1, <1>4, <1>5, <1>6, <1>7 DEF old

(* A new version, from what an editing request read. *)
LEMMA NewVersion ==
  ASSUME TypeInv, NEW s \in Sessions, ses[s] # None, ses[s].kind # "invite",
         NEW row \in UserRow, Invalidate(s, row)
  PROVE  /\ user' \in UserRow /\ user' # None
         /\ revoked' = Append(revoked, [sv |-> user'.sv, era |-> ses[s].era])
         /\ revoked' \in Seq(Stamp)
         /\ Len(revoked') = Len(revoked) + 1
         /\ user'.sv = ses[s].row.sv + 1
         /\ user'.totp = row.totp /\ user'.pending = row.pending
<1>1. ses[s].row \in UserRow /\ revoked \in Seq(Stamp) /\ ses[s].era \in Nat
  BY DEF TypeInv, TypeOK, WellFormed, Opt, Request
<1>2. ses[s].row.sv + 1 \in Versions
  BY <1>1 DEF UserRow, Versions
<1>3. user' = [row EXCEPT !.sv = ses[s].row.sv + 1]
  BY DEF Invalidate, Row
<1>4. user' \in UserRow /\ user'.sv = ses[s].row.sv + 1
      /\ user'.totp = row.totp /\ user'.pending = row.pending
  BY <1>2, <1>3 DEF UserRow
<1>5. /\ revoked' = Append(revoked, [sv |-> user'.sv, era |-> ses[s].era])
      /\ [sv |-> user'.sv, era |-> ses[s].era] \in Stamp
  BY <1>1, <1>2, <1>4 DEF Invalidate, Row, Stamp
<1>6. revoked' \in Seq(Stamp) /\ Len(revoked') = Len(revoked) + 1
  BY <1>1, <1>2, <1>4, <1>5
<1> QED BY <1>4, <1>5, <1>6, AccountsAssumption

-----------------------------------------------------------------------------
LEMMA InitTypeInv == Init => TypeInv
<1> SUFFICES ASSUME Init PROVE TypeInv
  OBVIOUS
<1>0. NewUser \in UserRow
  BY AccountsAssumption DEF Versions, NewUser, UserRow
<1>1. user \in Opt(UserRow)
  BY <1>0 DEF Init, Opt
<1>2. revoked \in Seq(Stamp)
  BY DEF Init
<1>3. ses \in [Sessions -> Opt(Request)] /\ \A s \in Sessions : ses[s] = None
  BY DEF Init, Opt
<1>4. TypeOK
  BY <1>1, <1>2, <1>3 DEF Init, TypeOK, TokenStates, CodeStates
<1> QED BY <1>3, <1>4 DEF TypeInv, WellFormed

LEMMA StepTypeInv == TypeInv /\ [Next]_vars => TypeInv'
<1> SUFFICES ASSUME TypeInv, [Next]_vars PROVE TypeInv'
  OBVIOUS
<1>t. TypeOK /\ \A r \in Sessions : WellFormed(r)
  BY DEF TypeInv
<1>n. \A r \in UserRow : r # None
  BY AccountsAssumption
<1>1. ASSUME NEW s \in Sessions, NEW kind \in Kinds,
             NEW token \in Opt(Tokens), NEW code \in Opt(Codes),
             Started(s, kind, token, code)
      PROVE  TypeInv'
  <2>1. Untouched /\ ses' \in [Sessions -> Opt(Request)]
    BY <1>1, StartedRequest
  <2>2. TypeOK'
    BY <1>t, <2>1 DEF TypeOK, Untouched, rows
  <2>3. WellFormed(s)'
    BY <1>t, <1>1, <2>1, StartedRequest
       DEF WellFormed, Started, TypeOK, Opt, Kinds, Untouched, rows
  <2>4. ASSUME NEW r \in Sessions \ {s} PROVE WellFormed(r)'
    BY <1>t, <1>1, <2>1, StartedRequest DEF WellFormed, Untouched, rows
  <2> QED BY <2>2, <2>3, <2>4 DEF TypeInv
<1>2. ASSUME NEW s \in Sessions, Advance(s) PROVE TypeInv'
  <2>s. Done(s) => /\ ses'[s] = None /\ \A r \in Sessions \ {s} : ses'[r] = ses[r]
                   /\ ses' \in [Sessions -> Opt(Request)]
    BY <1>t, DoneSessions
  <2>w. ASSUME Done(s), user' = user \/ user' \in UserRow PROVE \A r \in Sessions : WellFormed(r)'
    BY <1>t, <2>s, <2>w DEF WellFormed
  <2>c. ASSUME ses[s] # None, ses[s].kind # "invite", SetCookie(s) PROVE cookies' \subseteq Stamp
    BY <1>t, <2>c DEF WellFormed, SetCookie, Row, Stamp, UserRow, TypeOK, Opt, Request
  <2>1. CASE RevokeTokens(s)
    <3>1. /\ ses' \in [Sessions -> Opt(Request)]
          /\ ses[s].kind \in {"issue", "reset", "change"} /\ ses[s] # None
          /\ ses'[s].kind = ses[s].kind /\ ses'[s].row = ses[s].row
          /\ ses'[s].token = ses[s].token /\ ses'[s].code = ses[s].code
          /\ \A r \in Sessions \ {s} : ses'[r] = ses[r]
      BY <1>t, <2>1, RevokingRequest DEF TypeInv
    <3>2. TypeOK' /\ user' = user
      BY <1>t, <2>1, <3>1 DEF RevokeTokens, TypeOK, rows
    <3>3. \A r \in Sessions : WellFormed(r)'
      BY <1>t, <3>1, <3>2 DEF WellFormed
    <3> QED BY <3>2, <3>3 DEF TypeInv
  <2>2. CASE Lose(s)
    <3>1. TypeOK'
      BY <1>t, <2>2, <2>s DEF Lose, TypeOK, rows
    <3> QED BY <3>1, <2>2, <2>w DEF Lose, TypeInv, rows
  <2>3. CASE FinishLogin(s)
    <3>1. ses[s] # None /\ ses[s].kind # "invite" /\ Done(s)
      BY <2>3 DEF FinishLogin, At
    <3>2. user' \in UserRow
      BY <1>t, <3>1, <2>3 DEF FinishLogin, WellFormed, UserRow
    <3>3. cookies' \subseteq Stamp /\ mfa' \subseteq {"pending", "enrol"}
      BY <1>t, <3>1, <2>c, <2>3 DEF FinishLogin, TypeOK
    <3>4. TypeOK'
      BY <1>t, <2>3, <2>s, <3>1, <3>2, <3>3 DEF FinishLogin, TypeOK, Opt
    <3> QED BY <3>1, <3>2, <3>4, <2>w DEF TypeInv
  <2>4. CASE FinishVerify(s)
    <3>1. ses[s] # None /\ ses[s].kind # "invite" /\ Done(s) /\ SetCookie(s) /\ user' = user
      BY <2>4 DEF FinishVerify, At, rows
    <3>2. TypeOK'
      BY <1>t, <2>4, <2>s, <2>c, <3>1 DEF FinishVerify, TypeOK, rows
    <3> QED BY <3>1, <3>2, <2>w DEF TypeInv
  <2>5. CASE FinishRecover(s)
    <3>1. ses[s] # None /\ ses[s].kind = "recover" /\ Done(s) /\ user' = user
          /\ ses[s].code \in Codes
      BY <1>t, <2>5 DEF FinishRecover, At, WellFormed
    <3>2. cookies' \subseteq Stamp
      BY <1>t, <2>5, <2>c, <3>1 DEF FinishRecover, TypeOK
    <3>3. codes' \in [Codes -> CodeStates] /\ opened' \in [Codes -> Nat]
      BY <1>t, <2>5, <3>1 DEF FinishRecover, TypeOK, CodeStates
    <3>4. TypeOK'
      BY <1>t, <2>5, <2>s, <3>1, <3>2, <3>3 DEF FinishRecover, TypeOK
    <3> QED BY <3>1, <3>4, <2>w DEF TypeInv
  <2>6. CASE FinishEnrol(s)
    <3>1. ses[s] # None /\ ses[s].kind = "enrol" /\ Done(s)
      BY <2>6 DEF FinishEnrol, At
    <3>2. user' \in UserRow
      BY <1>t, <2>6, <3>1 DEF FinishEnrol, WellFormed, UserRow
    <3>3. TypeOK'
      BY <1>t, <2>6, <2>s, <3>1, <3>2 DEF FinishEnrol, TypeOK, Opt
    <3> QED BY <3>1, <3>2, <3>3, <2>w DEF TypeInv
  <2>7. CASE FinishConfirm(s)
    <3>1. ses[s] # None /\ ses[s].kind = "confirm" /\ Done(s)
      BY <2>7 DEF FinishConfirm, At
    <3>2. user' \in UserRow
      BY <1>t, <2>7, <3>1 DEF FinishConfirm, WellFormed, UserRow
    <3>3. cookies' \subseteq Stamp
      BY <1>t, <2>7, <2>c, <3>1 DEF FinishConfirm, TypeOK
    <3>4. TypeOK'
      BY <1>t, <2>7, <2>s, <3>1, <3>2, <3>3 DEF FinishConfirm, TypeOK, Opt
    <3> QED BY <3>1, <3>2, <3>4, <2>w DEF TypeInv
  <2>8. CASE FinishMfaReset(s)
    <3> DEFINE row == [user EXCEPT !.totp = user.totp /\ ~ ses[s].row.totp,
                                   !.pending = user.pending /\ ~ ses[s].row.pending]
    <3>1. ses[s] # None /\ ses[s].kind = "mfa_reset" /\ Done(s) /\ Invalidate(s, row)
      BY <2>8 DEF FinishMfaReset, At, Row
    <3>2. row \in UserRow
      BY <1>t, <3>1 DEF WellFormed, UserRow
    <3> HIDE DEF row
    <3>3. user' \in UserRow /\ revoked' \in Seq(Stamp)
      BY <3>1, <3>2, NewVersion
    <3>4. codes' \in [Codes -> CodeStates]
      BY <1>t, <2>8 DEF FinishMfaReset, TypeOK, CodeStates
    <3>5. TypeOK'
      BY <1>t, <2>8, <2>s, <3>1, <3>3, <3>4 DEF FinishMfaReset, TypeOK, Opt
    <3> QED BY <3>1, <3>3, <3>5, <2>w DEF TypeInv
  <2>9. CASE FinishReset(s)
    <3>1. ses[s] # None /\ ses[s].kind = "reset" /\ Done(s) /\ Invalidate(s, user)
      BY <2>9 DEF FinishReset, At
    <3>2. user \in UserRow /\ ses[s].token \in Tokens
      BY <1>t, <3>1 DEF WellFormed
    <3>3. user' \in UserRow /\ revoked' \in Seq(Stamp)
      BY <3>1, <3>2, NewVersion
    <3>4. tokens' \in [Tokens -> TokenStates] /\ sets' \in [Tokens -> Nat]
      BY <1>t, <2>9, <3>2 DEF FinishReset, TypeOK, Marked, TokenStates
    <3>5. TypeOK'
      BY <1>t, <2>9, <2>s, <3>1, <3>3, <3>4 DEF FinishReset, TypeOK, Opt
    <3> QED BY <3>1, <3>3, <3>5, <2>w DEF TypeInv
  <2>10. CASE SetPassword(s)
    <3>1. ses[s] # None /\ ses[s].kind = "change" /\ Invalidate(s, user)
      BY <2>10 DEF SetPassword, At
    <3>2. user \in UserRow
      BY <1>t, <3>1 DEF WellFormed
    <3>3. user' \in UserRow /\ revoked' \in Seq(Stamp)
      BY <3>1, <3>2, NewVersion
    <3>4. tokens' \in [Tokens -> TokenStates]
      BY <1>t, <2>10 DEF SetPassword, TypeOK, Marked, TokenStates
    <3>5. ses' \in [Sessions -> Opt(Request)] /\ ses'[s].kind = ses[s].kind
          /\ ses'[s].row = ses[s].row /\ ses'[s].code = ses[s].code
          /\ \A r \in Sessions \ {s} : ses'[r] = ses[r]
      <4>1. ses \in [Sessions -> Opt(Request)] BY <1>t DEF TypeOK
      <4>2. ses[s] \in Request BY <4>1, <3>1 DEF Opt
      <4>3. ses' = [ses EXCEPT ![s] = [ses[s] EXCEPT !.stage = "set"]]
        BY <2>10, <4>1 DEF SetPassword
      <4> QED BY <4>1, <4>2, <4>3, Staged
    <3>6. TypeOK'
      BY <1>t, <2>10, <3>3, <3>4, <3>5 DEF SetPassword, TypeOK, Opt
    <3>7. \A r \in Sessions : WellFormed(r)'
      BY <1>t, <3>1, <3>3, <3>5 DEF WellFormed
    <3> QED BY <3>6, <3>7 DEF TypeInv
  <2>11. CASE FinishChange(s)
    <3>1. ses[s] # None /\ ses[s].kind = "change" /\ Done(s) /\ user' = user
      BY <2>11 DEF FinishChange, At, rows
    <3>2. user.sv \in Versions /\ Len(revoked) \in Nat
      BY <1>t, <3>1 DEF WellFormed, TypeOK, UserRow
    <3>3. [sv |-> user.sv, era |-> Len(revoked)] \in Stamp
      BY <3>2 DEF Stamp
    <3>4. cookies' \subseteq Stamp
      BY <1>t, <2>11, <3>3 DEF FinishChange, TypeOK
    <3>5. TypeOK'
      BY <1>t, <2>11, <2>s, <3>1, <3>4 DEF FinishChange, TypeOK, rows
    <3> QED BY <3>1, <3>5, <2>w DEF TypeInv
  <2>12. ASSUME NEW new \in SUBSET Codes, FinishCodes(s, new) PROVE TypeInv'
    <3>1. Done(s) /\ user' = user
      BY <2>12 DEF FinishCodes
    <3>2. codes' \in [Codes -> CodeStates]
      BY <1>t, <2>12 DEF FinishCodes, TypeOK, CodeStates
    <3>3. orphans' \subseteq Codes
      BY <1>t, <2>12 DEF FinishCodes, TypeOK
    <3>4. TypeOK'
      BY <1>t, <2>12, <2>s, <3>1, <3>2, <3>3 DEF FinishCodes, TypeOK
    <3> QED BY <3>1, <3>4, <2>w DEF TypeInv
  <2>13. ASSUME NEW t \in Tokens, FinishIssue(s, t) PROVE TypeInv'
    <3>1. Done(s) /\ user' = user
      BY <2>13 DEF FinishIssue
    <3>2. tokens' \in [Tokens -> TokenStates]
      BY <1>t, <2>13 DEF FinishIssue, TypeOK, TokenStates, Marked
    <3>3. TypeOK'
      BY <1>t, <2>13, <2>s, <3>1, <3>2 DEF FinishIssue, TypeOK
    <3> QED BY <3>1, <3>3, <2>w DEF TypeInv
  <2>14. ASSUME NEW t \in Tokens, FinishInvite(s, t) PROVE TypeInv'
    <3>1. Done(s) /\ user' \in UserRow
      BY <2>14, AccountsAssumption DEF FinishInvite, NewUser, UserRow, Versions
    <3>2. tokens' \in [Tokens -> TokenStates]
      BY <1>t, <2>14 DEF FinishInvite, TypeOK, TokenStates
    <3>3. TypeOK'
      BY <1>t, <2>14, <2>s, <3>1, <3>2 DEF FinishInvite, TypeOK, Opt
    <3> QED BY <3>1, <3>3, <2>w DEF TypeInv
  <2> QED
    BY <1>2, <2>1, <2>2, <2>3, <2>4, <2>5, <2>6, <2>7, <2>8, <2>9, <2>10, <2>11, <2>12,
       <2>13, <2>14 DEF Advance
<1>3. ASSUME NEW t \in Tokens, Expire(t) PROVE TypeInv'
  <2>1. TypeOK'
    BY <1>t, <1>3 DEF Expire, TypeOK, TokenStates
  <2> QED BY <1>t, <1>3, <2>1 DEF Expire, TypeInv, WellFormed
<1>4. ASSUME NEW k \in {"pending", "enrol"}, ExpireMfa(k) PROVE TypeInv'
  <2>1. TypeOK'
    BY <1>t, <1>4 DEF ExpireMfa, TypeOK, rows
  <2> QED BY <1>t, <1>4, <2>1 DEF ExpireMfa, TypeInv, WellFormed, rows
<1>5. CASE UNCHANGED vars
  BY <1>t, <1>5 DEF vars, TypeInv, TypeOK, WellFormed
<1> QED BY <1>1, <1>2, <1>3, <1>4, <1>5, Steps

(* The rows, the cookies and the requests have their types however many    *)
(* requests write the account at once.                                     *)
THEOREM AccountsTypeCorrect == Spec => []TypeOK
<1>1. TypeInv => TypeOK BY DEF TypeInv
<1> QED BY InitTypeInv, StepTypeInv, <1>1, PTL DEF Spec

-----------------------------------------------------------------------------
(* What a request read, and what a cookie names, is the version after the  *)
(* revocations its era counts.                                             *)
ErasAgree ==
  /\ \A k \in cookies : k.era \in 0..Len(revoked) /\ k.sv = VersionAfter(k.era)
  /\ \A s \in Sessions : ses[s] # None /\ ses[s].row # None =>
       ses[s].era \in 0..Len(revoked) /\ ses[s].row.sv = VersionAfter(ses[s].era)

(* Revocations none of which was overtaken count up. *)
CountsUp ==
  \A i, j \in 0..Len(revoked) :
    i <= j /\ (\A n \in i + 1..j : ~ Overtaken(n)) => VersionAfter(j) = VersionAfter(i) + (j - i)

VersionInv == TypeInv /\ ErasAgree /\ CountsUp /\ TrailCountsVersions

(* Whatever a request does next, the other requests keep what they read,   *)
(* and it keeps what it read or ends.                                      *)
LEMMA AdvanceSessions ==
  ASSUME TypeInv, NEW s \in Sessions, Advance(s)
  PROVE  /\ \A r \in Sessions \ {s} : ses'[r] = ses[r]
         /\ \/ ses'[s] = None
            \/ /\ ses[s] # None /\ ses'[s] # None
               /\ ses'[s].kind = ses[s].kind /\ ses'[s].row = ses[s].row
               /\ ses'[s].era = ses[s].era /\ ses'[s].token = ses[s].token
               /\ ses'[s].code = ses[s].code
               /\ RevokeTokens(s) \/ (SetPassword(s) /\ ses'[s].stage = "set")
<1>1. CASE RevokeTokens(s)
  BY <1>1, RevokingRequest
<1>2. CASE SetPassword(s)
  <2> DEFINE q == [ses[s] EXCEPT !.stage = "set"]
  <2>1. ses[s] \in Request /\ ses \in [Sessions -> Opt(Request)]
    BY <1>2 DEF TypeInv, TypeOK, SetPassword, At, Opt
  <2>2. ses' = [ses EXCEPT ![s] = q] /\ ses[s] # None
    BY <1>2, <2>1 DEF SetPassword, At
  <2>3. q \in Request
    BY <2>1 DEF Request
  <2>4. /\ q.kind = ses[s].kind /\ q.row = ses[s].row /\ q.era = ses[s].era
        /\ q.token = ses[s].token /\ q.code = ses[s].code /\ q.stage = "set"
    BY <2>1 DEF Request
  <2>5. q # None
    BY <2>3, AccountsAssumption
  <2> HIDE DEF q
  <2>6. ses'[s] = q /\ \A r \in Sessions \ {s} : ses'[r] = ses[r]
    BY <2>1, <2>2
  <2> QED BY <1>2, <2>2, <2>4, <2>5, <2>6
<1>3. CASE Done(s)
  BY <1>3, DoneSessions DEF TypeInv
<1> QED
  BY <1>1, <1>2, <1>3
     DEF Advance, Lose, FinishLogin, FinishVerify, FinishRecover, FinishEnrol, FinishConfirm,
         FinishMfaReset, FinishReset, FinishChange, FinishCodes, FinishIssue, FinishInvite

(* What a step of a request does to the account: nothing, or a change of   *)
(* its second factor, or its first version, or a revocation.               *)
Revokes(s) ==
  /\ ses[s] # None /\ ses[s].row \in UserRow /\ user \in UserRow
  /\ user' \in UserRow /\ user'.sv = ses[s].row.sv + 1
  /\ revoked' = Append(revoked, [sv |-> user'.sv, era |-> ses[s].era])
  /\ Len(revoked') = Len(revoked) + 1

LEMMA AdvanceAccount ==
  ASSUME TypeInv, NEW s \in Sessions, Advance(s)
  PROVE  \/ user' = user /\ revoked' = revoked
         \/ /\ user \in UserRow /\ user' \in UserRow
            /\ user'.sv = user.sv /\ revoked' = revoked
         \/ user = None /\ user' = NewUser /\ revoked' = revoked
         \/ Revokes(s)
<1>t. WellFormed(s) /\ (user # None => user \in UserRow)
  BY DEF TypeInv, TypeOK, Opt
<1>1. CASE FinishLogin(s)
  <2>1. ses[s] # None /\ ses[s].kind = "login"
    BY <1>1 DEF FinishLogin, At
  <2>2. user \in UserRow /\ revoked' = revoked
    BY <1>1, <1>t, <2>1 DEF FinishLogin, WellFormed
  <2>3. user' = user \/ user' = [user EXCEPT !.pending = TRUE]
    BY <1>1 DEF FinishLogin
  <2> QED BY <2>2, <2>3 DEF UserRow
<1>2. CASE FinishEnrol(s)
  <2>1. user \in UserRow /\ revoked' = revoked
        /\ user' = [user EXCEPT !.pending = TRUE]
    BY <1>2, <1>t DEF FinishEnrol, At, WellFormed
  <2> QED BY <2>1 DEF UserRow
<1>3. CASE FinishConfirm(s)
  <2>1. user \in UserRow /\ revoked' = revoked
        /\ user' = [user EXCEPT !.totp = TRUE, !.pending = FALSE]
    BY <1>3, <1>t DEF FinishConfirm, At, WellFormed
  <2> QED BY <2>1 DEF UserRow
<1>4. CASE FinishMfaReset(s)
  <2> DEFINE row == [user EXCEPT !.totp = user.totp /\ ~ ses[s].row.totp,
                                 !.pending = user.pending /\ ~ ses[s].row.pending]
  <2>1. ses[s] # None /\ ses[s].kind = "mfa_reset"
        /\ user \in UserRow /\ ses[s].row \in UserRow
    BY <1>4, <1>t DEF FinishMfaReset, At, WellFormed
  <2>2. Invalidate(s, row)
    BY <1>4 DEF FinishMfaReset, Row
  <2>3. row \in UserRow
    BY <2>1 DEF UserRow
  <2> HIDE DEF row
  <2> QED BY <2>1, <2>2, <2>3, NewVersion DEF Revokes
<1>5. CASE FinishReset(s) \/ SetPassword(s)
  <2>1. ses[s] # None /\ ses[s].kind \in {"reset", "change"}
        /\ user \in UserRow /\ ses[s].row \in UserRow /\ Invalidate(s, user)
    BY <1>5, <1>t DEF FinishReset, SetPassword, At, WellFormed
  <2> QED BY <2>1, NewVersion DEF Revokes
<1>6. ASSUME NEW t \in Tokens, FinishInvite(s, t)
      PROVE  user = None /\ user' = NewUser /\ revoked' = revoked
  BY <1>6, <1>t DEF FinishInvite, At, WellFormed
<1>7. CASE RevokeTokens(s) \/ Lose(s) \/ FinishVerify(s) \/ FinishRecover(s)
           \/ FinishChange(s)
  BY <1>7 DEF RevokeTokens, Lose, FinishVerify, FinishRecover, FinishChange, rows
<1>8. ASSUME NEW new \in SUBSET Codes, FinishCodes(s, new)
      PROVE  user' = user /\ revoked' = revoked
  BY <1>8 DEF FinishCodes
<1>9. ASSUME NEW t \in Tokens, FinishIssue(s, t)
      PROVE  user' = user /\ revoked' = revoked
  BY <1>9 DEF FinishIssue
<1> QED BY <1>1, <1>2, <1>3, <1>4, <1>5, <1>6, <1>7, <1>8, <1>9 DEF Advance

(* A new cookie names what its request read, or what it reads at last. *)
LEMMA AdvanceCookies ==
  ASSUME TypeInv, NEW s \in Sessions, Advance(s), NEW k \in cookies'
  PROVE  \/ k \in cookies
         \/ /\ ses[s] # None /\ ses[s].row \in UserRow
            /\ k.sv = ses[s].row.sv /\ k.era = ses[s].era
         \/ user \in UserRow /\ k.sv = user.sv /\ k.era = Len(revoked)
<1>t. WellFormed(s)
  BY DEF TypeInv
<1>1. CASE SetCookie(s) /\ ses[s] # None /\ ses[s].kind # "invite"
  BY <1>t, <1>1 DEF SetCookie, Row, WellFormed
<1>2. CASE FinishChange(s)
  BY <1>t, <1>2 DEF FinishChange, At, WellFormed
<1>3. CASE cookies' = cookies
  BY <1>3
<1>4. CASE FinishLogin(s) \/ FinishVerify(s) \/ FinishRecover(s) \/ FinishConfirm(s)
  BY <1>1, <1>3, <1>4 DEF FinishLogin, FinishVerify, FinishRecover, FinishConfirm, At
<1> QED
  BY <1>2, <1>3, <1>4
     DEF Advance, RevokeTokens, Lose, FinishEnrol, FinishMfaReset, FinishReset, SetPassword,
         FinishCodes, FinishIssue, FinishInvite

(* A revocation leaves the earlier ones as they are. *)
LEMMA Revoked ==
  ASSUME TypeInv, NEW s \in Sessions, Revokes(s)
  PROVE  /\ Len(revoked) \in Nat
         /\ \A n \in 0..Len(revoked) : (VersionAfter(n))' = VersionAfter(n)
         /\ \A n \in 1..Len(revoked) : (Overtaken(n))' <=> Overtaken(n)
         /\ revoked'[Len(revoked) + 1].sv = user'.sv
         /\ revoked'[Len(revoked) + 1].era = ses[s].era
<1> DEFINE e == [sv |-> user'.sv, era |-> ses[s].era]
<1>1. /\ revoked \in Seq(Stamp) /\ Len(revoked) \in Nat
      /\ e \in Stamp /\ e.sv = user'.sv /\ e.era = ses[s].era
  <2>1. ses[s].era \in Nat /\ user'.sv \in Versions /\ revoked \in Seq(Stamp)
    BY DEF TypeInv, TypeOK, Opt, Request, Revokes, UserRow
  <2> QED BY <2>1 DEF Stamp
<1>2. revoked' = Append(revoked, e)
  BY DEF Revokes
<1> HIDE DEF e
<1>3. revoked'[Len(revoked) + 1] = e /\ \A n \in 1..Len(revoked) : revoked'[n] = revoked[n]
  BY <1>1, <1>2, AppendProperties
<1> QED BY <1>1, <1>3 DEF VersionAfter, Overtaken

LEMMA InitVersionInv == Init => VersionInv
<1> SUFFICES ASSUME Init PROVE VersionInv
  OBVIOUS
<1>1. TypeInv BY InitTypeInv
<1>2. ErasAgree
  BY AccountsAssumption DEF Init, ErasAgree
<1>3. CountsUp
  <2>1. 0..Len(revoked) = {0} /\ VersionAfter(0) = 1
    BY DEF Init, VersionAfter
  <2> QED BY <2>1 DEF CountsUp
<1>4. TrailCountsVersions
  BY AccountsAssumption DEF Init, TrailCountsVersions, Exists, NewUser, VersionAfter
<1> QED BY <1>1, <1>2, <1>3, <1>4 DEF VersionInv

LEMMA StepVersionInv ==
  ASSUME VersionInv, [Next]_vars
  PROVE  VersionInv'
<1>i. /\ TypeInv /\ ErasAgree /\ CountsUp /\ TrailCountsVersions
      /\ \A r \in Sessions : WellFormed(r)
      /\ revoked \in Seq(Stamp) /\ user \in Opt(UserRow)
  BY DEF VersionInv, TypeInv, TypeOK
<1>t. TypeInv'
  BY <1>i, StepTypeInv
<1>n. (\A r \in UserRow : r # None) /\ NewUser # None /\ Len(revoked) \in Nat
  <2>1. NewUser \in UserRow
    BY DEF UserRow, NewUser, Versions
  <2>2. \A r \in UserRow : r # None
    BY AccountsAssumption
  <2> QED BY <1>i, <2>1, <2>2
<1>c. revoked' = revoked => CountsUp'
  BY <1>i DEF CountsUp, VersionAfter, Overtaken
<1>1. ASSUME NEW s \in Sessions, NEW kind \in Kinds,
             NEW token \in Opt(Tokens), NEW code \in Opt(Codes),
             Started(s, kind, token, code)
      PROVE  VersionInv'
  <2>1. /\ Untouched /\ \A r \in Sessions \ {s} : ses'[r] = ses[r]
        /\ ses'[s] # None /\ ses'[s].row = user /\ ses'[s].era = Len(revoked)
    BY <1>1, <1>i, StartedRequest
  <2>2. user' = user /\ revoked' = revoked /\ cookies' = cookies
    BY <2>1 DEF Untouched, rows
  <2>3. ErasAgree'
    BY <1>i, <1>n, <2>1, <2>2 DEF ErasAgree, TrailCountsVersions, Exists, VersionAfter
  <2>4. TrailCountsVersions'
    BY <1>i, <2>2 DEF TrailCountsVersions, Exists, VersionAfter, Overtaken
  <2> QED BY <1>c, <1>t, <2>2, <2>3, <2>4 DEF VersionInv
<1>2. ASSUME NEW s \in Sessions, Advance(s) PROVE VersionInv'
  <2>1. /\ \A r \in Sessions \ {s} : ses'[r] = ses[r]
        /\ ses'[s] # None => /\ ses[s] # None /\ ses'[s].row = ses[s].row
                             /\ ses'[s].era = ses[s].era
    BY <1>2, <1>i, AdvanceSessions
  <2>2. /\ Len(revoked) <= Len(revoked') /\ Len(revoked') \in Nat
        /\ \A n \in 0..Len(revoked) : (VersionAfter(n))' = VersionAfter(n)
    <3>1. CASE revoked' = revoked
      BY <1>n, <3>1 DEF VersionAfter
    <3>2. CASE Revokes(s)
      <4>1. Len(revoked') = Len(revoked) + 1 BY <3>2 DEF Revokes
      <4>2. \A n \in 0..Len(revoked) : (VersionAfter(n))' = VersionAfter(n)
        BY <1>i, <3>2, Revoked
      <4> QED BY <1>n, <4>1, <4>2
    <3> QED BY <1>2, <1>i, <3>1, <3>2, AdvanceAccount
  <2>3. ErasAgree'
    <3>1. ASSUME NEW k \in cookies'
          PROVE  k.era \in 0..Len(revoked) /\ k.sv = VersionAfter(k.era)
      <4>1. \/ k \in cookies
            \/ ses[s] # None /\ ses[s].row # None /\ k.sv = ses[s].row.sv /\ k.era = ses[s].era
            \/ user # None /\ k.sv = user.sv /\ k.era = Len(revoked)
        BY <1>2, <1>i, <1>n, <3>1, AdvanceCookies
      <4> QED BY <1>i, <1>n, <4>1 DEF ErasAgree, TrailCountsVersions, Exists
    <3>2. ASSUME NEW k \in cookies'
          PROVE  k.era \in 0..Len(revoked') /\ k.sv = (VersionAfter(k.era))'
      BY <1>n, <2>2, <3>1
    <3>3. ASSUME NEW r \in Sessions, ses'[r] # None, ses'[r].row # None
          PROVE  ses'[r].era \in 0..Len(revoked') /\ ses'[r].row.sv = (VersionAfter(ses[r].era))'
                 /\ ses'[r].era = ses[r].era
      BY <1>i, <1>n, <2>1, <2>2, <3>3 DEF ErasAgree
    <3> QED BY <3>2, <3>3 DEF ErasAgree, VersionAfter
  <2>4. CASE Revokes(s)
    <3> DEFINE L == Len(revoked)
    <3>1. /\ L \in Nat /\ Len(revoked') = L + 1
          /\ \A n \in 0..L : (VersionAfter(n))' = VersionAfter(n)
          /\ \A n \in 1..L : (Overtaken(n))' <=> Overtaken(n)
          /\ revoked'[L + 1].sv = user'.sv /\ revoked'[L + 1].era = ses[s].era
          /\ user' # None /\ user'.sv = ses[s].row.sv + 1
      <4>1. /\ Len(revoked') = L + 1 /\ user' # None /\ user'.sv = ses[s].row.sv + 1
        BY <1>n, <2>4 DEF Revokes
      <4> QED BY <1>i, <2>4, <4>1, Revoked
    <3>2. ses[s].row.sv = VersionAfter(ses[s].era)
      BY <1>i, <1>n, <2>4 DEF ErasAgree, Revokes
    <3>3. ses[s].era = L => user'.sv = VersionAfter(L) + 1
      BY <3>1, <3>2
    <3>4. TrailCountsVersions'
      <4>1. ASSUME NEW n \in 1..L + 1
            PROVE  revoked'[n].era # n - 1
                   \/ revoked'[n].sv = (VersionAfter(n - 1))' + 1
        <5>1. CASE n = L + 1
          BY <3>1, <3>3, <5>1
        <5>2. CASE n # L + 1
          <6>1. n \in 1..L /\ n - 1 \in 0..L
            BY <3>1, <5>2
          <6>2. Overtaken(n) \/ revoked[n].sv = VersionAfter(n - 1) + 1
            BY <1>i, <6>1 DEF TrailCountsVersions
          <6>3. revoked'[n].sv = revoked[n].sv
            BY <3>1, <6>1 DEF VersionAfter
          <6> QED BY <3>1, <6>1, <6>2, <6>3 DEF Overtaken
        <5> QED BY <5>1, <5>2
      <4>2. user'.sv = (VersionAfter(Len(revoked)))'
        BY <3>1 DEF VersionAfter
      <4> QED BY <3>1, <4>1, <4>2 DEF TrailCountsVersions, Overtaken, Exists
    <3>5. ASSUME NEW i \in 0..L + 1, NEW j \in 0..L + 1, i <= j,
                 \A n \in i + 1..j : ~ (Overtaken(n))'
          PROVE  (VersionAfter(j))' = (VersionAfter(i))' + (j - i)
      <4>1. CASE j <= L
        <5>1. \A n \in i + 1..j : n \in 1..L
          BY <3>1, <4>1
        <5>2. i \in 0..L /\ j \in 0..L /\ \A n \in i + 1..j : ~ Overtaken(n)
          BY <3>1, <3>5, <4>1, <5>1
        <5> QED BY <1>i, <3>1, <3>5, <5>2 DEF CountsUp
      <4>2. CASE j = L + 1 /\ i <= L
        <5>1. \A n \in i + 1..L : n \in 1..L /\ n \in i + 1..j
          BY <3>1, <4>2
        <5>2. i \in 0..L /\ L \in 0..L /\ \A n \in i + 1..L : ~ Overtaken(n)
          BY <3>1, <3>5, <4>2, <5>1
        <5>3. VersionAfter(L) = VersionAfter(i) + (L - i)
          BY <1>i, <4>2, <5>2 DEF CountsUp
        <5>4. L + 1 \in i + 1..j
          BY <3>1, <4>2
        <5>5. ses[s].era = L
          BY <3>1, <3>5, <5>4 DEF Overtaken
        <5>6. VersionAfter(i) \in Nat
          <6>1. \A n \in 1..L : revoked[n] \in Stamp
            BY <1>i
          <6>2. i = 0 \/ revoked[i] \in Stamp
            BY <3>1, <5>2, <6>1
          <6> QED BY <6>2 DEF VersionAfter, Stamp, Versions
        <5>7. (VersionAfter(j))' = user'.sv
          BY <3>1, <4>2 DEF VersionAfter
        <5>8. (VersionAfter(i))' = VersionAfter(i)
          BY <3>1, <5>2
        <5> QED BY <3>1, <3>3, <4>2, <5>2, <5>3, <5>5, <5>6, <5>7, <5>8
      <4>3. CASE i = L + 1 /\ j = L + 1
        <5>1. (VersionAfter(j))' \in Nat
          BY <1>t, <3>1, <4>3, <2>4 DEF VersionAfter, Revokes, UserRow, Versions
        <5> QED BY <4>3, <5>1
      <4> QED BY <3>1, <3>5, <4>1, <4>2, <4>3
    <3>6. CountsUp'
      BY <3>1, <3>5 DEF CountsUp
    <3> QED BY <1>t, <2>3, <3>4, <3>6 DEF VersionInv
  <2>5. CASE revoked' = revoked /\ (user' = user
                \/ (user \in UserRow /\ user' \in UserRow /\ user'.sv = user.sv)
                \/ (user = None /\ user' = NewUser))
    <3>1. \A n \in 1..Len(revoked) :
            (Overtaken(n) <=> (Overtaken(n))') /\ (VersionAfter(n - 1))' = VersionAfter(n - 1)
      BY <2>5 DEF Overtaken, VersionAfter
    <3>2. Exists' => user'.sv = VersionAfter(Len(revoked))
      BY <1>i, <1>n, <2>5 DEF TrailCountsVersions, Exists, NewUser, VersionAfter
    <3>3. ~ Exists' => revoked = << >>
      BY <1>i, <1>n, <2>5 DEF TrailCountsVersions, Exists
    <3>4. TrailCountsVersions'
      BY <1>i, <2>5, <3>1, <3>2, <3>3 DEF TrailCountsVersions, VersionAfter, Overtaken, Exists
    <3> QED BY <1>c, <1>t, <2>3, <2>5, <3>4 DEF VersionInv
  <2> QED BY <1>2, <1>i, <2>4, <2>5, AdvanceAccount
<1>3. CASE UNCHANGED <<user, revoked, cookies, ses>>
  <2>1. ErasAgree'
    BY <1>i, <1>3 DEF ErasAgree, VersionAfter
  <2>2. TrailCountsVersions'
    BY <1>i, <1>3 DEF TrailCountsVersions, VersionAfter, Overtaken, Exists
  <2> QED BY <1>c, <1>t, <1>3, <2>1, <2>2 DEF VersionInv
<1> QED BY <1>1, <1>2, <1>3, Steps DEF Expire, ExpireMfa, vars, rows

(* The audit trail ends with the version in the row, and names the next    *)
(* one each time, save where one revocation overtook another.              *)
THEOREM TrailSound == Spec => []TrailCountsVersions
<1>1. VersionInv => TrailCountsVersions BY DEF VersionInv
<1>2. VersionInv /\ [Next]_vars => VersionInv' BY StepVersionInv
<1> QED BY InitVersionInv, <1>1, <1>2, PTL DEF Spec

(* No cookie outlives a revocation, however many requests write the        *)
(* account, unless a later revocation was overtaken by another one.        *)
THEOREM SessionsSound == Spec => []AcceptedSessionsAreCurrent
<1>1. VersionInv => AcceptedSessionsAreCurrent
  <2> SUFFICES ASSUME VersionInv, NEW k \in cookies, Accepts(k),
                      \A n \in k.era + 1..Len(revoked) : ~ Overtaken(n)
               PROVE  k.era = Len(revoked)
    BY DEF AcceptedSessionsAreCurrent
  <2>1. /\ k.era \in 0..Len(revoked) /\ k.sv = VersionAfter(k.era)
        /\ k.sv = VersionAfter(Len(revoked)) /\ k.sv \in Nat /\ Len(revoked) \in Nat
    BY DEF VersionInv, TypeInv, TypeOK, ErasAgree, TrailCountsVersions, Accepts, Exists,
           Stamp, Versions
  <2>2. VersionAfter(Len(revoked)) = VersionAfter(k.era) + (Len(revoked) - k.era)
    <3>1. Len(revoked) \in 0..Len(revoked) /\ k.era <= Len(revoked)
      BY <2>1
    <3>2. CountsUp
      BY DEF VersionInv
    <3> QED BY <2>1, <3>1, <3>2 DEF CountsUp
  <2> QED BY <2>1, <2>2
<1>2. VersionInv /\ [Next]_vars => VersionInv' BY StepVersionInv
<1> QED BY InitVersionInv, <1>1, <1>2, PTL DEF Spec

-----------------------------------------------------------------------------
(* What a request read of the second factor still holds unless a           *)
(* revocation has overtaken it.                                            *)
FactorKnown ==
  \A s \in Sessions : ses[s] # None =>
    /\ ses[s].row # None /\ ses[s].era = Len(revoked) /\ ses[s].row.totp =>
         Exists /\ user.totp
    /\ ses[s].kind = "codes" => ses[s].row.totp

FactorInv == VersionInv /\ CodesNeedEnrolment /\ FactorKnown

LEMMA InitFactorInv == Init => FactorInv
<1> SUFFICES ASSUME Init PROVE FactorInv
  OBVIOUS
<1>1. VersionInv BY InitVersionInv
<1> QED BY <1>1 DEF Init, FactorInv, CodesNeedEnrolment, FactorKnown, Issued

(* No step but these three changes a code, and the second factor is taken  *)
(* away by none but one of them.                                           *)
LEMMA OtherCodes ==
  ASSUME TypeInv, NEW s \in Sessions, Advance(s),
         ~ FinishRecover(s), ~ FinishMfaReset(s),
         ~ \E new \in SUBSET Codes : FinishCodes(s, new)
  PROVE  /\ codes' = codes /\ opened' = opened /\ orphans' = orphans
         /\ Exists => Exists' /\ (user.totp => user'.totp)
<1>t. WellFormed(s) /\ user \in Opt(UserRow) /\ (\A r \in UserRow : r # None)
  BY AccountsAssumption DEF TypeInv, TypeOK
<1>1. CASE FinishLogin(s) \/ FinishEnrol(s) \/ FinishConfirm(s)
  <2>1. user \in UserRow
    BY <1>1, <1>t DEF FinishLogin, FinishEnrol, FinishConfirm, At, WellFormed
  <2>2. \/ user' = user \/ user' = [user EXCEPT !.pending = TRUE]
        \/ user' = [user EXCEPT !.totp = TRUE, !.pending = FALSE]
    BY <1>1 DEF FinishLogin, FinishEnrol, FinishConfirm
  <2>3. user' \in UserRow /\ (user.totp => user'.totp)
    BY <2>1, <2>2 DEF UserRow
  <2> QED BY <1>1, <1>t, <2>3 DEF FinishLogin, FinishEnrol, FinishConfirm, Exists
<1>2. CASE FinishReset(s) \/ SetPassword(s)
  <2>1. ses[s] # None /\ ses[s].kind # "invite" /\ user \in UserRow /\ Invalidate(s, user)
    BY <1>2, <1>t DEF FinishReset, SetPassword, At, WellFormed
  <2> QED BY <1>2, <2>1, NewVersion DEF FinishReset, SetPassword, Exists
<1>3. CASE \E t \in Tokens : FinishInvite(s, t)
  BY <1>3 DEF FinishInvite, Exists
<1> QED
  BY <1>1, <1>2, <1>3
     DEF Advance, RevokeTokens, Lose, FinishVerify, FinishChange, FinishIssue, rows, Exists

LEMMA StepFactorInv ==
  ASSUME FactorInv, [Next]_vars
  PROVE  FactorInv'
<1>i. /\ TypeInv /\ ErasAgree /\ CodesNeedEnrolment /\ FactorKnown
      /\ user \in Opt(UserRow) /\ (\A r \in UserRow : r # None)
      /\ \A r \in Sessions : WellFormed(r)
      /\ Len(revoked) \in Nat
  BY AccountsAssumption DEF FactorInv, VersionInv, TypeInv, TypeOK
<1>t. VersionInv' BY StepVersionInv DEF FactorInv
<1>1. ASSUME NEW s \in Sessions, NEW kind \in Kinds,
             NEW token \in Opt(Tokens), NEW code \in Opt(Codes),
             Started(s, kind, token, code)
      PROVE  FactorInv'
  <2>1. /\ Untouched /\ \A r \in Sessions \ {s} : ses'[r] = ses[r]
        /\ ses'[s].kind = kind /\ ses'[s].row = user
    BY <1>1, <1>i, StartedRequest
  <2>2. user' = user /\ codes' = codes /\ orphans' = orphans /\ revoked' = revoked
    BY <2>1 DEF Untouched, rows
  <2>3. CodesNeedEnrolment'
    BY <1>i, <2>2 DEF CodesNeedEnrolment, Issued, Exists
  <2>4. FactorKnown'
    BY <1>i, <1>1, <2>1, <2>2 DEF FactorKnown, Started, Exists
  <2> QED BY <1>t, <2>3, <2>4 DEF FactorInv
<1>2. ASSUME NEW s \in Sessions, Advance(s) PROVE FactorInv'
  <2>1. /\ \A r \in Sessions \ {s} : ses'[r] = ses[r]
        /\ ses'[s] # None => /\ ses[s] # None /\ ses'[s].kind = ses[s].kind
                             /\ ses'[s].row = ses[s].row /\ ses'[s].era = ses[s].era
    BY <1>2, <1>i, AdvanceSessions
  <2>2. revoked' = revoked \/ Len(revoked') = Len(revoked) + 1
    BY <1>2, <1>i, AdvanceAccount DEF Revokes
  <2>3. \A r \in Sessions : ses[r] # None /\ ses[r].row # None =>
          ses[r].era \in 0..Len(revoked)
    BY <1>i DEF ErasAgree
  <2>4. CASE FinishMfaReset(s)
    <3>1. /\ codes' = [c \in Codes |-> IF Issued(c) THEN "deleted" ELSE codes[c]]
          /\ ses[s] # None /\ ses[s].kind = "mfa_reset"
          /\ Invalidate(s, [user EXCEPT !.totp = user.totp /\ ~ ses[s].row.totp,
                                        !.pending = user.pending /\ ~ ses[s].row.pending])
      BY <2>4 DEF FinishMfaReset, At, Row
    <3>2. Len(revoked') = Len(revoked) + 1
      BY <1>i, <3>1 DEF Invalidate, TypeInv, TypeOK
    <3>3. CodesNeedEnrolment'
      BY <3>1 DEF CodesNeedEnrolment, Issued
    <3>4. FactorKnown'
      BY <1>i, <2>1, <2>3, <3>2 DEF FactorKnown
    <3> QED BY <1>t, <3>3, <3>4 DEF FactorInv
  <2>5. ASSUME NEW new \in SUBSET Codes, FinishCodes(s, new) PROVE FactorInv'
    <3>1. /\ ses[s] # None /\ ses[s].kind = "codes"
          /\ user' = user /\ revoked' = revoked
          /\ codes' = [c \in Codes |-> IF c \in new THEN "unused"
                               ELSE IF Issued(c) THEN "deleted" ELSE codes[c]]
          /\ orphans' = IF ses[s].era = Len(revoked) THEN orphans ELSE orphans \cup new
      BY <2>5 DEF FinishCodes, At
    <3>2. ses[s].row # None
      BY <1>i, <3>1 DEF WellFormed
    <3>3. CodesNeedEnrolment'
      <4>1. CASE ses[s].era = Len(revoked)
        BY <1>i, <3>1, <3>2, <4>1 DEF FactorKnown, CodesNeedEnrolment, Exists
      <4>2. CASE ses[s].era # Len(revoked)
        BY <3>1, <4>2 DEF CodesNeedEnrolment, Issued
      <4> QED BY <4>1, <4>2
    <3>4. FactorKnown'
      BY <1>i, <2>1, <3>1 DEF FactorKnown, Exists
    <3> QED BY <1>t, <3>3, <3>4 DEF FactorInv
  <2>6. CASE FinishRecover(s)
    <3>1. /\ user' = user /\ revoked' = revoked /\ orphans' = orphans
          /\ codes[ses[s].code] \in {"unused", "used"} /\ ses[s] # None
          /\ codes' = [codes EXCEPT ![ses[s].code] = "used"]
      BY <2>6 DEF FinishRecover, At
    <3>2. \A c \in Codes : Issued(c)' => Issued(c)
      BY <1>i, <3>1 DEF Issued, TypeInv, TypeOK
    <3>3. CodesNeedEnrolment'
      BY <1>i, <3>1, <3>2 DEF CodesNeedEnrolment, Exists
    <3>4. FactorKnown'
      BY <1>i, <2>1, <3>1 DEF FactorKnown, Exists
    <3> QED BY <1>t, <3>3, <3>4 DEF FactorInv
  <2>7. CASE /\ ~ FinishRecover(s) /\ ~ FinishMfaReset(s)
             /\ ~ \E new \in SUBSET Codes : FinishCodes(s, new)
    <3>1. /\ codes' = codes /\ orphans' = orphans
          /\ Exists => Exists' /\ (user.totp => user'.totp)
      BY <1>2, <1>i, <2>7, OtherCodes
    <3>2. CodesNeedEnrolment'
      BY <1>i, <3>1 DEF CodesNeedEnrolment, Issued
    <3>3. FactorKnown'
      BY <1>i, <2>1, <2>2, <2>3, <3>1 DEF FactorKnown
    <3> QED BY <1>t, <3>2, <3>3 DEF FactorInv
  <2> QED BY <2>4, <2>5, <2>6, <2>7
<1>3. CASE UNCHANGED <<user, codes, orphans, revoked, ses>>
  BY <1>i, <1>t, <1>3 DEF FactorInv, CodesNeedEnrolment, FactorKnown, Issued, Exists
<1> QED BY <1>1, <1>2, <1>3, Steps DEF Expire, ExpireMfa, vars, rows

(* Recovery codes exist only next to an enrolled second factor, save those *)
(* of a request that a revocation overtook.                                *)
THEOREM CodesSound == Spec => []CodesNeedEnrolment
<1>1. FactorInv => CodesNeedEnrolment BY DEF FactorInv
<1>2. FactorInv /\ [Next]_vars => FactorInv' BY StepFactorInv
<1> QED BY InitFactorInv, <1>1, <1>2, PTL DEF Spec

-----------------------------------------------------------------------------
(* One request at a time may spend a recovery code; any number may replace *)
(* or delete the codes meanwhile.                                          *)
Spenders == {s \in Sessions : "recover" \in Carries[s]}
SingleSpender == \A s, t \in Spenders : s = t

(* A code that is not spent opened nothing, and the one a request holds is *)
(* not spent.                                                              *)
CodesKnown ==
  /\ \A c \in Codes : codes[c] \in {"fresh", "unused"} => opened[c] = 0
  /\ \A s \in Sessions : ses[s] # None /\ ses[s].kind = "recover" =>
       codes[ses[s].code] \in {"unused", "deleted"}

CodesInv == TypeInv /\ RecoveryOpensOnce /\ CodesKnown

LEMMA InitCodesInv == Init => CodesInv
<1> SUFFICES ASSUME Init PROVE CodesInv
  OBVIOUS
<1>1. TypeInv BY InitTypeInv
<1> QED BY <1>1 DEF Init, CodesInv, RecoveryOpensOnce, CodesKnown

LEMMA StepCodesInv ==
  ASSUME SingleSpender, CodesInv, [Next]_vars
  PROVE  CodesInv'
<1>i. /\ TypeInv /\ RecoveryOpensOnce /\ CodesKnown
      /\ codes \in [Codes -> CodeStates] /\ opened \in [Codes -> Nat]
      /\ \A r \in Sessions : WellFormed(r)
  BY DEF CodesInv, TypeInv, TypeOK
<1>t. TypeInv' BY <1>i, StepTypeInv
<1>1. ASSUME NEW s \in Sessions, NEW kind \in Kinds,
             NEW token \in Opt(Tokens), NEW code \in Opt(Codes),
             Started(s, kind, token, code)
      PROVE  CodesInv'
  <2>1. /\ Untouched /\ \A r \in Sessions \ {s} : ses'[r] = ses[r]
        /\ ses'[s].kind = kind /\ ses'[s].code = code
    BY <1>1, <1>i, StartedRequest
  <2>2. codes' = codes /\ opened' = opened
    BY <2>1 DEF Untouched, rows
  <2>3. RecoveryOpensOnce'
    BY <1>i, <2>2 DEF RecoveryOpensOnce
  <2>4. CodesKnown'
    BY <1>i, <1>1, <2>1, <2>2 DEF CodesKnown, Started
  <2> QED BY <1>t, <2>3, <2>4 DEF CodesInv
<1>2. ASSUME NEW s \in Sessions, Advance(s) PROVE CodesInv'
  <2>1. /\ \A r \in Sessions \ {s} : ses'[r] = ses[r]
        /\ ses'[s] # None => /\ ses[s] # None /\ ses'[s].kind = ses[s].kind
                             /\ ses'[s].code = ses[s].code
    BY <1>2, <1>i, AdvanceSessions
  <2>k. \A r \in Sessions : ses'[r] # None /\ ses'[r].kind = "recover" =>
          /\ ses[r] # None /\ ses[r].kind = "recover" /\ ses'[r].code = ses[r].code
          /\ ses[r].code \in Codes /\ codes[ses[r].code] \in {"unused", "deleted"}
    BY <1>i, <2>1 DEF CodesKnown, WellFormed
  <2>2. CASE FinishRecover(s)
    <3> DEFINE c == ses[s].code
    <3>1. /\ ses[s] # None /\ ses[s].kind = "recover" /\ Done(s)
          /\ codes[c] \in {"unused", "used"} /\ codes' = [codes EXCEPT ![c] = "used"]
          /\ opened' = opened \/ opened' = [opened EXCEPT ![c] = opened[c] + 1]
      BY <2>2 DEF FinishRecover, At
    <3>2. s \in Spenders /\ c \in Codes
      BY <1>i, <3>1 DEF WellFormed, Spenders
    <3>3. codes[c] = "unused" /\ opened[c] = 0
      BY <1>i, <3>1, <3>2 DEF CodesKnown
    <3>4. RecoveryOpensOnce'
      BY <1>i, <3>1, <3>2, <3>3 DEF RecoveryOpensOnce
    <3>5. \A r \in Sessions : ses[r] # None /\ ses[r].kind = "recover" => r = s
      BY <1>i, <3>2 DEF SingleSpender, Spenders, WellFormed
    <3>6. ses'[s] = None
      BY <1>i, <3>1, DoneSessions DEF TypeInv
    <3>7. CodesKnown'
      BY <1>i, <2>k, <3>1, <3>2, <3>5, <3>6 DEF CodesKnown
    <3> QED BY <1>t, <3>4, <3>7 DEF CodesInv
  <2>3. CASE FinishMfaReset(s)
    <3>1. /\ opened' = opened
          /\ codes' = [c \in Codes |-> IF Issued(c) THEN "deleted" ELSE codes[c]]
      BY <2>3 DEF FinishMfaReset
    <3>2. RecoveryOpensOnce'
      BY <1>i, <3>1 DEF RecoveryOpensOnce, Issued
    <3>3. CodesKnown'
      BY <1>i, <2>k, <3>1 DEF CodesKnown, Issued
    <3> QED BY <1>t, <3>2, <3>3 DEF CodesInv
  <2>4. ASSUME NEW new \in SUBSET Codes, FinishCodes(s, new) PROVE CodesInv'
    <3>1. /\ opened' = opened /\ \A c \in new : codes[c] = "fresh"
          /\ codes' = [c \in Codes |-> IF c \in new THEN "unused"
                               ELSE IF Issued(c) THEN "deleted" ELSE codes[c]]
      BY <2>4 DEF FinishCodes
    <3>2. RecoveryOpensOnce'
      BY <1>i, <3>1 DEF RecoveryOpensOnce, CodesKnown, Issued
    <3>3. CodesKnown'
      BY <1>i, <2>k, <3>1 DEF CodesKnown, Issued
    <3> QED BY <1>t, <3>2, <3>3 DEF CodesInv
  <2>5. CASE /\ ~ FinishRecover(s) /\ ~ FinishMfaReset(s)
             /\ ~ \E new \in SUBSET Codes : FinishCodes(s, new)
    <3>1. codes' = codes /\ opened' = opened
      BY <1>2, <1>i, <2>5, OtherCodes
    <3>2. RecoveryOpensOnce'
      BY <1>i, <3>1 DEF RecoveryOpensOnce
    <3>3. CodesKnown'
      BY <1>i, <2>k, <3>1 DEF CodesKnown
    <3> QED BY <1>t, <3>2, <3>3 DEF CodesInv
  <2> QED BY <2>2, <2>3, <2>4, <2>5
<1>3. CASE UNCHANGED <<codes, opened, ses>>
  BY <1>i, <1>t, <1>3 DEF CodesInv, RecoveryOpensOnce, CodesKnown
<1> QED BY <1>1, <1>2, <1>3, Steps DEF Expire, ExpireMfa, vars, rows

(* A recovery code opens at most one session, whatever replaces or deletes *)
(* the codes while it is checked.                                          *)
THEOREM RecoverySound == ASSUME SingleSpender PROVE Spec => []RecoveryOpensOnce
<1>1. CodesInv => RecoveryOpensOnce BY DEF CodesInv
<1>2. CodesInv /\ [Next]_vars => CodesInv' BY StepCodesInv
<1> QED BY InitCodesInv, <1>1, <1>2, PTL DEF Spec

-----------------------------------------------------------------------------
(* One request at a time may issue, redeem or revoke tokens.               *)
TokenKinds == {"invite", "issue", "reset", "change"}
Writers == {s \in Sessions : Carries[s] \cap TokenKinds # {}}
SingleWriter == \A s, t \in Writers : s = t

(* At most one token is open, a request that redeems one holds it, and an  *)
(* UPDATE that is about to commit covers every token that is unused.       *)
TokensKnown ==
  /\ \A t, u \in OpenTokens : t = u
  /\ user = None => IssuedTokens = {}
  /\ \A s \in Writers : ses[s] # None =>
       /\ IF ses[s].kind = "reset" THEN tokens[ses[s].token] \in {"unused", "expired"}
                                   ELSE ses[s].token = None
       /\ ses[s].stage = "revoked" => \A t \in Tokens : tokens[t] = "unused" => t \in ses[s].old
       /\ ses[s].old \subseteq IssuedTokens
       /\ ses[s].kind = "reset" /\ ses[s].stage = "revoked" => ses[s].token \in ses[s].old

TokenInv == TypeInv /\ TokensKnown

(* What a step does to the tokens, told as ResetTokens tells it. *)
SameTokens == OpenTokens' = OpenTokens /\ IssuedTokens' = IssuedTokens /\ sets' = sets
IssueStep(t) ==
  t \notin IssuedTokens /\ OpenTokens' = {t} /\ IssuedTokens' = IssuedTokens \cup {t} /\ sets' = sets
RedeemStep(t) ==
  /\ OpenTokens = {t} /\ OpenTokens' = {} /\ IssuedTokens' = IssuedTokens
  /\ sets' = [sets EXCEPT ![t] = @ + 1]
CloseStep == OpenTokens' = {} /\ IssuedTokens' = IssuedTokens /\ sets' = sets

TokenStep ==
  SameTokens \/ CloseStep \/ \E t \in Tokens : IssueStep(t) \/ RedeemStep(t)

LEMMA InitTokenInv == Init => TokenInv
<1> SUFFICES ASSUME Init PROVE TokenInv
  OBVIOUS
<1>1. TypeInv BY InitTypeInv
<1>2. (\A s \in Writers : ses[s] = None) /\ OpenTokens = {} /\ IssuedTokens = {}
  BY DEF Init, OpenTokens, IssuedTokens, Writers
<1> QED BY <1>1, <1>2 DEF TokenInv, TokensKnown

(* The steps of a request that leave tokens and their count alone. *)
LEMMA OtherTokens ==
  ASSUME NEW s \in Sessions, Advance(s),
         ~ FinishReset(s), ~ SetPassword(s),
         ~ \E t \in Tokens : FinishIssue(s, t), ~ \E t \in Tokens : FinishInvite(s, t)
  PROVE  tokens' = tokens /\ sets' = sets
  BY DEF Advance, RevokeTokens, Lose, FinishLogin, FinishVerify, FinishRecover, FinishEnrol,
         FinishConfirm, FinishMfaReset, FinishChange, FinishCodes, rows

LEMMA StepTokenInv ==
  ASSUME SingleWriter, TokenInv, [Next]_vars
  PROVE  TokenInv' /\ TokenStep
<1>i. /\ TypeInv /\ TokensKnown
      /\ tokens \in [Tokens -> TokenStates] /\ sets \in [Tokens -> Nat]
      /\ user \in Opt(UserRow) /\ (\A r \in UserRow : r # None)
      /\ \A r \in Sessions : WellFormed(r)
      /\ OpenTokens \subseteq IssuedTokens
  BY AccountsAssumption
     DEF TokenInv, TypeInv, TypeOK, OpenTokens, IssuedTokens
<1>t. TypeInv' BY StepTypeInv DEF TokenInv
<1>e. Writers \subseteq Sessions
  BY DEF Writers
<1>h. \A r \in Sessions : ses[r] # None /\ ses[r].kind = "reset" => r \in Writers
  BY <1>i DEF WellFormed, Writers, TokenKinds
<1>1. ASSUME NEW s \in Sessions, NEW kind \in Kinds,
             NEW token \in Opt(Tokens), NEW code \in Opt(Codes),
             Started(s, kind, token, code)
      PROVE  TokensKnown' /\ TokenStep
  <2>1. /\ Untouched /\ \A r \in Sessions \ {s} : ses'[r] = ses[r]
        /\ ses'[s] # None /\ ses'[s].kind = kind /\ ses'[s].token = token
        /\ ses'[s].stage = "read" /\ ses'[s].old = {} /\ ses[s] = None
    <3>1. ses[s] = None BY <1>1 DEF Started, Start
    <3>2. TypeInv BY <1>i
    <3> QED BY <1>1, <3>1, <3>2, StartedRequest
  <2>2. user' = user /\ tokens' = tokens /\ sets' = sets
    BY <2>1 DEF Untouched, rows
  <2>3. \A t \in Tokens : tokens[t] = "expired" => (Held(t)' <=> Held(t))
    BY <1>1, <2>1 DEF Held, Started
  <2>4. OpenTokens' = OpenTokens /\ IssuedTokens' = IssuedTokens
    BY <2>2, <2>3 DEF OpenTokens, IssuedTokens
  <2>5. TokensKnown'
    BY <1>i, <1>e, <1>1, <2>1, <2>2, <2>4 DEF TokensKnown, Started
  <2> QED BY <2>2, <2>4, <2>5 DEF TokenStep, SameTokens
<1>2. ASSUME NEW s \in Sessions, Advance(s) PROVE TokensKnown' /\ TokenStep
  <2>1. /\ \A r \in Sessions \ {s} : ses'[r] = ses[r]
        /\ ses'[s] # None => /\ ses[s] # None /\ ses'[s].kind = ses[s].kind
                             /\ ses'[s].token = ses[s].token
                             /\ RevokeTokens(s) \/ (SetPassword(s) /\ ses'[s].stage = "set")
    BY <1>2, <1>i, AdvanceSessions
  <2>h. s \in Writers => \A t \in Tokens :
          Held(t)' => ses'[s] # None /\ ses[s].kind = "reset" /\ ses[s].token = t
    BY <1>h, <2>1 DEF Held, SingleWriter
  <2>2. CASE FinishReset(s)
    <3> DEFINE t == ses[s].token
    <3>1. /\ ses[s] # None /\ ses[s].kind = "reset" /\ ses[s].stage = "revoked" /\ Done(s)
          /\ tokens' = Marked(s) /\ sets' = [sets EXCEPT ![t] = @ + 1]
      BY <2>2 DEF FinishReset, At
    <3>2. s \in Writers /\ t \in Tokens /\ ses'[s] = None
      BY <1>i, <1>h, <3>1, DoneSessions DEF WellFormed, TypeInv
    <3>3. /\ tokens[t] \in {"unused", "expired"} /\ t \in ses[s].old
          /\ \A u \in Tokens : tokens[u] = "unused" => u \in ses[s].old
          /\ ses[s].old \subseteq IssuedTokens
      BY <1>i, <3>1, <3>2 DEF TokensKnown
    <3>4. Held(t)
      BY <3>1 DEF Held
    <3>5. OpenTokens = {t}
      BY <1>i, <3>2, <3>3, <3>4 DEF OpenTokens, TokensKnown
    <3>6. \A u \in Tokens : ~ Held(u)'
      BY <2>h, <3>2
    <3>7. OpenTokens' = {}
      BY <1>i, <3>1, <3>3, <3>6 DEF OpenTokens, Marked, TokenStates
    <3>8. IssuedTokens' = IssuedTokens
      BY <1>i, <3>1, <3>3 DEF IssuedTokens, Marked
    <3>9. user' # None
      BY <1>t, <1>i, <1>2, <2>2, <3>1, NewVersion DEF FinishReset, WellFormed
    <3>10. TokensKnown'
      BY <3>2, <3>7, <3>9, <1>i DEF TokensKnown, SingleWriter
    <3> QED BY <3>1, <3>2, <3>5, <3>7, <3>8, <3>10 DEF TokenStep, RedeemStep
  <2>3. CASE SetPassword(s)
    <3>1. /\ ses[s] # None /\ ses[s].kind = "change" /\ ses[s].stage = "revoked"
          /\ tokens' = Marked(s) /\ sets' = sets /\ Invalidate(s, user)
      BY <2>3 DEF SetPassword, At
    <3>2. s \in Writers /\ user \in UserRow
      BY <1>i, <3>1 DEF WellFormed, Writers, TokenKinds
    <3>3. /\ \A u \in Tokens : tokens[u] = "unused" => u \in ses[s].old
          /\ ses[s].old \subseteq IssuedTokens /\ ses[s].token = None
      BY <1>i, <3>1, <3>2 DEF TokensKnown
    <3>4. \A u \in Tokens : ~ Held(u)'
      BY <2>h, <3>1, <3>2
    <3>5. OpenTokens' = {}
      BY <1>i, <3>1, <3>3, <3>4 DEF OpenTokens, Marked, TokenStates
    <3>6. IssuedTokens' = IssuedTokens
      BY <1>i, <3>1, <3>3 DEF IssuedTokens, Marked
    <3>7. user' # None
      BY <1>i, <3>1, <3>2, NewVersion
    <3>8. ses'[s] # None => ses'[s].old = ses[s].old /\ ses'[s].stage = "set"
                            /\ ses'[s].kind = "change"
      BY <1>i, <2>3, <3>1 DEF SetPassword, TypeInv, TypeOK, Opt, Request
    <3>9. TokensKnown'
      BY <2>1, <3>2, <3>3, <3>5, <3>6, <3>7, <3>8 DEF TokensKnown, SingleWriter
    <3> QED BY <3>1, <3>5, <3>6, <3>9 DEF TokenStep, CloseStep
  <2>4. ASSUME NEW t \in Tokens, FinishIssue(s, t) PROVE TokensKnown' /\ TokenStep
    <3>1. /\ ses[s] # None /\ ses[s].kind = "issue" /\ ses[s].stage = "revoked" /\ Done(s)
          /\ tokens[t] = "unissued" /\ tokens' = [Marked(s) EXCEPT ![t] = "unused"]
          /\ sets' = sets /\ user' = user
      BY <2>4 DEF FinishIssue, At
    <3>2. s \in Writers /\ user \in UserRow /\ ses'[s] = None
      BY <1>i, <3>1, DoneSessions DEF WellFormed, Writers, TokenKinds, TypeInv
    <3>3. /\ \A u \in Tokens : tokens[u] = "unused" => u \in ses[s].old
          /\ ses[s].old \subseteq IssuedTokens
      BY <1>i, <3>1, <3>2 DEF TokensKnown
    <3>4. \A u \in Tokens : ~ Held(u)'
      BY <2>h, <3>2
    <3>5. \A u \in Tokens : tokens'[u] = IF u = t THEN "unused"
                                         ELSE IF u \in ses[s].old THEN "used" ELSE tokens[u]
      BY <3>1 DEF Marked
    <3>6. OpenTokens' = {t}
      BY <1>i, <3>3, <3>4, <3>5 DEF OpenTokens, TokenStates
    <3>7. IssuedTokens' = IssuedTokens \cup {t} /\ t \notin IssuedTokens
      BY <1>i, <3>1, <3>3, <3>5 DEF IssuedTokens
    <3>8. TokensKnown'
      BY <1>i, <3>1, <3>2, <3>6 DEF TokensKnown, SingleWriter
    <3> QED BY <3>1, <3>6, <3>7, <3>8 DEF TokenStep, IssueStep
  <2>5. ASSUME NEW t \in Tokens, FinishInvite(s, t) PROVE TokensKnown' /\ TokenStep
    <3>1. /\ ses[s] # None /\ ses[s].kind = "invite" /\ Done(s) /\ user = None
          /\ user' = NewUser /\ tokens' = [tokens EXCEPT ![t] = "unused"] /\ sets' = sets
      BY <2>5 DEF FinishInvite, At
    <3>2. s \in Writers /\ ses'[s] = None /\ IssuedTokens = {}
      BY <1>i, <3>1, DoneSessions DEF WellFormed, Writers, TokenKinds, TypeInv, TokensKnown
    <3>3. \A u \in Tokens : tokens[u] = "unissued"
      BY <3>2 DEF IssuedTokens
    <3>4. OpenTokens' = {t} /\ IssuedTokens' = {t}
      BY <1>i, <3>1, <3>3 DEF OpenTokens, IssuedTokens
    <3>5. NewUser # None
      <4>1. NewUser \in UserRow
        BY AccountsAssumption DEF UserRow, NewUser, Versions
      <4> QED BY <1>i, <4>1
    <3>6. TokensKnown'
      BY <3>1, <3>2, <3>4, <3>5 DEF TokensKnown, SingleWriter
    <3> QED BY <3>1, <3>2, <3>4, <3>6 DEF TokenStep, IssueStep
  <2>6. CASE /\ ~ FinishReset(s) /\ ~ SetPassword(s)
             /\ ~ \E t \in Tokens : FinishIssue(s, t)
             /\ ~ \E t \in Tokens : FinishInvite(s, t)
    <3>1. tokens' = tokens /\ sets' = sets /\ IssuedTokens' = IssuedTokens
      BY <1>2, <2>6, OtherTokens DEF IssuedTokens
    <3>2. user' = None => user = None
      <4>1. NewUser \in UserRow
        BY AccountsAssumption DEF UserRow, NewUser, Versions
      <4> QED BY <1>2, <1>i, <4>1, AdvanceAccount DEF Revokes
    <3>3. user' = None => IssuedTokens' = {}
      BY <1>i, <3>1, <3>2 DEF TokensKnown
    <3>4. CASE RevokeTokens(s)
      <4>1. /\ ses[s] # None /\ ses[s].stage = "read"
            /\ ses[s].kind \in {"issue", "reset", "change"}
            /\ ses'[s] # None /\ ses'[s].kind = ses[s].kind /\ ses'[s].token = ses[s].token
            /\ ses'[s].old = Unspent \cup ({ses[s].token} \ {None})
        BY <1>i, <3>4, RevokingRequest
      <4>2. s \in Writers
        BY <1>i, <4>1 DEF WellFormed, Writers, TokenKinds
      <4>3. \A u \in Tokens : Held(u)' <=> Held(u)
        BY <2>1, <4>1 DEF Held
      <4>4. OpenTokens' = OpenTokens
        BY <3>1, <4>3 DEF OpenTokens
      <4>5. IF ses[s].kind = "reset" THEN ses[s].token \in Tokens
                                          /\ tokens[ses[s].token] \in {"unused", "expired"}
                                     ELSE ses[s].token = None
        BY <1>i, <4>1, <4>2 DEF TokensKnown, WellFormed
      <4>6. ses'[s].old \subseteq IssuedTokens
        BY <4>1, <4>5 DEF IssuedTokens, Unspent
      <4>7. ses[s].kind = "reset" => ses[s].token \in ses'[s].old
        BY <4>1, <4>5, AccountsAssumption
      <4>8. TokensKnown'
        BY <1>i, <3>1, <3>3, <4>1, <4>2, <4>4, <4>5, <4>6, <4>7
           DEF TokensKnown, SingleWriter, Unspent
      <4> QED BY <3>1, <4>4, <4>8 DEF TokenStep, SameTokens
    <3>5. CASE ses'[s] = None
      <4>1. OpenTokens' = {} \/ OpenTokens' = OpenTokens
        <5>1. CASE s \in Writers
          <6>1. \A u \in Tokens : ~ Held(u)'
            BY <2>h, <3>5, <5>1
          <6>2. OpenTokens' \subseteq OpenTokens
            BY <3>1, <6>1 DEF OpenTokens
          <6> QED BY <1>i, <6>2 DEF TokensKnown
        <5>2. CASE s \notin Writers
          <6>1. \A u \in Tokens : Held(u)' <=> Held(u)
            BY <1>h, <2>1, <3>5, <5>2 DEF Held
          <6> QED BY <3>1, <6>1 DEF OpenTokens
        <5> QED BY <5>1, <5>2
      <4>2. \A r \in Writers : ses'[r] # None => ses'[r] = ses[r]
        BY <1>e, <2>1, <3>5
      <4>3. TokensKnown'
        BY <1>i, <3>1, <3>3, <4>1, <4>2 DEF TokensKnown
      <4> QED BY <3>1, <4>1, <4>3 DEF TokenStep, SameTokens, CloseStep
    <3> QED BY <2>1, <2>6, <3>4, <3>5
  <2> QED BY <2>2, <2>3, <2>4, <2>5, <2>6
<1>3. ASSUME NEW t \in Tokens, Expire(t) PROVE TokensKnown' /\ TokenStep
  <2>1. /\ tokens[t] = "unused" /\ tokens' = [tokens EXCEPT ![t] = "expired"]
        /\ user' = user /\ ses' = ses /\ sets' = sets
    BY <1>3 DEF Expire
  <2>2. \A u \in Tokens : Held(u)' <=> Held(u)
    BY <2>1 DEF Held
  <2>3. IssuedTokens' = IssuedTokens
    BY <1>i, <2>1 DEF IssuedTokens
  <2>4. OpenTokens = {t}
    BY <1>i, <2>1 DEF OpenTokens, TokensKnown
  <2>5. OpenTokens' = {} \/ OpenTokens' = OpenTokens
    <3>1. OpenTokens' \subseteq {t}
      BY <1>i, <2>1, <2>2, <2>4 DEF OpenTokens
    <3> QED BY <2>4, <3>1
  <2>6. TokensKnown'
    BY <1>i, <1>e, <2>1, <2>3, <2>5 DEF TokensKnown, WellFormed
  <2> QED BY <2>1, <2>3, <2>5, <2>6 DEF TokenStep, SameTokens, CloseStep
<1>4. ASSUME UNCHANGED <<user, tokens, ses, sets>> PROVE TokensKnown' /\ TokenStep
  <2>1. OpenTokens' = OpenTokens /\ IssuedTokens' = IssuedTokens
    BY <1>4 DEF OpenTokens, IssuedTokens, Held
  <2>2. TokensKnown'
    BY <1>i, <1>4, <2>1 DEF TokensKnown
  <2> QED BY <1>4, <2>1, <2>2 DEF TokenStep, SameTokens
<1>5. (\E k \in {"pending", "enrol"} : ExpireMfa(k)) \/ UNCHANGED vars
      => UNCHANGED <<user, tokens, ses, sets>>
  BY DEF ExpireMfa, vars, rows
<1>6. TokensKnown' /\ TokenStep
  BY <1>1, <1>2, <1>3, <1>4, <1>5, Steps
<1> QED BY <1>6, <1>t DEF TokenInv

(* The one member of a set, as OpenToken picks it. *)
LEMMA TheMember ==
  ASSUME NEW S, NEW x, S = {x}
  PROVE  (IF S = {} THEN None ELSE CHOOSE y \in S : TRUE) = x
  OBVIOUS

(* A step as it is told of the tokens is a step of ResetTokens. *)
LEMMA PromiseStep ==
  ASSUME TokenStep, sets \in [Tokens -> Nat]
  PROVE  Promise!Next \/ UNCHANGED <<OpenToken, IssuedTokens, sets>>
<1>1. CASE SameTokens
  BY <1>1 DEF SameTokens, OpenToken
<1>2. CASE CloseStep
  BY <1>2 DEF CloseStep, OpenToken, Promise!Close, Promise!Next
<1>3. ASSUME NEW t \in Tokens, IssueStep(t) PROVE Promise!Next
  <2>1. OpenToken' = t
    BY <1>3, TheMember DEF IssueStep, OpenToken
  <2>2. Promise!Issue(t)
    BY <1>3, <2>1 DEF IssueStep, Promise!Issue
  <2> QED BY <2>2 DEF Promise!Next
<1>4. ASSUME NEW t \in Tokens, RedeemStep(t) PROVE Promise!Next
  <2>1. OpenToken = t
    BY <1>4, TheMember DEF RedeemStep, OpenToken
  <2>2. OpenToken' = None
    BY <1>4 DEF RedeemStep, OpenToken
  <2>3. Promise!Redeem(t)
    BY <1>4, <2>1, <2>2 DEF RedeemStep, Promise!Redeem
  <2> QED BY <2>3 DEF Promise!Next
<1> QED BY <1>1, <1>2, <1>3, <1>4 DEF TokenStep

(* The reset tokens implement ResetTokens: one is open at a time, and it   *)
(* sets the password once.                                                 *)
THEOREM TokensSound == ASSUME SingleWriter PROVE Spec => TokenPromise
<1>1. Init => Promise!Init
  BY DEF Init, Promise!Init, OpenToken, OpenTokens, IssuedTokens
<1>2. TokenInv /\ [Next]_vars => TokenInv'
  BY StepTokenInv
<1>3. TokenInv /\ [Next]_vars => [Promise!Next]_<<OpenToken, IssuedTokens, sets>>
  <2> SUFFICES ASSUME TokenInv, [Next]_vars
               PROVE  Promise!Next \/ UNCHANGED <<OpenToken, IssuedTokens, sets>>
    OBVIOUS
  <2>1. TokenStep /\ sets \in [Tokens -> Nat]
    BY StepTokenInv DEF TokenInv, TypeInv, TypeOK
  <2> QED BY <2>1, PromiseStep
<1> QED
  BY InitTokenInv, <1>1, <1>2, <1>3, PTL DEF Spec, TokenPromise, Promise!Spec
=============================================================================
