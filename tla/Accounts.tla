------------------------------- MODULE Accounts -------------------------------
(***************************************************************************)
(* One account: its row in users, its password reset tokens, its second    *)
(* factor with recovery codes, and the signed cookies that name it         *)
(* (app/routers/auth.py, account_lifecycle.py, mfa.py, security.py and     *)
(* get_current_user in deps.py).  A handler touches the rows of one user   *)
(* only, so one account stands for all.                                    *)
(*                                                                         *)
(* A handler reads the user's row, checks, and writes and commits later:   *)
(* hashing a password takes long, and other requests may commit meanwhile. *)
(* An UPDATE writes the columns the handler changed.  No row is locked by  *)
(* a read.                                                                 *)
(*                                                                         *)
(* Left out: requests that are refused (a wrong password or code, a locked *)
(* or unreachable throttle) change no row kept here; what a password or a  *)
(* TOTP secret is, so that a secret is there or not; whether the password  *)
(* must be changed next; the time a cookie lives; logout, which tells the  *)
(* browser to drop a cookie and nothing to the server.                     *)
(***************************************************************************)
EXTENDS Naturals, Sequences, FiniteSets

CONSTANTS
  Tokens, Codes,  \* what the random generators will return
  CodeCount,      \* recovery codes handed out together
  Sessions,       \* requests in progress at one time
  Carries,        \* the kinds of request that each of them may be
  MaxRevocations, \* bound: revocations in a run
  None

VARIABLES
  required,  \* the tenant asks this role for a second factor
  user,      \* the row in users, None before the invitation
  tokens,    \* password_reset_tokens
  codes,     \* user_mfa_recovery_codes
  cookies,   \* session cookies that were handed out
  mfa,       \* tokens for the second step of a login that are still valid
  ses,       \* requests in progress, with what they read
  revoked,   \* SESSION_REVOKED events: the version each one names
  sets,      \* history: how often each token set the password
  opened,    \* history: how many sessions each recovery code opened
  orphans    \* history: codes of a request that a revocation overtook

rows == <<user, tokens, codes, revoked, sets>>
vars == <<required, user, tokens, codes, cookies, mfa, ses, revoked, sets, opened,
          orphans>>

Opt(S) == S \cup {None}
Versions == Nat \ {0}

UserRow == [sv: Versions, totp: BOOLEAN, pending: BOOLEAN]
NewUser == [sv |-> 1, totp |-> FALSE, pending |-> FALSE]

TokenStates == {"unissued", "unused", "expired", "used"}
CodeStates == {"fresh", "unused", "used", "deleted"}

(* Cookies and events name a version.  era: the revocations committed when *)
(* the request behind it read the account (history).                       *)
Stamp == [sv: Versions, era: Nat]

(* old: the tokens the request's UPDATE marked as used.                    *)
Kinds == {"login", "verify", "invite", "issue", "reset", "change", "enrol",
          "confirm", "codes", "recover", "mfa_reset"}
Request ==
  [kind: Kinds, row: Opt(UserRow), era: Nat, token: Opt(Tokens),
   code: Opt(Codes), stage: {"read", "revoked", "set"}, old: SUBSET Tokens]

ASSUME AccountsAssumption ==
  /\ Carries \in [Sessions -> SUBSET Kinds] /\ CodeCount \in Nat \ {0} /\ MaxRevocations \in Nat
  /\ None \notin Tokens \cup Codes \cup UserRow \cup Request

TypeOK ==
  /\ required \in BOOLEAN /\ user \in Opt(UserRow)
  /\ tokens \in [Tokens -> TokenStates] /\ codes \in [Codes -> CodeStates]
  /\ cookies \subseteq Stamp /\ mfa \subseteq {"pending", "enrol"}
  /\ ses \in [Sessions -> Opt(Request)]
  /\ revoked \in Seq(Stamp)
  /\ sets \in [Tokens -> Nat] /\ opened \in [Codes -> Nat] /\ orphans \subseteq Codes

Init ==
  /\ required \in BOOLEAN /\ user \in {None, NewUser}
  /\ tokens = [t \in Tokens |-> "unissued"] /\ codes = [c \in Codes |-> "fresh"]
  /\ cookies = {} /\ mfa = {}
  /\ ses = [s \in Sessions |-> None]
  /\ revoked = << >>
  /\ sets = [t \in Tokens |-> 0] /\ opened = [c \in Codes |-> 0] /\ orphans = {}

(***************************************************************************)
(* The first half of a handler: what it reads and what it refuses.         *)
(***************************************************************************)
Start(s, kind, token, code) ==
  /\ ses[s] = None /\ kind \in Carries[s]
  /\ ses' = [ses EXCEPT ![s] =
       [kind |-> kind, row |-> user, era |-> Len(revoked), token |-> token,
        code |-> code, stage |-> "read", old |-> {}]]
  /\ UNCHANGED <<required, rows, cookies, mfa, opened, orphans>>

Exists == user # None

(* get_current_user accepts a cookie of the row's version. *)
Accepts(k) == Exists /\ k.sv = user.sv
LoggedIn == \E k \in cookies : Accepts(k)

(* _load_user_from_mfa_token: such a token names the user and nothing else. *)
Holds(k) == Exists /\ k \in mfa

BeginLogin(s) == Exists /\ Start(s, "login", None, None)

BeginVerify(s) ==
  /\ Holds("pending") /\ user.totp
  /\ Start(s, "verify", None, None)

(* Fault: a recovery code is looked up whether it was used or not.         *)
BeginRecover_any(s, c) ==
  /\ Holds("pending") /\ codes[c] \in {"unused", "used"}
  /\ Start(s, "recover", None, c)

BeginRecover(s, c) ==
  /\ Holds("pending") /\ codes[c] = "unused"
  /\ Start(s, "recover", None, c)

BeginEnrol(s) ==
  /\ Holds("enrol") \/ LoggedIn
  /\ Start(s, "enrol", None, None)

BeginConfirm(s) ==
  /\ Holds("enrol") \/ LoggedIn
  /\ user.pending
  /\ Start(s, "confirm", None, None)

BeginCodes(s) ==
  /\ LoggedIn /\ user.totp
  /\ Start(s, "codes", None, None)

(* Both by an administrator; a forgotten password issues a token as well.  *)
BeginMfaReset(s) == Exists /\ Start(s, "mfa_reset", None, None)
BeginIssue(s) == Exists /\ Start(s, "issue", None, None)

BeginReset(s, t) ==
  /\ Exists /\ tokens[t] = "unused"
  /\ Start(s, "reset", t, None)

BeginChange(s) == LoggedIn /\ Start(s, "change", None, None)

BeginInvite(s) == user = None /\ Start(s, "invite", None, None)

(* revoke_password_reset_tokens: one UPDATE of the tokens without used_at  *)
(* now, and before it the token the request consumes itself.               *)
Unspent == {t \in Tokens : tokens[t] \in {"unused", "expired"}}

(* Fault: only the request's own token is marked.                          *)
RevokeTokens_own(s) ==
  /\ ses[s] # None /\ ses[s].stage = "read"
  /\ ses[s].kind \in {"issue", "reset", "change"}
  /\ ses' = [ses EXCEPT ![s] =
       [ses[s] EXCEPT !.stage = "revoked", !.old = {ses[s].token} \ {None}]]
  /\ UNCHANGED <<required, rows, cookies, mfa, opened, orphans>>

RevokeTokens(s) ==
  /\ ses[s] # None /\ ses[s].stage = "read"
  /\ ses[s].kind \in {"issue", "reset", "change"}
  /\ ses' = [ses EXCEPT ![s] = [ses[s] EXCEPT !.stage = "revoked",
       !.old = Unspent \cup ({ses[s].token} \ {None})]]
  /\ UNCHANGED <<required, rows, cookies, mfa, opened, orphans>>

(***************************************************************************)
(* The second half: the writes and the commit, then the answer.            *)
(***************************************************************************)
At(s, kind, stage) ==
  ses[s] # None /\ ses[s].kind = kind /\ ses[s].stage = stage

Row(s) == ses[s].row
Done(s) == ses' = [ses EXCEPT ![s] = None]

(* _set_session_cookie: of the row the request read. *)
(* Fault: the row is read again for the cookie.                            *)
SetCookie_refreshed(s) ==
  cookies' = cookies \cup {[sv |-> user.sv, era |-> ses[s].era]}

SetCookie(s) ==
  cookies' = cookies \cup {[sv |-> Row(s).sv, era |-> ses[s].era]}

(* _login_mfa_state decides from the row.  The form starts an enrolment at *)
(* once, the JSON login leaves that to a request of its own.               *)
FinishLogin(s) ==
  /\ At(s, "login", "read") /\ Done(s)
  /\ \/ ~ required /\ SetCookie(s) /\ UNCHANGED <<user, mfa>>
     \/ required /\ Row(s).totp
        /\ mfa' = mfa \cup {"pending"} /\ UNCHANGED <<user, cookies>>
     \/ required /\ ~ Row(s).totp
        /\ mfa' = mfa \cup {"enrol"}
        /\ \/ UNCHANGED user
           \/ "enrol" \in Carries[s] /\ user' = [user EXCEPT !.pending = TRUE]
        /\ UNCHANGED cookies
  /\ UNCHANGED <<required, tokens, codes, revoked, sets, opened, orphans>>

FinishVerify(s) ==
  /\ At(s, "verify", "read") /\ Done(s) /\ SetCookie(s)
  /\ UNCHANGED <<required, rows, mfa, opened, orphans>>

(* The code's row is updated if it is still there.  When the throttle      *)
(* cannot be cleared, the code is spent and no session opened.             *)
FinishRecover(s) ==
  LET c == ses[s].code IN
  /\ At(s, "recover", "read") /\ Done(s)
  /\ codes[c] \in {"unused", "used"}
  /\ codes' = [codes EXCEPT ![c] = "used"]
  /\ \/ SetCookie(s) /\ opened' = [opened EXCEPT ![c] = @ + 1]
     \/ UNCHANGED <<cookies, opened>>
  /\ UNCHANGED <<required, user, tokens, revoked, sets, mfa, orphans>>

FinishEnrol(s) ==
  /\ At(s, "enrol", "read") /\ Done(s)
  /\ user' = [user EXCEPT !.pending = TRUE]
  /\ UNCHANGED <<required, tokens, codes, revoked, sets, cookies, mfa, opened, orphans>>

FinishConfirm(s) ==
  /\ At(s, "confirm", "read") /\ Done(s)
  /\ user' = [user EXCEPT !.totp = TRUE, !.pending = FALSE]
  /\ IF required THEN SetCookie(s) ELSE UNCHANGED cookies
  /\ UNCHANGED <<required, tokens, codes, revoked, sets, mfa, opened, orphans>>

(* replace_user_recovery_codes; DELETE and INSERT are one step here.       *)
Issued(c) == codes[c] \in {"unused", "used"}

FinishCodes(s, new) ==
  /\ At(s, "codes", "read") /\ Done(s)
  /\ Cardinality(new) = CodeCount /\ \A c \in new : codes[c] = "fresh"
  /\ codes' = [c \in Codes |-> IF c \in new THEN "unused"
                               ELSE IF Issued(c) THEN "deleted" ELSE codes[c]]
  /\ orphans' = IF ses[s].era = Len(revoked) THEN orphans ELSE orphans \cup new
  /\ UNCHANGED <<required, user, tokens, revoked, sets, cookies, mfa, opened>>

(* invalidate_user_sessions and its event: from the version that was read. *)
(* Fault: the event is written before the version is raised.               *)
Invalidate_event_first(s, row) ==
  /\ Len(revoked) < MaxRevocations
  /\ user' = [row EXCEPT !.sv = Row(s).sv + 1]
  /\ revoked' = Append(revoked, [sv |-> Row(s).sv, era |-> ses[s].era])

(* Fault: a version that starts anew.                                      *)
Invalidate_anew(s, row) ==
  /\ Len(revoked) < MaxRevocations
  /\ user' = [row EXCEPT !.sv = 0]
  /\ revoked' = Append(revoked, [sv |-> Row(s).sv, era |-> ses[s].era])

Invalidate(s, row) ==
  /\ Len(revoked) < MaxRevocations
  /\ user' = [row EXCEPT !.sv = Row(s).sv + 1]
  /\ revoked' = Append(revoked, [sv |-> Row(s).sv + 1, era |-> ses[s].era])

(* Fault: an administrator's reset leaves the recovery codes.              *)
FinishMfaReset_keeps_codes(s) ==
  /\ At(s, "mfa_reset", "read") /\ Done(s)
  /\ Invalidate(s, [user EXCEPT !.totp = @ /\ ~ Row(s).totp,
                                !.pending = @ /\ ~ Row(s).pending])
  /\ UNCHANGED <<required, tokens, codes, sets, cookies, mfa, opened, orphans>>

(* reset_user_mfa writes a column that was set when it was read.           *)
FinishMfaReset(s) ==
  /\ At(s, "mfa_reset", "read") /\ Done(s)
  /\ Invalidate(s, [user EXCEPT !.totp = @ /\ ~ Row(s).totp,
                                !.pending = @ /\ ~ Row(s).pending])
  /\ codes' = [c \in Codes |-> IF Issued(c) THEN "deleted" ELSE codes[c]]
  /\ UNCHANGED <<required, tokens, sets, cookies, mfa, opened, orphans>>

Marked(s) == [t \in Tokens |-> IF t \in ses[s].old THEN "used" ELSE tokens[t]]

FinishIssue(s, t) ==
  /\ At(s, "issue", "revoked") /\ Done(s)
  /\ tokens[t] = "unissued"
  /\ tokens' = [Marked(s) EXCEPT ![t] = "unused"]
  /\ UNCHANGED <<required, user, codes, revoked, sets, cookies, mfa, opened, orphans>>

(* set_user_password after consume_password_reset_token. *)
FinishReset(s) ==
  /\ At(s, "reset", "revoked") /\ Done(s)
  /\ Invalidate(s, user)
  /\ tokens' = Marked(s) /\ sets' = [sets EXCEPT ![ses[s].token] = @ + 1]
  /\ UNCHANGED <<required, codes, cookies, mfa, opened, orphans>>

(* set_user_password, and in a step of its own db.refresh for the cookie.  *)
SetPassword(s) ==
  /\ At(s, "change", "revoked")
  /\ Invalidate(s, user) /\ tokens' = Marked(s)
  /\ ses' = [ses EXCEPT ![s].stage = "set"]
  /\ UNCHANGED <<required, codes, sets, cookies, mfa, opened, orphans>>

FinishChange(s) ==
  /\ At(s, "change", "set") /\ Done(s)
  /\ cookies' = cookies \cup {[sv |-> user.sv, era |-> Len(revoked)]}
  /\ UNCHANGED <<required, rows, mfa, opened, orphans>>

(* The key of users refuses a second row. *)
FinishInvite(s, t) ==
  /\ At(s, "invite", "read") /\ Done(s)
  /\ user = None /\ tokens[t] = "unissued"
  /\ user' = NewUser /\ tokens' = [tokens EXCEPT ![t] = "unused"]
  /\ UNCHANGED <<required, codes, revoked, sets, cookies, mfa, opened, orphans>>

(* A request fails or its process dies: what is not committed is undone.   *)
Lose(s) ==
  /\ ses[s] # None /\ Done(s)
  /\ UNCHANGED <<required, rows, cookies, mfa, opened, orphans>>

Expire(t) ==
  /\ tokens[t] = "unused" /\ tokens' = [tokens EXCEPT ![t] = "expired"]
  /\ UNCHANGED <<required, user, codes, cookies, mfa, ses, revoked, sets, opened,
                 orphans>>

ExpireMfa(k) ==
  /\ k \in mfa /\ mfa' = mfa \ {k}
  /\ UNCHANGED <<required, rows, cookies, ses, opened, orphans>>

Begin(s) ==
  \/ BeginLogin(s) \/ BeginVerify(s) \/ BeginEnrol(s) \/ BeginConfirm(s)
  \/ BeginCodes(s) \/ BeginMfaReset(s) \/ BeginIssue(s) \/ BeginChange(s)
  \/ BeginInvite(s)
  \/ \E c \in Codes : BeginRecover(s, c)
  \/ \E t \in Tokens : BeginReset(s, t)

Finish(s) ==
  \/ FinishLogin(s) \/ FinishVerify(s) \/ FinishRecover(s) \/ FinishEnrol(s)
  \/ FinishConfirm(s) \/ FinishMfaReset(s) \/ FinishReset(s) \/ SetPassword(s)
  \/ FinishChange(s)
  \/ \E new \in SUBSET Codes : FinishCodes(s, new)
  \/ \E t \in Tokens : FinishIssue(s, t) \/ FinishInvite(s, t)

Next ==
  \/ \E s \in Sessions : Begin(s) \/ RevokeTokens(s) \/ Finish(s) \/ Lose(s)
  \/ \E t \in Tokens : Expire(t)
  \/ \E k \in {"pending", "enrol"} : ExpireMfa(k)

Spec == Init /\ [][Next]_vars

-----------------------------------------------------------------------------
(* The version after the first n revocations, and whether the request that *)
(* made the n-th had read the account before the one before it.            *)
VersionAfter(n) == IF n = 0 THEN 1 ELSE revoked[n].sv
Overtaken(n) == revoked[n].era # n - 1

(* A cookie that is accepted comes from a request that read the account    *)
(* after the last revocation, however long that request took: a login that *)
(* overlaps a password change gets no session out of it (security.py,      *)
(* get_current_user: a cookie of an older version is refused).  The code   *)
(* gives that up where revocations overlap: one that another one overtook  *)
(* may name a version a second time.                                       *)
AcceptedSessionsAreCurrent ==
  \A k \in cookies : Accepts(k) =>
    k.era = Len(revoked) \/ \E n \in k.era + 1..Len(revoked) : Overtaken(n)

(* The row's version is the one the last event of the audit trail names,   *)
(* and every revocation names the next one, unless another one overtook it *)
(* (invalidate_user_sessions and SESSION_REVOKED).                         *)
TrailCountsVersions ==
  /\ \A n \in 1..Len(revoked) : Overtaken(n) \/ revoked[n].sv = VersionAfter(n - 1) + 1
  /\ Exists => user.sv = VersionAfter(Len(revoked))
  /\ ~ Exists => revoked = << >>

(* Recovery codes exist only next to an enrolled second factor             *)
(* (api_mfa_recovery_codes refuses them otherwise, reset_user_mfa deletes  *)
(* both), save those of a request that a revocation overtook: it may have  *)
(* been the reset.                                                         *)
CodesNeedEnrolment ==
  (\E c \in Codes \ orphans : Issued(c)) => Exists /\ user.totp

(* A recovery code opens one session at most, and is spent by it, also     *)
(* when codes are replaced meanwhile (models.py: single-use).              *)
RecoveryOpensOnce ==
  \A c \in Codes :
    opened[c] <= 1 /\ (opened[c] = 1 => codes[c] \in {"used", "deleted"})

(* Whether a token is in time is checked when it is read: one that expires *)
(* under a request that holds it may still set the password.               *)
Held(t) ==
  \E s \in Sessions : ses[s] # None /\ ses[s].kind = "reset" /\ ses[s].token = t

OpenTokens ==
  {t \in Tokens : tokens[t] = "unused" \/ (tokens[t] = "expired" /\ Held(t))}

OpenToken == IF OpenTokens = {} THEN None ELSE CHOOSE t \in OpenTokens : TRUE

IssuedTokens == {t \in Tokens : tokens[t] # "unissued"}

(* A link sets the password at most once, also when it is sent twice       *)
(* (models.py: "Single-use, expiring password reset token").               *)
LinkSetsOnce == \A t \in Tokens : sets[t] <= 1

Promise == INSTANCE ResetTokens WITH
  NoToken <- None, open <- OpenToken,
  issued <- IssuedTokens

(* The reset tokens keep the promise of ResetTokens: one is open at a time *)
(* and sets the password once, and neither an older link nor a link from   *)
(* before another password change does (account_lifecycle.py).             *)
TokenPromise == Promise!Spec
=============================================================================
