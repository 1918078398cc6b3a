--------------------------- MODULE LoginThrottle ---------------------------
(***************************************************************************)
(* How often a password, a code or an address may be tried                 *)
(* (app/throttle.py and the handlers of app/routers/auth.py that use it).  *)
(* A handler asks the store whether one of its keys is locked, looks at    *)
(* the credential, and counts the failure on every key, or clears them.    *)
(* The store is a dictionary under a lock, or Redis; other requests, the   *)
(* passing of time, and failures of Redis come between any two commands.   *)
(*                                                                         *)
(* Time is kept as what is left of a counter's life, in steps of Tick.     *)
(*                                                                         *)
(* Left out: hashing of keys, tenants (part of every key), messages, audit *)
(* events; what a login does once the credential is accepted (Accounts).   *)
(***************************************************************************)
EXTENDS Integers, Sequences, FiniteSets

CONSTANTS
  Emails, Hosts,  \* accounts, by address, and client addresses
  Requests,       \* requests in progress at one time
  MaxAttempts,    \* _MAX_ATTEMPTS
  Lockout,        \* _LOCKOUT_SECONDS, in ticks
  MaxFaults,      \* bound: failed commands, dead requests, restarts
  None

VARIABLES
  op,     \* the endpoint the requests are for
  conf,   \* what get_login_throttle_store has built
  rec,    \* the store: a counter per key, and the time it has left
  req,    \* requests in progress
  faults  \* bounded by MaxFaults

vars == <<op, conf, rec, req, faults>>

Forever == Lockout + 2

(***************************************************************************)
(* The configurations a process starts with: in production the start-up    *)
(* check admits Redis only, and Redis fails closed there.                  *)
(***************************************************************************)
Configurations ==
  {c \in [backend: {"memory", "redis"}, failClosed: BOOLEAN, debug: BOOLEAN] :
     /\ c.failClosed <=> (c.backend = "redis" /\ ~c.debug)
     /\ ~c.debug => c.backend = "redis"}

Redis == conf.backend = "redis"

(* A record of the dictionary is good while its age is at most Lockout, a  *)
(* Redis key is gone when Lockout is reached.                              *)
Life == IF Redis THEN Lockout ELSE Lockout + 1

(* _account_throttle_key, _ip_throttle_key, _mfa_throttle_key and          *)
(* _throttle_key.                                                          *)
Key ==
  [of: {"acct"}, email: Emails] \cup [of: {"ip"}, host: Hosts]
    \cup [of: {"mfa", "forgot"}, email: Emails, host: Hosts]

(* No two endpoints share a key, so that each is looked at by itself.  mfa *)
(* stands for the code of a second factor, a recovery code and the code    *)
(* that confirms an enrolment: one key, one protocol.                      *)
Endpoints == {"login", "mfa", "forgot"}
KeysOf(e, h) ==
  CASE op = "login" -> <<[of |-> "acct", email |-> e], [of |-> "ip", host |-> h]>>
    [] op = "mfa" -> <<[of |-> "mfa", email |-> e, host |-> h]>>
    [] op = "forgot" -> <<[of |-> "forgot", email |-> e, host |-> h]>>

(* right: the credential is good, or the address is an active account's.   *)
(* at: the index of the key of the next command; counted, checked: the     *)
(* keys whose command was executed (history).                              *)
Stages == {"check", "verify", "count", "expire", "clear", "refused", "unavailable",
           "wrong", "accepted"}
Request ==
  [keys: UNION {[1..n -> Key] : n \in 1..2},
   right: BOOLEAN, stage: Stages, at: 1..3,
   checked: SUBSET Key, counted: SUBSET Key, cleared: SUBSET Key]

Counter == [count: Nat \ {0}, left: 1..Forever]

ASSUME ThrottleAssumption ==
  /\ MaxAttempts \in Nat \ {0} /\ Lockout \in Nat \ {0} /\ MaxFaults \in Nat
  /\ IsFiniteSet(Requests)
  /\ None \notin Counter \cup Request

TypeOK ==
  /\ op \in Endpoints /\ conf \in Configurations
  /\ rec \in [Key -> Counter \cup {None}]
  /\ req \in [Requests -> Request \cup {None}]
  /\ faults \in 0..MaxFaults

Init ==
  /\ op \in Endpoints /\ conf \in Configurations
  /\ rec = [k \in Key |-> None]
  /\ req = [r \in Requests |-> None]
  /\ faults = 0

(***************************************************************************)
(* The store.                                                              *)
(***************************************************************************)
Count(k) == IF rec[k] = None THEN 0 ELSE rec[k].count

(* Fault: off by one.                                                      *)
Locked_after(k) == Count(k) > MaxAttempts

(* is_locked_out *)
Locked(k) == Count(k) >= MaxAttempts

(* Fault: every failure starts the time again.                             *)
Counted_sliding(k) ==
  IF rec[k] # None THEN [count |-> rec[k].count + 1, left |-> Life]
  ELSE [count |-> 1, left |-> IF Redis THEN Forever ELSE Life]

(* record_failure: the count of a live counter, or a new one.  Redis gives *)
(* the new key no expiry yet: EXPIRE is a command of its own.              *)
Counted(k) ==
  IF rec[k] # None THEN [rec[k] EXCEPT !.count = @ + 1]
  ELSE [count |-> 1, left |-> IF Redis THEN Forever ELSE Life]

(***************************************************************************)
(* A handler.  r's next command is for its key at; the last one over, it   *)
(* goes on to the stage after.                                             *)
(***************************************************************************)
Here(r) == req[r].keys[req[r].at]

Onward(q, stage, after) ==
  IF q.at = Len(q.keys) THEN [q EXCEPT !.at = 1, !.stage = after]
  ELSE [q EXCEPT !.at = @ + 1, !.stage = stage]

Begin(r, e, h, right) ==
  /\ req[r] = None
  /\ req' = [req EXCEPT ![r] =
       [keys |-> KeysOf(e, h), right |-> right, stage |-> "check", at |-> 1,
        checked |-> {}, counted |-> {}, cleared |-> {}]]
  /\ UNCHANGED <<op, conf, rec, faults>>

In(r, stage) == req[r] # None /\ req[r].stage = stage

(* _is_locked_out asks for one key after the other. *)
Check(r) ==
  /\ In(r, "check")
  /\ LET q == [req[r] EXCEPT !.checked = @ \cup {Here(r)}] IN
     req' = [req EXCEPT ![r] =
       IF Locked(Here(r)) THEN [@ EXCEPT !.stage = "refused"]
       ELSE Onward(q, "check", "verify")]
  /\ UNCHANGED <<op, conf, rec, faults>>

(* A known address is not counted, a good credential clears the counters.  *)
Verify(r) ==
  /\ In(r, "verify")
  /\ req' = [req EXCEPT ![r].stage =
       IF ~req[r].right THEN "count"
       ELSE IF op = "forgot" THEN "accepted" ELSE "clear"]
  /\ UNCHANGED <<op, conf, rec, faults>>

(* Fault: EXPIRE is given to counters beyond the limit only.              *)
RecordFailure_late(r) ==
  /\ In(r, "count")
  /\ rec' = [rec EXCEPT ![Here(r)] = Counted(Here(r))]
  /\ LET q == [req[r] EXCEPT !.counted = @ \cup {Here(r)}] IN
     req' = [req EXCEPT ![r] =
       IF Redis /\ Counted(Here(r)).count > MaxAttempts THEN [q EXCEPT !.stage = "expire"]
       ELSE Onward(q, "count", "wrong")]
  /\ UNCHANGED <<op, conf, faults>>

RecordFailure(r) ==
  /\ In(r, "count")
  /\ rec' = [rec EXCEPT ![Here(r)] = Counted(Here(r))]
  /\ LET q == [req[r] EXCEPT !.counted = @ \cup {Here(r)}] IN
     req' = [req EXCEPT ![r] =
       IF Redis /\ Counted(Here(r)).count = 1 THEN [q EXCEPT !.stage = "expire"]
       ELSE Onward(q, "count", "wrong")]
  /\ UNCHANGED <<op, conf, faults>>

(* EXPIRE of a key that is gone does nothing. *)
Expiring(k) == IF rec[k] = None THEN None ELSE [rec[k] EXCEPT !.left = Life]

SetExpiry(r) ==
  /\ In(r, "expire")
  /\ rec' = [rec EXCEPT ![Here(r)] = Expiring(Here(r))]
  /\ req' = [req EXCEPT ![r] = Onward(@, "count", "wrong")]
  /\ UNCHANGED <<op, conf, faults>>

Clear(r) ==
  /\ In(r, "clear")
  /\ rec' = [rec EXCEPT ![Here(r)] = None]
  /\ LET q == [req[r] EXCEPT !.cleared = @ \cup {Here(r)}] IN
     req' = [req EXCEPT ![r] = Onward(q, "clear", "accepted")]
  /\ UNCHANGED <<op, conf, faults>>

Finished == {"refused", "unavailable", "wrong", "accepted"}

Answer(r) ==
  /\ req[r] # None /\ req[r].stage \in Finished
  /\ req' = [req EXCEPT ![r] = None]
  /\ UNCHANGED <<op, conf, rec, faults>>

(***************************************************************************)
(* What fails.  A command of Redis may fail before or after the server     *)
(* executed it; the handler sees an exception either way.  Closed, it      *)
(* refuses the request; open, a check passes, a failure counts as recorded *)
(* and a counter as cleared.                                               *)
(***************************************************************************)
Fault == faults < MaxFaults /\ faults' = faults + 1

(* Fault: a failed command is taken for a success in production as well.   *)
Unanswered_open(q) ==
  CASE q.stage = "check" -> Onward(q, "check", "verify")
    [] q.stage \in {"count", "expire"} -> Onward(q, "count", "wrong")
    [] q.stage = "clear" -> Onward(q, "clear", "accepted")

Unanswered(q) ==
  IF conf.failClosed THEN [q EXCEPT !.stage = "unavailable"]
  ELSE CASE q.stage = "check" -> Onward(q, "check", "verify")
         [] q.stage \in {"count", "expire"} -> Onward(q, "count", "wrong")
         [] q.stage = "clear" -> Onward(q, "clear", "accepted")

CommandFails(r) ==
  /\ Redis /\ Fault
  /\ req[r] # None /\ req[r].stage \in {"check", "count", "expire", "clear"}
  /\ LET k == Here(r)
         done == CASE req[r].stage = "check" -> rec[k]
                   [] req[r].stage = "count" -> Counted(k)
                   [] req[r].stage = "expire" -> Expiring(k)
                   [] req[r].stage = "clear" -> None
     IN \/ rec' = rec
        \/ rec' = [rec EXCEPT ![k] = done]
  /\ req' = [req EXCEPT ![r] = Unanswered(@)]
  /\ UNCHANGED <<op, conf>>

(* The process dies.  Redis stays; other replicas go on with theirs. *)
Die(r) ==
  /\ Redis /\ Fault
  /\ req[r] # None
  /\ req' = [req EXCEPT ![r] = None]
  /\ UNCHANGED <<op, conf, rec>>

Restart ==
  /\ ~Redis /\ Fault
  /\ rec' = [k \in Key |-> None] /\ req' = [r \in Requests |-> None]
  /\ UNCHANGED <<op, conf>>

(***************************************************************************)
(* Time.                                                                   *)
(***************************************************************************)
(* Fault: a counter whose time is up stays.                                *)
Aged_long(c) == IF c = None \/ c.left = Forever THEN c ELSE [c EXCEPT !.left = @ - 1]

Aged(c) ==
  IF c = None \/ c.left = Forever THEN c
  ELSE IF c.left = 1 THEN None ELSE [c EXCEPT !.left = @ - 1]

Tick ==
  /\ \E k \in Key : rec[k] # None /\ rec[k].left # Forever
  /\ rec' = [k \in Key |-> Aged(rec[k])]
  /\ UNCHANGED <<op, conf, req, faults>>

Step(r) ==
  Check(r) \/ Verify(r) \/ RecordFailure(r) \/ SetExpiry(r) \/ Clear(r) \/ Answer(r)

Next ==
  \/ \E r \in Requests :
       \/ \E e \in Emails, h \in Hosts, right \in BOOLEAN : Begin(r, e, h, right)
       \/ Step(r) \/ CommandFails(r) \/ Die(r)
  \/ Restart \/ Tick

Spec == Init /\ [][Next]_vars

(* Time passes, and a thread that is not dead goes on. *)
FairSpec == Spec /\ WF_vars(Tick) /\ \A r \in Requests : WF_vars(Step(r))

(***************************************************************************)
(* What holds.                                                             *)
(***************************************************************************)
KeySet(q) == {q.keys[i] : i \in DOMAIN q.keys}

(* A store that answers, or stops the login when it does not. *)
Closed == conf.failClosed \/ ~Redis

(* Attempts that overlap are checked before any of them is counted, so that *)
(* more than MaxAttempts get through; never more than one for each further *)
(* request in progress (throttle.py:60 and 160, auth.py:331 and 366).      *)
OverlapIsBounded ==
  Closed => \A k \in Key : Count(k) < MaxAttempts + Cardinality(Requests)

(* Whoever is told that a credential is wrong or right was not locked out  *)
(* when asked, and every key's counter was told as well, whichever command *)
(* of Redis failed on the way (throttle.py:150 to 190, auth.py:330 to 406).*)
AnswersAreCounted ==
  \A r \in Requests : req[r] # None /\ Closed =>
    /\ req[r].stage = "wrong" => req[r].counted = KeySet(req[r])
    /\ req[r].stage = "accepted" /\ op # "forgot" => req[r].cleared = KeySet(req[r])
    /\ req[r].stage \in {"wrong", "accepted"} => req[r].checked = KeySet(req[r])

(* A counter only runs out: more failures do not give it more time, unless *)
(* the EXPIRE of an earlier window's first failure comes late, and a lock  *)
(* goes only with its time, with a good credential whose request had found *)
(* the key open before, or with the process (throttle.py:62 to 83).        *)
ClearedByGood(k) ==
  \E r \in Requests : In(r, "clear") /\ req[r].right /\ req'[r] # req[r]
                       /\ k = Here(r) /\ (Closed => k \in req[r].checked)
WindowsOnlyRunOut ==
  [][\A k \in Key : rec[k] # None =>
       IF rec'[k] # None
       THEN /\ rec'[k].count >= rec[k].count
            /\ \/ rec'[k].left <= rec[k].left
               \/ \E r \in Requests : In(r, "expire") /\ k = Here(r) /\ req'[r] # req[r]
       ELSE rec[k].left = 1 \/ ClearedByGood(k) \/ faults' # faults]_vars

(* "Try again in a few minutes" (auth.py:344): a lock ends, as long as no  *)
(* command of Redis was lost and nobody died.                              *)
LocksEndUnlessFault ==
  \A k \in Key : Locked(k) ~> (~Locked(k) \/ faults # 0)

(* The same, whatever failed.  It is not so: EXPIRE is a second command.   *)
LocksEnd == \A k \in Key : Locked(k) ~> ~Locked(k)

=============================================================================
