--------------------------- MODULE WebhookReplay ---------------------------
(***************************************************************************)
(* Signed requests from a school's ERP: which of them are admitted, and    *)
(* what a second copy of one meets (app/erp_webhook_security.py and        *)
(* app/routers/erp_webhook.py).  A request carries a timestamp, a nonce    *)
(* and a signature; it is admitted while its timestamp is near the clock   *)
(* and its nonce is new.  The network delivers it late, several times, or  *)
(* not at all.  What an admitted bundle changes is the matter of           *)
(* DeltaSync and BundleApply.                                              *)
(*                                                                         *)
(* Time is kept as the age of every request (now less its timestamp) and   *)
(* as what is left of every nonce, in steps of Tick.                       *)
(*                                                                         *)
(* Left out: how a signature is computed, how a multipart body is cut up,  *)
(* the tenant (part of every nonce's key).                                 *)
(***************************************************************************)
EXTENDS Integers, FiniteSets

CONSTANTS
  Messages, Nonces,
  Requests,   \* deliveries in progress at one time
  Skew,       \* _MAX_TIMESTAMP_SKEW_SECONDS, in ticks
  TTL,        \* _NONCE_TTL_SECONDS, in ticks
  MaxAhead,   \* how far the ERP's clock is ahead of the server's, at most
  MaxDelay,   \* ticks between the look at the timestamp and the reservation
  MaxFaults,  \* bound: failed commands, dead requests, restarts
  None

VARIABLES
  conf,      \* what get_webhook_replay_store has built; whether a secret is set
  msg,       \* what was sent
  age,       \* now less the timestamp of each message
  seen,      \* the store: what a nonce has left
  req,       \* deliveries in progress
  admitted,  \* history: how often each message got past the checks
  spent,     \* history: the nonces that were ever reserved
  faults

store == <<seen, admitted, spent>>
vars == <<conf, msg, age, store, req, faults>>

Configurations ==
  {c \in [backend: {"memory", "redis"}, failClosed: BOOLEAN, secret: BOOLEAN] :
     c.failClosed => c.backend = "redis"}

Redis == conf.backend = "redis"

(* Fault: a nonce is kept as long as a timestamp may be off.               *)
Life_skew == Skew

(* Redis drops a nonce when TTL is reached, the dictionary after it.       *)
Life == IF Redis THEN TTL ELSE TTL + 1

Flaws == {"none", "headers", "timestamp", "nonce", "signature"}
Message == [nonce: Nonces, flaw: Flaws]

Failures == {"missing_signing_key", "missing_headers", "invalid_timestamp",
             "timestamp_expired", "invalid_nonce", "invalid_signature",
             "replay", "replay_store_unavailable"}
Endings == {"missing_upload", "upload_too_large", "failed_run", "apply_directory"}
Outcomes == Failures \cup Endings
Delivery == [of: Messages, stage: {"check", "reserve", "import"} \cup Outcomes,
             wait: 0..MaxDelay]

ASSUME ReplayAssumption ==
  /\ Skew \in Nat /\ TTL \in Nat \ {0} /\ MaxAhead \in Nat /\ MaxDelay \in Nat
  /\ MaxFaults \in Nat
  /\ MaxAhead + MaxDelay + Skew < TTL
  /\ None \notin Message \cup Delivery \cup (1..TTL + 1)

(* No delivery is still to reserve a nonce for a message of age Old.      *)
Old == Skew + MaxDelay + 1
Ages == -MaxAhead..Old

TypeOK ==
  /\ conf \in Configurations
  /\ msg \in [Messages -> Message \cup {None}] /\ age \in [Messages -> Ages]
  /\ seen \in [Nonces -> (1..TTL + 1) \cup {None}]
  /\ req \in [Requests -> Delivery \cup {None}]
  /\ admitted \in [Messages -> Nat] /\ spent \subseteq Nonces
  /\ faults \in 0..MaxFaults

Init ==
  /\ conf \in Configurations
  /\ msg = [m \in Messages |-> None] /\ age = [m \in Messages |-> 0]
  /\ seen = [n \in Nonces |-> None] /\ req = [r \in Requests |-> None]
  /\ admitted = [m \in Messages |-> 0] /\ spent = {}
  /\ faults = 0

(***************************************************************************)
(* The ERP and the network.  A message is new to the server: its clock may *)
(* be ahead, and what is older than Skew cannot be told from expired.      *)
(***************************************************************************)
Send(m, nonce, flaw, a) ==
  /\ msg[m] = None
  /\ msg' = [msg EXCEPT ![m] = [nonce |-> nonce, flaw |-> flaw]]
  /\ age' = [age EXCEPT ![m] = a]
  /\ UNCHANGED <<conf, store, req, faults>>

Deliver(r, m) ==
  /\ req[r] = None /\ msg[m] # None
  /\ req' = [req EXCEPT ![r] = [of |-> m, stage |-> "check", wait |-> 0]]
  /\ UNCHANGED <<conf, msg, age, store, faults>>

(***************************************************************************)
(* verify_webhook_request: the first check that fails names the refusal.   *)
(***************************************************************************)
Fresh(m) == age[m] <= Skew /\ -age[m] <= Skew

(* Fault: the nonce is reserved before the signature is compared.          *)
Verdict_unsigned(m) ==
  IF ~conf.secret THEN "missing_signing_key"
  ELSE IF msg[m].flaw = "headers" THEN "missing_headers"
  ELSE IF msg[m].flaw = "timestamp" THEN "invalid_timestamp"
  ELSE IF ~Fresh(m) THEN "timestamp_expired"
  ELSE IF msg[m].flaw = "nonce" THEN "invalid_nonce"
  ELSE "reserve"

Verdict(m) ==
  IF ~conf.secret THEN "missing_signing_key"
  ELSE IF msg[m].flaw = "headers" THEN "missing_headers"
  ELSE IF msg[m].flaw = "timestamp" THEN "invalid_timestamp"
  ELSE IF ~Fresh(m) THEN "timestamp_expired"
  ELSE IF msg[m].flaw = "nonce" THEN "invalid_nonce"
  ELSE IF msg[m].flaw = "signature" THEN "invalid_signature"
  ELSE "reserve"

In(r, stage) == req[r] # None /\ req[r].stage = stage
Nonce(r) == msg[req[r].of].nonce

Check(r) ==
  /\ In(r, "check")
  /\ req' = [req EXCEPT ![r].stage = Verdict(req[r].of)]
  /\ UNCHANGED <<conf, msg, age, store, faults>>

(* reserve_nonce; SET NX EX is one command. *)
Reserved(r) ==
  /\ seen' = [seen EXCEPT ![Nonce(r)] = Life]
  /\ spent' = spent \cup {Nonce(r)}

Reserve(r) ==
  /\ In(r, "reserve")
  /\ \/ /\ seen[Nonce(r)] = None
        /\ Reserved(r)
        /\ admitted' = [admitted EXCEPT ![req[r].of] = @ + 1]
        /\ req' = [req EXCEPT ![r].stage = "import"]
     \/ /\ seen[Nonce(r)] # None
        /\ req' = [req EXCEPT ![r].stage = "replay"]
        /\ UNCHANGED store
  /\ UNCHANGED <<conf, msg, age, faults>>

(* erp_import_webhook: without a file, or with one that is too large, no   *)
(* run is recorded; a file that is no archive leaves a failed run; a       *)
(* bundle is imported.  Which it is depends on the body only.              *)
Import(r) ==
  /\ In(r, "import")
  /\ \E ending \in Endings : req' = [req EXCEPT ![r].stage = ending]
  /\ UNCHANGED <<conf, msg, age, store, faults>>

Answer(r) ==
  /\ req[r] # None /\ req[r].stage \in Outcomes
  /\ req' = [req EXCEPT ![r] = None]
  /\ UNCHANGED <<conf, msg, age, store, faults>>

(***************************************************************************)
(* What fails.  SET may fail before or after Redis executed it.  Closed,   *)
(* the delivery is refused with 503, open it is taken for a replay.        *)
(***************************************************************************)
Fault == faults < MaxFaults /\ faults' = faults + 1

(* Fault: a store that does not answer says replay in production, too.     *)
ReserveFails_replay(r) ==
  /\ Redis /\ Fault
  /\ In(r, "reserve")
  /\ req' = [req EXCEPT ![r].stage = "replay"]
  /\ UNCHANGED <<conf, msg, age, store>>

ReserveFails(r) ==
  /\ Redis /\ Fault
  /\ In(r, "reserve")
  /\ \/ UNCHANGED <<seen, spent>>
     \/ seen[Nonce(r)] = None /\ Reserved(r)
  /\ req' = [req EXCEPT ![r].stage =
       IF conf.failClosed THEN "replay_store_unavailable" ELSE "replay"]
  /\ UNCHANGED <<conf, msg, age, admitted>>

(* The process dies; the dictionary dies with it. *)
Die ==
  /\ Fault
  /\ seen' = IF Redis THEN seen ELSE [n \in Nonces |-> None]
  /\ req' \in IF Redis THEN {[req EXCEPT ![r] = None] : r \in Requests}
             ELSE {[r \in Requests |-> None]}
  /\ UNCHANGED <<conf, msg, age, admitted, spent>>

(***************************************************************************)
(* Time, and how long a delivery may take between two of its steps.        *)
(***************************************************************************)
(* Fault: a nonce whose time is up stays.                                  *)
Left_none(n) == IF seen[n] = None THEN None ELSE seen[n] - 1

Left(n) == IF seen[n] \in {None, 1} THEN None ELSE seen[n] - 1

Tick ==
  /\ \A r \in Requests : In(r, "reserve") => req[r].wait < MaxDelay
  /\ age' = [m \in Messages |->
       IF msg[m] = None \/ age[m] = Old THEN age[m] ELSE age[m] + 1]
  /\ seen' = [n \in Nonces |-> Left(n)]
  /\ req' = [r \in Requests |->
       IF In(r, "reserve") THEN [req[r] EXCEPT !.wait = @ + 1] ELSE req[r]]
  /\ UNCHANGED <<conf, msg, admitted, spent, faults>>

Next ==
  \/ \E m \in Messages, n \in Nonces, flaw \in Flaws, a \in -MaxAhead..Skew :
       Send(m, n, flaw, a)
  \/ \E r \in Requests, m \in Messages : Deliver(r, m)
  \/ \E r \in Requests :
       Check(r) \/ Reserve(r) \/ ReserveFails(r) \/ Import(r) \/ Answer(r)
  \/ Die \/ Tick

Spec == Init /\ [][Next]_vars

(***************************************************************************)
(* What holds.                                                             *)
(***************************************************************************)
Remembers == Redis \/ faults = 0
Answers == conf.failClosed \/ faults = 0

(* A signed request is imported at most once however often and late the    *)
(* network delivers it, and whatever is lost of Redis's answers: a nonce   *)
(* outlives the freshness of its request (erp_webhook_security.py:37 and   *)
(* 38), for a clock and a delay that leave room between the two.           *)
AdmittedOnce == Remembers => \A m \in Messages : admitted[m] <= 1

(* Nobody but the holder of the secret uses a nonce up: a forged copy that *)
(* comes first does not keep the ERP's own request out                     *)
(* (erp_webhook_security.py:359 to 376).                                   *)
OnlySignedSpend ==
  \A n \in spent :
    \E m \in Messages : msg[m] # None /\ msg[m].nonce = n /\ msg[m].flaw = "none"

(* A delivery is called a replay only if its nonce was used before         *)
(* (erp_webhook_security.py:374 to 387); and an upload reaches the import  *)
(* with a nonce in the trail of used ones.                                 *)
ReplaysAreReplays ==
  \A r \in Requests :
    /\ In(r, "replay") /\ Answers => Nonce(r) \in spent
    /\ req[r] # None /\ req[r].stage \notin Failures \cup {"check", "reserve"}
         => Nonce(r) \in spent

=============================================================================
