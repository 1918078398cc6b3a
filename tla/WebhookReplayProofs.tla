------------------------ MODULE WebhookReplayProofs ------------------------
(* Proofs about WebhookReplay, for every skew, lifetime and number of       *)
(* messages, nonces and deliveries.                                        *)
EXTENDS WebhookReplay, TLAPS

(***************************************************************************)
(* Arithmetic of the two clocks, and the shape of what is read.            *)
(***************************************************************************)
LEMMA Clocks ==
  /\ Old \in Nat /\ Skew < Old /\ -MaxAhead \in Ages /\ Ages \subseteq Int
  /\ Life \in TTL..TTL + 1 /\ Life \in 1..TTL + 1 /\ Life # None
  /\ \A a \in Ages : Life + a >= Old
BY ReplayAssumption DEF Old, Ages, Life

LEMMA VerdictType ==
  ASSUME NEW m \in Messages PROVE Verdict(m) \in {"reserve"} \cup Failures
BY DEF Verdict, Failures

Phases == {"check", "reserve", "import"} \cup Outcomes

(* A delivery is of a message that was sent.                               *)
Known == \A r \in Requests : req[r] # None => msg[req[r].of] # None
Typed == TypeOK /\ Known

LEMMA InProgress ==
  ASSUME Typed, NEW r \in Requests, req[r] # None
  PROVE  /\ req[r] \in Delivery /\ req[r].of \in Messages
         /\ msg[req[r].of] \in Message /\ Nonce(r) \in Nonces
BY DEF Typed, TypeOK, Known, Delivery, Message, Nonce

(* Type correctness, whatever fails and however often.                     *)
LEMMA WebhookTypeStep == Typed /\ [Next]_vars => Typed'
<1> SUFFICES ASSUME Typed, [Next]_vars PROVE Typed'
  OBVIOUS
<1> USE DEF Typed, TypeOK, Known, store
<1>1. ASSUME NEW m \in Messages, NEW n \in Nonces, NEW flaw \in Flaws,
             NEW a \in -MaxAhead..Skew, Send(m, n, flaw, a)
      PROVE  Typed'
  <2>1. a \in Ages
    BY ReplayAssumption DEF Ages, Old
  <2>2. [nonce |-> n, flaw |-> flaw] \in Message /\ None \notin Message
    BY ReplayAssumption DEF Message
  <2>3. TypeOK'
    BY <1>1, <2>1, <2>2 DEF Send
  <2>4. Known'
    BY <1>1, <2>2 DEF Send, Delivery
  <2> QED
    BY <2>3, <2>4
<1>2. ASSUME NEW r \in Requests, NEW m \in Messages, Deliver(r, m) PROVE Typed'
  <2>1. [of |-> m, stage |-> "check", wait |-> 0] \in Delivery
    BY ReplayAssumption DEF Delivery
  <2> QED
    BY <1>2, <2>1 DEF Deliver
<1>3. ASSUME NEW r \in Requests, NEW stage, NEW d, d = [req[r] EXCEPT !.stage = stage],
             stage \in Phases, req[r] # None, req' = [req EXCEPT ![r] = d],
             UNCHANGED msg
      PROVE  req' \in [Requests -> Delivery \cup {None}] /\ Known'
  BY <1>3, InProgress DEF Delivery, Phases
<1>4. ASSUME NEW r \in Requests, Check(r) PROVE Typed'
  <2>1. Verdict(req[r].of) \in Phases
    BY <1>4, VerdictType, InProgress DEF Check, In, Phases, Outcomes
  <2>2. req' \in [Requests -> Delivery \cup {None}] /\ Known'
    BY <1>4, <1>3, <2>1 DEF Check, In
  <2> QED
    BY <1>4, <2>2 DEF Check
<1>5. ASSUME NEW r \in Requests, Reserve(r) PROVE Typed'
  <2>1. req[r].of \in Messages /\ Nonce(r) \in Nonces
    BY <1>5, InProgress DEF Reserve, In
  <2>2. req' \in [Requests -> Delivery \cup {None}] /\ Known'
    BY <1>5, <1>3 DEF Reserve, In, Phases, Outcomes, Failures
  <2>3. /\ seen' \in [Nonces -> (1..TTL + 1) \cup {None}] /\ spent' \subseteq Nonces
        /\ admitted' \in [Messages -> Nat]
    BY <1>5, <2>1, Clocks DEF Reserve, Reserved
  <2> QED
    BY <1>5, <2>2, <2>3 DEF Reserve
<1>6. ASSUME NEW r \in Requests, ReserveFails(r) PROVE Typed'
  <2>1. Nonce(r) \in Nonces
    BY <1>6, InProgress DEF ReserveFails, In
  <2>2. req' \in [Requests -> Delivery \cup {None}] /\ Known'
    BY <1>6, <1>3 DEF ReserveFails, In, Phases, Outcomes, Failures
  <2>3. seen' \in [Nonces -> (1..TTL + 1) \cup {None}] /\ spent' \subseteq Nonces
    BY <1>6, <2>1, Clocks DEF ReserveFails, Reserved
  <2>4. faults' \in 0..MaxFaults
    BY <1>6, ReplayAssumption DEF ReserveFails, Fault
  <2> QED
    BY <1>6, <2>2, <2>3, <2>4 DEF ReserveFails
<1>7. ASSUME NEW r \in Requests, Import(r) PROVE Typed'
  <2>1. req' \in [Requests -> Delivery \cup {None}] /\ Known'
    BY <1>7, <1>3 DEF Import, In, Phases, Outcomes
  <2> QED
    BY <1>7, <2>1 DEF Import
<1>8. ASSUME NEW r \in Requests, Answer(r) PROVE Typed'
  BY <1>8 DEF Answer
<1>9. CASE Die
  <2>1. seen' \in [Nonces -> (1..TTL + 1) \cup {None}]
    BY <1>9 DEF Die
  <2>2. req' \in [Requests -> Delivery \cup {None}] /\ Known'
    BY <1>9 DEF Die
  <2>3. faults' \in 0..MaxFaults
    BY <1>9, ReplayAssumption DEF Die, Fault
  <2> QED
    BY <1>9, <2>1, <2>2, <2>3 DEF Die
<1>10. CASE Tick
  <2>1. age' \in [Messages -> Ages]
    BY <1>10, ReplayAssumption DEF Tick, Ages, Old
  <2>2. seen' \in [Nonces -> (1..TTL + 1) \cup {None}]
    BY <1>10, ReplayAssumption DEF Tick, Left
  <2>3. ASSUME NEW r \in Requests, In(r, "reserve")
        PROVE  [req[r] EXCEPT !.wait = @ + 1] \in Delivery
    BY <1>10, <2>3, InProgress, ReplayAssumption DEF Tick, In, Delivery
  <2>4. req' \in [Requests -> Delivery \cup {None}]
    BY <1>10, <2>3 DEF Tick
  <2>5. Known'
    BY <1>10, InProgress DEF Tick, In, Delivery
  <2> QED
    BY <1>10, <2>1, <2>2, <2>4, <2>5 DEF Tick
<1>11. CASE UNCHANGED vars
  BY <1>11 DEF vars
<1> QED
  BY <1>1, <1>2, <1>4, <1>5, <1>6, <1>7, <1>8, <1>9, <1>10, <1>11 DEF Next

LEMMA TypedInit == Init => Typed
BY ReplayAssumption DEF Init, Typed, TypeOK, Known, Ages, Old

(* Every reachable state of the store, the messages and the deliveries is  *)
(* well typed, however many deliveries are in progress.                    *)
THEOREM WebhookTypeCorrect == Spec => []TypeOK
<1>1. Typed => TypeOK
  BY DEF Typed
<1> QED
  BY <1>1, TypedInit, WebhookTypeStep, PTL DEF Spec


(***************************************************************************)
(* A delivery reserves soon after its check: a message that may still be   *)
(* admitted is signed and younger than Old.                                *)
(***************************************************************************)
Prompt ==
  \A r \in Requests : In(r, "reserve") =>
    msg[req[r].of].flaw = "none" /\ age[req[r].of] <= Skew + req[r].wait

LEMMA PromptStep == Typed /\ Prompt /\ [Next]_vars => Prompt'
<1> SUFFICES ASSUME Typed, Prompt, [Next]_vars PROVE Prompt'
  OBVIOUS
<1> SUFFICES ASSUME NEW r \in Requests, In(r, "reserve")'
             PROVE  (msg[req[r].of].flaw = "none" /\ age[req[r].of] <= Skew + req[r].wait)'
  BY DEF Prompt
<1> USE DEF Typed, TypeOK, Prompt, In
<1>1. ASSUME NEW m \in Messages, NEW n \in Nonces, NEW flaw \in Flaws,
             NEW a \in -MaxAhead..Skew, Send(m, n, flaw, a)
      PROVE  (msg[req[r].of].flaw = "none" /\ age[req[r].of] <= Skew + req[r].wait)'
  <2>1. req[r] # None /\ req'[r] = req[r] /\ req[r].of # m
    BY <1>1 DEF Send, Known
  <2>2. req[r].of \in Messages
    BY <2>1, InProgress
  <2>3. msg'[req[r].of] = msg[req[r].of] /\ age'[req[r].of] = age[req[r].of]
    BY <1>1, <2>1, <2>2 DEF Send
  <2> QED
    BY <2>1, <2>3
<1>2. ASSUME NEW s \in Requests, NEW m \in Messages, Deliver(s, m)
      PROVE  (msg[req[r].of].flaw = "none" /\ age[req[r].of] <= Skew + req[r].wait)'
  BY <1>2 DEF Deliver
<1>3. ASSUME NEW s \in Requests, Check(s)
      PROVE  (msg[req[r].of].flaw = "none" /\ age[req[r].of] <= Skew + req[r].wait)'
  <2>1. CASE s = r
    <3>1. req[r] \in Delivery /\ req[r].of \in Messages /\ msg[req[r].of] \in Message
      BY <1>3, <2>1, InProgress DEF Check
    <3>2. req'[r] = [req[r] EXCEPT !.stage = Verdict(req[r].of)]
      BY <1>3, <2>1 DEF Check
    <3>3. req'[r].of = req[r].of /\ req'[r].wait = req[r].wait
            /\ Verdict(req[r].of) = "reserve"
      BY <3>1, <3>2 DEF Delivery
    <3>4. msg[req[r].of].flaw = "none" /\ age[req[r].of] <= Skew
      BY <3>1, <3>3 DEF Verdict, Fresh, Message, Flaws
    <3>5. req[r].wait \in Nat
      BY <3>1, ReplayAssumption DEF Delivery
    <3>6. age[req[r].of] \in Int
      BY <3>1, Clocks
    <3> QED
      BY <1>3, <3>3, <3>4, <3>5, <3>6, ReplayAssumption DEF Check
  <2>2. CASE s # r
    BY <1>3, <2>2 DEF Check
  <2> QED
    BY <2>1, <2>2
<1>4. ASSUME NEW s \in Requests, Reserve(s) \/ ReserveFails(s) \/ Import(s) \/ Answer(s)
      PROVE  (msg[req[r].of].flaw = "none" /\ age[req[r].of] <= Skew + req[r].wait)'
  <2>1. UNCHANGED <<msg, age>>
    BY <1>4 DEF Reserve, ReserveFails, Import, Answer
  <2>2. req'[r] = req[r]
    <3>1. CASE s # r
      BY <1>4, <3>1 DEF Reserve, ReserveFails, Import, Answer
    <3>2. CASE s = r
      <4>1. req[r] \in Delivery
        BY <1>4, <3>2, InProgress DEF Reserve, ReserveFails, Import, Answer
      <4> QED
        BY <1>4, <3>2, <4>1
           DEF Reserve, ReserveFails, Import, Answer, Delivery, Endings
    <3> QED
      BY <3>1, <3>2
  <2> QED
    BY <2>1, <2>2
<1>5. CASE Die
  <2>1. req'[r] = req[r] /\ UNCHANGED <<msg, age>>
    BY <1>5 DEF Die
  <2> QED
    BY <2>1
<1>6. CASE Tick
  <2>1. In(r, "reserve")
    BY <1>6, InProgress DEF Tick, Delivery
  <2>2. req[r] \in Delivery /\ req[r].of \in Messages
    BY <2>1, InProgress
  <2>3. req'[r].of = req[r].of /\ req'[r].wait = req[r].wait + 1
    BY <1>6, <2>1, <2>2 DEF Tick, Delivery
  <2>4. age'[req[r].of] <= age[req[r].of] + 1
    BY <1>6, <2>2, Clocks DEF Tick
  <2>5. /\ age[req[r].of] \in Int /\ age'[req[r].of] \in Int
        /\ req[r].wait \in Int /\ Skew \in Int
    BY <1>6, <2>2, Clocks, ReplayAssumption DEF Tick, Delivery
  <2> QED
    BY <1>6, <2>1, <2>3, <2>4, <2>5 DEF Tick
<1>7. CASE UNCHANGED vars
  BY <1>7 DEF vars
<1> QED
  BY <1>1, <1>2, <1>3, <1>4, <1>5, <1>6, <1>7 DEF Next

(***************************************************************************)
(* Nonces: what the store knows, what was reserved, and for whom.          *)
(***************************************************************************)
Backed == \A n \in Nonces : seen[n] # None => n \in spent
NoncesSound == Typed /\ Prompt /\ Backed /\ OnlySignedSpend /\ ReplaysAreReplays

(* What a delivery must show for its stage.                                *)
Honest(r) ==
  /\ In(r, "replay") /\ Answers => Nonce(r) \in spent
  /\ req[r] # None /\ req[r].stage \notin Failures \cup {"check", "reserve"}
       => Nonce(r) \in spent

(* What is sent is not sent again, what is used stays used, and faults are *)
(* not forgotten.                                                          *)
LEMMA Lasting ==
  ASSUME Typed, [Next]_vars
  PROVE  /\ spent \subseteq spent'
         /\ \A m \in Messages : msg[m] # None => msg'[m] = msg[m]
         /\ Answers' => Answers
         /\ Remembers' => Remembers
         /\ conf' = conf
<1> USE DEF Typed, TypeOK, store
<1>1. ASSUME NEW m \in Messages, NEW n \in Nonces, NEW flaw \in Flaws,
             NEW a \in -MaxAhead..Skew, Send(m, n, flaw, a)
      PROVE  \A k \in Messages : msg[k] # None => msg'[k] = msg[k]
  BY <1>1 DEF Send
<1>2. UNCHANGED msg \/ \E m \in Messages, n \in Nonces, flaw \in Flaws, a \in -MaxAhead..Skew :
                         Send(m, n, flaw, a)
  BY DEF Next, Deliver, Check, Reserve, ReserveFails, Import, Answer, Die, Tick, vars
<1>3. spent \subseteq spent' /\ conf' = conf /\ faults' \in {faults, faults + 1}
  BY DEF Next, Send, Deliver, Check, Reserve, ReserveFails, Import, Answer, Die, Tick, vars,
         Reserved, Fault
<1>4. faults' = 0 => faults = 0
  BY <1>3
<1> QED
  BY <1>1, <1>2, <1>3, <1>4 DEF Answers, Remembers, Redis

LEMMA NoncesStep == NoncesSound /\ [Next]_vars => NoncesSound'
<1> SUFFICES ASSUME NoncesSound, [Next]_vars PROVE NoncesSound'
  OBVIOUS
<1> USE DEF NoncesSound
<1>0. Typed' /\ Prompt'
  BY WebhookTypeStep, PromptStep
<1>1. Backed'
  <2> SUFFICES ASSUME NEW n \in Nonces, seen'[n] # None PROVE n \in spent'
    BY DEF Backed
  <2>1. ASSUME NEW r \in Requests, Reserved(r) PROVE n \in spent'
    BY <2>1 DEF Reserved, Backed, Typed, TypeOK
  <2>2. seen'[n] = None \/ seen[n] # None \/ \E r \in Requests : Reserved(r)
    BY DEF Next, Send, Deliver, Check, Reserve, ReserveFails, Import, Answer, Die, Tick, Left,
           vars, store
  <2> QED
    BY <2>1, <2>2, Lasting DEF Backed
<1>2. OnlySignedSpend'
  <2> SUFFICES ASSUME NEW n \in spent'
               PROVE  \E m \in Messages : msg'[m] # None /\ msg'[m].nonce = n
                                            /\ msg'[m].flaw = "none"
    BY DEF OnlySignedSpend
  <2>1. CASE n \in spent
    BY <2>1, Lasting DEF OnlySignedSpend
  <2>2. ASSUME NEW r \in Requests, In(r, "reserve"), Reserved(r), n \notin spent
        PROVE  \E m \in Messages : msg[m] # None /\ msg[m].nonce = n /\ msg[m].flaw = "none"
    <3>1. n = Nonce(r)
      BY <2>2 DEF Reserved
    <3>2. req[r].of \in Messages /\ msg[req[r].of] # None
      BY <2>2, InProgress DEF In, Typed, Known
    <3> QED
      BY <2>2, <3>1, <3>2 DEF Prompt, Nonce
  <2>3. spent' = spent \/ \E r \in Requests : In(r, "reserve") /\ Reserved(r)
    BY DEF Next, Send, Deliver, Check, Reserve, ReserveFails, Import, Answer, Die, Tick,
           vars, store
  <2> QED
    BY <2>1, <2>2, <2>3, Lasting
<1>3. ASSUME NEW r \in Requests PROVE Honest(r)'
  <2>1. CASE req'[r] # None /\ req[r] # None /\ req'[r].of = req[r].of
             /\ req'[r].stage = req[r].stage
    <3>1. req[r].of \in Messages /\ msg'[req[r].of] = msg[req[r].of]
      BY <2>1, InProgress, Lasting DEF Typed, Known
    <3> QED
      BY <2>1, <3>1, Lasting DEF Honest, In, Nonce, ReplaysAreReplays
  <2>2. CASE req'[r] = None \/ req'[r].stage \in (Failures \ {"replay"}) \cup {"check", "reserve"}
    BY <2>2 DEF Honest, In, Failures
  <2>3. ASSUME Reserve(r) PROVE Honest(r)'
    <3>1. req[r] \in Delivery
      BY <2>3, InProgress DEF Reserve, In
    <3>2. req'[r].of = req[r].of /\ msg' = msg
      BY <2>3, <3>1 DEF Reserve, Delivery, Typed, TypeOK
    <3>3. Nonce(r) \in spent'
      BY <2>3, InProgress DEF Reserve, Reserved, Backed, store, In
    <3> QED
      BY <3>2, <3>3 DEF Honest, Nonce
  <2>4. ASSUME ReserveFails(r) PROVE Honest(r)'
    <3>1. ~Answers' \/ conf.failClosed
      BY <2>4, Lasting, ReplayAssumption DEF ReserveFails, Fault, Answers, Typed, TypeOK
    <3>2. req'[r].stage \in {"replay", "replay_store_unavailable"}
            /\ (conf.failClosed => req'[r].stage = "replay_store_unavailable")
      BY <2>4, InProgress DEF ReserveFails, In, Delivery, Typed, TypeOK
    <3> QED
      BY <3>1, <3>2 DEF Honest, In, Failures
  <2>5. ASSUME Import(r) PROVE Honest(r)'
    <3>1. req[r] \in Delivery /\ req[r].stage = "import" /\ Nonce(r) \in spent
      BY <2>5, InProgress DEF Import, In, ReplaysAreReplays, Failures
    <3>2. req'[r].of = req[r].of /\ msg' = msg
      BY <2>5, <3>1 DEF Import, Delivery, Typed, TypeOK
    <3> QED
      BY <3>1, <3>2, Lasting DEF Honest, Nonce
  <2>6. ASSUME Check(r) PROVE Honest(r)'
    <3>1. req[r] \in Delivery /\ req[r].of \in Messages
      BY <2>6, InProgress DEF Check, In
    <3>2. req'[r].stage = Verdict(req[r].of)
      BY <2>6, <3>1 DEF Check, Delivery, Typed, TypeOK
    <3>3. req'[r].stage # "replay"
      BY <3>2 DEF Verdict
    <3> QED
      BY <2>2, <3>1, <3>2, <3>3, VerdictType
  <2>7. ASSUME NEW m \in Messages, Deliver(r, m) PROVE Honest(r)'
    BY <2>7, <2>2 DEF Deliver, Typed, TypeOK
  <2>8. ASSUME Tick PROVE Honest(r)'
    <3>1. req[r] # None => req[r] \in Delivery
      BY InProgress
    <3>2. req'[r] = None \/ (req'[r] # None /\ req'[r].of = req[r].of
                               /\ req'[r].stage = req[r].stage /\ req[r] # None)
      BY <2>8, <3>1 DEF Tick, In, Delivery
    <3> QED
      BY <2>1, <2>2, <3>2
  <2>9. req'[r] = req[r] \/ req'[r] = None \/ Tick \/ Check(r) \/ Reserve(r)
          \/ ReserveFails(r) \/ Import(r) \/ \E m \in Messages : Deliver(r, m)
    <3>1. ASSUME NEW s \in Requests, s # r,
                 Check(s) \/ Reserve(s) \/ ReserveFails(s) \/ Import(s) \/ Answer(s)
                   \/ \E m \in Messages : Deliver(s, m)
          PROVE  req'[r] = req[r]
      BY <3>1 DEF Check, Reserve, ReserveFails, Import, Answer, Deliver, Typed, TypeOK
    <3>2. Answer(r) => req'[r] = None
      BY DEF Answer, Typed, TypeOK
    <3>3. Die => req'[r] \in {None, req[r]}
      BY DEF Die, Typed, TypeOK
    <3> QED
      BY <3>1, <3>2, <3>3 DEF Next, Send, vars
  <2> QED
    BY <2>1, <2>2, <2>3, <2>4, <2>5, <2>6, <2>7, <2>8, <2>9
<1>4. ReplaysAreReplays'
  BY <1>3 DEF ReplaysAreReplays, Honest
<1> QED
  BY <1>0, <1>1, <1>2, <1>4

LEMMA NoncesInit == Init => NoncesSound
<1> SUFFICES ASSUME Init PROVE NoncesSound
  OBVIOUS
<1>1. Typed
  BY TypedInit
<1> QED
  BY <1>1 DEF Init, NoncesSound, Prompt, Backed, OnlySignedSpend, ReplaysAreReplays, In

(* Nobody but the holder of the secret uses a nonce up, whatever fails.    *)
THEOREM SignedSpend == Spec => []OnlySignedSpend
<1>1. NoncesSound => OnlySignedSpend
  BY DEF NoncesSound
<1> QED
  BY <1>1, NoncesInit, NoncesStep, PTL DEF Spec

(* A delivery that is called a replay carries a nonce that was used, and   *)
(* so does every upload that reached the import.                           *)
THEOREM ReplaysSound == Spec => []ReplaysAreReplays
<1>1. NoncesSound => ReplaysAreReplays
  BY DEF NoncesSound
<1> QED
  BY <1>1, NoncesInit, NoncesStep, PTL DEF Spec

(***************************************************************************)
(* An admitted message is too old to be admitted again, or its nonce has   *)
(* at least as long to go as the message has to get too old: what is left  *)
(* of the one and the age of the other add up to Old.                      *)
(***************************************************************************)
Guarded(m) ==
  \/ age[m] = Old
  \/ LET n == msg[m].nonce IN seen[n] # None /\ seen[n] + age[m] >= Old

Admitted ==
  Remembers => \A m \in Messages :
    admitted[m] # 0 => admitted[m] = 1 /\ msg[m] # None /\ Guarded(m)

AdmitInv == Typed /\ Prompt /\ Admitted

LEMMA MessageOf ==
  ASSUME Typed, NEW m \in Messages, msg[m] # None
  PROVE  /\ msg[m].nonce \in Nonces /\ age[m] \in Ages /\ age[m] \in Int
         /\ seen[msg[m].nonce] # None => seen[msg[m].nonce] \in 1..TTL + 1
BY Clocks DEF Typed, TypeOK, Message

(* A nonce that is reserved guards every message that carries it.          *)
LEMMA ReservedGuards ==
  ASSUME Typed, NEW r \in Requests, In(r, "reserve"), Reserved(r),
         NEW m \in Messages, msg[m] # None, UNCHANGED <<msg, age>>,
         Guarded(m) \/ msg[m].nonce = Nonce(r)
  PROVE  Guarded(m)'
<1>1. age[m] \in Ages /\ msg[m].nonce \in Nonces
  BY MessageOf
<1>2. CASE msg[m].nonce = Nonce(r)
  <2>1. seen'[msg'[m].nonce] = Life
    BY <1>1, <1>2 DEF Reserved, Typed, TypeOK
  <2> QED
    BY <1>1, <2>1, Clocks DEF Guarded
<1>3. CASE msg[m].nonce # Nonce(r)
  <2>1. seen'[msg'[m].nonce] = seen[msg[m].nonce]
    BY <1>1, <1>3 DEF Reserved, Typed, TypeOK
  <2> QED
    BY <1>3, <2>1 DEF Guarded
<1> QED
  BY <1>2, <1>3

(* Time takes from the nonce no more than it adds to the message.          *)
LEMMA TickGuards ==
  ASSUME Typed, Tick, NEW m \in Messages, msg[m] # None, Guarded(m)
  PROVE  Guarded(m)'
<1> DEFINE n == msg[m].nonce
<1>1. n \in Nonces /\ age[m] \in Ages /\ msg'[m] = msg[m]
  BY MessageOf DEF Tick
<1>2. age'[m] = IF age[m] = Old THEN Old ELSE age[m] + 1
  BY DEF Tick
<1>3. CASE age[m] = Old
  BY <1>2, <1>3 DEF Guarded
<1>4. CASE age[m] # Old /\ seen[n] # None /\ seen[n] + age[m] >= Old
  <2>1. seen[n] \in 1..TTL + 1 /\ age[m] \in Int /\ age[m] <= Old /\ Old \in Int
    BY <1>1, <1>4, MessageOf, Clocks, ReplayAssumption DEF Ages
  <2>2. seen'[n] = IF seen[n] = 1 THEN None ELSE seen[n] - 1
    BY <1>1, <1>4 DEF Tick, Left
  <2>3. CASE seen[n] = 1
    <3>1. age[m] + 1 = Old
      BY <1>4, <2>1, <2>3
    <3> QED
      BY <1>2, <1>4, <3>1 DEF Guarded
  <2>4. CASE seen[n] # 1
    <3>1. seen'[n] = seen[n] - 1 /\ seen'[n] \in 1..TTL + 1 /\ age'[m] = age[m] + 1
      BY <1>2, <1>4, <2>1, <2>2, <2>4, ReplayAssumption
    <3>2. seen'[n] # None
      BY <3>1, ReplayAssumption
    <3>3. seen'[n] + age'[m] >= Old
      BY <1>4, <2>1, <3>1
    <3> QED
      BY <1>1, <3>2, <3>3 DEF Guarded
  <2> QED
    BY <2>3, <2>4
<1> QED
  BY <1>3, <1>4 DEF Guarded

LEMMA AdmitStep == AdmitInv /\ [Next]_vars => AdmitInv'
<1> SUFFICES ASSUME AdmitInv, [Next]_vars PROVE AdmitInv'
  OBVIOUS
<1> USE DEF AdmitInv
<1>0. Typed' /\ Prompt'
  BY WebhookTypeStep, PromptStep
<1> SUFFICES ASSUME Remembers', NEW m \in Messages, admitted'[m] # 0
             PROVE  admitted'[m] = 1 /\ msg'[m] # None /\ Guarded(m)'
  BY <1>0 DEF Admitted
<1>1. Remembers
  BY Lasting
<1>2. ASSUME admitted'[m] = admitted[m]
      PROVE  admitted'[m] = 1 /\ msg[m] # None /\ msg'[m] = msg[m] /\ Guarded(m)
  BY <1>1, <1>2, Lasting DEF Admitted
<1>3. ASSUME UNCHANGED <<admitted, seen>>, age'[m] = age[m]
      PROVE  admitted'[m] = 1 /\ msg'[m] # None /\ Guarded(m)'
  BY <1>2, <1>3 DEF Guarded
<1>4. ASSUME NEW k \in Messages, NEW n \in Nonces, NEW flaw \in Flaws,
             NEW a \in -MaxAhead..Skew, Send(k, n, flaw, a)
      PROVE  admitted'[m] = 1 /\ msg'[m] # None /\ Guarded(m)'
  <2>1. UNCHANGED <<admitted, seen>>
    BY <1>4 DEF Send, store
  <2>2. m # k
    BY <1>2, <1>4, <2>1 DEF Send
  <2>3. age'[m] = age[m]
    BY <1>4, <2>2 DEF Send, Typed, TypeOK
  <2> QED
    BY <1>3, <2>1, <2>3
<1>5. ASSUME NEW r \in Requests,
             Check(r) \/ Import(r) \/ Answer(r) \/ \E k \in Messages : Deliver(r, k)
      PROVE  admitted'[m] = 1 /\ msg'[m] # None /\ Guarded(m)'
  BY <1>3, <1>5 DEF Check, Import, Answer, Deliver, store
<1>6. ASSUME NEW r \in Requests, Reserve(r)
      PROVE  admitted'[m] = 1 /\ msg'[m] # None /\ Guarded(m)'
  <2>1. UNCHANGED <<msg, age>> /\ In(r, "reserve")
    BY <1>6 DEF Reserve
  <2>2. /\ req[r] \in Delivery /\ req[r].of \in Messages
        /\ msg[req[r].of] # None /\ req[r] # None
    BY <2>1, InProgress DEF In, Typed, Known
  <2>3. CASE seen[Nonce(r)] # None
    BY <1>3, <1>6, <2>1, <2>3 DEF Reserve, store
  <2>4. CASE seen[Nonce(r)] = None
    <3>1. Reserved(r) /\ admitted' = [admitted EXCEPT ![req[r].of] = @ + 1]
      BY <1>6, <2>4 DEF Reserve
    <3>2. CASE m = req[r].of
      <4>1. age[m] # Old
        <5>1. age[m] <= Skew + req[r].wait /\ req[r].wait \in 0..MaxDelay
          BY <2>1, <2>2, <3>2 DEF Prompt, Delivery
        <5> QED
          BY <2>2, <3>2, <5>1, MessageOf, ReplayAssumption DEF Old
      <4>2. admitted[m] = 0
        BY <1>1, <2>4, <3>2, <4>1 DEF Admitted, Guarded, Nonce
      <4>3. admitted'[m] = 1
        BY <2>2, <3>1, <3>2, <4>2 DEF Typed, TypeOK
      <4>4. Guarded(m)'
        BY <2>1, <2>2, <3>1, <3>2, ReservedGuards DEF Nonce
      <4> QED
        BY <2>1, <2>2, <3>2, <4>3, <4>4
    <3>3. CASE m # req[r].of
      <4>1. admitted'[m] = admitted[m]
        BY <2>2, <3>1, <3>3 DEF Typed, TypeOK
      <4> QED
        BY <1>2, <2>1, <3>1, <4>1, ReservedGuards
    <3> QED
      BY <3>2, <3>3
  <2> QED
    BY <2>3, <2>4
<1>7. ASSUME NEW r \in Requests, ReserveFails(r)
      PROVE  admitted'[m] = 1 /\ msg'[m] # None /\ Guarded(m)'
  <2>1. UNCHANGED <<msg, age, admitted>> /\ In(r, "reserve")
    BY <1>7 DEF ReserveFails
  <2>2. CASE seen' = seen
    BY <1>3, <2>1, <2>2
  <2>3. CASE Reserved(r)
    BY <1>2, <2>1, <2>3, ReservedGuards
  <2> QED
    BY <1>7, <2>2, <2>3 DEF ReserveFails
<1>8. CASE Die
  <2>1. Redis
    BY <1>8, ReplayAssumption, Lasting DEF Die, Fault, Remembers, Redis, Typed, TypeOK
  <2> QED
    BY <1>3, <1>8, <2>1 DEF Die
<1>9. CASE Tick
  BY <1>2, <1>9, TickGuards DEF Tick
<1>10. CASE UNCHANGED vars
  BY <1>3, <1>10 DEF vars, store
<1> QED
  BY <1>4, <1>5, <1>6, <1>7, <1>8, <1>9, <1>10 DEF Next

(* Each message is imported at most once, for every skew, delay and        *)
(* difference of the clocks that together stay below the nonce's life: in   *)
(* Redis whatever fails, in memory as long as no process dies.             *)
THEOREM Once == Spec => []AdmittedOnce
<1>1. Init => AdmitInv
  <2> SUFFICES ASSUME Init PROVE AdmitInv
    OBVIOUS
  <2>1. Typed
    BY TypedInit
  <2> QED
    BY <2>1 DEF Init, AdmitInv, Prompt, Admitted, In
<1>2. AdmitInv => AdmittedOnce
  <2> SUFFICES ASSUME AdmitInv, Remembers, NEW m \in Messages PROVE admitted[m] <= 1
    BY DEF AdmittedOnce
  <2> QED
    BY DEF AdmitInv, Admitted
<1> QED
  BY <1>1, <1>2, AdmitStep, PTL DEF Spec
=============================================================================
