------------------------ MODULE LoginThrottleProofs ------------------------
(* Proofs about LoginThrottle, for every limit, lockout and number of      *)
(* requests, accounts and addresses.                                       *)
EXTENDS LoginThrottle, FiniteSetTheorems, TLAPS

(***************************************************************************)
(* The keys of a request, and its walk along them.                         *)
(***************************************************************************)
KeyLists == UNION {[1..n -> Key] : n \in 1..2}

LEMMA ListShape ==
  ASSUME NEW keys \in KeyLists
  PROVE  /\ keys \in Seq(Key) /\ Len(keys) \in 1..2 /\ DOMAIN keys = 1..Len(keys)
         /\ \A i \in 1..Len(keys) : keys[i] \in Key
<1>1. PICK n \in 1..2 : keys \in [1..n -> Key]
  BY DEF KeyLists
<1>2. keys \in Seq(Key) /\ Len(keys) = n
  BY <1>1
<1> QED
  BY <1>1, <1>2

LEMMA KeysShape ==
  ASSUME op \in Endpoints, NEW e \in Emails, NEW h \in Hosts
  PROVE  /\ KeysOf(e, h) \in KeyLists
         /\ \A i, j \in DOMAIN KeysOf(e, h) : KeysOf(e, h)[i] = KeysOf(e, h)[j] => i = j
<1> DEFINE acct == [of |-> "acct", email |-> e]
           ip == [of |-> "ip", host |-> h]
<1>1. acct \in Key /\ ip \in Key /\ acct # ip
  <2>1. acct.of # ip.of
    OBVIOUS
  <2> QED
    BY <2>1 DEF Key
<1>2. CASE op = "login"
  <2>1. KeysOf(e, h) = <<acct, ip>>
    BY <1>2 DEF KeysOf
  <2> HIDE DEF acct, ip
  <2>2. <<acct, ip>> \in [1..2 -> Key]
    BY <1>1
  <2> QED
    BY <1>1, <2>1, <2>2 DEF KeyLists
<1>3. CASE op \in {"mfa", "forgot"}
  <2>1. PICK k \in Key : KeysOf(e, h) = <<k>>
    BY <1>3 DEF KeysOf, Key
  <2>2. <<k>> \in [1..1 -> Key]
    OBVIOUS
  <2> QED
    BY <2>1, <2>2 DEF KeyLists
<1> QED
  BY <1>2, <1>3 DEF Endpoints

Shape ==
  [keys: KeyLists, right: BOOLEAN, stage: Stages, at: 1..3,
   checked: SUBSET Key, counted: SUBSET Key, cleared: SUBSET Key]
LEMMA RequestShape == Request = Shape
BY DEF Request, Shape, KeyLists

(* Where a request may stand: its next key exists, and past the last one   *)
(* the stage is over.                                                      *)
Placed(q) == q.at \in 1..Len(q.keys)
LEMMA InRequest ==
  ASSUME NEW q \in Request
  PROVE  /\ q.keys \in KeyLists /\ Len(q.keys) \in 1..2 /\ q.stage \in Stages
         /\ q.at \in 1..3 /\ q.checked \subseteq Key /\ q.counted \subseteq Key
         /\ q.cleared \subseteq Key /\ q.right \in BOOLEAN
         /\ Placed(q) => q.keys[q.at] \in Key
<1>1. /\ q.keys \in KeyLists /\ q.stage \in Stages
      /\ q.at \in 1..3 /\ q.checked \subseteq Key /\ q.counted \subseteq Key
      /\ q.cleared \subseteq Key /\ q.right \in BOOLEAN
  BY RequestShape DEF Shape
<1> QED
  BY <1>1, ListShape DEF Placed

LEMMA OnwardShape ==
  ASSUME NEW q \in Request, Placed(q), NEW stage \in Stages, NEW after \in Stages
  PROVE  /\ Onward(q, stage, after) \in Request /\ Placed(Onward(q, stage, after))
         /\ Onward(q, stage, after).keys = q.keys
         /\ Onward(q, stage, after).right = q.right
         /\ Onward(q, stage, after).checked = q.checked
         /\ Onward(q, stage, after).counted = q.counted
         /\ Onward(q, stage, after).cleared = q.cleared
         /\ Onward(q, stage, after) # q \/ after = q.stage
         /\ \/ q.at = Len(q.keys) /\ Onward(q, stage, after).stage = after
                 /\ Onward(q, stage, after).at = 1
            \/ q.at < Len(q.keys) /\ Onward(q, stage, after).stage = stage
                 /\ Onward(q, stage, after).at = q.at + 1
<1>1. Len(q.keys) \in 1..2 /\ q.at \in 1..Len(q.keys) /\ q \in Shape
  BY InRequest, RequestShape DEF Placed
<1> DEFINE p == Onward(q, stage, after)
<1>2. CASE q.at = Len(q.keys)
  <2>1. p = [q EXCEPT !.at = 1, !.stage = after]
    BY <1>2 DEF Onward
  <2> HIDE DEF p
  <2>2. p \in Shape
    <3>1. p = [keys |-> q.keys, right |-> q.right, stage |-> after, at |-> 1,
               checked |-> q.checked, counted |-> q.counted, cleared |-> q.cleared]
      BY <1>1, <2>1 DEF Shape
    <3> QED
      BY <1>1, <3>1, InRequest DEF Shape
  <2>3. /\ p.keys = q.keys /\ p.right = q.right /\ p.checked = q.checked
        /\ p.counted = q.counted /\ p.cleared = q.cleared /\ p.at = 1 /\ p.stage = after
    BY <1>1, <2>1 DEF Shape
  <2> QED
    BY <1>1, <1>2, <2>2, <2>3, RequestShape DEF Placed, p
<1>3. CASE q.at < Len(q.keys)
  <2> DEFINE next == q.at + 1
  <2>0. next \in 1..3
    <3> DEFINE n == Len(q.keys)
               i == q.at
    <3>1. n \in 1..2 /\ i \in 1..n /\ i < n
      BY <1>1, <1>3
    <3> HIDE DEF n, i
    <3>2. i + 1 \in 1..3
      BY <3>1
    <3> QED
      BY <3>2 DEF i, n
  <2> HIDE DEF next
  <2>1. p = [q EXCEPT !.at = next, !.stage = stage]
    <3>1. q.at # Len(q.keys)
      BY <1>1, <1>3
    <3>2. p = [q EXCEPT !.at = q.at + 1, !.stage = stage]
      BY <3>1 DEF Onward
    <3> QED
      BY <3>2, Zenon DEF next
  <2> HIDE DEF p
  <2>2. p \in Shape
    <3>1. p = [keys |-> q.keys, right |-> q.right, stage |-> stage, at |-> next,
               checked |-> q.checked, counted |-> q.counted, cleared |-> q.cleared]
      BY <1>1, <2>1 DEF Shape
    <3> QED
      BY <1>1, <2>0, <3>1, InRequest DEF Shape
  <2>3. /\ p.keys = q.keys /\ p.right = q.right /\ p.checked = q.checked
        /\ p.counted = q.counted /\ p.cleared = q.cleared
        /\ p.at = next /\ p.stage = stage
    BY <1>1, <2>1 DEF Shape
  <2> QED
    BY <1>1, <1>3, <2>2, <2>3, RequestShape DEF Placed, p, next
<1> QED
  BY <1>1, <1>2, <1>3

(* A stage, or a key in the history, is all that changes.                   *)
LEMMA Staged ==
  ASSUME NEW q \in Request, NEW stage \in Stages, NEW p,
         p = [q EXCEPT !.stage = stage]
  PROVE  /\ p \in Request /\ p.keys = q.keys /\ p.right = q.right /\ p.stage = stage
         /\ p.at = q.at /\ p.checked = q.checked
         /\ p.counted = q.counted /\ p.cleared = q.cleared
<1>1. q \in Shape
  BY RequestShape
<1>2. p = [keys |-> q.keys, right |-> q.right, stage |-> stage, at |-> q.at,
           checked |-> q.checked, counted |-> q.counted, cleared |-> q.cleared]
  BY <1>1 DEF Shape
<1>3. p \in Shape
  BY <1>1, <1>2, InRequest DEF Shape
<1> QED
  BY <1>2, <1>3, RequestShape

LEMMA CheckedToo ==
  ASSUME NEW q \in Request, NEW k \in Key, NEW p,
         p = [q EXCEPT !.checked = q.checked \cup {k}]
  PROVE  /\ p \in Request /\ p.keys = q.keys /\ p.right = q.right /\ p.stage = q.stage
         /\ p.at = q.at /\ p.checked = q.checked \cup {k}
         /\ p.counted = q.counted /\ p.cleared = q.cleared
<1>1. q \in Shape
  BY RequestShape
<1>2. p = [keys |-> q.keys, right |-> q.right, stage |-> q.stage, at |-> q.at,
           checked |-> q.checked \cup {k}, counted |-> q.counted, cleared |-> q.cleared]
  BY <1>1 DEF Shape
<1>3. p \in Shape
  BY <1>1, <1>2, InRequest DEF Shape
<1> QED
  BY <1>2, <1>3, RequestShape

LEMMA CountedToo ==
  ASSUME NEW q \in Request, NEW k \in Key, NEW p,
         p = [q EXCEPT !.counted = q.counted \cup {k}]
  PROVE  /\ p \in Request /\ p.keys = q.keys /\ p.right = q.right /\ p.stage = q.stage
         /\ p.at = q.at /\ p.checked = q.checked
         /\ p.counted = q.counted \cup {k} /\ p.cleared = q.cleared
<1>1. q \in Shape
  BY RequestShape
<1>2. p = [keys |-> q.keys, right |-> q.right, stage |-> q.stage, at |-> q.at,
           checked |-> q.checked, counted |-> q.counted \cup {k}, cleared |-> q.cleared]
  BY <1>1 DEF Shape
<1>3. p \in Shape
  BY <1>1, <1>2, InRequest DEF Shape
<1> QED
  BY <1>2, <1>3, RequestShape

LEMMA ClearedToo ==
  ASSUME NEW q \in Request, NEW k \in Key, NEW p,
         p = [q EXCEPT !.cleared = q.cleared \cup {k}]
  PROVE  /\ p \in Request /\ p.keys = q.keys /\ p.right = q.right /\ p.stage = q.stage
         /\ p.at = q.at /\ p.checked = q.checked
         /\ p.counted = q.counted /\ p.cleared = q.cleared \cup {k}
<1>1. q \in Shape
  BY RequestShape
<1>2. p = [keys |-> q.keys, right |-> q.right, stage |-> q.stage, at |-> q.at,
           checked |-> q.checked, counted |-> q.counted, cleared |-> q.cleared \cup {k}]
  BY <1>1 DEF Shape
<1>3. p \in Shape
  BY <1>1, <1>2, InRequest DEF Shape
<1> QED
  BY <1>2, <1>3, RequestShape

(***************************************************************************)
(* What a request has done by the stage it is at.                          *)
(***************************************************************************)
Behind(q) == {q.keys[i] : i \in 1..(q.at - 1)}

Walk(q) ==
  /\ Placed(q)
  /\ \A i, j \in 1..Len(q.keys) : q.keys[i] = q.keys[j] => i = j
  /\ q.stage = "verify" => q.at = 1
  /\ q.stage = "clear" => q.right
  /\ Closed =>
       /\ q.stage = "check" => q.checked = Behind(q) /\ q.counted = {} /\ q.cleared = {}
       /\ q.stage = "verify" => q.checked = KeySet(q) /\ q.counted = {} /\ q.cleared = {}
       /\ q.stage = "count" => q.checked = KeySet(q) /\ q.counted = Behind(q)
       /\ q.stage = "expire" =>
            q.checked = KeySet(q) /\ q.counted = Behind(q) \cup {q.keys[q.at]}
       /\ q.stage = "wrong" => q.checked = KeySet(q) /\ q.counted = KeySet(q)
       /\ q.stage = "clear" => q.checked = KeySet(q) /\ q.cleared = Behind(q)
       /\ q.stage = "accepted" =>
            q.checked = KeySet(q) /\ (op # "forgot" => q.cleared = KeySet(q))

Walks == \A r \in Requests : req[r] # None => Walk(req[r])
Typed == TypeOK /\ Walks

LEMMA Ahead ==
  ASSUME NEW q \in Request, Placed(q), NEW p \in Request, p.keys = q.keys
  PROVE  /\ q.at = Len(q.keys) => Behind(q) \cup {q.keys[q.at]} = KeySet(q)
         /\ q.at < Len(q.keys) /\ p.at = q.at + 1 => Behind(p) = Behind(q) \cup {q.keys[q.at]}
         /\ q.at = 1 => Behind(q) = {}
         /\ KeySet(p) = KeySet(q)
<1>1. Len(q.keys) \in 1..2 /\ q.at \in 1..Len(q.keys) /\ DOMAIN q.keys = 1..Len(q.keys)
  BY InRequest, ListShape DEF Placed
<1>2. q.at = Len(q.keys) => Behind(q) \cup {q.keys[q.at]} = KeySet(q)
  BY <1>1 DEF Behind, KeySet
<1>3. ASSUME q.at < Len(q.keys), p.at = q.at + 1
      PROVE  Behind(p) = Behind(q) \cup {q.keys[q.at]}
  <2>1. 1..(p.at - 1) = 1..q.at
    BY <1>1, <1>3
  <2>2. \A i \in 1..q.at : i = q.at \/ i \in 1..(q.at - 1)
    BY <1>1
  <2>3. q.at \in 1..q.at /\ \A i \in 1..(q.at - 1) : i \in 1..q.at
    BY <1>1
  <2> QED
    BY <2>1, <2>2, <2>3 DEF Behind
<1>4. q.at = 1 => Behind(q) = {}
  BY DEF Behind
<1> QED
  BY <1>2, <1>3, <1>4 DEF KeySet

LEMMA Moves ==
  ASSUME Typed, NEW r \in Requests, NEW p \in Request, Walk(p),
         req' = [req EXCEPT ![r] = p], UNCHANGED <<op, conf>>,
         rec' \in [Key -> Counter \cup {None}], faults' \in 0..MaxFaults
  PROVE  Typed' /\ req'[r] = p /\ \A s \in Requests : s # r => req'[s] = req[s]
<1>1. TypeOK' /\ req'[r] = p
  BY DEF Typed, TypeOK
<1>2. \A s \in Requests : s # r => req'[s] = req[s]
  BY DEF Typed, TypeOK
<1>4. Walks'
  <2> SUFFICES ASSUME NEW s \in Requests, req'[s] # None PROVE Walk(req[s])'
    BY DEF Walks
  <2>1. Walk(req'[s])
    BY <1>1, <1>2 DEF Typed, Walks
  <2> QED
    BY <2>1 DEF Walk, Closed, Redis
<1> QED
  BY <1>1, <1>2, <1>4 DEF Typed

(* The same for a request that is over.                                    *)
LEMMA Leaves ==
  ASSUME Typed, NEW r \in Requests,
         req' = [req EXCEPT ![r] = None], UNCHANGED <<op, conf>>,
         rec' \in [Key -> Counter \cup {None}], faults' \in 0..MaxFaults
  PROVE  Typed' /\ req'[r] = None /\ \A s \in Requests : s # r => req'[s] = req[s]
<1>1. TypeOK' /\ req'[r] = None
  BY DEF Typed, TypeOK
<1>2. \A s \in Requests : s # r => req'[s] = req[s]
  BY DEF Typed, TypeOK
<1>4. Walks'
  <2> SUFFICES ASSUME NEW s \in Requests, req'[s] # None PROVE Walk(req[s])'
    BY DEF Walks
  <2>1. Walk(req'[s])
    BY <1>1, <1>2 DEF Typed, Walks
  <2> QED
    BY <2>1 DEF Walk, Closed, Redis
<1> QED
  BY <1>1, <1>2, <1>4 DEF Typed

(* A step past one key.                                                    *)
LEMMA Passes ==
  ASSUME NEW q \in Request, Walk(q), NEW c \in Request, c.keys = q.keys, c.at = q.at,
         NEW stage \in Stages, NEW after \in Stages, NEW p, p = Onward(c, stage, after)
  PROVE  /\ p \in Request /\ Placed(p) /\ p.keys = q.keys /\ p.right = c.right
         /\ p.checked = c.checked /\ p.counted = c.counted /\ p.cleared = c.cleared
         /\ \A i, j \in 1..Len(p.keys) : p.keys[i] = p.keys[j] => i = j
         /\ KeySet(p) = KeySet(q)
         /\ \/ p.stage = stage /\ Behind(p) = Behind(q) \cup {q.keys[q.at]}
            \/ /\ p.stage = after /\ p.at = 1 /\ Behind(p) = {}
               /\ KeySet(q) = Behind(q) \cup {q.keys[q.at]}
<1>1. Placed(q) /\ Placed(c)
  BY DEF Walk, Placed
<1>2. /\ p \in Request /\ Placed(p) /\ p.keys = c.keys /\ p.right = c.right
      /\ p.checked = c.checked /\ p.counted = c.counted /\ p.cleared = c.cleared
      /\ \/ c.at = Len(c.keys) /\ p.stage = after /\ p.at = 1
         \/ c.at < Len(c.keys) /\ p.stage = stage /\ p.at = c.at + 1
  BY <1>1, OnwardShape
<1>3. KeySet(p) = KeySet(q)
  BY <1>1, <1>2, Ahead
<1>4. p.at = 1 => Behind(p) = {}
  BY <1>2, Ahead
<1>5. /\ q.at = Len(q.keys) => Behind(q) \cup {q.keys[q.at]} = KeySet(q)
      /\ q.at < Len(q.keys) /\ p.at = q.at + 1 => Behind(p) = Behind(q) \cup {q.keys[q.at]}
  BY <1>1, <1>2, Ahead
<1>6. \A i, j \in 1..Len(q.keys) : q.keys[i] = q.keys[j] => i = j
  BY DEF Walk
<1> QED
  BY <1>2, <1>3, <1>4, <1>5, <1>6

LEMMA Under ==
  ASSUME Typed, NEW r \in Requests, req[r] # None
  PROVE  /\ req[r] \in Request /\ Walk(req[r]) /\ Here(r) \in Key
         /\ Here(r) = req[r].keys[req[r].at]
<1>1. req[r] \in Request /\ Walk(req[r])
  BY DEF Typed, TypeOK, Walks
<1> QED
  BY <1>1, InRequest DEF Here, Walk

(***************************************************************************)
(* Attempts under way that a counter has yet to hear of.                   *)
(***************************************************************************)
Owes(q, k) ==
  q # None /\ q.stage \in {"check", "verify", "count", "expire"} /\ k \in q.checked \ q.counted

(* A step of r leaves a counter below the limit, or adds no attempt to it  *)
(* and those it has yet to hear of, or counts an attempt it was owed.      *)
Settles(r) ==
  /\ conf' = conf
  /\ \A s \in Requests : s # r => req'[s] = req[s]
  /\ Closed => \A k \in Key :
       \/ Count(k)' < MaxAttempts
       \/ Count(k)' <= Count(k) /\ (Owes(req'[r], k) => Owes(req[r], k))
       \/ Count(k)' = Count(k) + 1 /\ Owes(req[r], k) /\ ~Owes(req'[r], k)

LEMMA Counts == Typed => \A k \in Key : Count(k) \in Nat /\ (rec[k] # None => rec[k] \in Counter)
BY DEF Typed, TypeOK, Count, Counter

LEMMA CheckStep ==
  ASSUME Typed, NEW r \in Requests, Check(r) PROVE Typed' /\ Settles(r)
<1>1. PICK q \in Request, k \in Key : q = req[r] /\ k = Here(r)
  BY Under DEF Check, In
<1>2. /\ Walk(q) /\ k = q.keys[q.at] /\ q.stage = "check" /\ q # None
      /\ UNCHANGED <<op, conf, rec, faults>>
  BY <1>1, Under DEF Check, In
<1>3. rec' \in [Key -> Counter \cup {None}] /\ faults' \in 0..MaxFaults
  BY <1>2 DEF Typed, TypeOK
<1>4. Count(k)' = Count(k) /\ \A d \in Key : Count(d)' = Count(d)
  BY <1>2 DEF Count
<1>5. CASE Locked(k)
  <2>1. PICK p : p = [q EXCEPT !.stage = "refused"]
    OBVIOUS
  <2>2. req' = [req EXCEPT ![r] = p]
    BY <1>1, <1>5, <2>1 DEF Check
  <2>3. /\ p \in Request /\ p.keys = q.keys /\ p.at = q.at /\ p.right = q.right
        /\ p.stage = "refused"
    BY <2>1, Staged DEF Stages
  <2>4. Walk(p)
    BY <1>2, <2>3 DEF Walk, Placed
  <2>5. Typed' /\ req'[r] = p /\ \A s \in Requests : s # r => req'[s] = req[s]
    BY <1>2, <1>3, <2>2, <2>3, <2>4, Moves
  <2> QED
    BY <1>2, <1>4, <2>3, <2>5, Counts DEF Settles, Owes
<1>6. CASE ~Locked(k)
  <2>1. PICK c : c = [q EXCEPT !.checked = q.checked \cup {k}]
    OBVIOUS
  <2>2. PICK p : p = Onward(c, "check", "verify")
    OBVIOUS
  <2>3. req' = [req EXCEPT ![r] = p]
    <3>1. req' = [req EXCEPT ![r] =
            Onward([req[r] EXCEPT !.checked = req[r].checked \cup {Here(r)}], "check", "verify")]
      BY <1>1, <1>6 DEF Check
    <3> QED
      BY <1>1, <2>1, <2>2, <3>1, Zenon
  <2>4. /\ c \in Request /\ c.keys = q.keys /\ c.at = q.at /\ c.right = q.right
        /\ c.checked = q.checked \cup {k} /\ c.counted = q.counted /\ c.cleared = q.cleared
    BY <2>1, CheckedToo
  <2>5. "check" \in Stages /\ "verify" \in Stages
    BY DEF Stages
  <2>6. /\ p \in Request /\ Placed(p) /\ p.keys = q.keys
        /\ p.checked = c.checked /\ p.counted = c.counted /\ p.cleared = c.cleared
        /\ \A i, j \in 1..Len(p.keys) : p.keys[i] = p.keys[j] => i = j
        /\ KeySet(p) = KeySet(q)
        /\ \/ p.stage = "check" /\ Behind(p) = Behind(q) \cup {k}
           \/ p.stage = "verify" /\ p.at = 1 /\ KeySet(q) = Behind(q) \cup {k}
    BY <1>2, <2>2, <2>4, <2>5, Passes
  <2>7. Walk(p)
    BY <1>2, <2>4, <2>6 DEF Walk
  <2>8. Typed' /\ req'[r] = p /\ \A s \in Requests : s # r => req'[s] = req[s]
    BY <1>2, <1>3, <2>3, <2>6, <2>7, Moves
  <2>9. ASSUME NEW d \in Key, d # k PROVE Owes(p, d) => Owes(q, d)
    BY <1>2, <2>4, <2>6, <2>9 DEF Owes
  <2>10. Count(k)' < MaxAttempts
    BY <1>4, <1>6, Counts, ThrottleAssumption DEF Locked
  <2>11. ASSUME NEW d \in Key
        PROVE  \/ Count(d)' < MaxAttempts
               \/ Count(d)' <= Count(d) /\ (Owes(req'[r], d) => Owes(req[r], d))
    <3>1. CASE d = k
      BY <2>10, <3>1
    <3>2. CASE d # k
      <4>1. Owes(p, d) => Owes(q, d)
        BY <2>9, <3>2
      <4>2. Count(d)' <= Count(d)
        BY <1>4, Counts
      <4> QED
        BY <1>1, <2>8, <4>1, <4>2
    <3> QED
      BY <3>1, <3>2
  <2> QED
    BY <1>2, <2>8, <2>11 DEF Settles
<1> QED
  BY <1>5, <1>6

LEMMA BeginStep ==
  ASSUME Typed, NEW r \in Requests, NEW e \in Emails, NEW h \in Hosts, NEW right \in BOOLEAN,
         Begin(r, e, h, right)
  PROVE  Typed' /\ Settles(r)
<1>1. PICK p : p = [keys |-> KeysOf(e, h), right |-> right, stage |-> "check", at |-> 1,
                    checked |-> {}, counted |-> {}, cleared |-> {}]
  OBVIOUS
<1>2. /\ req' = [req EXCEPT ![r] = p] /\ req[r] = None
      /\ UNCHANGED <<op, conf, rec, faults>>
  BY <1>1 DEF Begin
<1>3. /\ p.keys \in KeyLists
      /\ \A i, j \in DOMAIN p.keys : p.keys[i] = p.keys[j] => i = j
  BY <1>1, KeysShape DEF Typed, TypeOK
<1>4. p \in Request
  BY <1>1, <1>3, RequestShape DEF Shape, Stages
<1>5. /\ Len(p.keys) \in 1..2 /\ DOMAIN p.keys = 1..Len(p.keys)
      /\ p.stage = "check" /\ p.at = 1 /\ p.checked = {} /\ p.counted = {} /\ p.cleared = {}
  BY <1>1, <1>3, ListShape
<1>6. Walk(p)
  <2>1. Placed(p)
    <3>1. \A n \in 1..2 : 1 \in 1..n
      OBVIOUS
    <3>2. 1 \in 1..Len(p.keys)
      BY <1>5, <3>1
    <3> QED
      BY <1>5, <3>2, Zenon DEF Placed
  <2>2. Behind(p) = {}
    BY <1>4, <1>5, <2>1, Ahead
  <2> QED
    BY <1>3, <1>5, <2>1, <2>2 DEF Walk
<1>7. rec' \in [Key -> Counter \cup {None}] /\ faults' \in 0..MaxFaults
  BY <1>2 DEF Typed, TypeOK
<1>8. Typed' /\ req'[r] = p /\ \A s \in Requests : s # r => req'[s] = req[s]
  BY <1>2, <1>4, <1>6, <1>7, Moves
<1>9. \A d \in Key : Count(d)' <= Count(d) /\ ~Owes(p, d)
  BY <1>2, <1>5, Counts DEF Count, Owes
<1> QED
  BY <1>2, <1>8, <1>9 DEF Settles

LEMMA VerifyStep ==
  ASSUME Typed, NEW r \in Requests, Verify(r) PROVE Typed' /\ Settles(r)
<1>1. PICK q \in Request : q = req[r]
  BY Under DEF Verify, In
<1>2. /\ Walk(q) /\ q.stage = "verify" /\ q # None
      /\ UNCHANGED <<op, conf, rec, faults>>
  BY <1>1, Under DEF Verify, In
<1>3. PICK stage : stage = IF ~q.right THEN "count" ELSE IF op = "forgot" THEN "accepted" ELSE "clear"
  OBVIOUS
<1>4. PICK p : p = [q EXCEPT !.stage = stage]
  OBVIOUS
<1>5. req' = [req EXCEPT ![r] = p]
  <2>1. req' = [req EXCEPT ![r] = [req[r] EXCEPT !.stage =
                  IF ~req[r].right THEN "count" ELSE IF op = "forgot" THEN "accepted" ELSE "clear"]]
    BY DEF Verify
  <2> QED
    BY <1>1, <1>3, <1>4, <2>1, Zenon
<1>6. stage \in {"count", "accepted", "clear"} /\ stage \in Stages
  BY <1>3 DEF Stages
<1>7. /\ p \in Request /\ p.keys = q.keys /\ p.at = q.at /\ p.right = q.right
      /\ p.stage = stage /\ p.checked = q.checked /\ p.counted = q.counted
      /\ p.cleared = q.cleared
  BY <1>4, <1>6, Staged
<1>8. KeySet(p) = KeySet(q) /\ Behind(p) = {}
  BY <1>2, <1>7, Ahead DEF Walk, Placed
<1>9. Walk(p)
  BY <1>2, <1>3, <1>6, <1>7, <1>8 DEF Walk, Placed
<1>10. rec' \in [Key -> Counter \cup {None}] /\ faults' \in 0..MaxFaults
  BY <1>2 DEF Typed, TypeOK
<1>11. Typed' /\ req'[r] = p /\ \A s \in Requests : s # r => req'[s] = req[s]
  BY <1>2, <1>5, <1>7, <1>9, <1>10, Moves
<1>12. \A d \in Key : Count(d)' <= Count(d) /\ (Owes(p, d) => Owes(q, d))
  BY <1>2, <1>7, Counts DEF Count, Owes
<1> QED
  BY <1>1, <1>2, <1>11, <1>12 DEF Settles
LEMMA CountedShape ==
  ASSUME Typed, NEW k \in Key
  PROVE  /\ Counted(k) \in Counter /\ Counted(k).count = Count(k) + 1
         /\ [rec EXCEPT ![k] = Counted(k)] \in [Key -> Counter \cup {None}]
         /\ rec[k] # None => Counted(k).left = rec[k].left
<1>1. rec \in [Key -> Counter \cup {None}] /\ Lockout \in Nat \ {0}
  BY ThrottleAssumption DEF Typed, TypeOK
<1>2. CASE rec[k] # None
  <2>1. rec[k] \in Counter /\ rec[k].count \in Nat
    BY <1>1, <1>2 DEF Counter
  <2>2. Counted(k) = [count |-> rec[k].count + 1, left |-> rec[k].left]
    BY <1>2, <2>1 DEF Counted, Counter
  <2>3. Counted(k) \in Counter /\ Counted(k).count = Count(k) + 1 /\ Counted(k).left = rec[k].left
    BY <1>2, <2>1, <2>2 DEF Counter, Count
  <2> QED
    BY <1>1, <2>3
<1>3. CASE rec[k] = None
  <2>1. Life \in 1..Forever /\ Forever \in 1..Forever
    BY <1>1 DEF Life, Forever
  <2>2. PICK left \in 1..Forever : Counted(k) = [count |-> 1, left |-> left]
    BY <1>3, <2>1 DEF Counted
  <2>3. Counted(k) \in Counter /\ Counted(k).count = Count(k) + 1
    BY <1>3, <2>2 DEF Counter, Count
  <2> QED
    BY <1>1, <1>3, <2>3
<1> QED
  BY <1>2, <1>3

LEMMA ExpiringShape ==
  ASSUME Typed, NEW k \in Key
  PROVE  /\ [rec EXCEPT ![k] = Expiring(k)] \in [Key -> Counter \cup {None}]
         /\ rec[k] = None <=> Expiring(k) = None
         /\ rec[k] # None => Expiring(k) \in Counter /\ Expiring(k).count = rec[k].count
<1>1. rec \in [Key -> Counter \cup {None}] /\ Lockout \in Nat \ {0}
  BY ThrottleAssumption DEF Typed, TypeOK
<1>2. CASE rec[k] # None
  <2>1. rec[k] \in Counter /\ Life \in 1..Forever
    BY <1>1, <1>2 DEF Life, Forever
  <2>2. Expiring(k) = [count |-> rec[k].count, left |-> Life]
    BY <1>2, <2>1 DEF Expiring, Counter
  <2>3. Expiring(k) \in Counter /\ Expiring(k).count = rec[k].count
    BY <2>1, <2>2 DEF Counter
  <2>4. None \notin Counter
    BY ThrottleAssumption
  <2> QED
    BY <1>1, <1>2, <2>3, <2>4
<1>3. CASE rec[k] = None
  BY <1>1, <1>3 DEF Expiring
<1> QED
  BY <1>2, <1>3

(* The key at hand is not among those behind.                              *)
LEMMA NotBehind ==
  ASSUME NEW q \in Request, Walk(q)
  PROVE  /\ q.keys[q.at] \notin Behind(q) /\ q.keys[q.at] \in KeySet(q)
         /\ Behind(q) \subseteq KeySet(q)
<1>1. /\ Len(q.keys) \in 1..2 /\ q.at \in 1..Len(q.keys) /\ DOMAIN q.keys = 1..Len(q.keys)
      /\ \A i, j \in 1..Len(q.keys) : q.keys[i] = q.keys[j] => i = j
  BY InRequest, ListShape DEF Walk, Placed
<1>2. \A i \in 1..(q.at - 1) : i \in 1..Len(q.keys) /\ i # q.at
  BY <1>1
<1> QED
  BY <1>1, <1>2 DEF Behind, KeySet

LEMMA RecordStep ==
  ASSUME Typed, NEW r \in Requests, RecordFailure(r) PROVE Typed' /\ Settles(r)
<1>1. PICK q \in Request, k \in Key : q = req[r] /\ k = Here(r)
  BY Under DEF RecordFailure, In
<1>2. /\ Walk(q) /\ k = q.keys[q.at] /\ q.stage = "count" /\ q # None
      /\ rec' = [rec EXCEPT ![k] = Counted(k)] /\ UNCHANGED <<op, conf, faults>>
  BY <1>1, Under DEF RecordFailure, In
<1>3. PICK c : c = [q EXCEPT !.counted = q.counted \cup {k}]
  OBVIOUS
<1>4. /\ c \in Request /\ c.keys = q.keys /\ c.at = q.at /\ c.right = q.right
      /\ c.checked = q.checked /\ c.counted = q.counted \cup {k} /\ c.cleared = q.cleared
      /\ c.stage = q.stage
  BY <1>3, CountedToo
<1>5. rec' \in [Key -> Counter \cup {None}] /\ faults' \in 0..MaxFaults
  BY <1>2, CountedShape DEF Typed, TypeOK
<1>6. /\ Count(k)' = Count(k) + 1
      /\ \A d \in Key : d # k => Count(d)' = Count(d)
  <2>1. Counted(k) # None /\ rec'[k] = Counted(k) /\ \A d \in Key : d # k => rec'[d] = rec[d]
    BY <1>2, CountedShape, ThrottleAssumption DEF Typed, TypeOK
  <2> QED
    BY <2>1, CountedShape DEF Count
<1>7. Closed => Owes(q, k)
  BY <1>2, NotBehind DEF Owes, Walk
(* The expiry comes next, or the next key, or the answer.                  *)
<1>8. PICK p : p = IF Redis /\ Counted(k).count = 1 THEN [c EXCEPT !.stage = "expire"]
                   ELSE Onward(c, "count", "wrong")
  OBVIOUS
<1>9. req' = [req EXCEPT ![r] = p]
  <2>1. req' = [req EXCEPT ![r] =
                 IF Redis /\ Counted(Here(r)).count = 1
                 THEN [[req[r] EXCEPT !.counted = req[r].counted \cup {Here(r)}]
                         EXCEPT !.stage = "expire"]
                 ELSE Onward([req[r] EXCEPT !.counted = req[r].counted \cup {Here(r)}],
                             "count", "wrong")]
    BY DEF RecordFailure
  <2> QED
    BY <1>1, <1>3, <1>8, <2>1, Zenon
<1>10. p \in Request /\ Walk(p) /\ p.checked = q.checked /\ p.counted = q.counted \cup {k}
  <2>1. CASE p = [c EXCEPT !.stage = "expire"]
    <3>1. /\ p \in Request /\ p.keys = q.keys /\ p.at = q.at /\ p.right = q.right
          /\ p.stage = "expire" /\ p.checked = q.checked /\ p.counted = q.counted \cup {k}
          /\ p.cleared = q.cleared
      BY <1>4, <2>1, Staged DEF Stages
    <3>2. KeySet(p) = KeySet(q) /\ Behind(p) = Behind(q)
      BY <3>1 DEF KeySet, Behind
    <3>3. Closed => p.checked = KeySet(p) /\ p.counted = Behind(p) \cup {p.keys[p.at]}
      BY <1>2, <3>1, <3>2 DEF Walk
    <3> QED
      BY <1>2, <3>1, <3>3 DEF Walk, Placed
  <2>2. CASE p = Onward(c, "count", "wrong")
    <3>1. "count" \in Stages /\ "wrong" \in Stages
      BY DEF Stages
    <3>2. /\ p \in Request /\ Placed(p) /\ p.keys = q.keys
          /\ p.checked = c.checked /\ p.counted = c.counted
          /\ \A i, j \in 1..Len(p.keys) : p.keys[i] = p.keys[j] => i = j
          /\ KeySet(p) = KeySet(q)
          /\ \/ p.stage = "count" /\ Behind(p) = Behind(q) \cup {k}
             \/ p.stage = "wrong" /\ KeySet(q) = Behind(q) \cup {k}
      BY <1>2, <1>4, <2>2, <3>1, Passes
    <3> QED
      BY <1>2, <1>4, <3>2 DEF Walk
  <2> QED
    BY <1>8, <2>1, <2>2
<1>11. Typed' /\ req'[r] = p /\ \A s \in Requests : s # r => req'[s] = req[s]
  BY <1>2, <1>5, <1>9, <1>10, Moves
<1>12. /\ ~Owes(p, k)
       /\ \A d \in Key : d # k => (Owes(p, d) => Owes(q, d))
  BY <1>2, <1>10 DEF Owes
<1>13. ASSUME Closed, NEW d \in Key
       PROVE  \/ Count(d)' <= Count(d) /\ (Owes(req'[r], d) => Owes(req[r], d))
              \/ Count(d)' = Count(d) + 1 /\ Owes(req[r], d) /\ ~Owes(req'[r], d)
  <2>1. CASE d = k
    BY <1>1, <1>6, <1>7, <1>11, <1>12, <1>13, <2>1
  <2>2. CASE d # k
    <3>1. Count(d)' <= Count(d)
      BY <1>6, <2>2, Counts
    <3> QED
      BY <1>1, <1>11, <1>12, <2>2, <3>1
  <2> QED
    BY <2>1, <2>2
<1> QED
  BY <1>2, <1>11, <1>13 DEF Settles

LEMMA ExpiryStep ==
  ASSUME Typed, NEW r \in Requests, SetExpiry(r) PROVE Typed' /\ Settles(r)
<1>1. PICK q \in Request, k \in Key : q = req[r] /\ k = Here(r)
  BY Under DEF SetExpiry, In
<1>2. /\ Walk(q) /\ k = q.keys[q.at] /\ q.stage = "expire" /\ q # None
      /\ rec' = [rec EXCEPT ![k] = Expiring(k)] /\ UNCHANGED <<op, conf, faults>>
  BY <1>1, Under DEF SetExpiry, In
<1>3. PICK p : p = Onward(q, "count", "wrong")
  OBVIOUS
<1>4. req' = [req EXCEPT ![r] = p]
  BY <1>1, <1>3 DEF SetExpiry
<1>5. rec' \in [Key -> Counter \cup {None}] /\ faults' \in 0..MaxFaults
  BY <1>2, ExpiringShape DEF Typed, TypeOK
<1>6. \A d \in Key : Count(d)' = Count(d)
  <2>1. rec'[k] = Expiring(k) /\ \A d \in Key : d # k => rec'[d] = rec[d]
    BY <1>2 DEF Typed, TypeOK
  <2> QED
    BY <2>1, ExpiringShape DEF Count
<1>7. "count" \in Stages /\ "wrong" \in Stages
  BY DEF Stages
<1>8. /\ p \in Request /\ Placed(p) /\ p.keys = q.keys
      /\ p.checked = q.checked /\ p.counted = q.counted
      /\ \A i, j \in 1..Len(p.keys) : p.keys[i] = p.keys[j] => i = j
      /\ KeySet(p) = KeySet(q)
      /\ \/ p.stage = "count" /\ Behind(p) = Behind(q) \cup {k}
         \/ p.stage = "wrong" /\ KeySet(q) = Behind(q) \cup {k}
  BY <1>2, <1>3, <1>7, Passes
<1>9. Walk(p)
  BY <1>2, <1>8 DEF Walk
<1>10. Typed' /\ req'[r] = p /\ \A s \in Requests : s # r => req'[s] = req[s]
  BY <1>2, <1>4, <1>5, <1>8, <1>9, Moves
<1>11. \A d \in Key : Count(d)' <= Count(d) /\ (Owes(p, d) => Owes(q, d))
  BY <1>2, <1>6, <1>8, Counts DEF Owes
<1> QED
  BY <1>1, <1>2, <1>10, <1>11 DEF Settles

LEMMA ClearStep ==
  ASSUME Typed, NEW r \in Requests, Clear(r) PROVE Typed' /\ Settles(r)
<1>1. PICK q \in Request, k \in Key : q = req[r] /\ k = Here(r)
  BY Under DEF Clear, In
<1>2. /\ Walk(q) /\ k = q.keys[q.at] /\ q.stage = "clear" /\ q # None
      /\ rec' = [rec EXCEPT ![k] = None] /\ UNCHANGED <<op, conf, faults>>
  BY <1>1, Under DEF Clear, In
<1>3. PICK c : c = [q EXCEPT !.cleared = q.cleared \cup {k}]
  OBVIOUS
<1>4. PICK p : p = Onward(c, "clear", "accepted")
  OBVIOUS
<1>5. req' = [req EXCEPT ![r] = p]
  <2>1. req' = [req EXCEPT ![r] =
          Onward([req[r] EXCEPT !.cleared = req[r].cleared \cup {Here(r)}], "clear", "accepted")]
    BY DEF Clear
  <2> QED
    BY <1>1, <1>3, <1>4, <2>1, Zenon
<1>6. /\ c \in Request /\ c.keys = q.keys /\ c.at = q.at /\ c.right = q.right
      /\ c.checked = q.checked /\ c.counted = q.counted /\ c.cleared = q.cleared \cup {k}
  BY <1>3, ClearedToo
<1>7. rec' \in [Key -> Counter \cup {None}] /\ faults' \in 0..MaxFaults
  BY <1>2 DEF Typed, TypeOK
<1>8. \A d \in Key : Count(d)' <= Count(d)
  <2>1. rec'[k] = None /\ \A d \in Key : d # k => rec'[d] = rec[d]
    BY <1>2 DEF Typed, TypeOK
  <2> QED
    BY <2>1, Counts DEF Count
<1>9. "clear" \in Stages /\ "accepted" \in Stages
  BY DEF Stages
<1>10. /\ p \in Request /\ Placed(p) /\ p.keys = q.keys /\ p.right = c.right
       /\ p.checked = c.checked /\ p.cleared = c.cleared
       /\ \A i, j \in 1..Len(p.keys) : p.keys[i] = p.keys[j] => i = j
       /\ KeySet(p) = KeySet(q)
       /\ \/ p.stage = "clear" /\ Behind(p) = Behind(q) \cup {k}
          \/ p.stage = "accepted" /\ KeySet(q) = Behind(q) \cup {k}
  BY <1>2, <1>4, <1>6, <1>9, Passes
<1>11. Walk(p)
  BY <1>2, <1>6, <1>10 DEF Walk
<1>12. Typed' /\ req'[r] = p /\ \A s \in Requests : s # r => req'[s] = req[s]
  BY <1>2, <1>5, <1>7, <1>10, <1>11, Moves
<1>13. \A d \in Key : ~Owes(p, d)
  BY <1>10 DEF Owes
<1> QED
  BY <1>2, <1>8, <1>12, <1>13 DEF Settles

(* A failed command costs one of the faults the runs allow for.            *)
LEMMA FaultBound == ASSUME Typed, Fault PROVE faults' \in 0..MaxFaults
<1>1. faults \in 0..MaxFaults /\ MaxFaults \in Nat
  BY ThrottleAssumption DEF Typed, TypeOK
<1>2. faults < MaxFaults /\ faults' = faults + 1
  BY DEF Fault
<1> QED
  BY <1>1, <1>2

LEMMA OverStep ==
  ASSUME Typed, NEW r \in Requests, Answer(r) \/ Die(r) PROVE Typed' /\ Settles(r)
<1>1. req' = [req EXCEPT ![r] = None] /\ UNCHANGED <<op, conf, rec>>
  BY DEF Answer, Die
<1>2. faults' \in 0..MaxFaults
  <2>1. CASE Answer(r)
    BY <2>1 DEF Answer, Typed, TypeOK
  <2>2. CASE Die(r)
    BY <2>2, FaultBound DEF Die
  <2> QED
    BY <2>1, <2>2
<1>3. rec' \in [Key -> Counter \cup {None}]
  BY <1>1 DEF Typed, TypeOK
<1>4. Typed' /\ req'[r] = None /\ \A s \in Requests : s # r => req'[s] = req[s]
  BY <1>1, <1>2, <1>3, Leaves
<1>5. \A d \in Key : Count(d)' <= Count(d) /\ ~Owes(req'[r], d)
  BY <1>1, <1>4, Counts DEF Count, Owes
<1> QED
  BY <1>1, <1>4, <1>5 DEF Settles

LEMMA FailStep ==
  ASSUME Typed, NEW r \in Requests, CommandFails(r) PROVE Typed' /\ Settles(r)
<1>1. PICK q \in Request, k \in Key : q = req[r] /\ k = Here(r)
  BY Under DEF CommandFails
<1>2. /\ Walk(q) /\ k = q.keys[q.at] /\ q # None /\ Redis
      /\ q.stage \in {"check", "count", "expire", "clear"}
      /\ faults' \in 0..MaxFaults /\ UNCHANGED <<op, conf>>
  BY <1>1, Under, FaultBound DEF CommandFails
<1>3. PICK p : p = Unanswered(q)
  OBVIOUS
<1>4. req' = [req EXCEPT ![r] = p]
  BY <1>1, <1>3 DEF CommandFails
(* Executed or not, only the count of a failure adds to a counter.          *)
<1>5. /\ rec' \in [Key -> Counter \cup {None}]
      /\ \A d \in Key : d # k => Count(d)' = Count(d)
      /\ Count(k)' <= Count(k) \/ (q.stage = "count" /\ Count(k)' = Count(k) + 1)
  <2>0. rec \in [Key -> Counter \cup {None}] /\ None \notin Counter
    BY ThrottleAssumption DEF Typed, TypeOK
  <2>1. CASE rec' = rec
    BY <2>0, <2>1, Counts DEF Count
  <2>2. CASE q.stage = "check" /\ rec' = [rec EXCEPT ![k] = rec[k]]
    BY <2>0, <2>2, Counts DEF Count
  <2>3. CASE q.stage = "count" /\ rec' = [rec EXCEPT ![k] = Counted(k)]
    <3>1. rec' \in [Key -> Counter \cup {None}]
      BY <2>3, CountedShape
    <3>2. rec'[k] = Counted(k) /\ \A d \in Key : d # k => rec'[d] = rec[d]
      BY <2>0, <2>3
    <3> QED
      BY <2>0, <2>3, <3>1, <3>2, CountedShape DEF Count
  <2>4. CASE q.stage = "expire" /\ rec' = [rec EXCEPT ![k] = Expiring(k)]
    <3>1. rec' \in [Key -> Counter \cup {None}]
      BY <2>4, ExpiringShape
    <3>2. rec'[k] = Expiring(k) /\ \A d \in Key : d # k => rec'[d] = rec[d]
      BY <2>0, <2>4
    <3>3. Count(k)' = Count(k)
      BY <3>2, ExpiringShape DEF Count
    <3> QED
      BY <3>1, <3>2, <3>3, Counts DEF Count
  <2>5. CASE q.stage = "clear" /\ rec' = [rec EXCEPT ![k] = None]
    BY <2>0, <2>5, Counts DEF Count
  <2> QED
    BY <1>1, <1>2, <2>1, <2>2, <2>3, <2>4, <2>5 DEF CommandFails
<1>6. p \in Request /\ Walk(p) /\ (conf.failClosed => p.stage = "unavailable")
  <2>1. CASE conf.failClosed
    <3>1. p = [q EXCEPT !.stage = "unavailable"]
      BY <1>3, <2>1 DEF Unanswered
    <3>2. /\ p \in Request /\ p.keys = q.keys /\ p.at = q.at /\ p.stage = "unavailable"
      BY <3>1, Staged DEF Stages
    <3> QED
      BY <1>2, <3>2 DEF Walk, Placed
  <2>2. CASE ~conf.failClosed
    <3>1. PICK stage \in Stages, after \in Stages :
             /\ p = Onward(q, stage, after) /\ stage \in {"check", "count", "clear"}
             /\ after \in {"verify", "wrong", "accepted"}
             /\ stage = "clear" => q.stage = "clear"
      BY <1>2, <1>3, <2>2 DEF Unanswered, Stages
    <3>2. /\ p \in Request /\ Placed(p) /\ p.keys = q.keys /\ p.right = q.right
          /\ \A i, j \in 1..Len(p.keys) : p.keys[i] = p.keys[j] => i = j
          /\ p.stage = stage \/ (p.stage = after /\ p.at = 1)
      BY <1>2, <3>1, Passes
    <3>3. ~Closed
      BY <1>2, <2>2 DEF Closed
    <3> QED
      BY <1>2, <2>2, <3>1, <3>2, <3>3 DEF Walk
  <2> QED
    BY <2>1, <2>2
<1>7. Typed' /\ req'[r] = p /\ \A s \in Requests : s # r => req'[s] = req[s]
  BY <1>2, <1>4, <1>5, <1>6, Moves
<1>8. ASSUME Closed
      PROVE  /\ \A d \in Key : ~Owes(p, d)
             /\ q.stage = "count" => Owes(q, k)
  <2>1. conf.failClosed
    BY <1>2, <1>8 DEF Closed
  <2>2. q.stage = "count" => q.checked = KeySet(q) /\ q.counted = Behind(q)
    BY <1>2, <1>8 DEF Walk
  <2> QED
    BY <1>2, <1>6, <2>1, <2>2, NotBehind DEF Owes
<1>9. ASSUME Closed, NEW d \in Key
      PROVE  \/ Count(d)' <= Count(d) /\ (Owes(req'[r], d) => Owes(req[r], d))
             \/ Count(d)' = Count(d) + 1 /\ Owes(req[r], d) /\ ~Owes(req'[r], d)
  <2>1. CASE d = k
    BY <1>1, <1>5, <1>7, <1>8, <1>9, <2>1
  <2>2. CASE d # k
    <3>1. Count(d)' <= Count(d)
      BY <1>5, <2>2, Counts
    <3> QED
      BY <1>7, <1>8, <1>9, <3>1
  <2> QED
    BY <2>1, <2>2
<1> QED
  BY <1>2, <1>7, <1>9 DEF Settles

(***************************************************************************)
(* Steps that are nobody's: what is left of every counter, and a restart.  *)
(***************************************************************************)
Settled ==
  /\ conf' = conf
  /\ \A k \in Key : Count(k)' <= Count(k)
  /\ \A s \in Requests, k \in Key : Owes(req'[s], k) => Owes(req[s], k)

LEMMA AgedShape ==
  ASSUME NEW c \in Counter \cup {None}
  PROVE  /\ Aged(c) \in Counter \cup {None}
         /\ c = None => Aged(c) = None
         /\ c # None /\ Aged(c) # None => Aged(c).count = c.count /\ Aged(c).left <= c.left
         /\ c # None /\ Aged(c) = None => c.left = 1
<1>1. CASE c = None
  BY <1>1 DEF Aged
<1>2. CASE c # None /\ c.left = Forever
  BY <1>2, ThrottleAssumption DEF Aged, Counter, Forever
<1>3. CASE c # None /\ c.left # Forever /\ c.left = 1
  BY <1>3 DEF Aged
<1>4. CASE c # None /\ c.left # Forever /\ c.left # 1
  <2>1. /\ c.count \in Nat \ {0} /\ c.left \in 1..Forever /\ Forever \in Nat
        /\ c = [count |-> c.count, left |-> c.left]
    BY <1>4, ThrottleAssumption DEF Counter, Forever
  <2>2. Aged(c) = [count |-> c.count, left |-> c.left - 1]
    BY <1>4, <2>1 DEF Aged
  <2>3. c.left - 1 \in 1..Forever
    BY <1>4, <2>1
  <2>4. Aged(c) \in Counter /\ Aged(c).count = c.count /\ Aged(c).left = c.left - 1
    BY <2>1, <2>2, <2>3 DEF Counter
  <2>5. Aged(c) # None
    BY <2>4, ThrottleAssumption
  <2> QED
    BY <1>4, <2>1, <2>4, <2>5
<1> QED
  BY <1>1, <1>2, <1>3, <1>4

LEMMA TickStep == ASSUME Typed, Tick PROVE Typed' /\ Settled
<1>1. rec \in [Key -> Counter \cup {None}] /\ UNCHANGED <<op, conf, req, faults>>
      /\ rec' = [k \in Key |-> Aged(rec[k])]
  BY DEF Tick, Typed, TypeOK
<1>2. rec' \in [Key -> Counter \cup {None}]
  BY <1>1, AgedShape
<1>3. Typed'
  BY <1>1, <1>2 DEF Typed, TypeOK, Walks, Walk, Closed, Redis
<1>4. ASSUME NEW k \in Key PROVE Count(k)' <= Count(k)
  <2>1. rec'[k] = Aged(rec[k]) /\ rec[k] \in Counter \cup {None}
    BY <1>1
  <2>2. /\ rec[k] = None => rec'[k] = None
        /\ rec[k] # None /\ rec'[k] # None => rec'[k].count = rec[k].count
    BY <2>1, AgedShape
  <2> QED
    BY <2>2, Counts DEF Count
<1> QED
  BY <1>1, <1>3, <1>4 DEF Settled

LEMMA RestartStep == ASSUME Typed, Restart PROVE Typed' /\ Settled
<1>1. /\ rec' = [k \in Key |-> None] /\ req' = [r \in Requests |-> None]
      /\ UNCHANGED <<op, conf>> /\ faults' \in 0..MaxFaults
  BY FaultBound DEF Restart
<1>2. Typed'
  BY <1>1 DEF Typed, TypeOK, Walks
<1>3. \A k \in Key : Count(k)' <= Count(k)
  BY <1>1, Counts DEF Count
<1> QED
  BY <1>1, <1>2, <1>3 DEF Settled, Owes

LEMMA StutterStep == ASSUME Typed, UNCHANGED vars PROVE Typed' /\ Settled
<1>1. Typed'
  BY DEF vars, Typed, TypeOK, Walks, Walk, Closed, Redis
<1>2. \A k \in Key : Count(k)' <= Count(k)
  BY Counts DEF vars, Count
<1> QED
  BY <1>1, <1>2 DEF vars, Settled

LEMMA AnyStep ==
  ASSUME Typed, [Next]_vars
  PROVE  Typed' /\ (Settled \/ \E r \in Requests : Settles(r))
<1>1. ASSUME NEW r \in Requests, NEW e \in Emails, NEW h \in Hosts, NEW right \in BOOLEAN,
             Begin(r, e, h, right)
      PROVE  Typed' /\ Settles(r)
  BY <1>1, BeginStep
<1>2. ASSUME NEW r \in Requests, Step(r) PROVE Typed' /\ Settles(r)
  BY <1>2, CheckStep, VerifyStep, RecordStep, ExpiryStep, ClearStep, OverStep DEF Step
<1>3. ASSUME NEW r \in Requests, CommandFails(r) \/ Die(r) PROVE Typed' /\ Settles(r)
  BY <1>3, FailStep, OverStep
<1> QED
  BY <1>1, <1>2, <1>3, TickStep, RestartStep, StutterStep DEF Next

LEMMA TypedAtFirst == Init => Typed
<1> SUFFICES ASSUME Init PROVE Typed
  OBVIOUS
<1>1. TypeOK
  BY ThrottleAssumption DEF Init, TypeOK
<1>2. Walks
  BY DEF Init, Walks
<1> QED
  BY <1>1, <1>2 DEF Typed

LEMMA TypedAlways == Spec => []Typed
<1>1. Typed /\ [Next]_vars => Typed'
  BY AnyStep
<1> QED
  BY <1>1, TypedAtFirst, PTL DEF Spec

(* Every reachable state is well typed.                                    *)
THEOREM ThrottleTypeCorrect == Spec => []TypeOK
<1>1. Typed => TypeOK
  BY DEF Typed
<1> QED
  BY <1>1, TypedAlways, PTL

(* Whoever was told that a credential is right or wrong was not locked out *)
(* when asked, and every key's counter was told as well: a handler's walk  *)
(* along its keys ends only where every command on them was executed, or   *)
(* where the login was stopped (auth.py:330 to 406).                       *)
THEOREM Answered == Spec => []AnswersAreCounted
<1>1. ASSUME Typed PROVE AnswersAreCounted
  <2> SUFFICES ASSUME NEW r \in Requests, req[r] # None, Closed
               PROVE  /\ req[r].stage = "wrong" => req[r].counted = KeySet(req[r])
                      /\ req[r].stage = "accepted" /\ op # "forgot" =>
                           req[r].cleared = KeySet(req[r])
                      /\ req[r].stage \in {"wrong", "accepted"} =>
                           req[r].checked = KeySet(req[r])
    BY DEF AnswersAreCounted
  <2>1. PICK q : q = req[r] /\ Walk(q)
    BY <1>1, Under
  <2> QED
    BY <2>1 DEF Walk
<1> QED
  BY <1>1, TypedAlways, PTL

(***************************************************************************)
(* The bound on attempts that overlap.                                     *)
(***************************************************************************)
Pending(k) == {r \in Requests : Owes(req[r], k)}
Bounded == Closed => \A k \in Key :
  Count(k) + Cardinality(Pending(k)) < MaxAttempts + Cardinality(Requests)

LEMMA PendingSize ==
  ASSUME NEW k \in Key
  PROVE  /\ IsFiniteSet(Pending(k)) /\ Cardinality(Pending(k)) \in Nat
         /\ Cardinality(Requests) \in Nat /\ Cardinality(Pending(k)) <= Cardinality(Requests)
         /\ IsFiniteSet(Pending(k)')
         /\ Cardinality(Pending(k))' \in Nat /\ Cardinality(Pending(k))' <= Cardinality(Requests)
<1>1. IsFiniteSet(Requests) /\ Cardinality(Requests) \in Nat
  BY ThrottleAssumption, FS_CardinalityType
<1>2. \A S \in SUBSET Requests : /\ IsFiniteSet(S) /\ Cardinality(S) \in Nat
                                 /\ Cardinality(S) <= Cardinality(Requests)
  BY <1>1, FS_Subset, FS_CardinalityType
<1>3. Pending(k) \in SUBSET Requests /\ Pending(k)' \in SUBSET Requests
  BY DEF Pending
<1> QED
  BY <1>1, <1>2, <1>3

(* No step lets a counter and the attempts it has yet to hear of grow past *)
(* the limit together: a request becomes one of them below it only.        *)
LEMMA BoundedStep ==
  ASSUME Typed, Typed', Bounded, Settled \/ \E r \in Requests : Settles(r)
  PROVE  Bounded'
<1>1. conf' = conf
  BY DEF Settled, Settles
<1> SUFFICES ASSUME Closed, NEW k \in Key
             PROVE  Count(k)' + Cardinality(Pending(k))' < MaxAttempts + Cardinality(Requests)
  BY <1>1 DEF Bounded, Closed, Redis
<1>2. /\ Count(k) + Cardinality(Pending(k)) < MaxAttempts + Cardinality(Requests)
      /\ Count(k) \in Nat /\ Count(k)' \in Nat /\ MaxAttempts \in Nat
  BY Counts, ThrottleAssumption DEF Bounded, Typed, TypeOK, Count, Counter
<1>3. /\ IsFiniteSet(Pending(k)) /\ Cardinality(Pending(k)) \in Nat
      /\ Cardinality(Requests) \in Nat
      /\ Cardinality(Pending(k))' \in Nat /\ Cardinality(Pending(k))' <= Cardinality(Requests)
  BY PendingSize
<1>4. CASE Count(k)' < MaxAttempts
  BY <1>2, <1>3, <1>4
<1>5. CASE Count(k)' <= Count(k) /\ Pending(k)' \subseteq Pending(k)
  <2>1. Cardinality(Pending(k)') <= Cardinality(Pending(k))
    BY <1>3, <1>5, FS_Subset
  <2> QED
    BY <1>2, <1>3, <1>5, <2>1
<1>6. ASSUME NEW r \in Requests, Settles(r),
             Count(k)' = Count(k) + 1, Owes(req[r], k), ~Owes(req'[r], k)
      PROVE  Count(k)' + Cardinality(Pending(k))' < MaxAttempts + Cardinality(Requests)
  <2>1. Pending(k)' = Pending(k) \ {r} /\ r \in Pending(k)
    BY <1>6 DEF Pending, Settles
  <2>2. Cardinality(Pending(k)') = Cardinality(Pending(k)) - 1
    BY <1>3, <2>1, FS_RemoveElement
  <2> QED
    BY <1>2, <1>3, <1>6, <2>2
<1>7. CASE Settled
  BY <1>5, <1>7 DEF Settled, Pending
<1>8. ASSUME NEW r \in Requests, Settles(r)
      PROVE  Count(k)' + Cardinality(Pending(k))' < MaxAttempts + Cardinality(Requests)
  <2>1. \/ Count(k)' < MaxAttempts
        \/ Count(k)' <= Count(k) /\ (Owes(req'[r], k) => Owes(req[r], k))
        \/ Count(k)' = Count(k) + 1 /\ Owes(req[r], k) /\ ~Owes(req'[r], k)
    BY <1>8 DEF Settles
  <2>2. CASE Count(k)' <= Count(k) /\ (Owes(req'[r], k) => Owes(req[r], k))
    <3>1. Pending(k)' \subseteq Pending(k)
      BY <1>8, <2>2 DEF Pending, Settles
    <3> QED
      BY <1>5, <2>2, <3>1
  <2> QED
    BY <1>4, <1>6, <1>8, <2>1, <2>2
<1> QED
  BY <1>7, <1>8

(* Attempts that overlap are checked before any of them is counted: more   *)
(* than the limit get through, never more than one for each further        *)
(* request in progress (throttle.py:60 and 160, auth.py:331 and 366).      *)
THEOREM Overlap == Spec => []OverlapIsBounded
<1>1. ASSUME Init PROVE Bounded
  <2> SUFFICES ASSUME NEW k \in Key
               PROVE  Count(k) + Cardinality(Pending(k)) < MaxAttempts + Cardinality(Requests)
    BY DEF Bounded
  <2>1. Count(k) = 0
    BY <1>1 DEF Init, Count
  <2> QED
    BY <2>1, PendingSize, ThrottleAssumption
<1>2. Typed /\ Typed' /\ Bounded /\ [Next]_vars => Bounded'
  BY AnyStep, BoundedStep
<1>3. Typed /\ Bounded => OverlapIsBounded
  <2> SUFFICES ASSUME Typed, Bounded, Closed, NEW k \in Key
               PROVE  Count(k) < MaxAttempts + Cardinality(Requests)
    BY DEF OverlapIsBounded
  <2>1. Count(k) + Cardinality(Pending(k)) < MaxAttempts + Cardinality(Requests)
    BY DEF Bounded
  <2> QED
    BY <2>1, Counts, PendingSize, ThrottleAssumption
<1> QED
  BY <1>1, <1>2, <1>3, TypedAlways, PTL DEF Spec

(***************************************************************************)
(* What a counter's time does in one step.                                 *)
(***************************************************************************)
RunsOut(k) ==
  rec[k] # None =>
    IF rec'[k] # None
    THEN /\ rec'[k].count >= rec[k].count
         /\ \/ rec'[k].left <= rec[k].left
            \/ \E r \in Requests : In(r, "expire") /\ k = Here(r) /\ req'[r] # req[r]
    ELSE rec[k].left = 1 \/ ClearedByGood(k) \/ faults' # faults

LEMMA Kept == ASSUME Typed, NEW k \in Key, rec'[k] = rec[k] PROVE RunsOut(k)
<1>1. rec[k] # None => rec[k].count \in Nat /\ rec[k].left \in Int
  BY DEF Typed, TypeOK, Counter
<1> QED
  BY <1>1 DEF RunsOut

LEMMA CountedKeepsTime ==
  ASSUME Typed, NEW k \in Key, rec'[k] = Counted(k) PROVE RunsOut(k)
<1>1. rec[k] # None => rec[k].count \in Nat /\ rec[k].left \in Int /\ Count(k) = rec[k].count
  BY DEF Typed, TypeOK, Counter, Count
<1>2. /\ Counted(k) # None /\ Counted(k).count = Count(k) + 1
      /\ rec[k] # None => Counted(k).left = rec[k].left
  BY CountedShape, ThrottleAssumption
<1> QED
  BY <1>1, <1>2 DEF RunsOut

LEMMA ExpiryIsLate ==
  ASSUME Typed, NEW r \in Requests, NEW k \in Key, k = Here(r), In(r, "expire"),
         req'[r] # req[r], rec'[k] = Expiring(k)
  PROVE  RunsOut(k)
<1>1. rec[k] # None => rec[k].count \in Nat
  BY DEF Typed, TypeOK, Counter
<1>2. rec[k] # None => Expiring(k) # None /\ Expiring(k).count = rec[k].count
  BY ExpiringShape
<1> QED
  BY <1>1, <1>2 DEF RunsOut

LEMMA RecordRunsOut ==
  ASSUME Typed, NEW r \in Requests, RecordFailure(r), NEW k \in Key PROVE RunsOut(k)
<1>1. rec' = [rec EXCEPT ![Here(r)] = Counted(Here(r))] /\ Here(r) \in Key
  BY Under DEF RecordFailure, In
<1>2. CASE k = Here(r)
  BY <1>1, <1>2, CountedKeepsTime DEF Typed, TypeOK
<1>3. CASE k # Here(r)
  BY <1>1, <1>3, Kept DEF Typed, TypeOK
<1> QED
  BY <1>2, <1>3

LEMMA ExpiryRunsOut ==
  ASSUME Typed, NEW r \in Requests, SetExpiry(r), NEW k \in Key PROVE RunsOut(k)
<1>1. /\ rec' = [rec EXCEPT ![Here(r)] = Expiring(Here(r))] /\ Here(r) \in Key
      /\ req[r] \in Request /\ Walk(req[r]) /\ In(r, "expire")
  BY Under DEF SetExpiry, In
<1>2. req'[r] # req[r]
  <2>1. PICK p : p = Onward(req[r], "count", "wrong")
    OBVIOUS
  <2>2. req'[r] = p
    BY <2>1 DEF SetExpiry, Typed, TypeOK
  <2>3. p.stage \in {"count", "wrong"}
    BY <1>1, <2>1, OnwardShape DEF Walk, Stages
  <2> QED
    BY <1>1, <2>2, <2>3 DEF In
<1>3. CASE k = Here(r)
  BY <1>1, <1>2, <1>3, ExpiryIsLate DEF Typed, TypeOK
<1>4. CASE k # Here(r)
  BY <1>1, <1>4, Kept DEF Typed, TypeOK
<1> QED
  BY <1>3, <1>4

LEMMA ClearRunsOut ==
  ASSUME Typed, NEW r \in Requests, Clear(r), NEW k \in Key PROVE RunsOut(k)
<1>1. PICK q \in Request, h \in Key : q = req[r] /\ h = Here(r)
  BY Under DEF Clear, In
<1>2. /\ Walk(q) /\ h = q.keys[q.at] /\ q.stage = "clear" /\ In(r, "clear")
      /\ rec' = [rec EXCEPT ![h] = None]
  BY <1>1, Under DEF Clear, In
<1>3. PICK c : c = [q EXCEPT !.cleared = q.cleared \cup {h}]
  OBVIOUS
<1>4. PICK p : p = Onward(c, "clear", "accepted")
  OBVIOUS
<1>5. req'[r] = p
  <2>1. req' = [req EXCEPT ![r] =
          Onward([req[r] EXCEPT !.cleared = req[r].cleared \cup {Here(r)}], "clear", "accepted")]
    BY DEF Clear
  <2>2. req' = [req EXCEPT ![r] = p]
    BY <1>1, <1>3, <1>4, <2>1, Zenon
  <2> QED
    BY <2>2 DEF Typed, TypeOK
<1>6. c \in Request /\ c.keys = q.keys /\ c.at = q.at
  BY <1>3, ClearedToo
<1>7. "clear" \in Stages /\ "accepted" \in Stages
  BY DEF Stages
<1>8. Placed(c) /\ q.at \in 1..3
  BY <1>2, <1>6, InRequest DEF Walk, Placed
<1>9. p.stage = "accepted" \/ p.at = q.at + 1
  BY <1>4, <1>6, <1>7, <1>8, OnwardShape
<1>10. p # q
  BY <1>2, <1>8, <1>9
<1>11. q.right /\ (Closed => h \in q.checked)
  BY <1>2, NotBehind DEF Walk
<1>12. ClearedByGood(h)
  BY <1>1, <1>2, <1>5, <1>10, <1>11 DEF ClearedByGood
<1>13. CASE k = h
  <2>1. rec'[k] = None
    BY <1>2, <1>13 DEF Typed, TypeOK
  <2> QED
    BY <1>12, <1>13, <2>1 DEF RunsOut
<1>14. CASE k # h
  BY <1>2, <1>14, Kept DEF Typed, TypeOK
<1> QED
  BY <1>13, <1>14

LEMMA FailRunsOut ==
  ASSUME Typed, NEW r \in Requests, CommandFails(r), NEW k \in Key PROVE RunsOut(k)
<1>1. PICK q \in Request, h \in Key : q = req[r] /\ h = Here(r)
  BY Under DEF CommandFails
<1>2. /\ Walk(q) /\ q # None /\ q.stage \in {"check", "count", "expire", "clear"}
      /\ rec \in [Key -> Counter \cup {None}]
  BY <1>1, Under DEF CommandFails, Typed, TypeOK
<1>3. faults' # faults
  BY DEF CommandFails, Fault, Typed, TypeOK
<1>4. CASE rec' = rec
  BY <1>4, Kept
<1>5. CASE q.stage = "check" /\ rec' = [rec EXCEPT ![h] = rec[h]]
  <2>1. rec'[k] = rec[k]
    BY <1>2, <1>5
  <2> QED
    BY <2>1, Kept
<1>6. CASE q.stage = "count" /\ rec' = [rec EXCEPT ![h] = Counted(h)]
  <2>1. rec'[k] = rec[k] \/ (k = h /\ rec'[k] = Counted(k))
    BY <1>2, <1>6
  <2> QED
    BY <2>1, Kept, CountedKeepsTime
<1>7. CASE q.stage = "expire" /\ rec' = [rec EXCEPT ![h] = Expiring(h)]
  <2>1. rec'[k] = rec[k] \/ (k = h /\ rec'[k] = Expiring(k))
    BY <1>2, <1>7
  <2>2. req'[r] # req[r] /\ In(r, "expire")
    <3>1. PICK p : p = Unanswered(q)
      OBVIOUS
    <3>2. req'[r] = p
      BY <1>1, <3>1 DEF CommandFails, Typed, TypeOK
    <3>3. CASE conf.failClosed
      <4>1. p = [q EXCEPT !.stage = "unavailable"]
        BY <3>1, <3>3 DEF Unanswered
      <4>2. p.stage = "unavailable"
        BY <4>1, Staged DEF Stages
      <4> QED
        BY <1>1, <1>2, <1>7, <3>2, <4>2 DEF In
    <3>4. CASE ~conf.failClosed
      <4>1. p = Onward(q, "count", "wrong")
        BY <1>7, <3>1, <3>4 DEF Unanswered
      <4>2. p.stage \in {"count", "wrong"}
        BY <1>2, <4>1, OnwardShape DEF Walk, Stages
      <4> QED
        BY <1>1, <1>2, <1>7, <3>2, <4>2 DEF In
    <3> QED
      BY <3>3, <3>4
  <2> QED
    BY <1>1, <2>1, <2>2, Kept, ExpiryIsLate
<1>8. CASE q.stage = "clear" /\ rec' = [rec EXCEPT ![h] = None]
  <2>1. rec'[k] = rec[k] \/ rec'[k] = None
    BY <1>2, <1>8
  <2>2. rec'[k] = None => RunsOut(k)
    BY <1>3 DEF RunsOut
  <2> QED
    BY <2>1, <2>2, Kept
<1> QED
  BY <1>1, <1>2, <1>4, <1>5, <1>6, <1>7, <1>8 DEF CommandFails

LEMMA TickRunsOut == ASSUME Typed, Tick, NEW k \in Key PROVE RunsOut(k)
<1>1. rec'[k] = Aged(rec[k]) /\ rec[k] \in Counter \cup {None}
  BY DEF Tick, Typed, TypeOK
<1>2. /\ rec[k] # None /\ Aged(rec[k]) # None =>
           Aged(rec[k]).count = rec[k].count /\ Aged(rec[k]).left <= rec[k].left
      /\ rec[k] # None /\ Aged(rec[k]) = None => rec[k].left = 1
  BY <1>1, AgedShape
<1>3. rec[k] # None => rec[k].count \in Nat
  BY <1>1 DEF Counter
<1> QED
  BY <1>1, <1>2, <1>3 DEF RunsOut

LEMMA RestartRunsOut == ASSUME Typed, Restart, NEW k \in Key PROVE RunsOut(k)
<1>1. rec'[k] = None
  BY DEF Restart
<1>2. faults' # faults
  BY DEF Restart, Fault, Typed, TypeOK
<1> QED
  BY <1>1, <1>2 DEF RunsOut

(* A counter only runs out: more failures give it no more time, unless the *)
(* EXPIRE of an earlier window's first failure comes late, and a lock goes *)
(* only with its time, with a good credential whose request had found the  *)
(* key open before, or with the process (throttle.py:62 to 83).            *)
THEOREM Windows == Spec => WindowsOnlyRunOut
<1>1. ASSUME Typed, [Next]_vars, NEW k \in Key PROVE RunsOut(k)
  <2>1. CASE rec' = rec
    BY <1>1, <2>1, Kept
  <2>2. ASSUME NEW r \in Requests, NEW e \in Emails, NEW h \in Hosts, NEW right \in BOOLEAN,
               Begin(r, e, h, right)
        PROVE  rec' = rec
    BY <2>2 DEF Begin
  <2>3. ASSUME NEW r \in Requests, Step(r) PROVE RunsOut(k)
    <3>1. CASE Check(r) \/ Verify(r) \/ Answer(r)
      BY <2>1, <3>1 DEF Check, Verify, Answer
    <3> QED
      BY <1>1, <2>3, <3>1, RecordRunsOut, ExpiryRunsOut, ClearRunsOut DEF Step
  <2>4. ASSUME NEW r \in Requests, CommandFails(r) \/ Die(r) PROVE RunsOut(k)
    <3>1. CASE Die(r)
      BY <2>1, <3>1 DEF Die
    <3> QED
      BY <1>1, <2>4, <3>1, FailRunsOut
  <2>5. CASE UNCHANGED vars
    BY <2>1, <2>5 DEF vars
  <2> QED
    BY <1>1, <2>1, <2>2, <2>3, <2>4, <2>5, TickRunsOut, RestartRunsOut DEF Next
<1>2. Typed /\ [Next]_vars => [\A k \in Key : RunsOut(k)]_vars
  BY <1>1
<1>3. WindowsOnlyRunOut <=> [][\A k \in Key : RunsOut(k)]_vars
  BY DEF WindowsOnlyRunOut, RunsOut
<1> QED
  BY <1>2, <1>3, TypedAlways, PTL DEF Spec

=============================================================================
