--------------------------- MODULE Approval_proof ---------------------------
(***************************************************************************)
(* Proofs about Approval: types, who may decide a request and when, one    *)
(* decision per request, and events that agree with the table.             *)
(*                                                                         *)
(* The inductive invariant adds to them what a handler still knows of its  *)
(* request when its statement runs: a create owns its id, a decision was   *)
(* allowed and begun inside the window, and one that is about to leave its *)
(* event is the one the row names.                                         *)
(***************************************************************************)
EXTENDS Approval, TLAPS

-----------------------------------------------------------------------------
\* Division with a remainder has one quotient.
LEMMA OneQuotient ==
  ASSUME NEW S \in Nat, S > 0, NEW p \in Int, NEW q \in Int,
         NEW x \in 0..(S-1), NEW y \in 0..(S-1), S * p + x = S * q + y
  PROVE  x = y
<1>1. p = q
  OBVIOUS
<1> QED
  BY <1>1

\* Whole seconds do not change the fraction of a second.
LEMMA WholeSecondsKeepFraction ==
  ASSUME NEW S \in Nat, S > 0, NEW t \in Nat, NEW q \in Nat
  PROVE  (t + S * q) % S = t % S
<1> DEFINE u == t + S * q
<1>1. u \in Nat
  OBVIOUS
<1>2. t = S * (t \div S) + (t % S) /\ t % S \in 0..(S-1) /\ t \div S \in Int
  OBVIOUS
<1>3. u = S * (u \div S) + (u % S) /\ u % S \in 0..(S-1) /\ u \div S \in Int
  <2> HIDE DEF u
  <2> QED
    BY <1>1
<1>4. (t \div S) + q \in Int /\ S * ((t \div S) + q) + (t % S) = u
  BY <1>2
<1> HIDE DEF u
<1>5. u % S = t % S
  BY <1>2, <1>3, <1>4, OneQuotient
<1> QED
  BY <1>5 DEF u

\* The quotient of natural numbers is one, and t is what it says.
LEMMA Division ==
  ASSUME NEW S \in Nat, S > 0, NEW t \in Nat
  PROVE  /\ t \div S \in Nat
         /\ t % S \in 0..(S-1)
         /\ t % S <= t
         /\ t = S * (t \div S) + (t % S)
<1>1. t \div S \in Int /\ t % S \in 0..(S-1) /\ t = S * (t \div S) + (t % S)
  OBVIOUS
<1>2. t % S <= t
  OBVIOUS
<1>3. \A q \in Int : S * q >= 0 => q >= 0
  OBVIOUS
<1>4. S * (t \div S) >= 0
  BY <1>1, <1>2
<1> QED
  BY <1>1, <1>2, <1>3, <1>4

\* What is stored is a time no later than the one it was cut from.
LEMMA StoredBelow ==
  ASSUME NEW t \in Nat
  PROVE  Stored(t) \in Nat /\ Stored(t) <= t
<1>1. Second \in Nat /\ Second > 0
  BY ApprovalAssumption
<1>2. t % Second \in Nat /\ t % Second <= t
  BY <1>1, Division
<1> QED
  BY <1>2 DEF Stored

\* A duration that was stored is whole seconds, and is kept when added.
LEMMA StoredSum ==
  ASSUME NEW t \in Nat, NEW d \in Nat, d % Second = 0
  PROVE  Stored(t + d) = Stored(t) + d
<1>0. Second \in Nat /\ Second > 0
  BY ApprovalAssumption
<1>1. PICK q \in Nat : d = Second * q
  <2>1. d = Second * (d \div Second) + (d % Second) /\ d \div Second \in Nat
    BY <1>0, Division
  <2> DEFINE w == d \div Second
  <2>2. d = Second * w /\ w \in Nat
    BY <1>0, <2>1
  <2> HIDE DEF w
  <2> QED
    BY <2>2
<1>2. (t + d) % Second = t % Second
  BY <1>0, <1>1, WholeSecondsKeepFraction
<1>3. t % Second \in Int
  BY <1>0
<1> QED
  BY <1>2, <1>3 DEF Stored

LEMMA StoredIsWhole ==
  ASSUME NEW t \in Nat
  PROVE  Stored(t) % Second = 0
<1>0. Second \in Nat /\ Second > 0
  BY ApprovalAssumption
<1> DEFINE q == t \div Second
<1>1. q \in Nat /\ t % Second \in Nat /\ t = Second * q + (t % Second)
  BY <1>0, Division
<1>2. Stored(t) = Second * q
  <2> HIDE DEF q
  <2> QED
    BY <1>0, <1>1 DEF Stored
<1> HIDE DEF q
<1>3. (0 + Second * q) % Second = 0 % Second
  BY <1>0, <1>1, WholeSecondsKeepFraction
<1>4. 0 + Second * q = Stored(t)
  BY <1>2, <1>0, <1>1
<1>5. 0 % Second = 0
  BY <1>0
<1> QED
  BY <1>3, <1>4, <1>5

-----------------------------------------------------------------------------
\* A create that waits for its insert: its id is no one else's.
Creating(c) == call[c] # Idle /\ call[c].stage = "write" /\ call[c].verb = "create"

CreateOwnsItsId ==
  \A c \in Caller : Creating(c) =>
    /\ call[c].req \in Request
    /\ ~Exists(call[c].req)
    /\ \A o \in Caller : Creating(o) /\ call[o].req = call[c].req => o = c

\* A decision that waits for its UPDATE was allowed, and begun in the window.
DecisionWasAllowed ==
  \A c \in Caller : Running(c, Decisions) =>
    /\ call[c].req \in Request
    /\ Exists(call[c].req)
    /\ MayDecide(call[c].who, call[c].req, call[c].verb)
    /\ call[c].at < row[call[c].req].expires
    /\ call[c].ttl = row[call[c].req].ttl

\* A call about to leave its event is the one the row names.
EventIsTrue ==
  \A c \in Caller : call[c] # Idle /\ call[c].stage = "emit" =>
    /\ call[c].verb \in {"create"} \cup Decisions
    /\ call[c].req \in Request
    /\ Exists(call[c].req)
    /\ IF call[c].verb = "create" THEN call[c].who = row[call[c].req].requester
       ELSE /\ row[call[c].req].state = call[c].verb
            /\ row[call[c].req].decidedBy = {call[c].who}

TTLIsWhole == \A r \in Request : Exists(r) => row[r].ttl % Second = 0

IInv == /\ TypeOK
        /\ CreateOwnsItsId
        /\ DecisionWasAllowed
        /\ EventIsTrue
        /\ TTLIsWhole
        /\ DecisionIsWarranted
        /\ EventsMatchRows

-----------------------------------------------------------------------------
LEMMA InitHolds == Init => IInv
BY ApprovalAssumption
   DEF Init, IInv, TypeOK, CreateOwnsItsId, DecisionWasAllowed, EventIsTrue,
       TTLIsWhole, DecisionIsWarranted, EventsMatchRows, Exists, Creating,
       Running, Times

\* Calls that end, and time that passes, disturb nothing.
LEMMA QuietStep ==
  ASSUME IInv, UNCHANGED <<row, trail>>, now' \in Times,
         call' \in [Caller -> {Idle} \cup Calls],
         \A c \in Caller : call'[c] \in {call[c], Idle}
  PROVE  IInv'
<1> USE DEF IInv
<1>1. TypeOK'
  BY DEF TypeOK
<1>2. CreateOwnsItsId'
  BY DEF CreateOwnsItsId, Creating, Exists
<1>3. DecisionWasAllowed'
  BY DEF DecisionWasAllowed, Running, Exists, MayDecide
<1>4. EventIsTrue'
  BY DEF EventIsTrue, Exists
<1>5. TTLIsWhole' /\ DecisionIsWarranted' /\ EventsMatchRows'
  BY DEF TTLIsWhole, DecisionIsWarranted, EventsMatchRows, Exists
<1> QED
  BY <1>1, <1>2, <1>3, <1>4, <1>5

LEMMA BeginCreateKeeps ==
  ASSUME IInv, NEW c \in Caller, NEW u \in User, NEW r \in Request,
         NEW s \in Scope, NEW d \in TTL, BeginCreate(c, u, r, s, d)
  PROVE  IInv'
<1> USE DEF IInv
<1> DEFINE new == [stage |-> "write", verb |-> "create", who |-> u, req |-> r,
                   scope |-> s, ttl |-> d, at |-> now]
<1>0. /\ call' = [call EXCEPT ![c] = new]
      /\ UNCHANGED <<now, row, trail>>
      /\ ~Exists(r) /\ \A o \in Caller : call[o] # Idle => call[o].req # r
      /\ new \in Calls /\ new.verb = "create" /\ new.stage = "write"
      /\ new.req = r
  BY ApprovalAssumption DEF BeginCreate, Calls, Verbs, TypeOK, Times
<1> HIDE DEF new
<1>1. TypeOK'
  BY <1>0 DEF TypeOK
<1>a. \A o \in Caller : call'[o] = IF o = c THEN new ELSE call[o]
  BY <1>0 DEF TypeOK
<1>2. CreateOwnsItsId'
  BY <1>0, <1>a DEF CreateOwnsItsId, Creating, Exists
<1>3. DecisionWasAllowed'
  <2> SUFFICES ASSUME NEW o \in Caller, Running(o, Decisions)'
               PROVE  DecisionWasAllowed!(o)!2'
    BY DEF DecisionWasAllowed
  <2>1. o # c
    BY <1>0, <1>a DEF Running, Decisions
  <2> QED
    BY <1>0, <1>a, <2>1 DEF DecisionWasAllowed, Running, Exists, MayDecide
<1>4. EventIsTrue'
  BY <1>0, <1>a DEF EventIsTrue, Exists
<1>5. TTLIsWhole' /\ DecisionIsWarranted' /\ EventsMatchRows'
  BY <1>0 DEF TTLIsWhole, DecisionIsWarranted, EventsMatchRows, Exists
<1> QED
  BY <1>1, <1>2, <1>3, <1>4, <1>5

LEMMA BeginDecideKeeps ==
  ASSUME IInv, NEW c \in Caller, NEW u \in User, NEW r \in Request,
         NEW verb \in Decisions, BeginDecide(c, u, r, verb)
  PROVE  IInv'
<1> USE DEF IInv
<1> DEFINE new == [stage |-> "write", verb |-> verb, who |-> u, req |-> r,
                   scope |-> row[r].scope, ttl |-> row[r].ttl, at |-> now]
<1>r. row[r] \in Rows
  BY DEF BeginDecide, Exists, TypeOK
<1>0. /\ call' = [call EXCEPT ![c] = new]
      /\ UNCHANGED <<now, row, trail>>
      /\ Exists(r) /\ MayDecide(u, r, verb)
      /\ new \in Calls
      /\ new.verb = verb /\ new.stage = "write" /\ new.req = r
      /\ new.who = u /\ new.at = now /\ new.ttl = row[r].ttl
  BY <1>r DEF BeginDecide, Calls, Verbs, TypeOK, Rows
<1>e. now < row[r].expires
  BY <1>r DEF BeginDecide, EffectiveState, TypeOK, Times, Rows
<1> HIDE DEF new
<1>1. TypeOK'
  BY <1>0 DEF TypeOK
<1>a. \A o \in Caller : call'[o] = IF o = c THEN new ELSE call[o]
  BY <1>0 DEF TypeOK
<1>2. CreateOwnsItsId'
  BY <1>0, <1>a DEF CreateOwnsItsId, Creating, Exists, Decisions
<1>3. DecisionWasAllowed'
  <2> SUFFICES ASSUME NEW o \in Caller, Running(o, Decisions)'
               PROVE  DecisionWasAllowed!(o)!2'
    BY DEF DecisionWasAllowed
  <2>1. CASE o = c
    BY <1>0, <1>a, <1>e, <2>1 DEF Running, Exists, MayDecide
  <2>2. CASE o # c
    BY <1>0, <1>a, <2>2 DEF DecisionWasAllowed, Running, Exists, MayDecide
  <2> QED
    BY <2>1, <2>2
<1>4. EventIsTrue'
  BY <1>0, <1>a DEF EventIsTrue, Exists
<1>5. TTLIsWhole' /\ DecisionIsWarranted' /\ EventsMatchRows'
  BY <1>0 DEF TTLIsWhole, DecisionIsWarranted, EventsMatchRows, Exists
<1> QED
  BY <1>1, <1>2, <1>3, <1>4, <1>5

LEMMA InsertKeeps ==
  ASSUME IInv, NEW c \in Caller, Insert(c)
  PROVE  IInv'
<1> USE DEF IInv
<1> DEFINE r == call[c].req
           new == [state |-> "pending", requester |-> call[c].who,
                   scope |-> call[c].scope, ttl |-> Stored(call[c].ttl),
                   expires |-> Stored(call[c].at + PendingWindow),
                   decidedBy |-> {}, decidedAt |-> 0, grant |-> 0]
<1>c. /\ Creating(c) /\ call[c] \in Calls /\ call[c].verb = "create"
      /\ call[c].stage = "write" /\ r \in Request /\ ~Exists(r)
  BY DEF Insert, Running, Creating, CreateOwnsItsId, TypeOK
<1>t. /\ Stored(call[c].ttl) \in Nat
      /\ Stored(call[c].ttl) % Second = 0
      /\ Stored(call[c].at + PendingWindow) \in Nat
  BY <1>c, ApprovalAssumption, StoredBelow, StoredIsWhole DEF Calls, Times
<1>0. /\ row' = [row EXCEPT ![r] = new]
      /\ call' = [call EXCEPT ![c].stage = "emit"]
      /\ UNCHANGED <<now, trail>>
  BY DEF Insert
<1>n. /\ new \in Rows /\ new # NoRow /\ new.state = "pending"
      /\ new.requester = call[c].who /\ new.ttl % Second = 0
  BY <1>c, <1>t DEF Calls, Rows, Times, NoRow
<1>k. /\ r \in Request /\ r = call[c].req
      /\ \A o \in Caller : Creating(o) /\ call[o].req = r => o = c
  BY <1>c DEF CreateOwnsItsId
<1> HIDE DEF new, r
<1>a. \A o \in Caller \ {c} : call'[o] = call[o]
  BY <1>0 DEF TypeOK
<1>b. /\ call'[c] \in Calls /\ call'[c] # Idle /\ call'[c].stage = "emit"
      /\ call'[c].verb = "create" /\ call'[c].req = r
      /\ call'[c].who = call[c].who
  BY <1>0, <1>c, <1>k DEF TypeOK, Calls, Idle
<1>d. row'[r] = new /\ \A q \in Request \ {r} : row'[q] = row[q]
  BY <1>0, <1>k DEF TypeOK
<1>1. TypeOK'
  BY <1>0, <1>b, <1>c, <1>k, <1>n DEF TypeOK
<1>2. CreateOwnsItsId'
  <2> SUFFICES ASSUME NEW o \in Caller, Creating(o)'
               PROVE  CreateOwnsItsId!(o)!2'
    BY DEF CreateOwnsItsId
  <2>1. o # c /\ Creating(o)
    BY <1>a, <1>b DEF Creating
  <2>2. call[o].req # r /\ call'[o] = call[o]
    BY <2>1, <1>a, <1>k
  <2>3. call[o].req \in Request /\ ~Exists(call[o].req)'
    BY <2>1, <2>2, <1>d DEF CreateOwnsItsId, Exists
  <2>4. \A p \in Caller : Creating(p)' => p # c /\ Creating(p) /\ call'[p] = call[p]
    BY <1>a, <1>b DEF Creating
  <2> QED
    BY <2>1, <2>2, <2>3, <2>4 DEF CreateOwnsItsId
<1>3. DecisionWasAllowed'
  <2> SUFFICES ASSUME NEW o \in Caller, Running(o, Decisions)'
               PROVE  DecisionWasAllowed!(o)!2'
    BY DEF DecisionWasAllowed
  <2>1. o # c /\ Running(o, Decisions) /\ call'[o] = call[o]
    BY <1>a, <1>b DEF Running
  <2>2. call[o].req \in Request \ {r}
    BY <2>1, <1>c DEF DecisionWasAllowed, r
  <2> QED
    BY <2>1, <2>2, <1>d DEF DecisionWasAllowed, Exists, MayDecide
<1>4. EventIsTrue'
  <2> SUFFICES ASSUME NEW o \in Caller, call'[o] # Idle, call'[o].stage = "emit"
               PROVE  EventIsTrue!(o)!2'
    BY DEF EventIsTrue
  <2>1. CASE o = c
    BY <2>1, <1>b, <1>d, <1>n, <1>k DEF Exists
  <2>2. CASE o # c
    <3>1. call'[o] = call[o] /\ call[o].req \in Request \ {r}
      BY <2>2, <1>a, <1>c DEF EventIsTrue, r
    <3> QED
      BY <3>1, <1>d DEF EventIsTrue, Exists
  <2> QED
    BY <2>1, <2>2
<1>5. TTLIsWhole'
  BY <1>d, <1>n, <1>k DEF TTLIsWhole, Exists
<1>6. DecisionIsWarranted'
  BY <1>d, <1>n, <1>k DEF DecisionIsWarranted, Exists
<1>7. EventsMatchRows'
  <2>1. \A e \in trail : e.req \in Request \ {r}
    BY <1>c DEF EventsMatchRows, TypeOK, r
  <2> QED
    BY <2>1, <1>0, <1>d DEF EventsMatchRows, Exists
<1> QED
  BY <1>1, <1>2, <1>3, <1>4, <1>5, <1>6, <1>7

LEMMA UpdateKeeps ==
  ASSUME IInv, NEW c \in Caller, Update(c)
  PROVE  IInv'
<1> USE DEF IInv
<1> DEFINE r == call[c].req
<1>c. /\ Running(c, Decisions) /\ call[c] \in Calls
      /\ call[c].verb \in Decisions /\ call[c].stage = "write"
      /\ r \in Request /\ Exists(r) /\ row[r] \in Rows
      /\ MayDecide(call[c].who, r, call[c].verb)
      /\ call[c].at < row[r].expires /\ call[c].ttl = row[r].ttl
  BY DEF Update, Running, DecisionWasAllowed, TypeOK, Exists
<1>w. CASE row[r].state = "pending" /\ row' = [row EXCEPT ![r] = Decided(c)]
           /\ call' = [call EXCEPT ![c].stage = "emit"]
  <2> DEFINE new == Decided(c)
  <2>0. UNCHANGED <<now, trail>>
    BY DEF Update
  <2>t. /\ Stored(call[c].at) \in Nat /\ Stored(call[c].at) <= call[c].at
        /\ Stored(call[c].at + call[c].ttl) = Stored(call[c].at) + call[c].ttl
        /\ call[c].at \in Nat /\ call[c].ttl \in Nat
        /\ call[c].ttl % Second = 0
    BY <1>c, StoredBelow, StoredSum DEF Calls, Times, TTLIsWhole
  <2>g. /\ GrantUntil(c) \in Nat
        /\ call[c].verb = "approved" =>
             GrantUntil(c) = Stored(call[c].at) + call[c].ttl
    BY <2>t DEF GrantUntil
  <2>n. /\ new \in Rows /\ new # NoRow
        /\ new.state = call[c].verb /\ new.decidedBy = {call[c].who}
        /\ new.requester = row[r].requester /\ new.ttl = row[r].ttl
        /\ new.expires = row[r].expires /\ new.decidedAt = Stored(call[c].at)
        /\ new.grant = GrantUntil(c)
    BY <1>c, <2>t, <2>g DEF Decided, Rows, NoRow, Calls, Times, Decisions
  <2>u. call[c].who \in User
    BY <1>c DEF Calls
  <2>k. r \in Request /\ r = call[c].req
    BY <1>c
  <2> HIDE DEF new, r
  <2>a. \A o \in Caller \ {c} : call'[o] = call[o]
    BY <1>w DEF TypeOK
  <2>b. /\ call'[c] \in Calls /\ call'[c] # Idle /\ call'[c].stage = "emit"
        /\ call'[c].verb = call[c].verb /\ call'[c].req = r
        /\ call'[c].who = call[c].who
    BY <1>w, <1>c, <2>k DEF TypeOK, Calls, Idle
  <2>d. row'[r] = new /\ \A q \in Request \ {r} : row'[q] = row[q]
    BY <1>w, <2>k DEF TypeOK, new
  <2>1. TypeOK'
    BY <1>w, <2>0, <2>b, <1>c, <2>k, <2>n DEF TypeOK, new
  <2>2. CreateOwnsItsId'
    <3> SUFFICES ASSUME NEW o \in Caller, Creating(o)'
                 PROVE  CreateOwnsItsId!(o)!2'
      BY DEF CreateOwnsItsId
    <3>1. \A p \in Caller : Creating(p)' => p # c /\ Creating(p) /\ call'[p] = call[p]
      BY <2>a, <2>b DEF Creating
    <3>2. call[o].req \in Request \ {r}
      BY <3>1, <1>c, <2>k DEF CreateOwnsItsId
    <3> QED
      BY <3>1, <3>2, <2>d DEF CreateOwnsItsId, Exists
  <2>3. DecisionWasAllowed'
    <3> SUFFICES ASSUME NEW o \in Caller, Running(o, Decisions)'
                 PROVE  DecisionWasAllowed!(o)!2'
      BY DEF DecisionWasAllowed
    <3>1. o # c /\ Running(o, Decisions) /\ call'[o] = call[o]
      BY <2>a, <2>b DEF Running
    <3>2. CASE call[o].req = r
      BY <3>1, <3>2, <2>d, <2>n DEF DecisionWasAllowed, Exists, MayDecide
    <3>3. CASE call[o].req # r
      BY <3>1, <3>3, <2>d DEF DecisionWasAllowed, Exists, MayDecide
    <3> QED
      BY <3>2, <3>3
  <2>4. EventIsTrue'
    <3> SUFFICES ASSUME NEW o \in Caller, call'[o] # Idle, call'[o].stage = "emit"
                 PROVE  EventIsTrue!(o)!2'
      BY DEF EventIsTrue
    <3>1. CASE o = c
      BY <3>1, <2>b, <2>d, <2>n, <2>k, <1>c DEF Exists, Decisions
    <3>2. CASE o # c /\ call[o].req = r
      <4>1. call'[o] = call[o] /\ call[o].verb = "create"
        BY <3>2, <2>a, <1>w, <2>k DEF EventIsTrue, Decisions
      <4> QED
        BY <4>1, <3>2, <2>d, <2>n DEF EventIsTrue, Exists
    <3>3. CASE o # c /\ call[o].req # r
      BY <3>3, <2>a, <2>d DEF EventIsTrue, Exists
    <3> QED
      BY <3>1, <3>2, <3>3
  <2>5. TTLIsWhole'
    BY <2>d, <2>n, <1>c, <2>k DEF TTLIsWhole, Exists
  <2>6. DecisionIsWarranted'
    <3> SUFFICES ASSUME NEW q \in Request, Exists(q)', row'[q].state # "pending"
                 PROVE  DecisionIsWarranted!(q)!2'
      BY DEF DecisionIsWarranted
    <3>1. CASE q = r
      <4>1. row'[q].decidedAt < row'[q].expires
        BY <3>1, <2>d, <2>n, <2>t, <1>c DEF Rows, Times
      <4>2. row'[q].state = "approved" =>
              row'[q].grant = row'[q].decidedAt + row'[q].ttl
        BY <3>1, <2>d, <2>n, <2>g, <1>c
      <4>3. /\ row'[q].decidedBy = {call[c].who}
            /\ IF row'[q].state = "cancelled" THEN call[c].who = row'[q].requester
               ELSE call[c].who \in Admin /\ call[c].who # row'[q].requester
        BY <3>1, <2>d, <2>n, <1>c, <2>k DEF MayDecide
      <4> QED
        BY <4>1, <4>2, <4>3, <2>u
    <3>2. CASE q # r
      BY <3>2, <2>d DEF DecisionIsWarranted, Exists
    <3> QED
      BY <3>1, <3>2
  <2>7. EventsMatchRows'
    <3> SUFFICES ASSUME NEW e \in trail PROVE EventsMatchRows!(e)'
      BY <2>0 DEF EventsMatchRows
    <3>0. e.req \in Request /\ e.action \in Actions
      BY DEF TypeOK
    <3>1. CASE e.req = r
      <4>1. e.action = "raised"
        BY <3>0, <3>1, <1>w DEF EventsMatchRows, Actions, Decisions
      <4> QED
        BY <4>1, <3>1, <2>d, <2>n DEF EventsMatchRows, Exists
    <3>2. CASE e.req # r
      BY <3>0, <3>2, <2>d DEF EventsMatchRows, Exists
    <3> QED
      BY <3>1, <3>2
  <2> QED
    BY <2>1, <2>2, <2>3, <2>4, <2>5, <2>6, <2>7
<1>l. CASE row[r].state # "pending" /\ Answer(c) /\ UNCHANGED row
  <2>1. UNCHANGED <<now, row, trail>> /\ call' = [call EXCEPT ![c] = Idle]
    BY <1>l DEF Update, Answer
  <2> QED
    BY <2>1, QuietStep DEF TypeOK
<1> QED
  BY <1>w, <1>l DEF Update

LEMMA EmitKeeps ==
  ASSUME IInv, NEW c \in Caller, Emit(c)
  PROVE  IInv'
<1> USE DEF IInv
<1> DEFINE action == IF call[c].verb = "create" THEN "raised" ELSE call[c].verb
           new == [action |-> action, req |-> call[c].req, who |-> call[c].who]
<1>0. /\ call[c] \in Calls /\ call[c] # Idle /\ call[c].stage = "emit"
      /\ call[c].verb \in {"create"} \cup Decisions
      /\ call[c].req \in Request /\ call[c].who \in User
  BY DEF Emit, EventIsTrue, TypeOK, Calls
<1>1. /\ UNCHANGED <<now, row>> /\ call' = [call EXCEPT ![c] = Idle]
      /\ trail' = trail \cup {new}
  BY DEF Emit, Answer
<1>n. /\ new \in [action : Actions, req : Request, who : User]
      /\ new.req = call[c].req /\ new.who = call[c].who
      /\ new.action = action
  BY <1>0 DEF Actions
<1>w. /\ Exists(new.req)
      /\ IF new.action = "raised" THEN new.who = row[new.req].requester
         ELSE /\ row[new.req].state = new.action
              /\ row[new.req].decidedBy = {new.who}
  BY <1>0, <1>n DEF EventIsTrue, Decisions
<1> HIDE DEF new
<1>a. \A o \in Caller : call'[o] = IF o = c THEN Idle ELSE call[o]
  BY <1>1 DEF TypeOK
<1>2. TypeOK'
  BY <1>1, <1>n DEF TypeOK
<1>3. CreateOwnsItsId'
  BY <1>1, <1>a DEF CreateOwnsItsId, Creating, Exists
<1>4. DecisionWasAllowed'
  BY <1>1, <1>a DEF DecisionWasAllowed, Running, Exists, MayDecide
<1>5. EventIsTrue'
  BY <1>1, <1>a DEF EventIsTrue, Exists
<1>6. TTLIsWhole' /\ DecisionIsWarranted'
  BY <1>1 DEF TTLIsWhole, DecisionIsWarranted, Exists
<1>7. EventsMatchRows'
  BY <1>1, <1>w DEF EventsMatchRows, Exists
<1> QED
  BY <1>2, <1>3, <1>4, <1>5, <1>6, <1>7

\* BeginGrant and Lookup move a call that neither creates, decides nor emits.
LEMMA AskStep ==
  ASSUME IInv, NEW c \in Caller, NEW new \in Calls, new.verb = "grant",
         new.stage # "emit", call' = [call EXCEPT ![c] = new],
         UNCHANGED <<now, row, trail>>
  PROVE  IInv'
<1> USE DEF IInv
<1>a. \A o \in Caller : call'[o] = IF o = c THEN new ELSE call[o]
  BY DEF TypeOK
<1>1. TypeOK'
  BY DEF TypeOK
<1>2. CreateOwnsItsId'
  BY <1>a DEF CreateOwnsItsId, Creating, Exists
<1>3. DecisionWasAllowed'
  <2> SUFFICES ASSUME NEW o \in Caller, Running(o, Decisions)'
               PROVE  DecisionWasAllowed!(o)!2'
    BY DEF DecisionWasAllowed
  <2>1. o # c
    BY <1>a DEF Running, Decisions
  <2> QED
    BY <1>a, <2>1 DEF DecisionWasAllowed, Running, Exists, MayDecide
<1>4. EventIsTrue'
  BY <1>a DEF EventIsTrue, Exists
<1>5. TTLIsWhole' /\ DecisionIsWarranted' /\ EventsMatchRows'
  BY DEF TTLIsWhole, DecisionIsWarranted, EventsMatchRows, Exists
<1> QED
  BY <1>1, <1>2, <1>3, <1>4, <1>5

LEMMA StepKeeps == ASSUME IInv, [Next]_vars PROVE IInv'
<1>t. /\ call \in [Caller -> {Idle} \cup Calls] /\ now \in Times
  BY DEF IInv, TypeOK
<1>1. CASE Tick
  <2>1. now' \in Times /\ UNCHANGED <<row, call, trail>>
    BY <1>1, <1>t DEF Tick, Times
  <2> QED
    BY <2>1, <1>t, QuietStep
<1>2. CASE Crash
  BY <1>2, <1>t, QuietStep DEF Crash
<1>3. ASSUME NEW c \in Caller, Step(c) PROVE IInv'
  <2>1. CASE \E u \in User, r \in Request, s \in Scope, d \in TTL :
               BeginCreate(c, u, r, s, d)
    BY <2>1, BeginCreateKeeps
  <2>2. CASE \E u \in User, r \in Request, verb \in Decisions :
               BeginDecide(c, u, r, verb)
    BY <2>2, BeginDecideKeeps
  <2>3. ASSUME NEW u \in User, NEW s \in Scope, BeginGrant(c, u, s)
        PROVE  IInv'
    <3> DEFINE new == [stage |-> "write", verb |-> "grant", who |-> u,
                       req |-> NoRequest, scope |-> s, ttl |-> 0, at |-> now]
    <3>1. new \in Calls /\ new.verb = "grant" /\ new.stage # "emit"
      BY <1>t DEF Calls, Verbs, Times
    <3>2. call' = [call EXCEPT ![c] = new] /\ UNCHANGED <<now, row, trail>>
      BY <2>3 DEF BeginGrant
    <3> QED
      BY <3>1, <3>2, AskStep
  <2>4. CASE Insert(c)
    BY <2>4, InsertKeeps
  <2>5. CASE Update(c)
    BY <2>5, UpdateKeeps
  <2>6. CASE Emit(c)
    BY <2>6, EmitKeeps
  <2>7. CASE Lookup(c)
    <3>1. call[c] \in Calls /\ call[c].verb = "grant"
      BY <2>7, <1>t DEF Lookup, Running
    <3>2. PICK q \in Request \cup {NoRequest} :
            call' = [call EXCEPT ![c] = [call[c] EXCEPT !.stage = "answered",
                                                        !.req = q]]
      <4>1. PICK r \in Request \cup {NoRequest} :
              call' = [call EXCEPT ![c].stage = "answered", ![c].req = r]
        BY <2>7 DEF Lookup, Matching
      <4> QED
        BY <4>1, <1>t
    <3> DEFINE new == [call[c] EXCEPT !.stage = "answered", !.req = q]
    <3>3. new \in Calls /\ new.verb = "grant" /\ new.stage # "emit"
      BY <3>1 DEF Calls
    <3>4. UNCHANGED <<now, row, trail>> /\ call' = [call EXCEPT ![c] = new]
      BY <2>7, <3>2 DEF Lookup
    <3> HIDE DEF new
    <3> QED
      BY <3>3, <3>4, AskStep
  <2>8. CASE Return(c) \/ Fail(c)
    <3>1. UNCHANGED <<now, row, trail>> /\ call' = [call EXCEPT ![c] = Idle]
      BY <2>8 DEF Return, Fail, Answer
    <3> QED
      BY <3>1, <1>t, QuietStep
  <2> QED
    BY <1>3, <2>1, <2>2, <2>3, <2>4, <2>5, <2>6, <2>7, <2>8 DEF Step
<1>4. CASE UNCHANGED vars
  BY <1>4, <1>t, QuietStep DEF vars
<1> QED
  BY <1>1, <1>2, <1>3, <1>4 DEF Next

\* The invariant holds of every behaviour.
THEOREM Invariance == Spec => []IInv
<1>1. Init => IInv
  BY InitHolds
<1>2. IInv /\ [Next]_vars => IInv'
  BY StepKeeps
<1> QED
  BY <1>1, <1>2, PTL DEF Spec

-----------------------------------------------------------------------------
\* Types: every row, call and event is of its kind, whatever races.
THEOREM TypeCorrect == Spec => []TypeOK
<1>1. IInv => TypeOK
  BY DEF IInv
<1> QED
  BY <1>1, Invariance, PTL

\* A decision is by the right account, begun in the window, and grants the
\* seconds that were asked for: service.decide and repository.decide.
THEOREM DecisionsAreWarranted == Spec => []DecisionIsWarranted
<1>1. IInv => DecisionIsWarranted
  BY DEF IInv
<1> QED
  BY <1>1, Invariance, PTL

\* Handlers that race leave one event per decision, the winner's.
THEOREM EventsAreTrue == Spec => []EventsMatchRows
<1>1. IInv => EventsMatchRows
  BY DEF IInv
<1> QED
  BY <1>1, Invariance, PTL

\* A row that is no longer pending never changes again.
THEOREM DecisionsAreFinal == Spec => DecidedOnce
<1>1. ASSUME IInv, [Next]_vars, NEW r \in Request, Exists(r),
             row[r].state # "pending"
      PROVE  row'[r] = row[r]
  <2>r. row \in [Request -> {NoRow} \cup Rows]
    BY <1>1 DEF IInv, TypeOK
  <2>1. ASSUME NEW c \in Caller, Insert(c) PROVE row'[r] = row[r]
    <3>1. call[c].req \in Request /\ ~Exists(call[c].req)
      BY <1>1, <2>1 DEF IInv, CreateOwnsItsId, Creating, Insert, Running
    <3> QED
      BY <1>1, <2>1, <2>r, <3>1 DEF Insert
  <2>2. ASSUME NEW c \in Caller, Update(c) PROVE row'[r] = row[r]
    <3>1. CASE row' = [row EXCEPT ![call[c].req] = Decided(c)]
               /\ row[call[c].req].state = "pending"
      BY <1>1, <2>r, <3>1
    <3> QED
      BY <2>2, <3>1 DEF Update
  <2>3. CASE UNCHANGED row
    BY <2>3
  <2> QED
    BY <1>1, <2>1, <2>2, <2>3
       DEF Next, Step, vars, Tick, Crash, BeginCreate, BeginDecide, BeginGrant,
           Emit, Lookup, Return, Fail
<1>2. IInv /\ [Next]_vars =>
        [\A r \in Request : Exists(r) /\ row[r].state # "pending" => row'[r] = row[r]]_vars
  BY <1>1
<1> QED
  BY <1>2, Invariance, PTL DEF Spec, DecidedOnce

\* A grant query finds the longest grant that covers the instant it asks about,
\* whatever is decided meanwhile, and denies only when there is none.
THEOREM LongestGrantIsFound == Spec => LongestGrantAnswers
<1>1. ASSUME IInv, [Next]_vars, NEW c \in Caller, Answers(c) PROVE BestAnswer(c)
  <2>t. call \in [Caller -> {Idle} \cup Calls]
    BY <1>1 DEF IInv, TypeOK
  <2>c. call[c] \in Calls /\ call[c].stage = "write" /\ call[c].verb = "grant"
    BY <1>1, <2>t DEF Running, Answers
  <2>1. Lookup(c)
    <3>1. call'[c] # call[c]
      BY <1>1, <2>c DEF Answers
    <3>2. ASSUME NEW o \in Caller, Step(o) PROVE o = c
      BY <3>1, <3>2, <2>t
         DEF Step, BeginCreate, BeginDecide, BeginGrant, Insert, Update, Emit,
             Lookup, Return, Fail, Answer
    <3>3. Step(c)
      <4>1. ~Tick /\ ~UNCHANGED vars
        BY <3>1 DEF Tick, vars
      <4>2. ~Crash
        BY <1>1 DEF Crash, Answers
      <4> QED
        BY <1>1, <4>1, <4>2, <3>2 DEF Next
    <3> QED
      BY <1>1, <2>c, <2>t, <3>3
         DEF Step, BeginCreate, BeginDecide, BeginGrant, Insert, Update, Emit,
             Return, Fail, Answer, Answers, Running, Decisions
  <2>2. \A r \in Request : Covers(c, r) => r \in Matching(c)
    <3> SUFFICES ASSUME NEW r \in Request, Covers(c, r) PROVE r \in Matching(c)
      OBVIOUS
    <3>1. /\ call[c].at \in Nat /\ row[r].grant \in Nat
          /\ call[c].at < row[r].grant
      BY <1>1, <2>c DEF IInv, TypeOK, Calls, Rows, Times, Exists, GrantsAccess, Covers
    <3>2. row[r].grant > Stored(call[c].at)
      BY <3>1, StoredBelow
    <3> QED
      BY <3>2 DEF Matching, GrantsAccess, Covers
  <2>3. CASE \A r \in Matching(c) : ~GrantsAccess(r, call[c].at)
    <3>1. ~\E r \in Request : Covers(c, r)
      BY <2>2, <2>3 DEF Covers
    <3>2. CASE call' = [call EXCEPT ![c].stage = "answered", ![c].req = NoRequest]
      BY <3>1, <3>2, <2>t, <2>c DEF Calls, BestAnswer
    <3> QED
      BY <2>1, <2>3, <3>2 DEF Lookup
  <2>4. ASSUME NEW r \in Matching(c), Found(c, r), GrantsAccess(r, call[c].at),
               call' = [call EXCEPT ![c].stage = "answered", ![c].req = r]
        PROVE  BestAnswer(c)
    <3>1. call'[c].req = r
      BY <2>4, <2>t, <2>c DEF Calls
    <3>2. r \in Request /\ Covers(c, r)
      BY <2>4 DEF Matching, Covers
    <3>3. \A q \in Request : Covers(c, q) => row[q].grant <= row[r].grant
      <4> SUFFICES ASSUME NEW q \in Request, Covers(c, q)
                   PROVE  row[q].grant <= row[r].grant
        OBVIOUS
      <4>1. row[r].grant >= row[q].grant
        BY <2>2, <2>4 DEF Found
      <4>2. row[r].grant \in Nat /\ row[q].grant \in Nat
        BY <1>1, <3>2 DEF IInv, TypeOK, Rows, Times, Exists, Covers
      <4> QED
        BY <4>1, <4>2
    <3> QED
      BY <3>1, <3>2, <3>3 DEF BestAnswer
  <2> QED
    BY <2>1, <2>3, <2>4 DEF Lookup
<1>2. ASSUME IInv, [Next]_vars
      PROVE  \A c \in Caller : Answers(c) => BestAnswer(c)
  BY <1>1, <1>2
<1>3. IInv /\ [Next]_vars => [\A c \in Caller : Answers(c) => BestAnswer(c)]_vars
  BY <1>2
<1> QED
  BY <1>3, Invariance, PTL DEF Spec, LongestGrantAnswers
=============================================================================
