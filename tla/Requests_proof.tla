--------------------------- MODULE Requests_proof ---------------------------
(***************************************************************************)
(* Proofs about Requests: types, that nothing is changed late, that the    *)
(* client is told the truth and that the trail and the store agree, for    *)
(* any number of requests and sessions and for any programs of the shape   *)
(* that RequestsAssumption states; and that the programs of Handlers have  *)
(* it, for lists of any length and any number of attempts.                 *)
(*                                                                         *)
(* The inductive invariant says who holds the connection from what is left *)
(* of each program, that what is left of a request has still the shape     *)
(* that it needs to end well, and what an end leaves behind.               *)
(***************************************************************************)
EXTENDS Requests, TLAPS

-----------------------------------------------------------------------------
(* Sequences of operations.                                                *)

LEMMA TailOf ==
  ASSUME NEW q \in Seq(Operation), q # <<>>
  PROVE  /\ Tail(q) \in Seq(Operation) /\ Head(q) \in Operation /\ Head(q) = q[1]
         /\ Len(q) \in Nat /\ Len(q) >= 1 /\ DOMAIN q = 1..Len(q)
         /\ DOMAIN Tail(q) = 1..(Len(q) - 1)
         /\ \A i \in DOMAIN Tail(q) :
              i \in Nat /\ i >= 1 /\ i + 1 \in DOMAIN q /\ Tail(q)[i] = q[i + 1]
         /\ Len(Tail(q)) = Len(q) - 1 /\ (Tail(q) # <<>> <=> Len(q) >= 2)
         /\ \A i \in DOMAIN q : q[i] \in Operation
OBVIOUS

\* The shape of Balanced, also of what is left of a program that has begun.
Fit(q) == \A i \in DOMAIN q :
  q[i].do \in {"take", "use"} <=> i + 1 \in DOMAIN q /\ q[i + 1].do \in OnIt
OnConnection(q) == q # <<>> /\ Head(q).do \in OnIt

LEMMA FitOfBalanced ==
  ASSUME NEW q \in Seq(Operation), Balanced(q)
  PROVE  Fit(q) /\ ~OnConnection(q)
<1>1. Fit(q)
  BY DEF Balanced, Fit
<1>2. q # <<>> => 1 \in DOMAIN q /\ Head(q) = q[1]
  BY TailOf
<1> QED
  BY <1>1, <1>2 DEF Balanced, OnConnection

\* After an operation that keeps or takes the connection comes one on it, and after any
\* other comes none.
LEMMA FitGoesOn ==
  ASSUME NEW q \in Seq(Operation), q # <<>>, Fit(q)
  PROVE  Fit(Tail(q)) /\ (OnConnection(Tail(q)) <=> Head(q).do \in {"take", "use"})
<1> DEFINE t == Tail(q)
<1>1. /\ t \in Seq(Operation) /\ Head(q) = q[1] /\ Len(q) \in Nat /\ Len(q) >= 1
      /\ DOMAIN q = 1..Len(q) /\ DOMAIN t = 1..(Len(q) - 1)
      /\ \A i \in DOMAIN t : i \in Nat /\ i >= 1 /\ i + 1 \in DOMAIN q /\ t[i] = q[i + 1]
      /\ t # <<>> <=> Len(q) >= 2
  BY TailOf
<1>2. t # <<>> <=> 2 \in DOMAIN q
  BY <1>1
<1>3. t # <<>> => Head(t) = q[2]
  <2>1. t # <<>> => Head(t) = t[1] /\ 1 \in DOMAIN t
    BY <1>1, TailOf
  <2> QED
    BY <2>1, <1>1
<1> HIDE DEF t
<1>4. OnConnection(t) <=> Head(q).do \in {"take", "use"}
  <2>1. 1 \in DOMAIN q /\ 1 + 1 = 2
    BY <1>1
  <2> QED
    BY <2>1, <1>1, <1>2, <1>3 DEF Fit, OnConnection
<1>5. Fit(t)
  <2> SUFFICES ASSUME NEW i \in DOMAIN t
               PROVE  t[i].do \in {"take", "use"} <=>
                        i + 1 \in DOMAIN t /\ t[i + 1].do \in OnIt
    BY DEF Fit
  <2>1. i \in Nat /\ i + 1 \in DOMAIN q /\ t[i] = q[i + 1]
    BY <1>1
  <2>2. (i + 1) + 1 \in DOMAIN q <=> i + 1 \in DOMAIN t
    BY <2>1, <1>1
  <2>3. i + 1 \in DOMAIN t => t[i + 1] = q[(i + 1) + 1]
    BY <1>1
  <2>4. q[i + 1].do \in {"take", "use"} <=>
          (i + 1) + 1 \in DOMAIN q /\ q[(i + 1) + 1].do \in OnIt
    BY <2>1 DEF Fit
  <2> QED
    BY <2>1, <2>2, <2>3, <2>4
<1> QED
  BY <1>4, <1>5 DEF t

\* What is left after an operation of a request, but its last, is as orderly as before.
LEMMA OrderlyGoesOn ==
  ASSUME NEW q \in Seq(Operation), q # <<>>, NEW k, NEW made \in BOOLEAN, NEW said \in BOOLEAN,
         Orderly(q, k, made, said), Head(q).do # "answer"
  PROVE  /\ Tail(q) # <<>>
         /\ Orderly(Tail(q), k, made \/ Head(q).do = "commit", said \/ Head(q).do = "tell")
<1> DEFINE t == Tail(q)  m == (made \/ Head(q).do = "commit")  s == (said \/ Head(q).do = "tell")
<1>1. /\ t \in Seq(Operation) /\ Head(q) = q[1] /\ Len(q) \in Nat /\ Len(q) >= 1
      /\ DOMAIN q = 1..Len(q) /\ DOMAIN t = 1..(Len(q) - 1) /\ Len(t) = Len(q) - 1
      /\ \A i \in DOMAIN t : i \in Nat /\ i >= 1 /\ i + 1 \in DOMAIN q /\ t[i] = q[i + 1]
  BY TailOf
<1>2. 1 \in DOMAIN q
  BY <1>1
<1>3. t # <<>>
  <2>1. Len(q) # 1
    BY <1>1, <1>2 DEF Orderly, EndsWell
  <2> QED
    BY <2>1, <1>1
<1> HIDE DEF t
<1>4. \A i \in DOMAIN q : i # 1 => i - 1 \in DOMAIN t /\ t[i - 1] = q[i] /\ i - 1 \in Nat
  <2> SUFFICES ASSUME NEW i \in DOMAIN q, i # 1
               PROVE  i - 1 \in DOMAIN t /\ t[i - 1] = q[i] /\ i - 1 \in Nat
    OBVIOUS
  <2>1. i \in Nat /\ i - 1 \in Nat /\ i - 1 \in DOMAIN t /\ (i - 1) + 1 = i
    BY <1>1
  <2> QED
    BY <2>1, <1>1
<1>5. EndsWell(t)
  <2> SUFFICES ASSUME NEW i \in DOMAIN t
               PROVE  /\ t[i].do = "answer" <=> i = Len(t)
                      /\ t[i].codes \subseteq IF t[i].do = "answer" THEN Success
                                             ELSE Refused \cup {Internal, Timeout}
    BY DEF EndsWell
  <2>1. i + 1 \in DOMAIN q /\ t[i] = q[i + 1] /\ (i + 1 = Len(q) <=> i = Len(t))
    BY <1>1
  <2> QED
    BY <2>1 DEF Orderly, EndsWell
<1>6. Changes(t) => Changes(q)
  BY <1>1 DEF Changes
<1>7. Head(q).do # "commit" => (Changes(q) => Changes(t))
  BY <1>1, <1>4 DEF Changes
<1>8. Head(q).do = "commit" => Changes(q) /\ ~Changes(t)
  <2>1. \A i \in DOMAIN t : q[i + 1].do = "commit" /\ q[1].do = "commit" => i + 1 <= 1
    BY <1>1, <1>2 DEF Orderly, ChangesFirst
  <2>2. Head(q).do = "commit" => ~Changes(t)
    BY <2>1, <1>1 DEF Changes
  <2> QED
    BY <2>2, <1>1, <1>2 DEF Changes
<1>9. Tells(q) => s \/ Tells(t)
  BY <1>1, <1>4 DEF Tells
<1>10. Due(t, k, m, s)
  <2>1. CASE k = "reads"
    BY <2>1, <1>6, <1>8 DEF Orderly, Due
  <2>2. CASE k # "reads" /\ Head(q).do = "commit"
    BY <2>2, <1>8, <1>9 DEF Orderly, Due
  <2>3. CASE k # "reads" /\ Head(q).do # "commit"
    BY <2>3, <1>6, <1>7, <1>9 DEF Orderly, Due
  <2> QED
    BY <2>1, <2>2, <2>3
<1>11. ChangesFirst(t)
  <2> SUFFICES ASSUME NEW i \in DOMAIN t, NEW j \in DOMAIN t,
                      t[i].do = "commit", t[j].do \in {"commit", "tell"}
               PROVE  i <= j
    BY DEF ChangesFirst
  <2>1. i + 1 <= j + 1
    BY <1>1 DEF Orderly, ChangesFirst
  <2> QED
    BY <2>1, <1>1
<1>12. DeniesFirst(t, m)
  <2> SUFFICES ASSUME NEW i \in DOMAIN t, t[i].deny
               PROVE  /\ ~m /\ t[i].do \notin {"commit", "answer"} /\ Timeout \notin t[i].codes
                      /\ \A j \in DOMAIN t : t[j].do = "commit" => i < j
    BY DEF DeniesFirst
  <2>1. i \in Nat /\ i >= 1 /\ i + 1 \in DOMAIN q /\ t[i] = q[i + 1]
    BY <1>1
  <2>2. /\ ~made /\ q[i + 1].do \notin {"commit", "answer"} /\ Timeout \notin q[i + 1].codes
        /\ \A j \in DOMAIN q : q[j].do = "commit" => i + 1 < j
    BY <2>1 DEF Orderly, DeniesFirst
  <2>3. q[1].do # "commit"
    BY <2>1, <2>2, <1>2
  <2>4. \A j \in DOMAIN t : t[j].do = "commit" => i < j
    BY <2>1, <2>2, <1>1
  <2> QED
    BY <2>1, <2>2, <2>3, <2>4, <1>1
<1>13. RefusesFirst(t, k, m)
  <2> SUFFICES ASSUME NEW i \in DOMAIN t, t[i].do # "answer",
                      m \/ \E j \in DOMAIN t : j < i /\ t[j].do = "commit"
               PROVE  t[i].codes \subseteq IF k = "rereads" THEN {404, Internal} ELSE {}
    BY DEF RefusesFirst
  <2>1. i \in Nat /\ i >= 1 /\ i + 1 \in DOMAIN q /\ t[i] = q[i + 1]
    BY <1>1
  <2>2. made \/ \E j \in DOMAIN q : j < i + 1 /\ q[j].do = "commit"
    <3>1. CASE Head(q).do = "commit"
      BY <3>1, <2>1, <1>1, <1>2
    <3>2. CASE \E j \in DOMAIN t : j < i /\ t[j].do = "commit"
      BY <3>2, <2>1, <1>1
    <3> QED
      BY <3>1, <3>2
  <2> QED
    BY <2>1, <2>2 DEF Orderly, RefusesFirst
<1> QED
  BY <1>3, <1>5, <1>10, <1>11, <1>12, <1>13 DEF Orderly, t

-----------------------------------------------------------------------------
(* The inductive invariant.                                                *)

ConnectionHeld == \A c \in Caller :
  Fit(program[c]) /\ (holder = c <=> OnConnection(program[c]))

HeldInTime == \A r \in Request : holder = r /\ r \in over => r \in grip

\* What is left of a request, while it runs.
Said(r) == told[r] \in {"done", "unwritten"}
LeftOrderly(r) == program[r] # <<>> =>
  /\ Orderly(program[r], kind[r], r \in changed, Said(r))
  /\ code[r] = 0 /\ told[r] # "denied"

\* What it leaves in its buffer, in the trail and in the store.
LeftBehind(r) ==
  /\ code[r] \in Success /\ kind[r] # "reads" => r \in changed /\ Said(r)
  /\ code[r] \in Refused /\ r \in changed => kind[r] = "rereads" /\ code[r] = 404
  /\ told[r] = "done" /\ kind[r] # "reads" => r \in changed
  /\ told[r] = "denied" => r \notin changed /\ code[r] \in Refused \cup {Internal}
  /\ told[r] = "unwritten" /\ kind[r] # "reads" /\ r \notin changed =>
       code[r] \in Refused \cup {Internal}
  /\ r \in changed /\ program[r] = <<>> /\ told[r] = "none" =>
       \/ ~up \/ code[r] = PanicCode
       \/ r \in over /\ code[r] = Internal
       \/ kind[r] = "rereads" /\ code[r] \in {404, Internal}

\* What its client has, and the access log.
Answered(r) ==
  /\ answer[r] \in {0, Timeout, Internal} \/ (answer[r] = code[r] /\ program[r] = <<>>)
  /\ logged[r] \in {0, answer[r]}
  /\ answer[r] # 0 /\ logged[r] = 0 => answer[r] = Internal
  /\ outer[r] = "served" => answer[r] = 0 /\ logged[r] = 0
  /\ outer[r] = "idle" =>
       /\ program[r] = <<>> /\ code[r] = 0 /\ answer[r] = 0 /\ logged[r] = 0
       /\ told[r] = "none" /\ r \notin changed /\ r \notin over

Sound(r) == LeftOrderly(r) /\ LeftBehind(r) /\ Answered(r)

IInv ==
  /\ TypeOK /\ ConnectionHeld /\ HeldInTime
  /\ \A r \in Request : Sound(r)

LEMMA Statuses ==
  /\ Success \cap Refused = {} /\ Success \cup Refused \cup {Internal, Timeout, PanicCode} \subseteq Nat
  /\ {0, Internal, Timeout, PanicCode} \cap (Success \cup Refused) = {}
  /\ PanicCode # 0 /\ Internal # 0 /\ Timeout # 0 /\ Internal # Timeout /\ PanicCode # Internal
  /\ PanicCode # Timeout
BY DEF Success, Refused, Internal, Timeout, PanicCode

LEMMA InitInv == Init => IInv
<1> SUFFICES ASSUME Init PROVE IInv
  OBVIOUS
<1>1. TypeOK
  BY DEF Init, TypeOK
<1>2. ConnectionHeld
  BY RequestsAssumption DEF Init, ConnectionHeld, Fit, OnConnection
<1>3. HeldInTime /\ \A r \in Request : Sound(r)
  BY Statuses, RequestsAssumption DEF Init, HeldInTime, Sound, LeftOrderly, LeftBehind, Answered, Caller
<1> QED
  BY <1>1, <1>2, <1>3 DEF IInv

-----------------------------------------------------------------------------
(* Types.                                                                  *)

LEMMA KindOf == \A p : Kind(p) \in {"reads", "changes", "rereads"}
BY DEF Kind

\* What an operation at the head of a program is.
LEMMA AtHead ==
  ASSUME TypeOK, NEW c \in Caller, program[c] # <<>>
  PROVE  /\ program[c] \in Seq(Operation) /\ Tail(program[c]) \in Seq(Operation)
         /\ Next1(c) = program[c][1] /\ 1 \in DOMAIN program[c]
         /\ Next1(c) = Head(program[c])
         /\ Next1(c) \in Operation /\ Next1(c).codes \subseteq Nat
<1>1. program[c] \in Seq(Operation)
  BY DEF TypeOK
<1>2. Head(program[c]) \in Operation
  BY <1>1, TailOf
<1> QED
  BY <1>1, <1>2, TailOf DEF Next1, Operation

LEMMA TypeStep == TypeOK /\ [Next]_vars => TypeOK'
<1> SUFFICES ASSUME TypeOK, [Next]_vars PROVE TypeOK'
  OBVIOUS
<1>0. Request \subseteq Caller /\ Session \subseteq Caller
  BY DEF Caller
<1>1. ASSUME NEW c \in Caller, Acquire(c) \/ Go(c) \/ Free(c) \/ Commit(c) PROVE TypeOK'
  <2>1. Tail(program[c]) \in Seq(Operation)
    BY <1>1, AtHead DEF Acquire, Go, Free, Commit, At
  <2>2. program' \in [Caller -> Seq(Operation)]
    BY <1>1, <2>1 DEF Acquire, Go, Free, Commit, Advance, TypeOK
  <2> QED
    BY <1>1, <2>2 DEF Acquire, Go, Free, Commit, TypeOK, buffer, client, history
<1>2. ASSUME NEW r \in Request, Emit(r) \/ Write(r) PROVE TypeOK'
  <2>1. Tail(program[r]) \in Seq(Operation) /\ Next1(r).codes \subseteq Nat
    BY <1>0, <1>2, AtHead DEF Emit, Write, At
  <2>2. program' \in [Caller -> Seq(Operation)]
    BY <1>2, <2>1 DEF Emit, Write, Advance, TypeOK
  <2>3. /\ code' \in [Request -> Nat]
        /\ told' \in [Request -> {"none", "done", "denied", "unwritten"}]
    BY <1>2, <2>1 DEF Emit, Write, TypeOK
  <2> QED
    BY <1>2, <2>2, <2>3 DEF Emit, Write, TypeOK, client, history
<1>3. ASSUME NEW c \in Caller, Fail(c) PROVE TypeOK'
  <2>1. program' \in [Caller -> Seq(Operation)] /\ holder' \in Caller \cup {Nobody}
    BY <1>3 DEF Fail, Leave, TypeOK
  <2>2. program[c] # <<>> /\ Next1(c).codes \subseteq Nat
    BY <1>3, AtHead DEF Fail
  <2>3. code' \in [Request -> Nat]
    BY <1>3, <2>2 DEF Fail, TypeOK
  <2>4. told' \in [Request -> {"none", "done", "denied", "unwritten"}]
    BY <1>3 DEF Fail, TypeOK
  <2>5. changed' \subseteq Request
    BY <1>3 DEF Fail, TypeOK
  <2> QED
    BY <1>3, <2>1, <2>3, <2>4, <2>5 DEF Fail, TypeOK, client
<1>4. ASSUME NEW r \in Request, Panic(r) PROVE TypeOK'
  BY <1>0, <1>4, Statuses DEF Panic, Leave, TypeOK, client, history
<1>5. ASSUME NEW r \in Request, Arrive(r) PROVE TypeOK'
  <2>1. PICK p \in Asks[r] : program' = [program EXCEPT ![r] = p] /\ kind' = [kind EXCEPT ![r] = Kind(p)]
    BY <1>5 DEF Arrive
  <2>2. p \in Seq(Operation)
    BY RequestsAssumption
  <2> QED
    BY <1>5, <2>1, <2>2, KindOf DEF Arrive, TypeOK, buffer
<1>6. ASSUME NEW s \in Session, Use(s) PROVE TypeOK'
  <2>1. PICK p \in Uses[s] : program' = [program EXCEPT ![s] = p]
    BY <1>6 DEF Use
  <2>2. p \in Seq(Operation)
    BY RequestsAssumption
  <2> QED
    BY <1>6, <2>1, <2>2 DEF Use, TypeOK, buffer, client, history
<1>7. ASSUME NEW r \in Request, Expire(r) PROVE TypeOK'
  BY <1>7 DEF Expire, TypeOK, buffer, client
<1>8. ASSUME NEW r \in Request, Reply(r) PROVE TypeOK'
  BY <1>8, Statuses DEF Reply, GiveUp, Deliver, RecoverPanic, TypeOK, buffer, history
<1>9. ASSUME NEW r \in Request, Part(r) PROVE TypeOK'
  BY <1>9 DEF Part, TypeOK
<1>10. ASSUME Halt PROVE TypeOK'
  <2>1. <<>> \in Seq(Operation)
    OBVIOUS
  <2>2. program' \in [Caller -> Seq(Operation)]
    BY <1>10, <2>1 DEF Halt
  <2> QED
    BY <1>10, <2>2 DEF Halt, TypeOK, buffer, client, history
<1>11. ASSUME UNCHANGED vars PROVE TypeOK'
  BY <1>11 DEF vars, buffer, client, history, TypeOK
<1> QED
  BY <1>1, <1>2, <1>3, <1>4, <1>5, <1>6, <1>7, <1>8, <1>9, <1>10, <1>11 DEF Next, Run

-----------------------------------------------------------------------------
(* The connection.                                                         *)

\* One caller moves, and holds the connection if what is left of it goes on with it.
LEMMA OneMoves ==
  ASSUME TypeOK, ConnectionHeld, NEW c \in Caller, NEW q \in Seq(Operation),
         program' = [program EXCEPT ![c] = q], Fit(q), holder' = c <=> OnConnection(q),
         \A d \in Caller \ {c} : holder' = d <=> holder = d
  PROVE  ConnectionHeld'
<1> SUFFICES ASSUME NEW d \in Caller
             PROVE  Fit(program[d])' /\ (holder' = d <=> OnConnection(program[d])')
  BY DEF ConnectionHeld
<1>1. program'[d] = IF d = c THEN q ELSE program[d]
  BY DEF TypeOK
<1> QED
  BY <1>1 DEF ConnectionHeld, Fit, OnConnection

LEMMA HeadGoesOn ==
  ASSUME TypeOK, ConnectionHeld, NEW c \in Caller, program[c] # <<>>
  PROVE  /\ Tail(program[c]) \in Seq(Operation) /\ Fit(Tail(program[c]))
         /\ OnConnection(Tail(program[c])) <=> Next1(c).do \in {"take", "use"}
         /\ holder = c <=> Next1(c).do \in OnIt
<1>1. program[c] \in Seq(Operation) /\ Fit(program[c])
      /\ Tail(program[c]) \in Seq(Operation) /\ Next1(c) = Head(program[c])
  BY AtHead DEF ConnectionHeld
<1>2. holder = c <=> Next1(c).do \in OnIt
  BY <1>1 DEF ConnectionHeld, OnConnection
<1> QED
  BY <1>1, <1>2, FitGoesOn

LEMMA Ended == <<>> \in Seq(Operation) /\ Fit(<<>>) /\ ~OnConnection(<<>>)
BY DEF Fit, OnConnection

LEMMA ConnectionStep ==
  ASSUME TypeOK, ConnectionHeld, \A r \in Request : Sound(r), [Next]_vars
  PROVE  ConnectionHeld'
<1>0. Request \subseteq Caller /\ Session \subseteq Caller /\ Nobody \notin Caller
  BY RequestsAssumption DEF Caller
<1>1. ASSUME NEW c \in Caller, Acquire(c) PROVE ConnectionHeld'
  <2>1. Next1(c).do = "take" /\ program[c] # <<>> /\ holder = Nobody /\ holder' = c
        /\ program' = [program EXCEPT ![c] = Tail(program[c])]
    BY <1>1 DEF Acquire, At, Advance
  <2>2. /\ Tail(program[c]) \in Seq(Operation) /\ Fit(Tail(program[c]))
        /\ OnConnection(Tail(program[c]))
    BY <2>1, HeadGoesOn
  <2>3. \A d \in Caller \ {c} : holder' = d <=> holder = d
    BY <1>0, <2>1
  <2> HIDE DEF ConnectionHeld
  <2> QED
    BY <2>1, <2>2, <2>3, OneMoves
<1>2. ASSUME NEW c \in Caller, Go(c) PROVE ConnectionHeld'
  <2>1. Next1(c).do \in {"use", "check"} /\ program[c] # <<>> /\ holder' = holder
        /\ program' = [program EXCEPT ![c] = Tail(program[c])]
    BY <1>2 DEF Go, At, Advance
  <2>2. /\ Tail(program[c]) \in Seq(Operation) /\ Fit(Tail(program[c]))
        /\ OnConnection(Tail(program[c])) <=> holder = c
    BY <2>1, HeadGoesOn DEF OnIt
  <2> QED
    BY <2>1, <2>2, OneMoves
<1>3. ASSUME NEW c \in Caller, Free(c) \/ Commit(c) PROVE ConnectionHeld'
  <2>1. Next1(c).do \in {"free", "commit"} /\ program[c] # <<>> /\ holder' = Nobody
        /\ program' = [program EXCEPT ![c] = Tail(program[c])]
    BY <1>3 DEF Free, Commit, At, Advance
  <2>2. /\ Tail(program[c]) \in Seq(Operation) /\ Fit(Tail(program[c]))
        /\ ~OnConnection(Tail(program[c])) /\ holder = c
    BY <2>1, HeadGoesOn DEF OnIt
  <2> QED
    BY <1>0, <2>1, <2>2, OneMoves
<1>4. ASSUME NEW r \in Request, Emit(r) \/ Write(r) PROVE ConnectionHeld'
  <2>1. Next1(r).do \in {"tell", "answer"} /\ program[r] # <<>> /\ holder' = holder
        /\ program' = [program EXCEPT ![r] = Tail(program[r])]
    BY <1>4 DEF Emit, Write, At, Advance
  <2>2. /\ Tail(program[r]) \in Seq(Operation) /\ Fit(Tail(program[r]))
        /\ ~OnConnection(Tail(program[r])) /\ holder # r
    BY <1>0, <2>1, HeadGoesOn DEF OnIt
  <2> QED
    BY <1>0, <2>1, <2>2, OneMoves
<1>5. ASSUME NEW c \in Caller, Leave(c) PROVE ConnectionHeld'
  BY <1>0, <1>5, Ended, OneMoves DEF Leave
<1>6. ASSUME NEW r \in Request, Arrive(r) PROVE ConnectionHeld'
  <2>1. PICK p \in Asks[r] : program' = [program EXCEPT ![r] = p]
    BY <1>6 DEF Arrive
  <2>2. p \in Seq(Operation) /\ Fit(p) /\ ~OnConnection(p)
    BY RequestsAssumption, FitOfBalanced
  <2>3. holder' = holder /\ program[r] = <<>> /\ r \in Caller
    BY <1>0, <1>6 DEF Arrive, Sound, Answered
  <2>4. holder # r
    BY <2>3 DEF ConnectionHeld, OnConnection
  <2> QED
    BY <2>1, <2>2, <2>3, <2>4, OneMoves
<1>7. ASSUME NEW s \in Session, Use(s) PROVE ConnectionHeld'
  <2>1. PICK p \in Uses[s] : program' = [program EXCEPT ![s] = p]
    BY <1>7 DEF Use
  <2>2. p \in Seq(Operation) /\ Fit(p) /\ ~OnConnection(p)
    BY RequestsAssumption, FitOfBalanced
  <2>3. holder' = holder /\ program[s] = <<>> /\ s \in Caller
    BY <1>0, <1>7 DEF Use
  <2>4. holder # s
    BY <2>3 DEF ConnectionHeld, OnConnection
  <2> QED
    BY <2>1, <2>2, <2>3, <2>4, OneMoves
<1>8. ASSUME Halt PROVE ConnectionHeld'
  <2>1. \A c \in Caller : program'[c] = <<>> /\ holder' # c
    BY <1>0, <1>8 DEF Halt
  <2> QED
    BY <2>1 DEF ConnectionHeld, Fit, OnConnection
<1>9. ASSUME UNCHANGED <<program, holder>> PROVE ConnectionHeld'
  BY <1>9 DEF ConnectionHeld, Fit, OnConnection
<1>10. ASSUME NEW r \in Request, Expire(r) \/ Reply(r) \/ Part(r) PROVE UNCHANGED <<program, holder>>
  BY <1>10 DEF Expire, Reply, GiveUp, Deliver, RecoverPanic, Part
<1> QED
  BY <1>0, <1>1, <1>2, <1>3, <1>4, <1>5, <1>6, <1>7, <1>8, <1>9, <1>10
  DEF Next, Run, Fail, Panic, vars

-----------------------------------------------------------------------------
(* Time.                                                                   *)

LEMMA InTimeStep ==
  ASSUME TypeOK, ConnectionHeld, HeldInTime, \A r \in Request : Sound(r), [Next]_vars
  PROVE  HeldInTime'
<1> SUFFICES ASSUME NEW r \in Request, holder' = r, r \in over' PROVE r \in grip'
  BY DEF HeldInTime
<1>0. Request \subseteq Caller /\ Session \subseteq Caller /\ Nobody \notin Caller
  BY RequestsAssumption DEF Caller
<1>1. ASSUME NEW c \in Caller, Acquire(c) PROVE r \in grip'
  BY <1>1 DEF Acquire, history
<1>2. ASSUME UNCHANGED <<over, grip>>, holder' \in {holder, Nobody} PROVE r \in grip'
  BY <1>0, <1>2 DEF HeldInTime
<1>3. ASSUME NEW c \in Caller, Run(c) PROVE r \in grip'
  <2>1. UNCHANGED <<over, grip>> /\ holder' \in {holder, Nobody}
    BY <1>3 DEF Run, Go, Free, Commit, Fail, Leave, Emit, Write, history
  <2> QED
    BY <2>1, <1>2
<1>4. ASSUME NEW d \in Request, Arrive(d) \/ Panic(d) \/ Reply(d) PROVE r \in grip'
  <2>1. UNCHANGED <<over, grip>> /\ holder' \in {holder, Nobody}
    BY <1>4 DEF Arrive, Panic, Leave, Reply, GiveUp, Deliver, RecoverPanic, history
  <2> QED
    BY <2>1, <1>2
<1>5. ASSUME NEW s \in Session, Use(s) PROVE r \in grip'
  BY <1>2, <1>5 DEF Use, history
<1>6. ASSUME Halt PROVE r \in grip'
  BY <1>2, <1>6 DEF Halt, history
<1>7. ASSUME NEW d \in Request, Expire(d) PROVE r \in grip'
  BY <1>7 DEF Expire, HeldInTime
<1>8. ASSUME NEW d \in Request, Part(d) PROVE r \in grip'
  <2>1. r # d /\ r \in over /\ holder = r
    BY <1>8 DEF Part
  <2> QED
    BY <1>8, <2>1 DEF Part, HeldInTime
<1>9. ASSUME UNCHANGED vars PROVE r \in grip'
  BY <1>2, <1>9 DEF vars, history
<1> QED
  BY <1>1, <1>3, <1>4, <1>5, <1>6, <1>7, <1>8, <1>9 DEF Next

-----------------------------------------------------------------------------
(* What is told, recorded and changed.                                     *)

\* A request that does not move, while the process does not stop.
LEMMA Untouched ==
  ASSUME NEW r \in Request, Sound(r), up' = up,
         program'[r] = program[r], code'[r] = code[r], told'[r] = told[r], kind'[r] = kind[r],
         outer'[r] = outer[r], answer'[r] = answer[r], logged'[r] = logged[r],
         r \in changed' <=> r \in changed, r \in over' <=> r \in over
  PROVE  Sound(r)'
<1>1. LeftOrderly(r)'
  <2>1. (r \in changed') = (r \in changed)
    OBVIOUS
  <2> QED
    BY <2>1 DEF Sound, LeftOrderly, Said
<1>2. LeftBehind(r)'
  BY DEF Sound, LeftBehind, Said
<1>3. Answered(r)'
  BY DEF Sound, Answered
<1> QED
  BY <1>1, <1>2, <1>3 DEF Sound

\* A request goes on to its next operation.
LEMMA GoesOn ==
  ASSUME TypeOK, NEW r \in Request, Sound(r), program[r] # <<>>, Next1(r).do # "answer",
         up' = up, program'[r] = Tail(program[r]), code'[r] = code[r], kind'[r] = kind[r],
         outer'[r] = outer[r], answer'[r] = answer[r], logged'[r] = logged[r],
         r \in over' <=> r \in over,
         r \in changed' <=> r \in changed \/ Next1(r).do = "commit",
         IF Next1(r).do = "tell" THEN told'[r] \in {"done", "unwritten"} ELSE told'[r] = told[r]
  PROVE  Sound(r)'
<1> DEFINE q == program[r]  t == Tail(program[r])
           made == r \in changed  said == Said(r)
<1>1. q \in Seq(Operation) /\ q # <<>> /\ Next1(r) = Head(q) /\ Next1(r) = q[1] /\ 1 \in DOMAIN q
  BY AtHead DEF Caller
<1>2. Orderly(q, kind[r], made, said) /\ code[r] = 0 /\ told[r] # "denied"
  BY DEF Sound, LeftOrderly
<1>3. /\ t # <<>>
      /\ Orderly(t, kind[r], made \/ Head(q).do = "commit", said \/ Head(q).do = "tell")
  <2> HIDE DEF q, made, said
  <2>1. made \in BOOLEAN /\ said \in BOOLEAN
    BY DEF made, said, Said
  <2>2. Head(q).do # "answer"
    BY <1>1
  <2> QED
    BY <1>1, <1>2, <2>1, <2>2, OrderlyGoesOn DEF q
<1>4. (r \in changed') = (made \/ Head(q).do = "commit")
  BY <1>1
<1>5. Said(r)' = (said \/ Head(q).do = "tell")
  BY <1>1 DEF Said
<1>6. LeftOrderly(r)'
  <2>1. told'[r] # "denied" /\ code'[r] = 0
    BY <1>2
  <2>2. Orderly(t, kind'[r], r \in changed', Said(r)')
    BY <1>3, <1>4, <1>5
  <2> QED
    BY <2>1, <2>2 DEF LeftOrderly
<1>7. ASSUME Next1(r).do = "tell", kind[r] # "reads" PROVE made
  <2>1. ~Changes(q)
    <3> SUFFICES ASSUME NEW i \in DOMAIN q, q[i].do = "commit" PROVE FALSE
      BY DEF Changes
    <3>1. i <= 1
      BY <1>1, <1>2, <1>7 DEF Orderly, ChangesFirst
    <3>2. i \in Nat /\ i >= 1
      BY <1>1, TailOf
    <3> QED
      BY <1>1, <1>7, <3>1, <3>2
  <2> QED
    BY <1>2, <1>7, <2>1 DEF Orderly, Due
<1>8. LeftBehind(r)'
  <2>1. code'[r] \notin Success /\ code'[r] \notin Refused
    BY <1>2, Statuses
  <2>2. told'[r] = "done" /\ kind'[r] # "reads" => r \in changed'
    BY <1>7 DEF Sound, LeftBehind
  <2>3. program'[r] # <<>> /\ told'[r] # "denied"
    BY <1>2, <1>3
  <2>4. told'[r] = "unwritten" /\ kind'[r] # "reads" => r \in changed'
    BY <1>2, <1>7, Statuses DEF Sound, LeftBehind
  <2> QED
    BY <2>1, <2>2, <2>3, <2>4 DEF LeftBehind
<1>9. Answered(r)'
  BY DEF Sound, Answered
<1> QED
  BY <1>6, <1>8, <1>9 DEF Sound

\* A request comes to its end with a status in its buffer.
LEMMA Ends ==
  ASSUME NEW r \in Request, Sound(r), program[r] # <<>>,
         program'[r] = <<>>, outer'[r] = outer[r], answer'[r] = answer[r],
         logged'[r] = logged[r], LeftBehind(r)'
  PROVE  Sound(r)'
<1>1. code[r] = 0
  BY DEF Sound, LeftOrderly
<1>2. answer[r] \in {0, Timeout, Internal} /\ outer[r] # "idle"
  BY <1>1 DEF Sound, Answered
<1> QED
  BY <1>2 DEF Sound, LeftOrderly, Answered

\* The program at its head, where a request may fail.
LEMMA FailsOrderly ==
  ASSUME TypeOK, NEW r \in Request, Sound(r), program[r] # <<>>, Next1(r).do # "answer",
         NEW s \in Next1(r).codes
  PROVE  /\ s \in Refused \cup {Internal, Timeout}
         /\ r \in changed => kind[r] = "rereads" /\ s \in {404, Internal}
         /\ Next1(r).deny => r \notin changed /\ Next1(r).do # "commit" /\ s # Timeout
<1> DEFINE q == program[r]
<1>1. Next1(r) = q[1] /\ 1 \in DOMAIN q
  BY AtHead DEF Caller
<1>2. EndsWell(q) /\ RefusesFirst(q, kind[r], r \in changed) /\ DeniesFirst(q, r \in changed)
  BY DEF Sound, LeftOrderly, Orderly
<1> HIDE DEF q
<1>3. s \in Refused \cup {Internal, Timeout}
  BY <1>1, <1>2 DEF EndsWell
<1>4. r \in changed => kind[r] = "rereads" /\ s \in {404, Internal}
  BY <1>1, <1>2 DEF RefusesFirst
<1>5. Next1(r).deny => r \notin changed /\ Next1(r).do # "commit" /\ s # Timeout
  BY <1>1, <1>2 DEF DeniesFirst
<1> QED
  BY <1>3, <1>4, <1>5

LEMMA FailSound ==
  ASSUME TypeOK, NEW r \in Request, Sound(r), Fail(r)
  PROVE  Sound(r)'
<1>1. PICK s \in Next1(r).codes :
        /\ code' = [code EXCEPT ![r] = s]
        /\ \/ UNCHANGED changed
           \/ /\ Next1(r).do = "commit" /\ s = Internal /\ r \in over
              /\ changed' = changed \cup {r}
  BY DEF Fail
<1>2. /\ program[r] # <<>> /\ Next1(r).do # "answer" /\ program' = [program EXCEPT ![r] = <<>>]
      /\ IF Next1(r).deny THEN \E t \in {"denied", "unwritten"} : told' = [told EXCEPT ![r] = t]
                          ELSE UNCHANGED told
      /\ UNCHANGED <<up, over, outer, answer, logged, kind>>
  BY DEF Fail, Leave, client
<1>3. /\ s \in Refused \cup {Internal, Timeout}
      /\ r \in changed => kind[r] = "rereads" /\ s \in {404, Internal}
      /\ Next1(r).deny => r \notin changed /\ Next1(r).do # "commit" /\ s # Timeout
  BY <1>2, FailsOrderly
<1>4. /\ code'[r] = s /\ program'[r] = <<>>
      /\ IF Next1(r).deny THEN told'[r] \in {"denied", "unwritten"} ELSE told'[r] = told[r]
  BY <1>1, <1>2 DEF TypeOK, Caller
<1>5. told[r] # "denied" /\ code[r] = 0
  BY <1>2 DEF Sound, LeftOrderly
<1>6. s \notin Success
  BY <1>3, Statuses
<1>7. s \in Refused /\ r \in changed' => kind'[r] = "rereads" /\ s = 404
  <2>1. s \in Refused => s # Internal /\ UNCHANGED changed
    BY <1>1, Statuses
  <2> QED
    BY <1>2, <1>3, <2>1
<1>8. told'[r] = "done" /\ kind'[r] # "reads" => r \in changed'
  BY <1>1, <1>2, <1>4 DEF Sound, LeftBehind
<1>9. told'[r] = "denied" => r \notin changed' /\ s \in Refused \cup {Internal}
  BY <1>1, <1>3, <1>4, <1>5
<1>10. r \in changed' => (r \in over' /\ s = Internal)
                         \/ (kind'[r] = "rereads" /\ s \in {404, Internal})
  BY <1>1, <1>2, <1>3
<1>11. told'[r] = "unwritten" /\ kind'[r] # "reads" /\ r \notin changed' =>
         s \in Refused \cup {Internal}
  <2>1. CASE Next1(r).deny
    BY <1>3, <2>1
  <2>2. CASE ~Next1(r).deny
    BY <1>1, <1>2, <1>4, <1>5, <2>2, Statuses DEF Sound, LeftBehind
  <2> QED
    BY <2>1, <2>2
<1>12. LeftBehind(r)'
  BY <1>4, <1>6, <1>7, <1>8, <1>9, <1>10, <1>11 DEF LeftBehind
<1> QED
  BY <1>2, <1>4, <1>12, Ends

LEMMA WriteSound ==
  ASSUME TypeOK, NEW r \in Request, Sound(r), Write(r)
  PROVE  Sound(r)'
<1> DEFINE q == program[r]
<1>1. PICK s \in Next1(r).codes : code' = [code EXCEPT ![r] = s]
  BY DEF Write
<1>2. /\ q # <<>> /\ Next1(r).do = "answer" /\ program' = [program EXCEPT ![r] = Tail(q)]
      /\ UNCHANGED <<up, over, told, outer, answer, logged, kind, changed>>
  BY DEF Write, At, Advance, client, history
<1>3. Next1(r) = q[1] /\ 1 \in DOMAIN q /\ q \in Seq(Operation)
  BY <1>2, AtHead DEF Caller
<1>4. /\ EndsWell(q) /\ Due(q, kind[r], r \in changed, Said(r))
      /\ code[r] = 0 /\ told[r] # "denied"
  BY <1>2 DEF Sound, LeftOrderly, Orderly
<1>5. Len(q) = 1 /\ s \in Success
  BY <1>2, <1>3, <1>4 DEF EndsWell
<1>6. Tail(q) = <<>>
  BY <1>3, <1>5, <1>2, TailOf
<1>7. ~Changes(q) /\ ~Tells(q)
  BY <1>2, <1>3, <1>5, TailOf DEF Changes, Tells
<1>8. /\ kind[r] = "reads" => r \notin changed
      /\ kind[r] # "reads" => r \in changed /\ Said(r)
  BY <1>4, <1>7 DEF Due
<1>9. code'[r] = s /\ program'[r] = <<>>
  BY <1>1, <1>2, <1>6 DEF TypeOK, Caller
<1>10. LeftBehind(r)'
  BY <1>2, <1>4, <1>5, <1>8, <1>9, Statuses DEF LeftBehind, Said
<1> QED
  BY <1>2, <1>9, <1>10, Ends

LEMMA PanicSound ==
  ASSUME TypeOK, NEW r \in Request, Sound(r), Panic(r)
  PROVE  Sound(r)'
<1>1. /\ program[r] # <<>> /\ program'[r] = <<>> /\ code'[r] = PanicCode
      /\ UNCHANGED <<up, over, told, outer, answer, logged, kind, changed>>
  BY DEF Panic, Leave, client, history, TypeOK, Caller
<1>2. told[r] # "denied" /\ code[r] = 0
  BY <1>1 DEF Sound, LeftOrderly
<1>3. LeftBehind(r)'
  BY <1>1, <1>2, Statuses DEF Sound, LeftBehind, Said
<1> QED
  BY <1>1, <1>3, Ends

LEMMA ArriveSound ==
  ASSUME TypeOK, NEW r \in Request, Sound(r), Arrive(r)
  PROVE  Sound(r)'
<1>1. PICK p \in Asks[r] : /\ program' = [program EXCEPT ![r] = p]
                           /\ kind' = [kind EXCEPT ![r] = Kind(p)]
  BY DEF Arrive
<1>2. p # <<>> /\ Orderly(p, Kind(p), FALSE, FALSE)
  BY RequestsAssumption
<1>3. /\ outer[r] = "idle" /\ program'[r] = p /\ kind'[r] = Kind(p) /\ outer'[r] = "served"
      /\ UNCHANGED <<up, over, code, told, answer, logged, changed>>
  BY <1>1 DEF Arrive, buffer, TypeOK, Caller
<1>4. /\ code[r] = 0 /\ answer[r] = 0 /\ logged[r] = 0 /\ told[r] = "none"
      /\ r \notin changed /\ r \notin over
  BY <1>3 DEF Sound, Answered
<1>5. (r \in changed') = FALSE /\ Said(r)' = FALSE
  BY <1>3, <1>4 DEF Said
<1>6. LeftOrderly(r)'
  BY <1>2, <1>3, <1>4, <1>5 DEF LeftOrderly
<1>7. LeftBehind(r)'
  BY <1>3, <1>4, Statuses DEF LeftBehind
<1>8. Answered(r)'
  BY <1>3, <1>4 DEF Answered
<1> QED
  BY <1>6, <1>7, <1>8 DEF Sound

\* The answer to a request that is served.
LEMMA ReplySound ==
  ASSUME TypeOK, NEW r \in Request, Sound(r), Reply(r)
  PROVE  Sound(r)'
<1>1. UNCHANGED <<up, program, over, code, told, kind, changed>> /\ outer[r] = "served"
  BY DEF Reply, GiveUp, Deliver, RecoverPanic, buffer, history
<1>2. answer[r] = 0 /\ logged[r] = 0
  BY <1>1 DEF Sound, Answered
<1>3. outer'[r] = "answered"
  BY DEF Reply, GiveUp, Deliver, RecoverPanic, TypeOK
<1>4. \/ answer'[r] = Timeout /\ logged'[r] = Timeout
      \/ answer'[r] = code[r] /\ logged'[r] = code[r] /\ code[r] # 0
      \/ answer'[r] = Internal /\ logged'[r] = 0
  BY <1>2 DEF Reply, GiveUp, Deliver, RecoverPanic, TypeOK
<1>5. code[r] # 0 => program[r] = <<>>
  BY DEF Sound, LeftOrderly
<1>6. Answered(r)'
  BY <1>1, <1>3, <1>4, <1>5, Statuses DEF Answered
<1>7. LeftOrderly(r)' /\ LeftBehind(r)'
  BY <1>1 DEF Sound, LeftOrderly, LeftBehind, Said
<1> QED
  BY <1>6, <1>7 DEF Sound

LEMMA ExpireSound ==
  ASSUME TypeOK, NEW r \in Request, Sound(r), Expire(r)
  PROVE  Sound(r)'
<1>1. /\ UNCHANGED <<up, program, code, told, kind, changed, outer, answer, logged>>
      /\ outer[r] = "served" /\ over' = over \cup {r}
  BY DEF Expire, buffer, client
<1>2. Answered(r)'
  BY <1>1 DEF Sound, Answered
<1>3. LeftOrderly(r)' /\ LeftBehind(r)'
  BY <1>1 DEF Sound, LeftOrderly, LeftBehind, Said
<1> QED
  BY <1>2, <1>3 DEF Sound

LEMMA PartSound ==
  ASSUME TypeOK, NEW r \in Request, Part(r)
  PROVE  Sound(r)'
<1>1. /\ program'[r] = <<>> /\ code'[r] = 0 /\ answer'[r] = 0 /\ logged'[r] = 0
      /\ told'[r] = "none" /\ r \notin changed' /\ r \notin over'
  BY DEF Part, TypeOK
<1> QED
  BY <1>1, Statuses DEF Sound, LeftOrderly, LeftBehind, Answered

LEMMA HaltSound ==
  ASSUME TypeOK, NEW r \in Request, Sound(r), Halt
  PROVE  Sound(r)'
<1>1. /\ program'[r] = <<>> /\ ~up'
      /\ UNCHANGED <<over, code, told, kind, changed, outer, answer, logged>>
  BY DEF Halt, buffer, client, history, Caller
<1> QED
  BY <1>1 DEF Sound, LeftOrderly, LeftBehind, Answered, Said

\* What the step of one caller leaves alone of a request that is another.
LEMMA Others ==
  ASSUME TypeOK, NEW r \in Request, Sound(r), NEW d \in Caller, d # r,
         \/ Acquire(d) \/ Run(d)
         \/ d \in Request /\ (Arrive(d) \/ Panic(d) \/ Expire(d) \/ Reply(d) \/ Part(d))
         \/ d \in Session /\ Use(d)
  PROVE  Sound(r)'
<1> USE DEF buffer, client, history, TypeOK, Caller
<1>1. ASSUME Acquire(d) PROVE Sound(r)'
  BY <1>1, Untouched DEF Acquire, Advance
<1>2. ASSUME Go(d) \/ Free(d) \/ Commit(d) PROVE Sound(r)'
  BY <1>2, Untouched DEF Go, Free, Commit, Advance
<1>3. ASSUME Fail(d) PROVE Sound(r)'
  <2>1. /\ up' = up /\ program'[r] = program[r] /\ kind'[r] = kind[r] /\ outer'[r] = outer[r]
        /\ answer'[r] = answer[r] /\ logged'[r] = logged[r] /\ over' = over
    BY <1>3 DEF Fail, Leave
  <2>2. code'[r] = code[r] /\ (r \in changed' <=> r \in changed)
    BY <1>3 DEF Fail
  <2>3. told'[r] = told[r]
    BY <1>3 DEF Fail
  <2> QED
    BY <2>1, <2>2, <2>3, Untouched
<1>4. ASSUME d \in Request, Emit(d) \/ Write(d) PROVE Sound(r)'
  <2>1. code'[r] = code[r] /\ told'[r] = told[r]
    BY <1>4 DEF Emit, Write
  <2> QED
    BY <1>4, <2>1, Untouched DEF Emit, Write, Advance
<1>5. ASSUME d \in Request, Arrive(d) PROVE Sound(r)'
  BY <1>5, Untouched DEF Arrive
<1>6. ASSUME d \in Request, Panic(d) PROVE Sound(r)'
  BY <1>6, Untouched DEF Panic, Leave
<1>7. ASSUME d \in Request, Expire(d) PROVE Sound(r)'
  BY <1>7, Untouched DEF Expire
<1>8. ASSUME d \in Request, Reply(d) PROVE Sound(r)'
  BY <1>8, Untouched DEF Reply, GiveUp, Deliver, RecoverPanic
<1>9. ASSUME d \in Request, Part(d) PROVE Sound(r)'
  BY <1>9, Untouched DEF Part
<1>10. ASSUME Use(d) PROVE Sound(r)'
  BY <1>10, Untouched DEF Use
<1> QED
  BY <1>1, <1>2, <1>3, <1>4, <1>5, <1>6, <1>7, <1>8, <1>9, <1>10 DEF Run

LEMMA SoundStep ==
  ASSUME TypeOK, NEW r \in Request, Sound(r), [Next]_vars
  PROVE  Sound(r)'
<1>0. Request \subseteq Caller /\ Session \subseteq Caller /\ r \notin Session
  BY RequestsAssumption DEF Caller
<1>1. ASSUME Acquire(r) PROVE Sound(r)'
  <2>1. Next1(r).do = "take" /\ program[r] # <<>>
    BY <1>1 DEF Acquire, At
  <2> QED
    BY <1>1, <2>1, GoesOn DEF Acquire, Advance, buffer, client, history, TypeOK, Caller
<1>2. ASSUME Go(r) PROVE Sound(r)'
  <2>1. Next1(r).do \in {"use", "check"} /\ program[r] # <<>>
    BY <1>2 DEF Go, At
  <2> QED
    BY <1>2, <2>1, GoesOn DEF Go, Advance, buffer, client, history, TypeOK, Caller
<1>3. ASSUME Free(r) PROVE Sound(r)'
  <2>1. Next1(r).do = "free" /\ program[r] # <<>>
    BY <1>3 DEF Free, At
  <2> QED
    BY <1>3, <2>1, GoesOn DEF Free, Advance, buffer, client, history, TypeOK, Caller
<1>4. ASSUME Commit(r) PROVE Sound(r)'
  <2>1. Next1(r).do = "commit" /\ program[r] # <<>>
    BY <1>4 DEF Commit, At
  <2> QED
    BY <1>4, <2>1, GoesOn DEF Commit, Advance, buffer, client, TypeOK, Caller
<1>5. ASSUME Emit(r) PROVE Sound(r)'
  <2>1. Next1(r).do = "tell" /\ program[r] # <<>>
    BY <1>5 DEF Emit, At
  <2> QED
    BY <1>5, <2>1, GoesOn DEF Emit, Advance, client, history, TypeOK, Caller
<1>6. ASSUME Run(r) PROVE Sound(r)'
  BY <1>2, <1>3, <1>4, <1>5, <1>6, FailSound, WriteSound DEF Run
<1>7. ASSUME NEW c \in Caller, Acquire(c) \/ Run(c) PROVE Sound(r)'
  BY <1>1, <1>6, <1>7, Others
<1>8. ASSUME NEW d \in Request,
             Arrive(d) \/ Panic(d) \/ Expire(d) \/ Reply(d) \/ Part(d) PROVE Sound(r)'
  <2>1. CASE d = r
    BY <1>8, <2>1, ArriveSound, PanicSound, ExpireSound, ReplySound, PartSound
  <2>2. CASE d # r
    BY <1>0, <1>8, <2>2, Others
  <2> QED
    BY <2>1, <2>2
<1>9. ASSUME NEW s \in Session, Use(s) PROVE Sound(r)'
  BY <1>0, <1>9, Others
<1>10. ASSUME UNCHANGED vars PROVE Sound(r)'
  BY <1>10, Untouched DEF vars, buffer, client, history
<1> QED
  BY <1>7, <1>8, <1>9, <1>10, HaltSound DEF Next

LEMMA InvStep == IInv /\ [Next]_vars => IInv'
<1> SUFFICES ASSUME IInv, [Next]_vars PROVE IInv'
  OBVIOUS
<1>1. TypeOK /\ ConnectionHeld /\ HeldInTime /\ \A r \in Request : Sound(r)
  BY DEF IInv
<1>2. TypeOK'
  BY <1>1, TypeStep
<1>3. ConnectionHeld' /\ HeldInTime'
  BY <1>1, ConnectionStep, InTimeStep
<1>4. \A r \in Request : Sound(r)'
  BY <1>1, SoundStep
<1> QED
  BY <1>2, <1>3, <1>4 DEF IInv

-----------------------------------------------------------------------------
(* Theorems.                                                               *)

\* Every step leaves a state of the declared types.
THEOREM RequestsTypeCorrect == Spec => []TypeOK
<1>1. IInv => TypeOK
  BY DEF IInv
<1> QED
  BY InitInv, InvStep, <1>1, PTL DEF Spec

\* What a client is told is true of the store, the trail and the access log (Wrap,
\* Timeout, AccessLog and the handlers).
THEOREM AnswersAreTrue == Spec => []AnswerIsTrue
<1>1. IInv => AnswerIsTrue
  <2> SUFFICES ASSUME NEW r \in Request, Sound(r)
               PROVE  /\ answer[r] \in Success /\ kind[r] # "reads" =>
                           r \in changed /\ told[r] \in {"done", "unwritten"}
                      /\ answer[r] \in Refused /\ r \in changed =>
                           kind[r] = "rereads" /\ answer[r] = 404
                      /\ logged[r] \in {0, answer[r]}
                      /\ answer[r] # 0 /\ logged[r] = 0 => answer[r] = Internal
    BY DEF IInv, AnswerIsTrue
  <2>1. answer[r] \in Success \cup Refused => answer[r] = code[r]
    BY Statuses DEF Sound, Answered
  <2> QED
    BY <2>1 DEF Sound, LeftBehind, Answered, Said
<1> QED
  BY InitInv, InvStep, <1>1, PTL DEF Spec

\* The trail agrees with the store: what it has as done was done, a denial did nothing, and
\* only what cut a handler off can keep a change out of it (Emit and deny).
THEOREM TrailAgreesWithStore == Spec => []RecordsAgree
<1>1. IInv => RecordsAgree
  BY DEF IInv, Sound, LeftBehind, RecordsAgree
<1> QED
  BY InitInv, InvStep, <1>1, PTL DEF Spec

\* A request whose time has run out changes nothing any more, unless it holds the
\* connection by then (Timeout, and the context of every statement).
THEOREM NothingIsLate == Spec => NoLateChange
<1>1. IInv /\ [Next]_vars =>
        [\A r \in Request : r \in changed' \ changed /\ r \in over => r \in grip]_vars
  <2> SUFFICES ASSUME IInv, [Next]_vars, NEW r \in Request, r \in changed' \ changed, r \in over
               PROVE  r \in grip
    OBVIOUS
  <2>1. TypeOK /\ ConnectionHeld /\ HeldInTime /\ r \in Caller
    BY DEF IInv, Caller
  <2>2. ASSUME Commit(r) \/ Fail(r) PROVE r \in grip
    <3>1. program[r] # <<>> /\ Next1(r).do = "commit"
      BY <2>2 DEF Commit, Fail, At
    <3>2. holder = r
      BY <2>1, <3>1, HeadGoesOn DEF OnIt
    <3> QED
      BY <2>1, <3>2 DEF HeldInTime
  <2>3. ASSUME NEW c \in Caller, Acquire(c) \/ Run(c) PROVE c = r /\ (Commit(r) \/ Fail(r))
    BY <2>3 DEF Acquire, Run, Go, Free, Commit, Fail, Emit, Write, history
  <2>4. ASSUME \/ \E d \in Request : Arrive(d) \/ Panic(d) \/ Expire(d) \/ Reply(d) \/ Part(d)
               \/ \E s \in Session : Use(s)
               \/ Halt
               \/ UNCHANGED vars
        PROVE  FALSE
    BY <2>4 DEF Arrive, Panic, Expire, Reply, GiveUp, Deliver, RecoverPanic, Part, Use, Halt,
                vars, history
  <2> QED
    BY <2>2, <2>3, <2>4 DEF Next
<1> QED
  BY InitInv, InvStep, <1>1, PTL DEF Spec, NoLateChange

-----------------------------------------------------------------------------
(* The programs of the code have the shape that RequestsAssumption asks    *)
(* for, whatever MaxRows and Attempts are: each is made of pieces that only *)
(* look, at most one piece that changes, and an answer.                    *)

Errors == Refused \cup {Internal, Timeout}

\* What a program does before its change: nothing that stays.
BeforeOps == {o \in Operation :
  /\ o.do \in {"take", "use", "free", "check"} /\ o.codes \subseteq Errors
  /\ o.deny => Timeout \notin o.codes}
TellOps   == {o \in Operation : o.do = "tell" /\ o.codes = {} /\ ~o.deny}
AnswerOps == {o \in Operation : o.do = "answer" /\ o.codes \subseteq Success /\ ~o.deny}
CommitOps == {o \in Operation : o.do = "commit" /\ o.codes \subseteq Errors /\ ~o.deny}
RereadOps == {o \in Operation :
  o.do \in {"take", "use", "free", "check"} /\ o.codes \subseteq {404, Internal} /\ ~o.deny}

LEMMA Concat ==
  ASSUME NEW S, NEW p \in Seq(S), NEW q \in Seq(S)
  PROVE  /\ p \o q \in Seq(S) /\ Len(p \o q) = Len(p) + Len(q)
         /\ Len(p) \in Nat /\ Len(q) \in Nat
         /\ DOMAIN p = 1..Len(p) /\ DOMAIN q = 1..Len(q)
         /\ DOMAIN (p \o q) = 1..(Len(p) + Len(q))
         /\ \A i \in DOMAIN p : i \in DOMAIN (p \o q) /\ (p \o q)[i] = p[i]
         /\ \A i \in DOMAIN q : i + Len(p) \in DOMAIN (p \o q) /\ (p \o q)[i + Len(p)] = q[i]
         /\ \A i \in DOMAIN (p \o q) : i \in DOMAIN p \/ (i - Len(p) \in DOMAIN q /\ i \notin DOMAIN p)
<1> DEFINE r == p \o q
<1>1. /\ r \in Seq(S) /\ Len(r) = Len(p) + Len(q) /\ Len(p) \in Nat /\ Len(q) \in Nat
      /\ DOMAIN p = 1..Len(p) /\ DOMAIN q = 1..Len(q) /\ DOMAIN r = 1..Len(r)
      /\ \A i \in 1..Len(p) : r[i] = p[i]
      /\ \A i \in 1..Len(r) : i > Len(p) => r[i] = q[i - Len(p)]
  OBVIOUS
<1> HIDE DEF r
<1>2. \A i \in 1..Len(q) : i + Len(p) \in 1..Len(r) /\ i + Len(p) > Len(p) /\ (i + Len(p)) - Len(p) = i
  BY <1>1
<1>3. \A i \in 1..Len(p) : i \in 1..Len(r)
  BY <1>1
<1>4. \A i \in 1..Len(r) : i \in 1..Len(p) \/ (i - Len(p) \in 1..Len(q) /\ i \notin 1..Len(p))
  BY <1>1
<1> QED
  BY <1>1, <1>2, <1>3, <1>4 DEF r

\* A piece of a program that leaves the connection as it found it.
Piece(p) == p \in Seq(Operation) /\ Balanced(p)

LEMMA PiecesJoin ==
  ASSUME NEW p, NEW q, Piece(p), Piece(q)
  PROVE  Piece(p \o q)
<1> DEFINE r == p \o q
           n == Len(p)
<1>1. /\ r \in Seq(Operation) /\ n \in Nat /\ Len(q) \in Nat
      /\ DOMAIN p = 1..n /\ DOMAIN q = 1..Len(q) /\ DOMAIN r = 1..(n + Len(q))
      /\ \A i \in DOMAIN p : i \in DOMAIN r /\ r[i] = p[i]
      /\ \A i \in DOMAIN q : i + n \in DOMAIN r /\ r[i + n] = q[i]
      /\ \A i \in DOMAIN r : i \in DOMAIN p \/ (i - n \in DOMAIN q /\ i \notin DOMAIN p)
  BY Concat DEF Piece
<1> HIDE DEF r, n
<1>2. ASSUME NEW i \in DOMAIN r
      PROVE  /\ r[i].do \in {"take", "use"} <=> i + 1 \in DOMAIN r /\ r[i + 1].do \in OnIt
             /\ i = 1 => r[i].do \notin OnIt
  <2>1. CASE i \in DOMAIN p /\ i + 1 \in DOMAIN p
    BY <1>1, <2>1 DEF Piece, Balanced
  <2>2. CASE i \in DOMAIN p /\ i + 1 \notin DOMAIN p
    <3>1. i = n /\ r[i] = p[i]
      BY <1>1, <2>2
    <3>2. r[i].do \notin {"take", "use"} /\ (i = 1 => r[i].do \notin OnIt)
      BY <1>1, <2>2, <3>1 DEF Piece, Balanced
    <3>3. ASSUME i + 1 \in DOMAIN r PROVE r[i + 1].do \notin OnIt
      <4>1. 1 \in DOMAIN q /\ i + 1 = 1 + n
        BY <1>1, <3>1, <3>3
      <4>2. r[i + 1] = q[1]
        BY <1>1, <4>1
      <4> QED
        BY <4>1, <4>2 DEF Piece, Balanced
    <3> QED
      BY <3>2, <3>3
  <2>3. CASE i \notin DOMAIN p
    <3>1. PICK j \in DOMAIN q : i = j + n /\ r[i] = q[j] /\ j \in Nat
      <4>1. i - n \in DOMAIN q /\ i = (i - n) + n /\ i - n \in Nat
        BY <1>1, <2>3
      <4> QED
        BY <1>1, <4>1
    <3>2. (i + 1) = (j + 1) + n /\ (i + 1 \in DOMAIN r <=> j + 1 \in DOMAIN q)
      BY <1>1, <3>1
    <3>3. i + 1 \in DOMAIN r => r[i + 1] = q[j + 1]
      BY <1>1, <3>2
    <3>4. q[j].do \in {"take", "use"} <=> j + 1 \in DOMAIN q /\ q[j + 1].do \in OnIt
      BY DEF Piece, Balanced
    <3>5. i = 1 => j = 1
      BY <1>1, <3>1
    <3>6. j = 1 => q[j].do \notin OnIt
      BY DEF Piece, Balanced
    <3> QED
      BY <3>1, <3>2, <3>3, <3>4, <3>5, <3>6
  <2> QED
    BY <2>1, <2>2, <2>3
<1> QED
  BY <1>1, <1>2 DEF Piece, Balanced, r

\* A piece that changes nothing, and may end the program with an error.
Looks(p) == Piece(p) /\ p \in Seq(BeforeOps)

LEMMA LooksJoin ==
  ASSUME NEW p, NEW q, Looks(p), Looks(q)
  PROVE  Looks(p \o q)
<1>1. p \o q \in Seq(BeforeOps)
  BY Concat DEF Looks
<1> QED
  BY <1>1, PiecesJoin DEF Looks

\* A piece that ends in a change, but for operations of A after it.
Does(p, A) ==
  /\ Piece(p)
  /\ \E m \in DOMAIN p :
       /\ p[m] \in CommitOps
       /\ \A i \in DOMAIN p : (i < m => p[i] \in BeforeOps) /\ (i > m => p[i] \in A)

LEMMA DoesAfterLook ==
  ASSUME NEW p, NEW q, NEW A, Looks(p), Does(q, A)
  PROVE  Does(p \o q, A)
<1> DEFINE r == p \o q
           n == Len(p)
<1>1. /\ n \in Nat /\ Len(q) \in Nat
      /\ DOMAIN p = 1..n /\ DOMAIN q = 1..Len(q) /\ DOMAIN r = 1..(n + Len(q))
      /\ \A i \in DOMAIN p : i \in DOMAIN r /\ r[i] = p[i]
      /\ \A i \in DOMAIN q : i + n \in DOMAIN r /\ r[i + n] = q[i]
      /\ \A i \in DOMAIN r : i \in DOMAIN p \/ (i - n \in DOMAIN q /\ i \notin DOMAIN p)
  BY Concat DEF Looks, Does, Piece
<1>2. Piece(r)
  BY PiecesJoin DEF Looks, Does
<1> HIDE DEF r, n
<1>3. PICK m \in DOMAIN q :
        /\ q[m] \in CommitOps
        /\ \A i \in DOMAIN q : (i < m => q[i] \in BeforeOps) /\ (i > m => q[i] \in A)
  BY DEF Does
<1>4. m + n \in DOMAIN r /\ r[m + n] \in CommitOps /\ m \in Nat
  BY <1>1, <1>3
<1>5. ASSUME NEW i \in DOMAIN r
      PROVE  (i < m + n => r[i] \in BeforeOps) /\ (i > m + n => r[i] \in A)
  <2>1. CASE i \in DOMAIN p
    <3>1. p[i] \in BeforeOps
      BY <2>1 DEF Looks
    <3> QED
      BY <1>1, <1>4, <2>1, <3>1
  <2>2. CASE i \notin DOMAIN p
    <3>1. PICK j \in DOMAIN q : i = j + n /\ r[i] = q[j] /\ j \in Nat
      <4>1. i - n \in DOMAIN q /\ i = (i - n) + n /\ i - n \in Nat
        BY <1>1, <2>2
      <4> QED
        BY <1>1, <4>1
    <3>2. (i < m + n <=> j < m) /\ (i > m + n <=> j > m)
      BY <1>1, <1>4, <3>1
    <3> QED
      BY <1>3, <3>1, <3>2
  <2> QED
    BY <2>1, <2>2
<1> QED
  BY <1>2, <1>4, <1>5 DEF Does, r

LEMMA DoesThen ==
  ASSUME NEW p, NEW q, NEW A, NEW B, Does(p, A), Piece(q), q \in Seq(B)
  PROVE  Does(p \o q, A \cup B)
<1> DEFINE r == p \o q
           n == Len(p)
<1>1. /\ n \in Nat /\ Len(q) \in Nat
      /\ DOMAIN p = 1..n /\ DOMAIN q = 1..Len(q) /\ DOMAIN r = 1..(n + Len(q))
      /\ \A i \in DOMAIN p : i \in DOMAIN r /\ r[i] = p[i]
      /\ \A i \in DOMAIN q : i + n \in DOMAIN r /\ r[i + n] = q[i]
      /\ \A i \in DOMAIN r : i \in DOMAIN p \/ (i - n \in DOMAIN q /\ i \notin DOMAIN p)
  BY Concat DEF Does, Piece
<1>2. Piece(r)
  BY PiecesJoin DEF Does
<1> HIDE DEF r, n
<1>3. PICK m \in DOMAIN p :
        /\ p[m] \in CommitOps
        /\ \A i \in DOMAIN p : (i < m => p[i] \in BeforeOps) /\ (i > m => p[i] \in A)
  BY DEF Does
<1>4. ASSUME NEW i \in DOMAIN r
      PROVE  (i < m => r[i] \in BeforeOps) /\ (i > m => r[i] \in A \cup B)
  <2>1. CASE i \in DOMAIN p
    BY <1>1, <1>3, <2>1
  <2>2. CASE i \notin DOMAIN p
    <3>1. i - n \in DOMAIN q /\ i = (i - n) + n /\ i > m
      BY <1>1, <1>3, <2>2
    <3>2. r[i] = q[i - n] /\ q[i - n] \in B
      BY <1>1, <3>1
    <3> QED
      BY <1>1, <1>3, <3>1, <3>2
  <2> QED
    BY <2>1, <2>2
<1> QED
  BY <1>1, <1>2, <1>3, <1>4 DEF Does, r

\* A request that only looks, and one that changes and may look again with A; both end in
\* an answer.
EndsInAnswer(p) == p # <<>> /\ \A i \in DOMAIN p : p[i].do = "answer" <=> i = Len(p)
Silent(p) == \A i \in DOMAIN p : p[i].do # "answer"
Reads(p)  == Piece(p) /\ p \in Seq(BeforeOps \cup TellOps \cup AnswerOps) /\ EndsInAnswer(p)
Writes(p, A) == Does(p, A \cup TellOps \cup AnswerOps) /\ EndsInAnswer(p) /\ Tells(p)

\* The change is followed by a look at the store.
Rereads(p) == \E i, j \in DOMAIN p : i < j /\ p[i].do = "commit" /\ p[j].do = "take"

LEMMA EndedAfter ==
  ASSUME NEW p \in Seq(Operation), NEW q \in Seq(Operation), Silent(p), EndsInAnswer(q)
  PROVE  EndsInAnswer(p \o q)
<1> DEFINE r == p \o q
           n == Len(p)
<1>1. /\ r \in Seq(Operation) /\ Len(r) = n + Len(q) /\ n \in Nat /\ Len(q) \in Nat
      /\ DOMAIN p = 1..n /\ DOMAIN q = 1..Len(q) /\ DOMAIN r = 1..(n + Len(q))
      /\ \A i \in DOMAIN p : i \in DOMAIN r /\ r[i] = p[i]
      /\ \A i \in DOMAIN q : i + n \in DOMAIN r /\ r[i + n] = q[i]
      /\ \A i \in DOMAIN r : i \in DOMAIN p \/ (i - n \in DOMAIN q /\ i \notin DOMAIN p)
  BY Concat
<1>2. Len(q) > 0
  BY DEF EndsInAnswer
<1> HIDE DEF r, n
<1>3. ASSUME NEW i \in DOMAIN r PROVE r[i].do = "answer" <=> i = Len(r)
  <2>1. CASE i \in DOMAIN p
    <3>1. i # Len(r) /\ r[i] = p[i]
      BY <1>1, <1>2, <2>1
    <3> QED
      BY <2>1, <3>1 DEF Silent
  <2>2. CASE i \notin DOMAIN p
    <3>1. i - n \in DOMAIN q /\ i = (i - n) + n /\ (i - n = Len(q) <=> i = Len(r))
      BY <1>1, <2>2
    <3>2. r[i] = q[i - n]
      BY <1>1, <3>1
    <3> QED
      BY <3>1, <3>2 DEF EndsInAnswer
  <2> QED
    BY <2>1, <2>2
<1>4. r # <<>>
  BY <1>1, <1>2
<1> QED
  BY <1>3, <1>4 DEF EndsInAnswer, r

LEMMA TellsJoin ==
  ASSUME NEW p \in Seq(Operation), NEW q \in Seq(Operation), Tells(p) \/ Tells(q)
  PROVE  Tells(p \o q)
<1> DEFINE r == p \o q
           n == Len(p)
<1>1. /\ \A i \in DOMAIN p : i \in DOMAIN r /\ r[i] = p[i]
      /\ \A i \in DOMAIN q : i + n \in DOMAIN r /\ r[i + n] = q[i]
  BY Concat
<1> HIDE DEF r, n
<1>2. Tells(r)
  BY <1>1 DEF Tells
<1> QED
  BY <1>2 DEF r

LEMMA RereadsJoin ==
  ASSUME NEW p \in Seq(Operation), NEW q \in Seq(Operation),
         \/ Rereads(p)
         \/ Rereads(q)
         \/ Changes(p) /\ \E j \in DOMAIN q : q[j].do = "take"
  PROVE  Rereads(p \o q)
<1> DEFINE r == p \o q
           n == Len(p)
<1>1. /\ n \in Nat /\ DOMAIN p = 1..n /\ DOMAIN q = 1..Len(q)
      /\ \A i \in DOMAIN p : i \in DOMAIN r /\ r[i] = p[i]
      /\ \A i \in DOMAIN q : i + n \in DOMAIN r /\ r[i + n] = q[i]
  BY Concat
<1> HIDE DEF r, n
<1>2. ASSUME Rereads(p) PROVE Rereads(r)
  BY <1>1, <1>2 DEF Rereads
<1>3. ASSUME Rereads(q) PROVE Rereads(r)
  <2>1. PICK i \in DOMAIN q, j \in DOMAIN q : i < j /\ q[i].do = "commit" /\ q[j].do = "take"
    BY <1>3 DEF Rereads
  <2>2. i + n < j + n
    BY <1>1, <2>1
  <2> QED
    BY <1>1, <2>1, <2>2 DEF Rereads
<1>4. ASSUME Changes(p), \E j \in DOMAIN q : q[j].do = "take" PROVE Rereads(r)
  <2>1. PICK i \in DOMAIN p, j \in DOMAIN q : p[i].do = "commit" /\ q[j].do = "take"
    BY <1>4 DEF Changes
  <2>2. i < j + n
    BY <1>1
  <2> QED
    BY <1>1, <2>1, <2>2 DEF Rereads
<1>5. Rereads(r)
  BY <1>2, <1>3, <1>4
<1> QED
  BY <1>5 DEF r

LEMMA Codes ==
  /\ Refused \subseteq Nat /\ Success \subseteq Nat /\ Errors \subseteq Nat
  /\ {404, Internal} \subseteq Errors /\ Internal \in Errors
  /\ Timeout \notin Refused /\ Timeout # Internal /\ Success \cap Errors = {}
  BY DEF Refused, Success, Errors, Internal, Timeout

LEMMA Kinds ==
  /\ BeforeOps \subseteq Operation /\ TellOps \subseteq Operation
  /\ AnswerOps \subseteq Operation /\ CommitOps \subseteq Operation
  /\ RereadOps \subseteq BeforeOps
  /\ \A o \in BeforeOps : o.do \notin {"commit", "tell", "answer"}
  /\ \A o \in TellOps : o.do = "tell"
  /\ \A o \in AnswerOps : o.do = "answer"
  /\ \A o \in CommitOps : o.do = "commit"
  BY Codes DEF BeforeOps, TellOps, AnswerOps, CommitOps, RereadOps

LEMMA ReadsAfterLook ==
  ASSUME NEW p, NEW q, Looks(p), Reads(q)
  PROVE  Reads(p \o q)
<1> DEFINE S == BeforeOps \cup TellOps \cup AnswerOps
<1>1. p \in Seq(S) /\ q \in Seq(S)
  BY DEF Looks, Reads
<1>2. p \o q \in Seq(S)
  BY <1>1, Concat
<1>3. Piece(p \o q)
  BY PiecesJoin DEF Looks, Reads
<1>4. Silent(p)
  BY Kinds DEF Looks, Silent
<1>5. EndsInAnswer(p \o q)
  BY <1>4, EndedAfter DEF Looks, Reads, Piece
<1> QED
  BY <1>2, <1>3, <1>5 DEF Reads

LEMMA WritesAfterLook ==
  ASSUME NEW p, NEW q, NEW A, Looks(p), Writes(q, A)
  PROVE  Writes(p \o q, A)
<1>1. Does(p \o q, A \cup TellOps \cup AnswerOps)
  BY DoesAfterLook DEF Writes
<1>2. p \in Seq(Operation) /\ q \in Seq(Operation) /\ Silent(p)
  BY Kinds DEF Looks, Silent, Writes, Does, Piece
<1>3. EndsInAnswer(p \o q) /\ Tells(p \o q)
  BY <1>2, EndedAfter, TellsJoin DEF Writes
<1> QED
  BY <1>1, <1>3 DEF Writes

LEMMA Ending ==
  ASSUME NEW status \in Success
  PROVE  /\ Tell \in Seq(TellOps) /\ Piece(Tell) /\ Silent(Tell) /\ Tells(Tell)
         /\ Answer(status) \in Seq(AnswerOps) /\ Piece(Answer(status)) /\ EndsInAnswer(Answer(status))
<1>1. Tell \in Seq(TellOps) /\ Piece(Tell) /\ Silent(Tell) /\ Tells(Tell)
  BY DEF Tell, Op, TellOps, Piece, Balanced, Operation, Silent, OnIt, Tells
<1>2. Answer(status) \in Seq(AnswerOps) /\ Piece(Answer(status)) /\ EndsInAnswer(Answer(status))
  BY Codes DEF Answer, Op, AnswerOps, Piece, Balanced, Operation, EndsInAnswer, OnIt
<1> QED
  BY <1>1, <1>2

LEMMA SilentJoin ==
  ASSUME NEW p \in Seq(Operation), NEW q \in Seq(Operation), Silent(p), Silent(q)
  PROVE  Silent(p \o q)
<1> DEFINE r == p \o q
           n == Len(p)
<1>1. /\ \A i \in DOMAIN p : r[i] = p[i]
      /\ \A i \in DOMAIN q : r[i + n] = q[i]
      /\ \A i \in DOMAIN r : i \in DOMAIN p \/ i - n \in DOMAIN q
      /\ \A i \in DOMAIN r : i \in Nat /\ (i - n) + n = i
  BY Concat
<1> HIDE DEF r, n
<1>2. Silent(r)
  BY <1>1 DEF Silent
<1> QED
  BY <1>2 DEF r

LEMMA ReadsAnswer ==
  ASSUME NEW p, Looks(p), NEW status \in Success
  PROVE  Reads(p \o Answer(status)) /\ Reads((p \o Tell) \o Answer(status))
<1> DEFINE S == BeforeOps \cup TellOps \cup AnswerOps
           a == Answer(status)
<1>1. Tell \in Seq(S) /\ a \in Seq(S) /\ p \in Seq(S)
  BY Ending DEF Looks
<1>2. p \in Seq(Operation) /\ Tell \in Seq(Operation) /\ a \in Seq(Operation) /\ Piece(p)
      /\ Piece(Tell) /\ Piece(a) /\ EndsInAnswer(a) /\ Silent(Tell)
  BY Ending DEF Looks, Piece
<1>3. Silent(p)
  BY Kinds DEF Looks, Silent
<1> HIDE DEF S, a
<1>4. p \o Tell \in Seq(S) /\ Piece(p \o Tell) /\ Silent(p \o Tell)
  BY <1>1, <1>2, <1>3, Concat, PiecesJoin, SilentJoin
<1>5. ASSUME NEW q, q \in Seq(S), Piece(q), Silent(q) PROVE Reads(q \o a)
  <2>1. q \o a \in Seq(S) /\ Piece(q \o a)
    BY <1>1, <1>2, <1>5, Concat, PiecesJoin
  <2>2. EndsInAnswer(q \o a)
    BY <1>2, <1>5, EndedAfter DEF Piece
  <2> QED
    BY <2>1, <2>2 DEF Reads, S
<1> QED
  BY <1>1, <1>2, <1>3, <1>4, <1>5 DEF a

LEMMA WritesAnswer ==
  ASSUME NEW p, NEW A, A \subseteq BeforeOps, Does(p, A), NEW status \in Success
  PROVE  Writes((p \o Tell) \o Answer(status), A)
<1> DEFINE a == Answer(status)
           t == p \o Tell
<1>1. Tell \in Seq(TellOps) /\ Piece(Tell) /\ Silent(Tell) /\ Tells(Tell)
      /\ a \in Seq(AnswerOps) /\ Piece(a) /\ EndsInAnswer(a)
  BY Ending
<1> HIDE DEF a
<1>2. Silent(p)
  <2>1. PICK m \in DOMAIN p :
          /\ p[m] \in CommitOps
          /\ \A i \in DOMAIN p : (i < m => p[i] \in BeforeOps) /\ (i > m => p[i] \in A)
    BY DEF Does
  <2>2. DOMAIN p \subseteq Nat
    BY DEF Does, Piece
  <2>3. \A i \in DOMAIN p : i < m \/ i = m \/ i > m
    BY <2>2
  <2> QED
    BY <2>1, <2>3, Kinds DEF Silent
<1>3. p \in Seq(Operation) /\ Tell \in Seq(Operation) /\ a \in Seq(Operation)
  BY <1>1 DEF Piece, Does
<1>4. Does(t, A \cup TellOps) /\ Silent(t) /\ Tells(t)
  BY <1>1, <1>2, <1>3, DoesThen, SilentJoin, TellsJoin
<1>5. t \in Seq(Operation)
  BY <1>4 DEF Does, Piece
<1> HIDE DEF t
<1>6. Does(t \o a, (A \cup TellOps) \cup AnswerOps)
  BY <1>1, <1>4, DoesThen
<1>7. EndsInAnswer(t \o a) /\ Tells(t \o a)
  BY <1>1, <1>3, <1>4, <1>5, EndedAfter, TellsJoin
<1> QED
  BY <1>6, <1>7 DEF Writes, a, t

-----------------------------------------------------------------------------
(* Such programs are orderly.                                                *)

Fine(p) == p \in Seq(Operation) /\ p # <<>> /\ Balanced(p) /\ Orderly(p, Kind(p), FALSE, FALSE)

LEMMA ReadsAreFine == ASSUME NEW p, Reads(p) PROVE Fine(p)
<1>1. p \in Seq(Operation) /\ p # <<>> /\ Balanced(p)
  BY DEF Reads, Piece, EndsInAnswer
<1>2. \A i \in DOMAIN p : p[i] \in BeforeOps \cup TellOps \cup AnswerOps
  BY DEF Reads
<1>3. \A i \in DOMAIN p : p[i].do # "commit"
  BY <1>2, Kinds
<1>4. Kind(p) = "reads"
  <2>1. ~Changes(p) /\ ~\E i, j \in DOMAIN p : i < j /\ p[i].do = "commit" /\ p[j].do = "take"
    BY <1>3 DEF Changes
  <2> QED
    BY <2>1 DEF Kind
<1>5. EndsWell(p)
  <2>1. ASSUME NEW i \in DOMAIN p
        PROVE  p[i].codes \subseteq IF p[i].do = "answer" THEN Success
                                    ELSE Refused \cup {Internal, Timeout}
    BY <1>2, Kinds DEF BeforeOps, TellOps, AnswerOps, Errors
  <2> QED
    BY <2>1 DEF EndsWell, Reads, EndsInAnswer
<1>6. Due(p, "reads", FALSE, FALSE) /\ ChangesFirst(p)
  BY <1>3 DEF Due, Changes, ChangesFirst
<1>7. DeniesFirst(p, FALSE)
  <2>1. \A i \in DOMAIN p : p[i].deny => p[i] \in BeforeOps
    BY <1>2 DEF TellOps, AnswerOps
  <2> QED
    BY <1>3, <2>1, Kinds DEF DeniesFirst, BeforeOps
<1>8. RefusesFirst(p, "reads", FALSE)
  BY <1>3 DEF RefusesFirst
<1> QED
  BY <1>1, <1>4, <1>5, <1>6, <1>7, <1>8 DEF Fine, Orderly

LEMMA WritesAreFine ==
  ASSUME NEW p, NEW A, A = {} \/ (A = RereadOps /\ Rereads(p)), Writes(p, A)
  PROVE  Fine(p)
<1>1. p \in Seq(Operation) /\ p # <<>> /\ Balanced(p) /\ DOMAIN p \subseteq Nat
  BY DEF Writes, Does, Piece, EndsInAnswer
<1>2. PICK m \in DOMAIN p :
        /\ p[m] \in CommitOps
        /\ \A i \in DOMAIN p : /\ i < m => p[i] \in BeforeOps
                               /\ i > m => p[i] \in A \cup TellOps \cup AnswerOps
  BY DEF Writes, Does
<1>3. \A i \in DOMAIN p : i < m \/ i = m \/ i > m
  BY <1>1
<1>4. A \subseteq BeforeOps
  BY Kinds
<1>5. \A i \in DOMAIN p : p[i].do = "commit" <=> i = m
  BY <1>1, <1>2, <1>3, <1>4, Kinds
<1>6. Changes(p) /\ Tells(p)
  BY <1>2, <1>5 DEF Changes, Writes
<1>7. /\ Kind(p) \in {"changes", "rereads"}
      /\ Kind(p) = "changes" => A = {}
  <2>1. CASE Rereads(p)
    <3>1. Kind(p) = "rereads"
      BY <2>1 DEF Kind, Rereads
    <3> QED
      BY <3>1
  <2>2. CASE ~Rereads(p)
    <3>1. Kind(p) = "changes"
      BY <1>6, <2>2 DEF Kind, Rereads
    <3> QED
      BY <2>2, <3>1
  <2> QED
    BY <2>1, <2>2
<1>8. EndsWell(p)
  <2>1. ASSUME NEW i \in DOMAIN p
        PROVE  p[i].codes \subseteq IF p[i].do = "answer" THEN Success
                                    ELSE Refused \cup {Internal, Timeout}
    <3>1. p[i] \in BeforeOps \cup CommitOps \cup TellOps \cup AnswerOps
      BY <1>2, <1>3, <1>4
    <3> QED
      BY <3>1, Kinds DEF BeforeOps, CommitOps, TellOps, AnswerOps, Errors
  <2> QED
    BY <2>1 DEF EndsWell, Writes, EndsInAnswer
<1>9. Due(p, Kind(p), FALSE, FALSE)
  BY <1>6, <1>7 DEF Due
<1>10. ChangesFirst(p)
  <2>1. \A j \in DOMAIN p : p[j].do \in {"commit", "tell"} => m <= j
    BY <1>1, <1>2, <1>3, Kinds
  <2> QED
    BY <1>5, <2>1 DEF ChangesFirst
<1>11. DeniesFirst(p, FALSE)
  <2>1. ASSUME NEW i \in DOMAIN p, p[i].deny PROVE i < m /\ p[i] \in BeforeOps
    BY <1>2, <1>3, <2>1 DEF CommitOps, TellOps, AnswerOps, RereadOps
  <2> QED
    BY <1>5, <2>1, Kinds DEF DeniesFirst, BeforeOps
<1>12. RefusesFirst(p, Kind(p), FALSE)
  <2> SUFFICES ASSUME NEW i \in DOMAIN p, p[i].do # "answer", m < i
               PROVE  p[i].codes \subseteq IF Kind(p) = "rereads" THEN {404, Internal} ELSE {}
    BY <1>5 DEF RefusesFirst
  <2>1. p[i] \in A \cup TellOps
    BY <1>1, <1>2, Kinds
  <2> QED
    BY <1>7, <2>1 DEF TellOps, RereadOps
<1> QED
  BY <1>1, <1>8, <1>9, <1>10, <1>11, <1>12 DEF Fine, Orderly

-----------------------------------------------------------------------------
(* The pieces of Handlers.                                                   *)

GuardOps == {o \in Operation :
  o.do \in {"take", "use", "free", "check"} /\ o.codes \subseteq Refused \cup {Internal}}

\* A piece whose errors may be denials.
Guards(p) == Piece(p) /\ p \in Seq(GuardOps)

LEMMA GuardsJoin ==
  ASSUME NEW p, NEW q, Guards(p), Guards(q)
  PROVE  Guards(p \o q)
<1>1. p \o q \in Seq(GuardOps)
  BY Concat DEF Guards
<1> QED
  BY <1>1, PiecesJoin DEF Guards

LEMMA DenyingLooks ==
  ASSUME NEW p, Guards(p)
  PROVE  Looks(Denying(p))
<1> DEFINE d == Denying(p)
<1>1. p \in Seq(GuardOps) /\ DOMAIN p = 1..Len(p) /\ Len(p) \in Nat
      /\ \A i \in DOMAIN p : p[i] \in GuardOps
  BY DEF Guards
<1>2. DOMAIN d = DOMAIN p /\ \A i \in DOMAIN p : d[i] = [p[i] EXCEPT !.deny = TRUE]
  BY DEF Denying
<1>3. \A i \in DOMAIN p : d[i] \in BeforeOps /\ d[i].do = p[i].do
  <2> SUFFICES ASSUME NEW i \in DOMAIN p
               PROVE  d[i] \in BeforeOps /\ d[i].do = p[i].do
    OBVIOUS
  <2>1. PICK o \in GuardOps : p[i] = o
    BY <1>1
  <2> DEFINE e == [o EXCEPT !.deny = TRUE]
  <2>2. e \in Operation /\ e.do = o.do /\ e.codes = o.codes
    BY DEF GuardOps, Operation
  <2>3. e \in BeforeOps
    BY <2>2, Codes DEF GuardOps, BeforeOps, Errors
  <2> QED
    BY <1>2, <2>1, <2>2, <2>3
<1>4. d \in Seq(BeforeOps)
  <2>1. d = [i \in 1..Len(p) |-> d[i]]
    BY <1>1 DEF Denying
  <2> HIDE DEF d
  <2> QED
    BY <1>1, <1>3, <2>1
<1> HIDE DEF d
<1>5. d \in Seq(Operation)
  BY <1>4, Kinds
<1>6. Balanced(d)
  BY <1>2, <1>3 DEF Guards, Piece, Balanced
<1> QED
  BY <1>4, <1>5, <1>6 DEF Looks, Piece, d

LEMMA Checks ==
  ASSUME NEW codes \in SUBSET Errors
  PROVE  /\ Looks(Check(codes))
         /\ Timeout \notin codes => Guards(Check(codes))
         /\ codes \subseteq {404, Internal} => Check(codes) \in Seq(RereadOps)
<1> DEFINE o == [do |-> "check", codes |-> codes, deny |-> FALSE]
<1>1. /\ o \in Operation /\ o \in BeforeOps
      /\ Timeout \notin codes => o \in GuardOps
      /\ codes \subseteq {404, Internal} => o \in RereadOps
      /\ o.do = "check"
  BY Codes DEF Operation, BeforeOps, GuardOps, RereadOps, Errors
<1> HIDE DEF o
<1>2. Check(codes) = <<o>>
  BY DEF Check, Op, o
<1>3. Piece(<<o>>)
  BY <1>1 DEF Piece, Balanced, OnIt
<1> QED
  BY <1>1, <1>2, <1>3 DEF Looks, Guards

LEMMA Extended ==
  ASSUME NEW S, NEW q \in Seq(S), NEW o \in S
  PROVE  /\ Append(q, o) \in Seq(S) /\ Len(Append(q, o)) = Len(q) + 1
         /\ \A i \in 1..Len(q) : Append(q, o)[i] = q[i]
         /\ Append(q, o)[Len(q) + 1] = o
OBVIOUS

\* Pieces of two, three and four operations.
LEMMA Two ==
  ASSUME NEW S, NEW a \in S, NEW b \in S, NEW p, p = <<a>> \o <<b>>
  PROVE  p \in Seq(S) /\ Len(p) = 2 /\ DOMAIN p = 1..2 /\ p[1] = a /\ p[2] = b
<1>1. <<a>> \in Seq(S) /\ Len(<<a>>) = 1 /\ <<a>>[1] = a
  OBVIOUS
<1>2. p = Append(<<a>>, b)
  BY <1>1
<1> QED
  BY <1>1, <1>2

LEMMA Three ==
  ASSUME NEW S, NEW q \in Seq(S), Len(q) = 2, NEW c \in S, NEW p, p = q \o <<c>>
  PROVE  /\ p \in Seq(S) /\ Len(p) = 3 /\ DOMAIN p = 1..3
         /\ p[1] = q[1] /\ p[2] = q[2] /\ p[3] = c
<1>1. p = Append(q, c)
  OBVIOUS
<1>2. /\ Append(q, c) \in Seq(S) /\ Len(Append(q, c)) = Len(q) + 1
      /\ \A i \in 1..Len(q) : Append(q, c)[i] = q[i]
      /\ Append(q, c)[Len(q) + 1] = c
  BY Extended
<1>3. /\ p \in Seq(S) /\ Len(p) = 2 + 1 /\ p[2 + 1] = c
      /\ \A i \in 1..2 : p[i] = q[i]
  BY <1>1, <1>2
<1>4. DOMAIN p = 1..Len(p)
  BY <1>3
<1> QED
  BY <1>3, <1>4

LEMMA Four ==
  ASSUME NEW S, NEW q \in Seq(S), Len(q) = 3, NEW d \in S, NEW p, p = q \o <<d>>
  PROVE  /\ p \in Seq(S) /\ Len(p) = 4 /\ DOMAIN p = 1..4
         /\ p[1] = q[1] /\ p[2] = q[2] /\ p[3] = q[3] /\ p[4] = d
<1>1. p = Append(q, d)
  OBVIOUS
<1>2. /\ Append(q, d) \in Seq(S) /\ Len(Append(q, d)) = Len(q) + 1
      /\ \A i \in 1..Len(q) : Append(q, d)[i] = q[i]
      /\ Append(q, d)[Len(q) + 1] = d
  BY Extended
<1>3. /\ p \in Seq(S) /\ Len(p) = 3 + 1 /\ p[3 + 1] = d
      /\ \A i \in 1..3 : p[i] = q[i]
  BY <1>1, <1>2
<1>4. DOMAIN p = 1..Len(p)
  BY <1>3
<1> QED
  BY <1>3, <1>4

\* An operation on the connection that only the store's own errors end.
Touch(do) == [do |-> do, codes |-> {Internal}, deny |-> FALSE]
LookOps == {Touch("take"), Touch("use"), Touch("free")}

LEMMA Touches ==
  /\ LookOps \subseteq Operation /\ LookOps \subseteq BeforeOps
  /\ LookOps \subseteq GuardOps /\ LookOps \subseteq RereadOps
  /\ \A do : Touch(do).do = do
  BY Codes DEF LookOps, Touch, Operation, BeforeOps, GuardOps, RereadOps

LEMMA RowIs ==
  /\ Row \in Seq(LookOps) /\ DOMAIN Row = 1..2 /\ Len(Row) = 2
  /\ Row[1] = Touch("take") /\ Row[2] = Touch("free")
<1>1. Row = <<Touch("take")>> \o <<Touch("free")>>
  BY DEF Row, Take, Op, Touch
<1> QED
  BY <1>1, Two DEF LookOps

LEMMA RowsIs ==
  /\ Rows \in Seq(LookOps) /\ DOMAIN Rows = 1..3 /\ Len(Rows) = 3
  /\ Rows[1] = Touch("take") /\ Rows[2] = Touch("use") /\ Rows[3] = Touch("free")
<1>1. PICK q : q = <<Touch("take")>> \o <<Touch("use")>>
  OBVIOUS
<1>2. Rows = q \o <<Touch("free")>>
  BY <1>1 DEF Rows, Take, Op, Touch
<1>3. q \in Seq(LookOps) /\ Len(q) = 2 /\ q[1] = Touch("take") /\ q[2] = Touch("use")
  BY <1>1, Two DEF LookOps
<1> QED
  BY <1>2, <1>3, Three DEF LookOps

LEMMA LooksOf ==
  ASSUME NEW p \in Seq(LookOps), Balanced(p)
  PROVE  Looks(p) /\ Guards(p) /\ p \in Seq(RereadOps)
<1>1. p \in Seq(Operation) /\ p \in Seq(BeforeOps) /\ p \in Seq(GuardOps) /\ p \in Seq(RereadOps)
  BY Touches
<1> QED
  BY <1>1 DEF Looks, Guards, Piece

\* Rows read with one statement.
LEMMA Statements ==
  /\ Looks(Row) /\ Guards(Row) /\ Row \in Seq(RereadOps) /\ \E j \in DOMAIN Row : Row[j].do = "take"
  /\ Looks(Rows) /\ Guards(Rows) /\ Rows \in Seq(RereadOps)
<1>1. Balanced(Row)
  <2>1. \A i \in 1..2 : i = 1 \/ i = 2
    OBVIOUS
  <2> QED
    BY <2>1, RowIs, Touches DEF Balanced, OnIt
<1>2. Balanced(Rows)
  <2>1. \A i \in 1..3 : i = 1 \/ i = 2 \/ i = 3
    OBVIOUS
  <2> QED
    BY <2>1, RowsIs, Touches DEF Balanced, OnIt
<1>3. \E j \in DOMAIN Row : Row[j].do = "take"
  BY RowIs, Touches
<1> QED
  BY <1>1, <1>2, <1>3, RowIs, RowsIs, LooksOf

\* A statement run for each of n rows.
LEMMA Repeats ==
  ASSUME NEW n \in Nat
  PROVE  Looks(Repeat(Row, n)) /\ Looks(Repeat(Rows, n))
<1>1. Looks(Repeat(Row, n))
  <2>1. PICK p : p = Repeat(Row, n)
    OBVIOUS
  <2>2. \A i \in 1..(n * 2) : (i - 1) % 2 = 0 \/ (i - 1) % 2 = 1
    OBVIOUS
  <2>3. p = [i \in 1..(n * 2) |-> Row[((i - 1) % 2) + 1]]
    BY <2>1, RowIs DEF Repeat
  <2>4. /\ DOMAIN p = 1..(n * 2)
        /\ \A i \in DOMAIN p : p[i] = IF (i - 1) % 2 = 0 THEN Touch("take") ELSE Touch("free")
    BY <2>2, <2>3, RowIs
  <2>5. p \in Seq(LookOps)
    <3>1. \A i \in 1..(n * 2) : Row[((i - 1) % 2) + 1] \in LookOps
      BY <2>2, RowIs DEF LookOps
    <3>2. n * 2 \in Nat
      OBVIOUS
    <3> QED
      BY <2>3, <3>1, <3>2
  <2>6. \A i \in 1..(n * 2) :
          /\ (i - 1) % 2 = 0 => i + 1 \in 1..(n * 2) /\ ((i + 1) - 1) % 2 # 0
          /\ (i - 1) % 2 # 0 => ((i + 1) - 1) % 2 = 0
          /\ i = 1 => (i - 1) % 2 = 0
    OBVIOUS
  <2>7. Balanced(p)
    BY <2>4, <2>6, Touches DEF Balanced, OnIt
  <2> QED
    BY <2>1, <2>5, <2>7, LooksOf
<1>2. Looks(Repeat(Rows, n))
  <2>1. PICK p : p = Repeat(Rows, n)
    OBVIOUS
  <2>2. \A i \in 1..(n * 3) : (i - 1) % 3 = 0 \/ (i - 1) % 3 = 1 \/ (i - 1) % 3 = 2
    OBVIOUS
  <2>3. p = [i \in 1..(n * 3) |-> Rows[((i - 1) % 3) + 1]]
    BY <2>1, RowsIs DEF Repeat
  <2>4. /\ DOMAIN p = 1..(n * 3)
        /\ \A i \in DOMAIN p : p[i] = IF (i - 1) % 3 = 0 THEN Touch("take")
                                      ELSE IF (i - 1) % 3 = 1 THEN Touch("use") ELSE Touch("free")
    BY <2>2, <2>3, RowsIs
  <2>5. p \in Seq(LookOps)
    <3>1. \A i \in 1..(n * 3) : Rows[((i - 1) % 3) + 1] \in LookOps
      BY <2>2, RowsIs DEF LookOps
    <3>2. n * 3 \in Nat
      OBVIOUS
    <3> QED
      BY <2>3, <3>1, <3>2
  <2>6. \A i \in 1..(n * 3) :
          /\ (i - 1) % 3 # 2 => i + 1 \in 1..(n * 3) /\ ((i + 1) - 1) % 3 # 0
          /\ (i - 1) % 3 = 2 => ((i + 1) - 1) % 3 = 0
          /\ i = 1 => (i - 1) % 3 = 0
    OBVIOUS
  <2>7. ASSUME NEW i \in DOMAIN p
        PROVE  /\ p[i].do \in {"take", "use"} <=> i + 1 \in DOMAIN p /\ p[i + 1].do \in OnIt
               /\ i = 1 => p[i].do \notin OnIt
    <3>1. CASE (i - 1) % 3 # 2
      <4>1. p[i].do \in {"take", "use"}
        BY <2>2, <2>4, <3>1, Touches
      <4>2. i + 1 \in DOMAIN p /\ p[i + 1].do \in {"use", "free"}
        BY <2>2, <2>4, <2>6, <3>1, Touches
      <4>3. i = 1 => p[i].do = "take"
        BY <2>4, <2>6, Touches
      <4> QED
        BY <4>1, <4>2, <4>3 DEF OnIt
    <3>2. CASE (i - 1) % 3 = 2
      <4>1. p[i].do = "free" /\ i # 1
        BY <2>4, <2>6, <3>2, Touches
      <4>2. i + 1 \in DOMAIN p => p[i + 1].do = "take"
        BY <2>4, <2>6, <3>2, Touches
      <4> QED
        BY <4>1, <4>2 DEF OnIt
    <3> QED
      BY <3>1, <3>2
  <2>8. Balanced(p)
    BY <2>7 DEF Balanced
  <2> QED
    BY <2>1, <2>5, <2>8, LooksOf
<1> QED
  BY <1>1, <1>2

\* Changes, with one statement and with two in a transaction.
LEMMA ChangesDo ==
  ASSUME NEW codes \in SUBSET Errors
  PROVE  Does(Exec(codes), {}) /\ Does(Transaction(codes), {})
<1> DEFINE o(do, c) == [do |-> do, codes |-> c, deny |-> FALSE]
           more == codes \cup {Internal}
<1>1. more \in SUBSET Errors /\ {Internal} \in SUBSET Errors
  BY Codes
<1>2. PICK t, u, v, c, d :
        /\ t = o("take", {Internal}) /\ u = o("use", more) /\ v = o("use", {Internal})
        /\ c = o("commit", more) /\ d = o("commit", {Internal})
  OBVIOUS
<1>3. /\ t \in BeforeOps /\ t.do = "take" /\ u \in BeforeOps /\ u.do = "use"
      /\ v \in BeforeOps /\ v.do = "use" /\ c \in CommitOps /\ c.do = "commit"
      /\ d \in CommitOps /\ d.do = "commit"
  BY <1>1, <1>2, Codes DEF Operation, BeforeOps, CommitOps
<1>4. Exec(codes) = <<t>> \o <<c>> /\ Transaction(codes) = ((<<t>> \o <<u>>) \o <<v>>) \o <<d>>
  BY <1>2 DEF Exec, Transaction, Take, Op
<1>5. t \in Operation /\ u \in Operation /\ v \in Operation /\ c \in Operation /\ d \in Operation
  BY <1>3, Kinds
<1>6. ASSUME NEW p, p = <<t>> \o <<c>> PROVE Does(p, {})
  <2>1. p \in Seq(Operation) /\ DOMAIN p = 1..2 /\ p[1] = t /\ p[2] = c
    BY <1>5, <1>6, Two
  <2>2. \A i \in 1..2 : i = 1 \/ i = 2
    OBVIOUS
  <2>3. Piece(p)
    BY <1>3, <2>1, <2>2 DEF Piece, Balanced, OnIt
  <2> QED
    BY <1>3, <2>1, <2>2, <2>3 DEF Does
<1>7. ASSUME NEW p, p = ((<<t>> \o <<u>>) \o <<v>>) \o <<d>> PROVE Does(p, {})
  <2>1. p \in Seq(Operation) /\ DOMAIN p = 1..4 /\ p[1] = t /\ p[2] = u /\ p[3] = v /\ p[4] = d
    <3>1. PICK q : q = <<t>> \o <<u>>
      OBVIOUS
    <3>2. PICK r : r = q \o <<v>>
      OBVIOUS
    <3>3. q \in Seq(Operation) /\ Len(q) = 2 /\ q[1] = t /\ q[2] = u
      BY <1>5, <3>1, Two
    <3>4. r \in Seq(Operation) /\ Len(r) = 3 /\ r[1] = t /\ r[2] = u /\ r[3] = v
      BY <1>5, <3>2, <3>3, Three
    <3>5. p = r \o <<d>>
      BY <1>7, <3>1, <3>2
    <3> QED
      BY <1>5, <3>4, <3>5, Four
  <2>2. \A i \in 1..4 : i = 1 \/ i = 2 \/ i = 3 \/ i = 4
    OBVIOUS
  <2>3. Piece(p)
    BY <1>3, <2>1, <2>2 DEF Piece, Balanced, OnIt
  <2> QED
    BY <1>3, <2>1, <2>2, <2>3 DEF Does
<1> QED
  BY <1>4, <1>6, <1>7

LEMMA CheckCodes ==
  /\ \A c \in {400, 401, 403, 404} : Looks(Check({c})) /\ Guards(Check({c}))
  /\ Looks(Check({Internal})) /\ Looks(Check({403, 409}))
  /\ Looks(Check({409, 503})) /\ Looks(Check({400, 503}))
  /\ Check({404}) \in Seq(RereadOps)
<1>1. \A c \in {400, 401, 403, 404} : {c} \in SUBSET Errors /\ Timeout \notin {c}
  BY DEF Errors, Refused, Internal, Timeout
<1>2. {Internal} \in SUBSET Errors /\ {403, 409} \in SUBSET Errors
      /\ {409, 503} \in SUBSET Errors /\ {400, 503} \in SUBSET Errors
  BY DEF Errors, Refused, Internal, Timeout
<1>3. {404} \subseteq {404, Internal}
  OBVIOUS
<1> QED
  BY <1>1, <1>2, <1>3, Checks

LEMMA NothingLooks == Looks(<<>>)
  BY DEF Looks, Piece, Balanced

\* What only looks, in each package.
LEMMA IdentityLooks ==
  /\ Looks(GetUser) /\ Looks(ListTokens) /\ Looks(ListKeys) /\ Looks(ByPublicKey)
  /\ Looks(RequestedTTL) /\ Looks(Decode) /\ Looks(SelectUsers)
  /\ Looks(Denying(Authenticate \o Check({403})))
  /\ Looks(Denying(OverProtectedTransport \o Authenticate))
  /\ \A n \in Nat : Looks(MintUnusedSecret(n))
<1>1. Looks(Decode) /\ Looks(RequestedTTL) /\ Looks(SelectUsers) /\ Looks(SelectUser)
      /\ Looks(SelectTokens) /\ Looks(SelectKeys) /\ Looks(SelectUserByKey)
  BY CheckCodes, Statements
     DEF Decode, RequestedTTL, SelectUsers, SelectUser, SelectTokens, SelectKeys, SelectUserByKey
<1>2. Looks(Check({400})) /\ Looks(Check({401})) /\ Looks(Check({404})) /\ Looks(Check({Internal}))
  BY CheckCodes
<1>3. Looks(GetUser) /\ Looks(ByPublicKey)
  BY <1>1, <1>2, LooksJoin DEF GetUser, ByPublicKey
<1>4. Looks(ListTokens) /\ Looks(ListKeys)
  BY <1>1, <1>3, LooksJoin DEF ListTokens, ListKeys
<1>5. Guards(Authenticate) /\ Guards(Check({403}))
  <2>1. Guards(Check({401})) /\ Guards(Check({403})) /\ Guards(SelectToken)
    BY CheckCodes, Statements DEF SelectToken
  <2> QED
    BY <2>1, GuardsJoin DEF Authenticate
<1>6. Guards(Authenticate \o Check({403})) /\ Guards(OverProtectedTransport \o Authenticate)
  BY <1>5, GuardsJoin DEF OverProtectedTransport
<1>7. ASSUME NEW n \in Nat PROVE Looks(MintUnusedSecret(n))
  <2>1. Looks(Repeat(SelectorTaken, n))
    BY Repeats DEF SelectorTaken
  <2> QED
    BY <1>2, <2>1, NothingLooks, LooksJoin DEF MintUnusedSecret
<1> QED
  BY <1>1, <1>3, <1>4, <1>6, <1>7, DenyingLooks

LEMMA TargetLooks ==
  /\ Looks(GetTarget) /\ Looks(GetByName) /\ Looks(SelectTarget)
  /\ SelectTarget \in Seq(RereadOps) /\ \E j \in DOMAIN SelectTarget : SelectTarget[j].do = "take"
  /\ \A n \in Nat : Looks(ListTargets(n))
<1>1. Looks(Check({400})) /\ Looks(Check({404})) /\ Looks(SelectPrincipals) /\ Looks(Row)
      /\ Looks(Rows)
  BY CheckCodes, Statements DEF SelectPrincipals
<1>2. Looks(SelectTarget) /\ Looks(SelectTargetByName)
  BY <1>1, LooksJoin DEF SelectTarget, SelectTargetByName
<1>3. Looks(GetTarget) /\ Looks(GetByName)
  BY <1>1, <1>2, LooksJoin DEF GetTarget, GetByName
<1>4. ASSUME NEW n \in Nat PROVE Looks(ListTargets(n))
  BY <1>1, Repeats, LooksJoin DEF ListTargets, SelectTargets, SelectPrincipals
<1>5. /\ SelectTarget \in Seq(RereadOps)
      /\ \E j \in DOMAIN SelectTarget : SelectTarget[j].do = "take"
  <2>1. Row \in Seq(RereadOps) /\ Check({404}) \in Seq(RereadOps) /\ Rows \in Seq(RereadOps)
    BY CheckCodes, Statements
  <2> DEFINE r == Row \o Check({404})
  <2>2. r \in Seq(RereadOps) /\ \E j \in DOMAIN r : r[j].do = "take"
    BY <2>1, Concat, Statements
  <2> HIDE DEF r
  <2>3. /\ r \o Rows \in Seq(RereadOps)
        /\ \E j \in DOMAIN (r \o Rows) : (r \o Rows)[j].do = "take"
    BY <2>1, <2>2, Concat
  <2> QED
    BY <2>3 DEF SelectTarget, SelectPrincipals, r
<1> QED
  BY <1>2, <1>3, <1>4, <1>5

LEMMA OtherLooks ==
  /\ Looks(CheckPrincipals) /\ Looks(GetPolicy) /\ Looks(Evaluate) /\ Looks(Authorize)
  /\ Looks(GetRequest) /\ Looks(Grant) /\ Looks(HasGrant) /\ Looks(SelectRequests)
  /\ Looks(GetSession) /\ Looks(Kill) /\ Looks(SelectSessions) /\ Looks(Resolve)
  /\ Looks(Check({400, 503})) /\ Looks(Check({403, 409})) /\ Looks(Check({400}))
  /\ \A n \in Nat : Looks(SelectPolicies(n))
<1>1. /\ Looks(Check({400})) /\ Looks(Check({403})) /\ Looks(Check({404})) /\ Looks(Row)
      /\ Looks(Rows) /\ Looks(Check({400, 503})) /\ Looks(Check({403, 409}))
      /\ Looks(Check({409, 503}))
  BY CheckCodes, Statements
<1>2. Looks(CheckPrincipals)
  BY <1>1, TargetLooks, LooksJoin DEF CheckPrincipals
<1>3. Looks(SelectPolicy) /\ Looks(Evaluate)
  BY <1>1, LooksJoin DEF SelectPolicy, SelectPolicyPrincipals, Evaluate, Matching
<1>4. Looks(GetPolicy) /\ Looks(Authorize)
  BY <1>1, <1>3, LooksJoin DEF GetPolicy, Authorize
<1>5. Looks(GetRequest) /\ Looks(Grant) /\ Looks(SelectRequests)
  BY <1>1, LooksJoin DEF GetRequest, SelectRequest, Grant, ActiveGrant, SelectRequests
<1>6. Looks(HasGrant)
  BY <1>1, <1>5, LooksJoin DEF HasGrant
<1>7. Looks(GetSession) /\ Looks(SelectSessions)
  BY <1>1, LooksJoin DEF GetSession, SelectSession, SelectSessions
<1>8. Looks(Kill)
  BY <1>1, <1>7, LooksJoin DEF Kill
<1>9. Looks(Resolve)
  BY <1>1, <1>4, <1>6, TargetLooks, LooksJoin DEF Resolve
<1>10. ASSUME NEW n \in Nat PROVE Looks(SelectPolicies(n))
  BY <1>1, Repeats, LooksJoin DEF SelectPolicies, SelectPolicyPrincipals
<1> QED
  BY <1>1, <1>2, <1>3, <1>4, <1>5, <1>6, <1>7, <1>8, <1>9, <1>10

\* What changes the store, in each package.
LEMMA ServicesDo ==
  /\ Does(CreateUser, {}) /\ Does(DeleteUser, {}) /\ Does(RevokeToken, {}) /\ Does(AddKey, {})
  /\ Does(RemoveKey, {}) /\ \A n \in Nat : Does(IssueToken(n), {})
  /\ Does(RegisterTarget, {}) /\ Does(RemoveTarget, {})
  /\ Does(CreatePolicy, {}) /\ Does(RemovePolicy, {})
  /\ Does(CreateRequest, {}) /\ Does(Decide, {}) /\ Does(CancelRequest, {})
  /\ Does(OpenSession, {}) /\ Does(CloseSession, {})
<1>1. /\ {} \in SUBSET Errors /\ {404} \in SUBSET Errors /\ {409} \in SUBSET Errors
  BY DEF Errors, Refused, Internal, Timeout
<1>2. /\ Does(InsertUser, {}) /\ Does(DeleteUserRow, {}) /\ Does(InsertToken, {})
      /\ Does(DeleteTokenRow, {}) /\ Does(InsertKey, {}) /\ Does(DeleteKeyRow, {})
  BY <1>1, ChangesDo
     DEF InsertUser, DeleteUserRow, InsertToken, DeleteTokenRow, InsertKey, DeleteKeyRow
<1>3. /\ Does(InsertTarget, {}) /\ Does(DeleteTarget, {}) /\ Does(InsertPolicy, {})
      /\ Does(DeletePolicyRow, {}) /\ Does(InsertRequest, {}) /\ Does(UpdateRequest, {})
      /\ Does(InsertSession, {}) /\ Does(FinishSession, {})
  BY <1>1, ChangesDo
     DEF InsertTarget, DeleteTarget, InsertPolicy, DeletePolicyRow, InsertRequest,
         UpdateRequest, InsertSession, FinishSession
<1>4. Does(CreateUser, {}) /\ Does(DeleteUser, {}) /\ Does(RevokeToken, {}) /\ Does(RemoveKey, {})
  BY <1>2, OtherLooks, IdentityLooks, DoesAfterLook DEF CreateUser, DeleteUser, RevokeToken, RemoveKey
<1>5. Does(AddKey, {})
  BY <1>2, OtherLooks, IdentityLooks, LooksJoin, DoesAfterLook DEF AddKey
<1>6. ASSUME NEW n \in Nat PROVE Does(IssueToken(n), {})
  <2>1. Looks(GetUser \o Check({400}))
    BY OtherLooks, IdentityLooks, LooksJoin
  <2>2. Looks((GetUser \o Check({400})) \o MintUnusedSecret(n))
    BY <2>1, IdentityLooks, LooksJoin
  <2> QED
    BY <1>2, <2>2, DoesAfterLook DEF IssueToken
<1>7. Does(RegisterTarget, {}) /\ Does(RemoveTarget, {}) /\ Does(RemovePolicy, {})
      /\ Does(OpenSession, {}) /\ Does(CloseSession, {})
  BY <1>3, OtherLooks, DoesAfterLook
     DEF RegisterTarget, RemoveTarget, RemovePolicy, OpenSession, CloseSession
<1>8. Does(CreatePolicy, {}) /\ Does(CreateRequest, {}) /\ Does(Decide, {}) /\ Does(CancelRequest, {})
  BY <1>3, OtherLooks, LooksJoin, DoesAfterLook DEF CreatePolicy, CreateRequest, Decide, CancelRequest
<1> QED
  BY <1>4, <1>5, <1>6, <1>7, <1>8

LEMMA TrustDoes == Does(Trust, RereadOps) /\ Rereads(Trust)
<1> DEFINE p == (GetTarget \o Check({400})) \o PinHostKey
<1>1. Does(PinHostKey, {})
  <2>1. {409, Internal} \in SUBSET Errors
    BY DEF Errors, Refused, Internal, Timeout
  <2> QED
    BY <2>1, ChangesDo DEF PinHostKey
<1>2. Does(p, {})
  BY <1>1, TargetLooks, OtherLooks, LooksJoin, DoesAfterLook
<1> HIDE DEF p
<1>3. Trust = p \o SelectTarget
  BY DEF Trust, p
<1>4. Piece(SelectTarget) /\ SelectTarget \in Seq(Operation) /\ p \in Seq(Operation) /\ Changes(p)
  BY <1>2, TargetLooks, Kinds DEF Looks, Piece, Does, Changes
<1>5. Does(p \o SelectTarget, {} \cup RereadOps)
  BY <1>2, <1>4, TargetLooks, DoesThen
<1>6. {} \cup RereadOps = RereadOps
  OBVIOUS
<1>7. Rereads(p \o SelectTarget)
  BY <1>4, TargetLooks, RereadsJoin
<1> QED
  BY <1>3, <1>5, <1>6, <1>7

-----------------------------------------------------------------------------
(* The routes.                                                               *)

\* A handler that a request may be, also behind the guard.
Route(p) == Reads(p) \/ Writes(p, {}) \/ (Writes(p, RereadOps) /\ Rereads(p))

LEMMA RoutesAreFine == ASSUME NEW p, Route(p) PROVE Fine(p)
BY ReadsAreFine, WritesAreFine DEF Route

LEMMA RequireIsRoute == ASSUME NEW h, Route(h) PROVE Route(Require(h))
<1> DEFINE g == Denying(Authenticate \o Check({403}))
<1>1. Looks(g)
  BY IdentityLooks
<1>2. Require(h) = g \o h
  BY DEF Require
<1> HIDE DEF g
<1>3. CASE Reads(h)
  BY <1>1, <1>2, <1>3, ReadsAfterLook DEF Route
<1>4. CASE Writes(h, {})
  BY <1>1, <1>2, <1>4, WritesAfterLook DEF Route
<1>5. CASE Writes(h, RereadOps) /\ Rereads(h)
  <2>1. Writes(Require(h), RereadOps)
    BY <1>1, <1>2, <1>5, WritesAfterLook
  <2>2. g \in Seq(Operation) /\ h \in Seq(Operation)
    BY <1>1, <1>5 DEF Looks, Piece, Writes, Does
  <2>3. Rereads(Require(h))
    BY <1>2, <1>5, <2>2, RereadsJoin
  <2> QED
    BY <2>1, <2>3 DEF Route
<1> QED
  BY <1>3, <1>4, <1>5 DEF Route

\* The ends of handlers.
LEMMA ReadIsRoute ==
  ASSUME NEW p, Looks(p), NEW status \in Success
  PROVE  Route(p \o Answer(status)) /\ Route((p \o Tell) \o Answer(status))
BY ReadsAnswer DEF Route

LEMMA ChangeIsRoute ==
  ASSUME NEW p, Does(p, {}), NEW status \in Success
  PROVE  Route((p \o Tell) \o Answer(status))
<1>1. {} \subseteq BeforeOps
  OBVIOUS
<1> QED
  BY <1>1, WritesAnswer DEF Route

LEMMA AnswerCodes == 200 \in Success /\ 201 \in Success /\ 204 \in Success
  BY DEF Success

LEMMA AnswerIsRoute == ASSUME NEW status \in Success PROVE Route(Answer(status))
<1>1. Answer(status) \in Seq(AnswerOps) /\ Piece(Answer(status)) /\ EndsInAnswer(Answer(status))
  BY Ending
<1>2. Answer(status) \in Seq(BeforeOps \cup TellOps \cup AnswerOps)
  BY <1>1
<1> QED
  BY <1>1, <1>2 DEF Route, Reads

LEMMA IdentityHandlers ==
  /\ Route(HandleCreateUser) /\ Route(HandleListUsers) /\ Route(HandleGetUser)
  /\ Route(HandleDeleteUser) /\ Route(HandleListTokens) /\ Route(HandleRevokeToken)
  /\ Route(HandleAddKey) /\ Route(HandleListKeys) /\ Route(HandleRemoveKey)
  /\ Route(HandleWhoAmI) /\ Route(HandleConsoleSignIn) /\ Route(HandleConsoleSignOut)
  /\ \A n \in Nat : Route(HandleIssueToken(n))
<1> USE AnswerCodes
<1>1. Route(HandleWhoAmI) /\ Route(HandleConsoleSignOut)
  BY AnswerIsRoute DEF HandleWhoAmI, HandleConsoleSignOut
<1>2. Route(HandleListUsers) /\ Route(HandleGetUser) /\ Route(HandleListTokens) /\ Route(HandleListKeys)
  BY IdentityLooks, ReadIsRoute DEF HandleListUsers, HandleGetUser, HandleListTokens, HandleListKeys
<1>3. Route(HandleConsoleSignIn)
  BY IdentityLooks, LooksJoin, ReadIsRoute DEF HandleConsoleSignIn
<1>4. Does(Decode \o CreateUser, {}) /\ Does(Decode \o AddKey, {})
      /\ \A n \in Nat : Does(RequestedTTL \o IssueToken(n), {})
  BY IdentityLooks, ServicesDo, DoesAfterLook
<1>5. Route(HandleCreateUser) /\ Route(HandleDeleteUser) /\ Route(HandleRevokeToken)
      /\ Route(HandleAddKey) /\ Route(HandleRemoveKey)
  BY <1>4, ServicesDo, ChangeIsRoute
     DEF HandleCreateUser, HandleDeleteUser, HandleRevokeToken, HandleAddKey, HandleRemoveKey
<1>6. \A n \in Nat : Route(HandleIssueToken(n))
  BY <1>4, ChangeIsRoute DEF HandleIssueToken
<1> QED
  BY <1>1, <1>2, <1>3, <1>5, <1>6

LEMMA TargetHandlers ==
  /\ Route(HandleRegisterTarget) /\ Route(HandleGetTarget) /\ Route(HandleDeleteTarget)
  /\ Route(HandleTrust) /\ \A n \in Nat : Route(HandleListTargets(n))
<1> USE AnswerCodes
<1>1. Route(HandleGetTarget) /\ \A n \in Nat : Route(HandleListTargets(n))
  BY TargetLooks, ReadIsRoute DEF HandleGetTarget, HandleListTargets
<1>2. Does(Decode \o RegisterTarget, {})
  BY IdentityLooks, ServicesDo, DoesAfterLook
<1>3. Route(HandleRegisterTarget) /\ Route(HandleDeleteTarget)
  BY <1>2, ServicesDo, ChangeIsRoute DEF HandleRegisterTarget, HandleDeleteTarget
<1>4. Route(HandleTrust)
  <2> DEFINE p == Decode \o Trust
             a == Answer(200)
  <2>1. Does(p, RereadOps)
    BY IdentityLooks, TrustDoes, DoesAfterLook
  <2>2. Decode \in Seq(Operation) /\ Trust \in Seq(Operation) /\ p \in Seq(Operation)
        /\ Tell \in Seq(Operation) /\ a \in Seq(Operation)
    BY <2>1, IdentityLooks, TrustDoes, Ending DEF Looks, Does, Piece
  <2>3. Rereads(p)
    BY <2>2, TrustDoes, RereadsJoin
  <2>4. HandleTrust = (p \o Tell) \o a
    BY DEF HandleTrust
  <2>5. Writes((p \o Tell) \o a, RereadOps)
    BY <2>1, Kinds, WritesAnswer
  <2> HIDE DEF p, a
  <2>6. Rereads(p \o Tell) /\ p \o Tell \in Seq(Operation)
    BY <2>2, <2>3, RereadsJoin, Concat
  <2>7. Rereads((p \o Tell) \o a)
    BY <2>2, <2>6, RereadsJoin
  <2> QED
    BY <2>4, <2>5, <2>7 DEF Route
<1> QED
  BY <1>1, <1>3, <1>4

LEMMA PolicyHandlers ==
  /\ Route(HandleCreatePolicy) /\ Route(HandleGetPolicy) /\ Route(HandleDeletePolicy)
  /\ Route(HandleEvaluate) /\ \A n \in Nat : Route(HandleListPolicies(n))
<1> USE AnswerCodes
<1>1. Looks(Decode \o Evaluate) /\ Does(Decode \o CreatePolicy, {})
  BY IdentityLooks, OtherLooks, LooksJoin, ServicesDo, DoesAfterLook
<1>2. Route(HandleGetPolicy) /\ Route(HandleEvaluate) /\ \A n \in Nat : Route(HandleListPolicies(n))
  BY <1>1, OtherLooks, ReadIsRoute DEF HandleGetPolicy, HandleEvaluate, HandleListPolicies
<1>3. Route(HandleCreatePolicy) /\ Route(HandleDeletePolicy)
  BY <1>1, ServicesDo, ChangeIsRoute DEF HandleCreatePolicy, HandleDeletePolicy
<1> QED
  BY <1>2, <1>3

LEMMA ApprovalHandlers ==
  /\ Route(HandleRaise) /\ Route(HandleListRequests) /\ Route(HandleGetRequest)
  /\ Route(HandleDecide(Decide)) /\ Route(HandleDecide(CancelRequest)) /\ Route(HandleGrant)
<1> USE AnswerCodes
<1>1. Looks(Decode \o Grant) /\ Does(Decode \o CreateRequest, {})
  BY IdentityLooks, OtherLooks, LooksJoin, ServicesDo, DoesAfterLook
<1>2. Route(HandleListRequests) /\ Route(HandleGetRequest) /\ Route(HandleGrant)
  BY <1>1, OtherLooks, ReadIsRoute DEF HandleListRequests, HandleGetRequest, HandleGrant
<1>3. Route(HandleRaise) /\ Route(HandleDecide(Decide)) /\ Route(HandleDecide(CancelRequest))
  BY <1>1, ServicesDo, ChangeIsRoute DEF HandleRaise, HandleDecide
<1> QED
  BY <1>2, <1>3

LEMMA SessionHandlers ==
  /\ Route(HandleListSessions) /\ Route(HandleGetSession) /\ Route(HandleKill)
  /\ Route(HandleTail) /\ Route(HandleVersion) /\ Route(HandleHealthz)
<1> USE AnswerCodes
<1>1. Route(HandleListSessions) /\ Route(HandleGetSession) /\ Route(HandleKill)
  BY OtherLooks, ReadIsRoute DEF HandleListSessions, HandleGetSession, HandleKill
<1>2. Route(HandleTail) /\ Route(HandleVersion)
  BY OtherLooks, ReadIsRoute, AnswerIsRoute DEF HandleTail, HandleVersion
<1>3. Route(HandleHealthz)
  <2>1. PICK a, b : /\ a = [do |-> "take", codes |-> {503}, deny |-> FALSE]
                    /\ b = [do |-> "free", codes |-> {503}, deny |-> FALSE]
    OBVIOUS
  <2>2. a \in BeforeOps /\ b \in BeforeOps /\ a.do = "take" /\ b.do = "free"
    BY <2>1 DEF BeforeOps, Operation, Errors, Timeout
  <2>3. PICK p : p = <<a>> \o <<b>>
    OBVIOUS
  <2>4. p \in Seq(BeforeOps) /\ DOMAIN p = 1..2 /\ p[1] = a /\ p[2] = b
    BY <2>2, <2>3, Two
  <2>5. Balanced(p)
    <3>1. \A i \in 1..2 : i = 1 \/ i = 2
      OBVIOUS
    <3> QED
      BY <2>2, <2>4, <3>1 DEF Balanced, OnIt
  <2>6. Looks(p)
    BY <2>4, <2>5, Kinds DEF Looks, Piece
  <2>7. HandleHealthz = p \o Answer(200)
    BY <2>1, <2>3 DEF HandleHealthz, Op
  <2> QED
    BY <2>6, <2>7, ReadIsRoute
<1> QED
  BY <1>1, <1>2, <1>3

\* Every request that the API answers ends in one success and nothing else is one, changes
\* the store once at most, records it after the change, and has no refusal left by then but
\* for a row that is gone when it is read again; it never asks for the connection while it
\* holds it. So whatever lists and attempts there are (Routes).
THEOREM RoutesAreOrderly ==
  \A p \in Routes :
    p \in Seq(Operation) /\ p # <<>> /\ Balanced(p) /\ Orderly(p, Kind(p), FALSE, FALSE)
<1>1. MaxRows \in Nat /\ Attempts \in Nat
  BY HandlersAssumption
<1>2. \A n \in 0..MaxRows : n \in Nat
  BY <1>1
<1>3. \A n \in 1..Attempts : n \in Nat
  BY <1>1
<1>4. \A p \in IdentityRoutes : Route(p)
  BY <1>3, IdentityHandlers, RequireIsRoute DEF IdentityRoutes
<1>5. \A p \in TargetRoutes : Route(p)
  BY <1>2, TargetHandlers, RequireIsRoute DEF TargetRoutes
<1>6. \A p \in PolicyRoutes : Route(p)
  BY <1>2, PolicyHandlers, RequireIsRoute DEF PolicyRoutes
<1>7. \A p \in ApprovalRoutes : Route(p)
  BY ApprovalHandlers, RequireIsRoute DEF ApprovalRoutes
<1>8. \A p \in SessionRoutes : Route(p)
  BY SessionHandlers, RequireIsRoute DEF SessionRoutes
<1>9. \A p \in Routes : Fine(p)
  BY <1>4, <1>5, <1>6, <1>7, <1>8, RoutesAreFine DEF Routes
<1> QED
  BY <1>9 DEF Fine

\* Without an answer, an event and a denial.
UseOps == {o \in Operation : o.do \notin {"answer", "tell"} /\ ~o.deny}

LEMMA UsePieces ==
  /\ \A p, q : p \in Seq(UseOps) /\ q \in Seq(UseOps) => p \o q \in Seq(UseOps)
  /\ Row \in Seq(UseOps) /\ Rows \in Seq(UseOps)
  /\ \A codes \in SUBSET Nat : Check(codes) \in Seq(UseOps) /\ Exec(codes) \in Seq(UseOps)
<1>1. LookOps \subseteq UseOps
  BY Codes DEF LookOps, Touch, UseOps, Operation
<1>2. Row \in Seq(UseOps) /\ Rows \in Seq(UseOps)
  BY <1>1, RowIs, RowsIs
<1>3. ASSUME NEW codes \in SUBSET Nat
      PROVE  Check(codes) \in Seq(UseOps) /\ Exec(codes) \in Seq(UseOps)
  <2>1. PICK c, d : /\ c = [do |-> "check", codes |-> codes, deny |-> FALSE]
                    /\ d = [do |-> "commit", codes |-> codes \cup {Internal}, deny |-> FALSE]
    OBVIOUS
  <2>2. c \in UseOps /\ d \in UseOps /\ Touch("take") \in UseOps
    BY <1>1, <2>1, Codes DEF UseOps, Operation, LookOps
  <2>3. Check(codes) = <<c>> /\ Exec(codes) = <<Touch("take")>> \o <<d>>
    BY <2>1 DEF Check, Exec, Take, Op, Touch
  <2>4. PICK p : p = <<Touch("take")>> \o <<d>>
    OBVIOUS
  <2>5. p \in Seq(UseOps)
    BY <2>2, <2>4, Two
  <2> QED
    BY <2>2, <2>3, <2>4, <2>5
<1>4. \A p, q : p \in Seq(UseOps) /\ q \in Seq(UseOps) => p \o q \in Seq(UseOps)
  OBVIOUS
<1> QED
  BY <1>2, <1>3, <1>4

\* What an SSH connection and its sessions ask of the store has no answer and no event,
\* and never asks for the connection while it holds it (SessionUses).
THEOREM SessionUsesAreBalanced ==
  \A p \in SessionUses :
    /\ p \in Seq(Operation) /\ Balanced(p)
    /\ \A i \in DOMAIN p : p[i].do \notin {"answer", "tell"} /\ ~p[i].deny
<1>1. /\ Check({400}) \in Seq(UseOps) /\ Check({401}) \in Seq(UseOps)
      /\ Check({403}) \in Seq(UseOps) /\ Check({404}) \in Seq(UseOps)
      /\ Exec({}) \in Seq(UseOps) /\ Exec({409}) \in Seq(UseOps)
  <2>1. /\ {} \in SUBSET Nat /\ {400} \in SUBSET Nat /\ {401} \in SUBSET Nat
        /\ {403} \in SUBSET Nat /\ {404} \in SUBSET Nat /\ {409} \in SUBSET Nat
    OBVIOUS
  <2> QED
    BY <2>1, UsePieces
<1>2. ByPublicKey \in Seq(UseOps)
  BY <1>1, UsePieces DEF ByPublicKey, SelectUserByKey
<1>3. OpenSession \in Seq(UseOps) /\ CloseSession \in Seq(UseOps)
  BY <1>1, UsePieces DEF OpenSession, CloseSession, InsertSession, FinishSession
<1>4. GetByName \in Seq(UseOps)
  BY <1>1, UsePieces DEF GetByName, SelectTargetByName, SelectPrincipals
<1>5. Authorize \in Seq(UseOps) /\ HasGrant \in Seq(UseOps)
  BY <1>1, UsePieces DEF Authorize, Evaluate, Matching, HasGrant, Grant, ActiveGrant
<1>6. Resolve \in Seq(UseOps)
  BY <1>1, <1>4, <1>5, UsePieces DEF Resolve
<1>7. \A p \in SessionUses : p \in Seq(UseOps) /\ Piece(p)
  BY <1>2, <1>3, <1>6, IdentityLooks, OtherLooks, ServicesDo DEF SessionUses, Looks, Does
<1>8. ASSUME NEW p \in SessionUses
      PROVE  /\ p \in Seq(Operation) /\ Balanced(p)
             /\ \A i \in DOMAIN p : p[i].do \notin {"answer", "tell"} /\ ~p[i].deny
  <2>1. \A i \in DOMAIN p : p[i] \in UseOps
    BY <1>7
  <2> QED
    BY <1>7, <2>1 DEF Piece, UseOps
<1> QED
  BY <1>8

=============================================================================
