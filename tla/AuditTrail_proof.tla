-------------------------- MODULE AuditTrail_proof --------------------------
(***************************************************************************)
(* Proofs about AuditTrail: what Loki holds the file holds, in the order   *)
(* it was recorded, a torn write costs one event, and whatever Loki does   *)
(* not get was counted, logged or late.  The inductive invariant says that *)
(* the events of one writer pass through shipped, batch and queue in the   *)
(* order of their numbers, and that the one being recorded comes after all *)
(* of them.                                                                *)
(*                                                                         *)
(* Then about TrailReader: a reader is shown the newest events.  Its       *)
(* inductive invariant says that no cell is in the file twice, and that    *)
(* what a reader holds follows from the part of the file it has read,      *)
(* which later writes only extend.                                         *)
(***************************************************************************)
EXTENDS AuditTrail, TrailReader, FiniteSetTheorems, TLAPS

-----------------------------------------------------------------------------
(* Sequences of events.                                                      *)

Before(e, f) == e.by = f.by => e.n < f.n

\* Each event of a writer comes before its later ones.
Ordered(s) == \A i, j \in 1..Len(s) : i < j => Before(s[i], s[j])

\* All of E come before all of F.
AllBefore(E, F) == \A e \in E, f \in F : Before(e, f)

LEMMA AppendEvent ==
  ASSUME NEW s \in Seq(Event), NEW e \in Event
  PROVE  /\ Append(s, e) \in Seq(Event)
         /\ In(Append(s, e)) = In(s) \cup {e}
         /\ Ordered(s) /\ AllBefore(In(s), {e}) => Ordered(Append(s, e))
<1> DEFINE t == Append(s, e)
<1>1. /\ t \in Seq(Event) /\ Len(t) = Len(s) + 1 /\ Len(s) \in Nat
      /\ t[Len(s) + 1] = e
      /\ \A i \in 1..Len(s) : t[i] = s[i]
  OBVIOUS
<1> HIDE DEF t
<1>2. In(t) = In(s) \cup {e}
  BY <1>1 DEF In
<1>3. ASSUME Ordered(s), AllBefore(In(s), {e}) PROVE Ordered(t)
  <2> SUFFICES ASSUME NEW i \in 1..Len(t), NEW j \in 1..Len(t), i < j
               PROVE  Before(t[i], t[j])
    BY DEF Ordered
  <2>1. CASE j = Len(s) + 1
    BY <1>1, <1>3, <2>1 DEF AllBefore, In
  <2>2. CASE j # Len(s) + 1
    BY <1>1, <1>3, <2>2 DEF Ordered
  <2> QED
    BY <2>1, <2>2
<1> QED
  BY <1>1, <1>2, <1>3 DEF t

LEMMA TakeEvent ==
  ASSUME NEW s \in Seq(Event), s # <<>>
  PROVE  /\ Head(s) \in Event /\ Tail(s) \in Seq(Event)
         /\ Len(Tail(s)) <= Len(s)
         /\ In(s) = {Head(s)} \cup In(Tail(s))
         /\ Ordered(s) => Ordered(Tail(s)) /\ AllBefore({Head(s)}, In(Tail(s)))
<1> DEFINE t == Tail(s)
<1>1. /\ t \in Seq(Event) /\ Len(t) = Len(s) - 1 /\ Len(s) \in Nat /\ Len(s) > 0
      /\ Head(s) = s[1] /\ s[1] \in Event
      /\ \A i \in 1..Len(t) : t[i] = s[i + 1]
  OBVIOUS
<1> HIDE DEF t
<1>2. In(s) = {Head(s)} \cup In(t)
  <2>1. \A i \in 1..Len(s) : i = 1 \/ (i - 1 \in 1..Len(t) /\ t[i - 1] = s[i])
    BY <1>1
  <2>2. \A i \in 1..Len(t) : i + 1 \in 1..Len(s) /\ t[i] = s[i + 1]
    BY <1>1
  <2>3. 1 \in 1..Len(s)
    BY <1>1
  <2> QED
    BY <1>1, <2>1, <2>2, <2>3 DEF In
<1>3. ASSUME Ordered(s) PROVE Ordered(t) /\ AllBefore({Head(s)}, In(t))
  <2>1. Ordered(t)
    BY <1>1, <1>3 DEF Ordered
  <2>2. \A i \in 1..Len(t) : Before(s[1], t[i])
    BY <1>1, <1>3 DEF Ordered
  <2> QED
    BY <1>1, <2>1, <2>2 DEF AllBefore, In
<1> QED
  BY <1>1, <1>2, <1>3 DEF t

LEMMA JoinEvents ==
  ASSUME NEW s \in Seq(Event), NEW t \in Seq(Event)
  PROVE  /\ s \o t \in Seq(Event)
         /\ In(s \o t) = In(s) \cup In(t)
         /\ Ordered(s) /\ Ordered(t) /\ AllBefore(In(s), In(t)) => Ordered(s \o t)
<1> DEFINE u == s \o t
<1>1. /\ u \in Seq(Event) /\ Len(u) = Len(s) + Len(t)
      /\ Len(s) \in Nat /\ Len(t) \in Nat
      /\ \A i \in 1..Len(s) : u[i] = s[i]
      /\ \A i \in 1..Len(u) : i > Len(s) => u[i] = t[i - Len(s)]
  OBVIOUS
<1> HIDE DEF u
<1>2. In(u) = In(s) \cup In(t)
  <2>1. \A i \in 1..Len(u) :
          \/ i \in 1..Len(s) /\ u[i] = s[i]
          \/ i - Len(s) \in 1..Len(t) /\ u[i] = t[i - Len(s)]
    BY <1>1
  <2>2. \A i \in 1..Len(s) : i \in 1..Len(u) /\ u[i] = s[i]
    BY <1>1
  <2>3. \A i \in 1..Len(t) : i + Len(s) \in 1..Len(u) /\ u[i + Len(s)] = t[i]
    <3>1. \A i \in 1..Len(t) :
            i + Len(s) \in 1..Len(u) /\ i + Len(s) > Len(s) /\ (i + Len(s)) - Len(s) = i
      BY <1>1
    <3> QED
      BY <1>1, <3>1
  <2>4. In(u) \subseteq In(s) \cup In(t)
    BY <2>1 DEF In
  <2>5. In(s) \subseteq In(u)
    BY <2>2 DEF In
  <2>6. In(t) \subseteq In(u)
    BY <2>3 DEF In
  <2> QED
    BY <2>4, <2>5, <2>6
<1>3. ASSUME Ordered(s), Ordered(t), AllBefore(In(s), In(t)) PROVE Ordered(u)
  <2> SUFFICES ASSUME NEW i \in 1..Len(u), NEW j \in 1..Len(u), i < j
               PROVE  Before(u[i], u[j])
    BY DEF Ordered
  <2>1. CASE j <= Len(s)
    BY <1>1, <1>3, <2>1 DEF Ordered
  <2>2. CASE i > Len(s)
    <3>1. /\ i - Len(s) \in 1..Len(t) /\ j - Len(s) \in 1..Len(t)
          /\ i - Len(s) < j - Len(s)
          /\ u[i] = t[i - Len(s)] /\ u[j] = t[j - Len(s)]
      BY <1>1, <2>2
    <3> QED
      BY <1>3, <3>1 DEF Ordered
  <2>3. CASE i <= Len(s) /\ j > Len(s)
    <3>1. i \in 1..Len(s) /\ u[i] = s[i]
      BY <1>1, <2>3
    <3>2. j - Len(s) \in 1..Len(t) /\ u[j] = t[j - Len(s)]
      BY <1>1, <2>3
    <3>3. u[i] \in In(s) /\ u[j] \in In(t)
      BY <3>1, <3>2 DEF In
    <3> QED
      BY <1>3, <3>3 DEF AllBefore
  <2> QED
    BY <1>1, <2>1, <2>2, <2>3
<1> QED
  BY <1>1, <1>2, <1>3 DEF u

-----------------------------------------------------------------------------
(* The inductive invariant.                                                  *)

USE DEF history

\* What is on its way to Loki, in order, is recorded.
PipelineIsOrdered ==
  /\ Ordered(shipped) /\ Ordered(batch) /\ Ordered(queue)
  /\ AllBefore(In(shipped), In(batch))
  /\ AllBefore(In(shipped), In(queue))
  /\ AllBefore(In(batch), In(queue))

PipelineIsRecorded == In(shipped) \cup In(batch) \cup In(queue) \subseteq recorded

\* The event a writer is recording is the last of its events, and is in the
\* file, or in the pipeline, only once the writer has come that far.
CurrentIsLast ==
  \A w \in Writer :
    /\ \A e \in Written : e.by = w => e.n <= count[w]
    /\ pc[w] = "append" => \A e \in Written : e.by = w => e.n < count[w]
    /\ pc[w] = "enqueue" =>
         /\ Current(w) \in recorded
         /\ \A e \in In(shipped) \cup In(batch) \cup In(queue) \cup offered :
              e.by = w => e.n < count[w]

TearIsPaid ==
  /\ IsFiniteSet(garbled)
  /\ Cardinality(garbled \cap recorded) +
       (IF ending = "torn" THEN 1 ELSE 0) <= Cardinality(garbled \ recorded)

IInv == /\ TypeOK
        /\ recorded \subseteq Written
        /\ offered \subseteq recorded
        /\ PipelineIsOrdered
        /\ PipelineIsRecorded
        /\ CurrentIsLast
        /\ TearIsPaid

LEMMA InitHolds == Init => IInv
<1> SUFFICES ASSUME Init PROVE IInv
  OBVIOUS
<1>1. In(<<>>) = {} /\ Ordered(<<>>) /\ <<>> \in Seq(Event) /\ Len(<<>>) = 0
  BY DEF In, Ordered
<1>2. TypeOK
  BY <1>1, AuditAssumption DEF Init, TypeOK
<1>3. PipelineIsOrdered /\ PipelineIsRecorded
  BY <1>1 DEF Init, PipelineIsOrdered, PipelineIsRecorded, AllBefore
<1>4. CurrentIsLast
  BY <1>1 DEF Init, CurrentIsLast, Written
<1>5. TearIsPaid
  <2>1. garbled \cap recorded = {} /\ garbled \ recorded = {} /\ garbled = {}
    BY DEF Init
  <2> QED
    BY <2>1, FS_EmptySet DEF Init, TearIsPaid
<1> QED
  BY <1>2, <1>3, <1>4, <1>5 DEF Init, IInv, Written

\* A line that reaches the file, whole or torn, keeps what is known of it.
LEMMA WriteKeepsTear ==
  ASSUME TearIsPaid, TypeOK, NEW e, e \notin recorded, e \notin Written,
         \/ PutLine(e) /\ recorded' \in {recorded, recorded \cup {e}}
         \/ PutTorn(e) /\ recorded' = recorded
  PROVE  TearIsPaid'
<1> DEFINE good == garbled \cap recorded
           bad  == garbled \ recorded
<1>0. /\ IsFiniteSet(garbled) /\ IsFiniteSet(good) /\ IsFiniteSet(bad)
      /\ Cardinality(good) \in Nat /\ Cardinality(bad) \in Nat
  BY FS_Subset, FS_CardinalityType DEF TearIsPaid
<1>1. /\ IsFiniteSet(garbled \cup {e})
      /\ Cardinality(good \cup {e}) = Cardinality(good) + 1
      /\ Cardinality(bad \cup {e}) = Cardinality(bad) + 1
  BY <1>0, FS_AddElement DEF Written
<1>2. CASE garbled' = garbled /\ ending = "newline" /\ ending' = "newline"
           /\ recorded' \in {recorded, recorded \cup {e}}
  <2>1. (garbled \cap recorded)' = good /\ (garbled \ recorded)' = bad
    BY <1>2 DEF Written
  <2> QED
    BY <1>2, <2>1 DEF TearIsPaid
<1>3. CASE garbled' = garbled \cup {e} /\ recorded' = recorded
  <2>1. (garbled \cap recorded)' = good /\ (garbled \ recorded)' = bad \cup {e}
    BY <1>3
  <2>2. Cardinality(good) <= Cardinality(bad)
    BY <1>0 DEF TearIsPaid
  <2>3. IsFiniteSet(garbled)'
    BY <1>1, <1>3
  <2>4. Cardinality(good) + (IF ending' = "torn" THEN 1 ELSE 0)
          <= Cardinality(bad \cup {e})
    <3> HIDE DEF good, bad
    <3> QED
      BY <1>0, <1>1, <2>2
  <2> QED
    BY <2>1, <2>3, <2>4 DEF TearIsPaid
<1>4. CASE garbled' = garbled \cup {e} /\ recorded' = recorded \cup {e}
           /\ ending = "torn" /\ ending' = "newline"
  <2>1. (garbled \cap recorded)' = good \cup {e} /\ (garbled \ recorded)' = bad
    BY <1>4 DEF Written
  <2> QED
    BY <1>0, <1>1, <1>4, <2>1 DEF TearIsPaid
<1> QED
  BY <1>2, <1>3, <1>4 DEF PutLine, PutTorn, TypeOK

\* Every step of a caller.
LEMMA RecordKeeps ==
  ASSUME IInv, NEW w \in Writer, Record(w)
  PROVE  IInv'
<1> USE DEF IInv
<1>1. TypeOK'
  BY DEF TypeOK, Record, Goto, file, ship
<1>2. UNCHANGED <<file, ship, history, Written>>
  BY DEF Record, Written, file
<1>3. CurrentIsLast'
  <2> SUFFICES ASSUME NEW v \in Writer PROVE CurrentIsLast!(v)'
    BY DEF CurrentIsLast
  <2>1. /\ count \in [Writer -> Nat] /\ count' = [count EXCEPT ![w] = @ + 1]
        /\ pc' = [pc EXCEPT ![w] = "append"]
        /\ pc \in [Writer -> {"idle", "append", "enqueue"}]
    BY DEF TypeOK, Record, Goto
  <2>4. \A e \in Written : e.n \in Nat
    BY DEF TypeOK, Written, Event
  <2>2. CASE v = w
    <3>1. count'[v] = count[v] + 1 /\ pc'[v] = "append" /\ count[v] \in Nat
      BY <2>1, <2>2
    <3>2. \A e \in Written : e.by = v => e.n < count'[v]
      BY <2>4, <3>1, <2>2 DEF CurrentIsLast
    <3>3. \A e \in Written : e.by = v => e.n <= count'[v]
      BY <2>4, <3>1, <3>2
    <3>4. Written' = Written
      BY <1>2
    <3> QED
      BY <3>1, <3>2, <3>3, <3>4
  <2>3. CASE v # w
    <3>1. count'[v] = count[v] /\ pc'[v] = pc[v]
      BY <2>1, <2>3
    <3> QED
      BY <1>2, <3>1 DEF CurrentIsLast, Current, ship
  <2> QED
    BY <2>2, <2>3
<1>4. PipelineIsOrdered' /\ PipelineIsRecorded' /\ TearIsPaid'
  BY <1>2 DEF PipelineIsOrdered, PipelineIsRecorded, TearIsPaid, ship, file
<1> QED
  BY <1>1, <1>2, <1>3, <1>4

\* What the file holds after a line was put: at most one event more.
LEMMA PutAdds ==
  ASSUME NEW e, PutLine(e) \/ PutTorn(e)
  PROVE  Written' = Written \cup {e}
BY DEF PutLine, PutTorn, Written

\* An event that is still to be written is new.
LEMMA CurrentIsNew ==
  ASSUME IInv, NEW w \in Writer, pc[w] = "append"
  PROVE  /\ Current(w) \in Event /\ Current(w).by = w /\ Current(w).n = count[w]
         /\ Current(w) \notin Written /\ Current(w) \notin recorded
<1>1. /\ Current(w) \in Event /\ Current(w).by = w /\ Current(w).n = count[w]
      /\ count[w] \in Nat
  BY DEF Current, Event, IInv, TypeOK
<1>2. \A e \in Written : e.by = w => e.n < count[w]
  BY DEF IInv, CurrentIsLast
<1>3. Current(w) \notin Written
  BY <1>1, <1>2
<1> QED
  BY <1>1, <1>3 DEF IInv

LEMMA AppendLineKeeps ==
  ASSUME IInv, NEW w \in Writer, AppendLine(w)
  PROVE  IInv'
<1> USE DEF IInv
<1> DEFINE e == Current(w)
<1>0. /\ e \in Event /\ e.by = w /\ e.n = count[w] /\ count[w] \in Nat
      /\ e \notin Written /\ e \notin recorded
  <2>1. pc[w] = "append" /\ count[w] \in Nat
    BY DEF AppendLine, Goto, TypeOK
  <2> QED
    BY <2>1, CurrentIsNew
<1>1. /\ PutLine(e) /\ recorded' = recorded \cup {e}
      /\ UNCHANGED <<phase, count, ship, offered, late, logged>>
      /\ pc' = [pc EXCEPT ![w] = "enqueue"] /\ pc[w] = "append"
      /\ Written' = Written \cup {e}
  BY PutAdds DEF AppendLine, Goto
<1>c. Current(w)' = e
  BY <1>1 DEF Current
<1> HIDE DEF e
<1>2. TypeOK'
  BY <1>0, <1>1 DEF TypeOK, PutLine, ship
<1>3. CurrentIsLast'
  <2> SUFFICES ASSUME NEW v \in Writer PROVE CurrentIsLast!(v)'
    BY DEF CurrentIsLast
  <2>1. CASE v = w
    <3>1. \A f \in Written : f.by = v => f.n < count[v]
      BY <1>1, <2>1 DEF CurrentIsLast
    <3>2. \A f \in Written' : f.by = v => f.n <= count[v]
      BY <1>0, <1>1, <2>1 DEF CurrentIsLast
    <3>3. In(shipped) \cup In(batch) \cup In(queue) \cup offered \subseteq Written
      BY DEF PipelineIsRecorded
    <3>4. pc'[v] = "enqueue"
      BY <1>1, <2>1 DEF TypeOK
    <3> QED
      BY <1>1, <1>c, <2>1, <3>1, <3>2, <3>3, <3>4 DEF ship
  <2>2. CASE v # w
    <3>1. pc'[v] = pc[v]
      BY <1>1, <2>2 DEF TypeOK
    <3>2. \A f \in Written' : f.by = v => f \in Written
      BY <1>0, <1>1, <2>2
    <3> QED
      BY <1>1, <3>1, <3>2 DEF CurrentIsLast, Current, ship
  <2> QED
    BY <2>1, <2>2
<1>4. PipelineIsOrdered' /\ PipelineIsRecorded'
  BY <1>1 DEF PipelineIsOrdered, PipelineIsRecorded, ship
<1>5. TearIsPaid'
  BY <1>0, <1>1, WriteKeepsTear
<1> QED
  BY <1>1, <1>2, <1>3, <1>4, <1>5

\* A writer that gives up, wherever it stood, with or without a line.
LEMMA GiveUpKeeps ==
  ASSUME IInv, NEW w \in Writer, pc[w] = "append",
         pc' = [pc EXCEPT ![w] = "idle"],
         PutLine(Current(w)) \/ PutTorn(Current(w)) \/ UNCHANGED file,
         UNCHANGED <<phase, count, ship, history>>
  PROVE  IInv'
<1> USE DEF IInv
<1> DEFINE e == Current(w)
<1>0. /\ e \in Event /\ e.by = w /\ e.n = count[w] /\ count[w] \in Nat
      /\ e \notin Written /\ e \notin recorded
  BY CurrentIsNew DEF TypeOK
<1>1. Written' \subseteq Written \cup {e} /\ Written \subseteq Written'
  BY PutAdds DEF file, Written
<1>w. PutLine(e) \/ PutTorn(e) \/ UNCHANGED file
  OBVIOUS
<1> HIDE DEF e
<1>2. TypeOK'
  BY <1>0, <1>w DEF TypeOK, PutLine, PutTorn, ship, file
<1>3. CurrentIsLast'
  <2> SUFFICES ASSUME NEW v \in Writer PROVE CurrentIsLast!(v)'
    BY DEF CurrentIsLast
  <2>1. CASE v = w
    <3>1. pc'[v] = "idle"
      BY <2>1 DEF TypeOK
    <3>2. \A f \in Written' : f.by = v => f.n <= count[v]
      BY <1>0, <1>1, <2>1 DEF CurrentIsLast
    <3> QED
      BY <3>1, <3>2
  <2>2. CASE v # w
    <3>1. pc'[v] = pc[v]
      BY <2>2 DEF TypeOK
    <3>2. \A f \in Written' : f.by = v => f \in Written
      BY <1>0, <1>1, <2>2
    <3> QED
      BY <3>1, <3>2 DEF CurrentIsLast, Current, ship
  <2> QED
    BY <2>1, <2>2
<1>4. PipelineIsOrdered' /\ PipelineIsRecorded'
  BY DEF PipelineIsOrdered, PipelineIsRecorded, ship
<1>5. TearIsPaid'
  BY <1>0, <1>w, WriteKeepsTear DEF TearIsPaid, file
<1> QED
  BY <1>1, <1>2, <1>3, <1>4, <1>5

LEMMA EnqueueKeeps ==
  ASSUME IInv, NEW w \in Writer, Enqueue(w)
  PROVE  IInv'
<1> USE DEF IInv
<1> DEFINE e == Current(w)
<1>0. /\ e \in Event /\ e.by = w /\ e.n = count[w] /\ count[w] \in Nat
      /\ e \in recorded
      /\ \A f \in In(shipped) \cup In(batch) \cup In(queue) \cup offered :
           f.by = w => f.n < count[w]
  BY DEF Enqueue, Goto, CurrentIsLast, Current, Event, TypeOK
<1>1. /\ UNCHANGED <<phase, count, file, batch, shipper, shipped, recorded, Written>>
      /\ pc' = [pc EXCEPT ![w] = "idle"] /\ pc[w] = "enqueue"
      /\ offered' = offered \cup {e} /\ late' \subseteq late \cup {e} /\ logged' = logged
      /\ \/ queue' = Append(queue, e) /\ Len(queue) < QueueDepth /\ dropped' = dropped
         \/ queue' = queue /\ dropped' = dropped + 1
  BY DEF Enqueue, Offer, Goto, file, Written
<1> HIDE DEF e
<1>a. AllBefore(In(shipped) \cup In(batch) \cup In(queue), {e})
  BY <1>0 DEF AllBefore, Before
<1>q. /\ queue' \in Seq(Event) /\ Len(queue') <= QueueDepth
      /\ In(queue') \subseteq In(queue) \cup {e}
      /\ Ordered(queue')
  <2>1. queue \in Seq(Event) /\ Len(queue) <= QueueDepth /\ Ordered(queue)
    BY DEF TypeOK, PipelineIsOrdered
  <2>2. CASE queue' = Append(queue, e) /\ Len(queue) < QueueDepth
    <3>1. Len(queue') = Len(queue) + 1
      BY <1>0, <2>1, <2>2
    <3>2. AllBefore(In(queue), {e})
      BY <1>a DEF AllBefore
    <3> QED
      BY <1>0, <2>1, <2>2, <3>1, <3>2, AppendEvent, AuditAssumption
  <2>3. CASE queue' = queue
    BY <2>1, <2>3
  <2> QED
    BY <1>1, <2>2, <2>3
<1>2. TypeOK'
  BY <1>0, <1>1, <1>q DEF TypeOK, file
<1>3. PipelineIsOrdered'
  <2>1. AllBefore(In(shipped), In(queue')) /\ AllBefore(In(batch), In(queue'))
    BY <1>a, <1>q DEF AllBefore, PipelineIsOrdered
  <2> QED
    BY <1>1, <1>q, <2>1 DEF PipelineIsOrdered
<1>4. PipelineIsRecorded' /\ offered' \subseteq recorded'
  BY <1>0, <1>1, <1>q DEF PipelineIsRecorded
<1>5. CurrentIsLast'
  <2> SUFFICES ASSUME NEW v \in Writer PROVE CurrentIsLast!(v)'
    BY DEF CurrentIsLast
  <2>1. CASE v = w
    <3>1. pc'[v] = "idle"
      BY <1>1, <2>1 DEF TypeOK
    <3> QED
      BY <1>1, <3>1 DEF CurrentIsLast
  <2>2. CASE v # w
    <3>1. pc'[v] = pc[v] /\ e.by # v
      BY <1>0, <1>1, <2>2 DEF TypeOK
    <3>2. \A f \in In(queue') \cup offered' :
            f.by = v => f \in In(queue) \cup offered
      BY <1>1, <1>q, <3>1
    <3> QED
      BY <1>1, <3>1, <3>2 DEF CurrentIsLast, Current
  <2> QED
    BY <2>1, <2>2
<1>6. TearIsPaid'
  BY <1>1 DEF TearIsPaid, file
<1> QED
  BY <1>1, <1>2, <1>3, <1>4, <1>5, <1>6

-----------------------------------------------------------------------------
\* A step of the shipper moves events along the pipeline, or gives them up.
LEMMA PipelineStep ==
  ASSUME IInv, TypeOK', PipelineIsOrdered',
         UNCHANGED <<callers, file, recorded>>, offered' \subseteq offered,
         (In(shipped) \cup In(batch) \cup In(queue))' \subseteq
           In(shipped) \cup In(batch) \cup In(queue)
  PROVE  IInv'
<1> USE DEF IInv
<1>0. UNCHANGED <<pc, count, recorded, garbled, lines, ending, Written>>
  BY DEF callers, file, Written
<1>1. CurrentIsLast'
  <2> SUFFICES ASSUME NEW v \in Writer PROVE CurrentIsLast!(v)'
    BY DEF CurrentIsLast
  <2> QED
    BY <1>0 DEF CurrentIsLast, Current
<1>2. PipelineIsRecorded' /\ TearIsPaid'
  BY <1>0 DEF PipelineIsRecorded, TearIsPaid
<1> QED
  BY <1>0, <1>1, <1>2

\* Receive and DrainOne: the head of the queue goes to the end of the batch.
LEMMA TakeKeeps ==
  ASSUME IInv, queue # <<>>, Take, shipper' \in {"select", "flush", "drain"},
         UNCHANGED <<phase, callers, file, dropped, shipped, history>>
  PROVE  IInv'
<1> USE DEF IInv
<1> DEFINE e == Head(queue)
<1>1. /\ e \in Event /\ queue' \in Seq(Event) /\ Len(queue') <= Len(queue)
      /\ In(queue) = {e} \cup In(queue')
      /\ Ordered(queue') /\ AllBefore({e}, In(queue'))
      /\ Len(queue) \in Nat /\ Len(queue') \in Nat /\ Len(queue) <= QueueDepth
  <2>1. /\ queue \in Seq(Event) /\ Ordered(queue) /\ Len(queue) <= QueueDepth
        /\ queue' = Tail(queue)
    BY DEF Take, TypeOK, PipelineIsOrdered
  <2>2. Tail(queue) \in Seq(Event) /\ Len(queue) \in Nat
    BY <2>1, TakeEvent
  <2>3. Len(Tail(queue)) \in Nat
    BY <2>2
  <2> QED
    BY <2>1, <2>2, <2>3, TakeEvent
<1>b. batch \in Seq(Event) /\ batch' = Append(batch, e)
  BY DEF Take, TypeOK
<1> HIDE DEF e
<1>2. AllBefore(In(batch), {e}) /\ Ordered(batch)
  BY <1>1 DEF PipelineIsOrdered, AllBefore
<1>3. /\ batch' \in Seq(Event) /\ Ordered(batch')
      /\ In(batch') = In(batch) \cup {e}
  BY <1>1, <1>b, <1>2, AppendEvent
<1>4. TypeOK'
  BY <1>1, <1>3, AuditAssumption DEF TypeOK, callers, file
<1>5. PipelineIsOrdered'
  BY <1>1, <1>3 DEF PipelineIsOrdered, AllBefore
<1> QED
  BY <1>1, <1>3, <1>4, <1>5, PipelineStep

LEMMA FlushKeeps ==
  ASSUME IInv, Flush
  PROVE  IInv'
<1> USE DEF IInv
<1>1. /\ UNCHANGED <<phase, callers, file, queue, dropped, recorded, offered, late>>
      /\ logged' \subseteq logged \cup In(batch)
      /\ shipped' = shipped \o batch \/ shipped' = shipped
      /\ batch' = <<>> /\ shipper' \in {"select", "stopped"}
  BY DEF Flush, Flushed
<1>2. /\ shipped' \in Seq(Event) /\ Ordered(shipped')
      /\ In(shipped') \subseteq In(shipped) \cup In(batch)
  <2>1. /\ shipped \in Seq(Event) /\ batch \in Seq(Event)
        /\ Ordered(shipped) /\ Ordered(batch) /\ AllBefore(In(shipped), In(batch))
    BY DEF TypeOK, PipelineIsOrdered
  <2> QED
    BY <1>1, <2>1, JoinEvents
<1>3. In(batch') = {} /\ Ordered(batch') /\ batch' \in Seq(Event)
  BY <1>1 DEF In, Ordered
<1>4. TypeOK'
  <2>1. In(batch) \subseteq Event
    BY DEF TypeOK, In
  <2>2. logged' \subseteq Event
    BY <1>1, <2>1 DEF TypeOK
  <2> QED
    BY <1>1, <1>2, <1>3, <2>2 DEF TypeOK, callers, file
<1>5. PipelineIsOrdered'
  BY <1>1, <1>2, <1>3 DEF PipelineIsOrdered, AllBefore
<1> QED
  BY <1>1, <1>2, <1>3, <1>4, <1>5, PipelineStep

\* The process ends: the pipeline but for Loki is gone, the file stays or gains
\* the last line of one writer, whole or torn.
LEMMA VanishKeeps ==
  ASSUME IInv, Vanish,
         \/ UNCHANGED file
         \/ \E w \in Writer : /\ pc[w] = "append"
                              /\ PutLine(Current(w)) \/ PutTorn(Current(w))
  PROVE  IInv'
<1> USE DEF IInv
<1>1. /\ phase' = "down" /\ pc' = [w \in Writer |-> "idle"]
      /\ queue' = <<>> /\ batch' = <<>> /\ shipper' = "stopped" /\ dropped' = 0
      /\ offered' = {} /\ late' = {} /\ logged' = {}
      /\ UNCHANGED <<count, shipped, recorded>>
  BY DEF Vanish
<1>2. /\ <<>> \in Seq(Event) /\ Len(<<>>) = 0
      /\ In(<<>>) = {} /\ Ordered(<<>>)
  BY DEF In, Ordered
<1>3. /\ lines' \subseteq Event /\ garbled' \subseteq Event
      /\ ending' \in {"newline", "torn"}
      /\ Written \subseteq Written'
      /\ \A w \in Writer, e \in Written' : e.by = w => e.n <= count[w]
      /\ TearIsPaid'
  <2>1. CASE UNCHANGED file
    BY <1>1, <2>1 DEF file, TypeOK, Written, CurrentIsLast, TearIsPaid
  <2>2. ASSUME NEW w \in Writer, pc[w] = "append",
               PutLine(Current(w)) \/ PutTorn(Current(w))
        PROVE  <1>3
    <3>1. /\ Current(w) \in Event /\ Current(w).by = w /\ Current(w).n = count[w]
          /\ Current(w) \notin Written /\ Current(w) \notin recorded
          /\ count[w] \in Nat
      BY <2>2, CurrentIsNew DEF TypeOK
    <3>2. Written' = Written \cup {Current(w)}
      BY <2>2, PutAdds
    <3>3. TearIsPaid'
      BY <1>1, <2>2, <3>1, WriteKeepsTear
    <3>4. /\ lines' \subseteq Event /\ garbled' \subseteq Event
          /\ ending' \in {"newline", "torn"}
      BY <2>2, <3>1 DEF PutLine, PutTorn, TypeOK
    <3>5. \A v \in Writer, e \in Written' : e.by = v => e.n <= count[v]
      BY <3>1, <3>2 DEF CurrentIsLast
    <3> QED
      BY <3>2, <3>3, <3>4, <3>5
  <2> QED
    BY <2>1, <2>2
<1>4. TypeOK'
  BY <1>1, <1>2, <1>3, AuditAssumption DEF TypeOK
<1>5. PipelineIsOrdered' /\ PipelineIsRecorded'
  BY <1>1, <1>2 DEF PipelineIsOrdered, PipelineIsRecorded, AllBefore
<1>6. CurrentIsLast'
  BY <1>1, <1>3 DEF CurrentIsLast
<1> QED
  BY <1>1, <1>3, <1>4, <1>5, <1>6

\* A step that moves no event.
LEMMA IdleStep ==
  ASSUME IInv, UNCHANGED <<callers, file, queue, batch, dropped, shipped,
                           history>>,
         phase' \in {"up", "closing", "sealed", "down"},
         shipper' \in {"select", "flush", "drain", "lastFlush", "stopped"}
  PROVE  IInv'
<1>1. TypeOK'
  BY DEF IInv, TypeOK, callers, file
<1>2. PipelineIsOrdered'
  BY DEF IInv, PipelineIsOrdered
<1> QED
  BY <1>1, <1>2, PipelineStep

LEMMA StepKeeps == ASSUME IInv, [Next]_vars PROVE IInv'
<1>t. /\ phase \in {"up", "closing", "sealed", "down"}
      /\ shipper \in {"select", "flush", "drain", "lastFlush", "stopped"}
  BY DEF IInv, TypeOK
<1>1. ASSUME NEW w \in Writer, Caller(w) PROVE IInv'
  <2>1. CASE AppendFails(w)
    <3>1. /\ pc[w] = "append" /\ pc' = [pc EXCEPT ![w] = "idle"]
          /\ PutLine(Current(w)) \/ PutTorn(Current(w)) \/ UNCHANGED file
          /\ UNCHANGED <<phase, count, ship, history>>
      BY <2>1 DEF AppendFails, Goto
    <3> QED
      BY <3>1, GiveUpKeeps
  <2> QED
    BY <1>1, <2>1, RecordKeeps, AppendLineKeeps, EnqueueKeeps DEF Caller
<1>2. CASE Ship
  <2>1. CASE Receive
    BY <2>1, TakeKeeps DEF Receive
  <2>2. CASE DrainOne
    BY <2>2, TakeKeeps DEF DrainOne
  <2>3. CASE Flush
    BY <2>3, FlushKeeps
  <2>4. CASE Tick \/ NoticeDone \/ DrainEnd
    BY <1>t, <2>4, IdleStep DEF Tick, NoticeDone, DrainEnd
  <2> QED
    BY <1>2, <2>1, <2>2, <2>3, <2>4 DEF Ship
<1>3. CASE CloseTrail \/ CloseFile \/ Start
  BY <1>t, <1>3, IdleStep DEF CloseTrail, CloseFile, Start, ship
<1>4. CASE Exit \/ Crash
  BY <1>4, VanishKeeps DEF Exit, Crash
<1>5. CASE UNCHANGED vars
  BY <1>t, <1>5, IdleStep DEF vars, ship
<1> QED
  BY <1>1, <1>2, <1>3, <1>4, <1>5 DEF Next

\* The invariant holds of every behaviour.
THEOREM Invariance == Spec => []IInv
<1>1. Init => IInv
  BY InitHolds
<1>2. IInv /\ [Next]_vars => IInv'
  BY StepKeeps
<1> QED
  BY <1>1, <1>2, PTL DEF Spec

-----------------------------------------------------------------------------
\* Types of the trail, its queue and its shipper; the queue keeps its bound.
THEOREM TypeCorrect == Spec => []TypeOK
<1>1. IInv => TypeOK
  BY DEF IInv
<1> QED
  BY <1>1, Invariance, PTL

\* What Loki holds was recorded, and what was recorded is in the file.
THEOREM ShippedEventsAreDurable == Spec => []ShippedIsDurable
<1>1. IInv => ShippedIsDurable
  BY DEF IInv, PipelineIsRecorded, ShippedIsDurable
<1> QED
  BY <1>1, Invariance, PTL

\* Loki is given a caller's events in order and once, whatever fails.
THEOREM EventsShipInOrder == Spec => []ShippedInOrder
<1>1. IInv => ShippedInOrder
  BY DEF IInv, PipelineIsOrdered, Ordered, Before, ShippedInOrder
<1> QED
  BY <1>1, Invariance, PTL

\* A torn write costs at most one recorded event.
THEOREM TearsHideOne == Spec => []TearHidesOne
<1>1. IInv => TearHidesOne
  <2> SUFFICES ASSUME IInv PROVE TearHidesOne
    OBVIOUS
  <2>1. IsFiniteSet(garbled \cap recorded) /\ IsFiniteSet(garbled \ recorded)
    BY FS_Subset DEF IInv, TearIsPaid
  <2>2. /\ Cardinality(garbled \cap recorded) \in Nat
        /\ Cardinality(garbled \ recorded) \in Nat
    BY <2>1, FS_CardinalityType
  <2> QED
    BY <2>2 DEF IInv, TearIsPaid, TearHidesOne
<1> QED
  BY <1>1, Invariance, PTL

-----------------------------------------------------------------------------
(* What is missing from Loki.                                                *)

\* The events of this process that have been in the queue, and those that were not.
Taken   == In(shipped) \cup In(batch) \cup In(queue) \cup logged
Refused == offered \ Taken

\* The drop counter is the number of events the queue refused; what ship has left behind
\* in the queue came after Close.
DropInv ==
  /\ IsFiniteSet(offered) /\ dropped = Cardinality(Refused)
  /\ In(queue) \cup In(batch) \cup logged \subseteq offered
  /\ shipper \notin {"select", "flush"} => phase # "up"
  /\ shipper \in {"lastFlush", "stopped"} => In(queue) \subseteq late
  /\ shipper = "stopped" => batch = <<>>

LEMMA NothingIn == In(<<>>) = {}
  BY DEF In

\* An event is counted when the queue refuses it; no other step adds to the refused.
Counts  == \E e : e \notin Refused /\ Refused' = Refused \cup {e} /\ dropped' = dropped + 1
Keeps   == Refused' = Refused /\ dropped' = dropped
Forgets == Refused' = {} /\ dropped' = 0

LEMMA EnqueueCounts ==
  ASSUME IInv, DropInv, NEW w \in Writer, Enqueue(w)
  PROVE  DropInv' /\ (Counts \/ Keeps)
<1> USE DEF IInv
<1> DEFINE e == Current(w)
<1>1. /\ e \in Event /\ e.by = w /\ e.n = count[w] /\ count[w] \in Nat
      /\ \A f \in In(shipped) \cup In(batch) \cup In(queue) \cup offered :
           f.by = w => f.n < count[w]
  BY DEF Enqueue, Goto, CurrentIsLast, Current, Event, TypeOK
<1>2. e \notin Taken /\ e \notin offered
  BY <1>1 DEF Taken, DropInv
<1>3. /\ offered' = offered \cup {e} /\ UNCHANGED <<phase, batch, shipped, shipper, logged>>
      /\ late \subseteq late' /\ (phase # "up" => e \in late')
  BY DEF Enqueue, Offer
<1>4. IsFiniteSet(offered') /\ IsFiniteSet(Refused)
  BY <1>3, FS_AddElement, FS_Subset DEF DropInv, Refused
<1>5. CASE queue' = Append(queue, e) /\ dropped' = dropped
  <2>1. In(queue') = In(queue) \cup {e}
    BY <1>1, <1>5, AppendEvent DEF TypeOK
  <2>2. Refused' = Refused
    BY <1>2, <1>3, <2>1 DEF Refused, Taken
  <2> QED
    BY <1>3, <1>4, <1>5, <2>1, <2>2 DEF DropInv, Keeps
<1>6. CASE queue' = queue /\ dropped' = dropped + 1
  <2>1. e \notin Refused /\ Refused' = Refused \cup {e}
    BY <1>2, <1>3, <1>6 DEF Refused, Taken
  <2>2. dropped' = Cardinality(Refused')
    BY <1>4, <1>6, <2>1, FS_AddElement DEF DropInv
  <2> QED
    BY <1>3, <1>4, <1>6, <2>1, <2>2 DEF DropInv, Counts
<1> QED
  BY <1>5, <1>6 DEF Enqueue

\* A step that moves what was taken along, and offers nothing.
LEMMA MovesKeep ==
  ASSUME DropInv, UNCHANGED <<offered, dropped, late>>, Taken' = Taken,
         (In(queue) \cup In(batch) \cup logged)' \subseteq In(queue) \cup In(batch) \cup logged,
         (shipper \notin {"select", "flush"} => phase # "up")',
         (shipper \in {"lastFlush", "stopped"} => In(queue) \subseteq late)',
         (shipper = "stopped" => batch = <<>>)'
  PROVE  DropInv' /\ Keeps
<1>1. Refused' = Refused
  BY DEF Refused
<1> QED
  BY <1>1 DEF DropInv, Keeps

LEMMA ShipKeeps ==
  ASSUME IInv, DropInv, Ship
  PROVE  DropInv' /\ Keeps
<1> USE DEF IInv
<1>t. queue \in Seq(Event) /\ batch \in Seq(Event) /\ shipped \in Seq(Event)
  BY DEF TypeOK
<1>1. CASE Receive \/ DrainOne
  <2>1. /\ Take /\ queue # <<>> /\ UNCHANGED <<phase, shipped, history, dropped>>
        /\ shipper' \in {"select", "flush", shipper} /\ shipper \in {"select", "drain"}
    BY <1>1 DEF Receive, DrainOne
  <2>2. Head(queue) \in Event /\ In(queue) = {Head(queue)} \cup In(queue')
    BY <1>t, <2>1, TakeEvent DEF Take
  <2>3. In(batch') = In(batch) \cup {Head(queue)}
    BY <1>t, <2>1, <2>2, AppendEvent DEF Take
  <2>4. Taken' = Taken
    BY <2>1, <2>2, <2>3 DEF Taken
  <2> QED
    BY <2>1, <2>2, <2>3, <2>4, MovesKeep DEF DropInv
<1>2. CASE Tick \/ NoticeDone
  <2>1. UNCHANGED <<phase, queue, batch, shipped, history, dropped, Taken>>
    BY <1>2 DEF Tick, NoticeDone, Taken
  <2> QED
    BY <1>2, <2>1, MovesKeep DEF Tick, NoticeDone, DropInv
<1>3. CASE DrainEnd
  <2>1. UNCHANGED <<phase, queue, batch, shipped, history, dropped, Taken>>
    BY <1>3 DEF DrainEnd, Taken
  <2>2. /\ In(queue) = {} /\ shipper = "drain" /\ shipper' \in {"stopped", "lastFlush"}
        /\ shipper' = "stopped" => batch = <<>>
    BY <1>3, NothingIn DEF DrainEnd
  <2> QED
    BY <2>1, <2>2, MovesKeep DEF DropInv
<1>4. CASE Flush
  <2>1. /\ UNCHANGED <<phase, queue, recorded, offered, late, dropped>> /\ batch' = <<>>
        /\ shipper' = IF shipper = "flush" THEN "select" ELSE "stopped"
        /\ shipper \in {"flush", "lastFlush"}
        /\ \/ shipped' = shipped \o batch /\ logged' \in {logged, logged \cup In(batch)}
           \/ shipped' = shipped /\ logged' = logged \cup In(batch)
    BY <1>4 DEF Flush, Flushed
  <2>2. In(shipped \o batch) = In(shipped) \cup In(batch)
    BY <1>t, JoinEvents
  <2>3. Taken' = Taken
    BY <2>1, <2>2, NothingIn DEF Taken
  <2> QED
    BY <2>1, <2>3, NothingIn, MovesKeep DEF DropInv
<1> QED
  BY <1>1, <1>2, <1>3, <1>4 DEF Ship

\* A step that leaves the queue and what was offered alone; Start makes a new shipper.
LEMMA RestKeeps ==
  ASSUME DropInv, UNCHANGED <<queue, batch, shipped, dropped, offered, late, logged>>,
         \/ UNCHANGED <<phase, shipper>>
         \/ shipper' = shipper /\ phase' # "up"
         \/ shipper' = "select"
  PROVE  DropInv' /\ Keeps
<1>1. Taken' = Taken
  BY DEF Taken
<1> QED
  BY <1>1, MovesKeep DEF DropInv

LEMMA DropNext == IInv /\ DropInv /\ [Next]_vars => DropInv' /\ (Counts \/ Keeps \/ Forgets)
<1> SUFFICES ASSUME IInv, DropInv, [Next]_vars
             PROVE  DropInv' /\ (Counts \/ Keeps \/ Forgets)
  OBVIOUS
<1>1. ASSUME NEW w \in Writer, Caller(w) PROVE DropInv' /\ (Counts \/ Keeps)
  <2>1. CASE ~Enqueue(w)
    BY <1>1, <2>1, RestKeeps DEF Caller, Record, AppendLine, AppendFails, ship
  <2> QED
    BY <2>1, EnqueueCounts
<1>2. CASE CloseTrail \/ CloseFile \/ Start \/ UNCHANGED vars
  BY <1>2, RestKeeps DEF CloseTrail, CloseFile, Start, vars, ship
<1>3. CASE Exit \/ Crash
  <2>1. /\ offered' = {} /\ logged' = {} /\ dropped' = 0 /\ phase' = "down"
        /\ queue' = <<>> /\ batch' = <<>>
    BY <1>3 DEF Exit, Crash, Vanish
  <2>2. Refused' = {}
    BY <2>1 DEF Refused
  <2> QED
    BY <2>1, <2>2, NothingIn, FS_EmptySet DEF DropInv, Forgets
<1> QED
  BY <1>1, <1>2, <1>3, ShipKeeps DEF Next

LEMMA DropInit == Init => DropInv
<1> SUFFICES ASSUME Init PROVE DropInv
  OBVIOUS
<1>1. /\ Refused = {} /\ offered = {} /\ queue = <<>> /\ batch = <<>> /\ logged = {}
      /\ shipper = "select" /\ dropped = 0
  BY DEF Init, Refused
<1> QED
  BY <1>1, NothingIn, FS_EmptySet DEF DropInv

\* Whatever fails, an event is missing from Loki only when the drop counter counts it, the
\* failure of its push was logged, or it came after Close was called; and what is counted is
\* missing.
THEOREM LossesAreReported == Spec => []LossIsReported
<1>1. DropInv => LossIsReported
  <2> SUFFICES ASSUME DropInv PROVE LossIsReported
    OBVIOUS
  <2>1. Refused \subseteq Lost \ logged
    BY DEF Refused, Taken, Lost, Coming
  <2>2. Lost \ (logged \cup late) \subseteq Refused
    <3>1. CASE shipper = "stopped"
      BY <3>1, NothingIn DEF DropInv, Refused, Taken, Lost, Coming
    <3>2. CASE shipper # "stopped"
      BY <3>2 DEF Refused, Taken, Lost, Coming
    <3> QED
      BY <3>1, <3>2
  <2>3. IsFiniteSet(Lost \ logged) /\ IsFiniteSet(Refused)
    BY FS_Subset DEF DropInv, Lost, Refused
  <2>4. /\ Cardinality(Refused) <= Cardinality(Lost \ logged)
        /\ Cardinality(Lost \ (logged \cup late)) <= Cardinality(Refused)
    BY <2>1, <2>2, <2>3, FS_Subset
  <2> QED
    BY <2>4 DEF DropInv, LossIsReported
<1>2. IInv /\ DropInv /\ [Next]_vars => DropInv'
  BY DropNext
<1> QED
  BY <1>1, <1>2, DropInit, Invariance, PTL DEF Spec

\* The counter counts what the queue refuses and nothing else: it grows by one with each
\* event refused, starts again with the process, and a push that fails leaves it alone.
THEOREM OnlyRefusalsAreCounted == Spec => [][Counts \/ Keeps \/ Forgets]_vars
<1>1. IInv /\ DropInv /\ [Next]_vars => DropInv' /\ [Counts \/ Keeps \/ Forgets]_vars
  BY DropNext
<1> QED
  BY <1>1, DropInit, Invariance, PTL DEF Spec

-----------------------------------------------------------------------------
(* TrailReader, from here on: its variables and names are its own.           *)
(*                                                                           *)
(* Places of the file are counted from its end.  That the n-th of a finite   *)
(* set of places exists, for each n up to its size, is no induction: the map *)
(* from a place to the number of those beyond it is injective and falls in a *)
(* set of the same size, so it is onto.                                      *)

\* How many of a set of places lie beyond i.
Beyond(S, i) == {j \in S : j > i}

LEMMA BeyondFalls ==
  ASSUME NEW S \in SUBSET Nat, IsFiniteSet(S), NEW i \in S, NEW j \in Nat, j < i
  PROVE  /\ Cardinality(Beyond(S, i)) \in Nat /\ Cardinality(Beyond(S, j)) \in Nat
         /\ Cardinality(Beyond(S, i)) < Cardinality(Beyond(S, j))
<1> DEFINE I == Beyond(S, i)
           J == Beyond(S, j)
<1>1. I \in SUBSET J /\ J \in SUBSET S /\ i \in J /\ i \notin I
  <2>1. S \subseteq Nat /\ i \in Nat
    OBVIOUS
  <2>2. \A k \in S : k > i => k > j
    BY <2>1
  <2>3. I \subseteq J /\ J \subseteq S
    BY <2>2 DEF Beyond
  <2>4. i \in J /\ ~(i > i)
    BY <2>1 DEF Beyond
  <2> QED
    BY <2>3, <2>4 DEF Beyond
<1> HIDE DEF I, J
<1>2. IsFiniteSet(J) /\ IsFiniteSet(I)
  BY <1>1, FS_Subset
<1>3. Cardinality(I) <= Cardinality(J) /\ Cardinality(I) # Cardinality(J)
  BY <1>1, <1>2, FS_Subset
<1>4. Cardinality(I) \in Nat /\ Cardinality(J) \in Nat
  BY <1>2, FS_CardinalityType
<1> QED
  BY <1>3, <1>4 DEF I, J

\* Every count up to the size of a set is reached, by one place only.
LEMMA EachRankIsTaken ==
  ASSUME NEW S \in SUBSET Nat, IsFiniteSet(S), NEW n \in 1..Cardinality(S)
  PROVE  FromEnd(S, n) \in S /\ Cardinality(Beyond(S, FromEnd(S, n))) = n - 1
<1> DEFINE c == Cardinality(S)
           f == [i \in S |-> Cardinality(Beyond(S, i)) + 1]
<1>1. c \in Nat
  BY FS_CardinalityType
<1>2. f \in [S -> 1..c]
  <2> SUFFICES ASSUME NEW i \in S PROVE Cardinality(Beyond(S, i)) + 1 \in 1..c
    OBVIOUS
  <2>1. Beyond(S, i) \in SUBSET S /\ i \notin Beyond(S, i)
    BY DEF Beyond
  <2>2. IsFiniteSet(Beyond(S, i)) /\ Cardinality(Beyond(S, i)) <= c
        /\ Cardinality(Beyond(S, i)) # c
    BY <2>1, FS_Subset
  <2>3. Cardinality(Beyond(S, i)) \in Nat
    BY <2>2, FS_CardinalityType
  <2> QED
    BY <1>1, <2>2, <2>3
<1>3. \A i, j \in S : f[i] = f[j] => i = j
  <2> SUFFICES ASSUME NEW i \in S, NEW j \in S, f[i] = f[j], i # j PROVE FALSE
    OBVIOUS
  <2>1. i \in Nat /\ j \in Nat
    OBVIOUS
  <2>2. Cardinality(Beyond(S, i)) + 1 = Cardinality(Beyond(S, j)) + 1
    OBVIOUS
  <2>3. CASE i < j
    BY <2>1, <2>2, <2>3, BeyondFalls
  <2>4. CASE j < i
    BY <2>1, <2>2, <2>4, BeyondFalls
  <2> QED
    BY <2>1, <2>3, <2>4
<1>4. f \in Injection(S, 1..c)
  <2> HIDE DEF f
  <2> QED
    BY <1>2, <1>3 DEF Injection, IsInjective
<1>5. IsFiniteSet(1..c) /\ Cardinality(1..c) = c
  BY <1>1, FS_Interval
<1>6. f \in Surjection(S, 1..c)
  BY <1>4, <1>5, FS_Injection
<1>7. PICK i \in S : f[i] = n
  BY <1>6 DEF Surjection
<1>8. Beyond(S, i) \in SUBSET S
  BY DEF Beyond
<1>9. Cardinality(Beyond(S, i)) \in Nat
  BY <1>8, FS_Subset, FS_CardinalityType
<1>10. Cardinality(Beyond(S, i)) = n - 1
  BY <1>7, <1>9
<1>11. \E k \in S : Cardinality({j \in S : j > k}) = n - 1
  BY <1>10 DEF Beyond
<1> QED
  BY <1>11 DEF FromEnd, Beyond

\* A nonempty finite set of numbers has a greatest.
LEMMA GreatestOf ==
  ASSUME NEW S \in SUBSET Nat, IsFiniteSet(S), S # {}
  PROVE  \E m \in S : \A i \in S : i <= m
<1>1. Cardinality(S) \in Nat /\ Cardinality(S) # 0
  BY FS_CardinalityType, FS_EmptySet
<1>2. 1 \in 1..Cardinality(S)
  BY <1>1
<1>3. PICK m \in S : Cardinality(Beyond(S, m)) = 1 - 1
  BY <1>2, EachRankIsTaken
<1>4. Beyond(S, m) \in SUBSET S
  BY DEF Beyond
<1>5. Beyond(S, m) = {}
  BY <1>3, <1>4, FS_Subset, FS_EmptySet
<1> QED
  BY <1>5 DEF Beyond

-----------------------------------------------------------------------------
Cell == [of : Entry, at : Nat]

Stages == {"idle", "open", "scan", "answered", "invalid", "unreadable"}

ReaderTypeOK ==
  /\ cells \in Seq(Cell)
  /\ writing \subseteq begun /\ begun \subseteq Entry /\ done \in Nat
  /\ stage \in [Reader -> Stages]
  /\ limit \in [Reader -> 0..MaxTail]
  /\ size \in [Reader -> Nat] /\ upto \in [Reader -> Nat]
  /\ answer \in [Reader -> Seq(Entry)]

\* No cell of an event is in the file twice, and of the one being written only those
\* written so far.
EachOnce ==
  /\ \A d, e \in writing : d = e
  /\ \A i \in 1..Len(cells) :
       /\ cells[i].of \in begun /\ cells[i].at \in 1..Size[cells[i].of]
       /\ cells[i].of \in writing => cells[i].at <= done
  /\ \A i, j \in 1..Len(cells) : cells[i] = cells[j] => i = j

\* What a reader holds follows from the part of the file it has read.
Scanned(r) ==
  /\ size[r] <= upto[r] /\ upto[r] <= Len(cells)
  /\ stage[r] = "unreadable" <=> TooLong(From(r), upto[r])
  /\ stage[r] = "answered" =>
       answer[r] = NewestFirst(Found(From(r), upto[r]), limit[r])

ReaderOK(r) ==
  /\ stage[r] \in {"open", "scan", "answered", "unreadable"} => limit[r] \in Nat \ {0}
  /\ stage[r] = "scan" => size[r] <= Len(cells)
  /\ stage[r] \in {"answered", "unreadable"} => Scanned(r)

ReaderInv == ReaderTypeOK /\ EachOnce /\ \A r \in Reader : ReaderOK(r)

\* What is in the file stays where it is.
Extends ==
  /\ cells \in Seq(Cell) /\ cells' \in Seq(Cell)
  /\ Len(cells) <= Len(cells')
  /\ \A i \in 1..Len(cells) : cells'[i] = cells[i]

LEMMA FoundRange ==
  ASSUME NEW lo \in Nat \ {0}, NEW hi \in Nat
  PROVE  /\ Found(lo, hi) \in SUBSET (lo..hi) /\ Found(lo, hi) \in SUBSET Nat
         /\ IsFiniteSet(Found(lo, hi)) /\ Cardinality(Found(lo, hi)) \in Nat
<1>1. Found(lo, hi) \in SUBSET (lo..hi)
  BY DEF Found, LineStarts
<1>2. IsFiniteSet(lo..hi) /\ lo..hi \subseteq Nat
  BY FS_Interval
<1>3. IsFiniteSet(Found(lo, hi))
  BY <1>1, <1>2, FS_Subset
<1> QED
  BY <1>1, <1>2, <1>3, FS_CardinalityType

LEMMA ScanStays ==
  ASSUME Extends, NEW lo \in Nat \ {0}, NEW hi \in 0..Len(cells)
  PROVE  /\ Found(lo, hi)' = Found(lo, hi)
         /\ TooLong(lo, hi)' <=> TooLong(lo, hi)
<1>1. \A i \in lo..hi : cells'[i] = cells[i]
  BY DEF Extends
<1>2. LineStarts(lo, hi)' = LineStarts(lo, hi)
  BY <1>1 DEF LineStarts, Ends
<1>3. ASSUME NEW i \in lo..hi PROVE Content(i, hi)' = Content(i, hi)
  BY <1>1, <1>3 DEF Content, Ends
<1>4. ASSUME NEW i \in lo..hi PROVE Parses(i, hi)' <=> Parses(i, hi)
  <2>1. \A j \in Content(i, hi) : cells'[j] = cells[j]
    BY <1>1 DEF Content
  <2>2. Content(i, hi)' = Content(i, hi) /\ cells'[i] = cells[i]
    BY <1>1, <1>3
  <2> QED
    BY <2>1, <2>2 DEF Parses
<1>5. Found(lo, hi)' = Found(lo, hi)
  BY <1>2, <1>4 DEF Found, LineStarts
<1>6. TooLong(lo, hi)' <=> TooLong(lo, hi)
  BY <1>2, <1>3 DEF TooLong, LineStarts
<1> QED
  BY <1>5, <1>6

LEMMA AnswerStays ==
  ASSUME Extends, NEW S \in SUBSET (1..Len(cells)), IsFiniteSet(S), NEW n \in Nat
  PROVE  NewestFirst(S, n)' = NewestFirst(S, n)
<1>1. S \subseteq Nat /\ Cardinality(S) \in Nat
  BY FS_CardinalityType DEF Extends
<1>2. Least(n, Cardinality(S)) \in Nat /\ Least(n, Cardinality(S)) <= Cardinality(S)
  BY <1>1 DEF Least
<1>3. ASSUME NEW m \in 1..Least(n, Cardinality(S))
      PROVE  cells'[FromEnd(S, m)] = cells[FromEnd(S, m)]
  <2>1. m \in 1..Cardinality(S)
    BY <1>1, <1>2
  <2>2. FromEnd(S, m) \in S
    BY <1>1, <2>1, EachRankIsTaken
  <2> QED
    BY <2>2 DEF Extends
<1> QED
  BY <1>3 DEF NewestFirst

\* What a reader holds is true of any file that extends the one it has read.
LEMMA ScannedStays ==
  ASSUME Extends, ReaderTypeOK, TrailReaderAssumption, UNCHANGED reader,
         NEW r \in Reader, stage[r] \in {"answered", "unreadable"}, Scanned(r),
         limit[r] \in Nat
  PROVE  Scanned(r)'
<1>1. PICK lo \in Nat \ {0}, hi \in 0..Len(cells), n \in Nat :
        lo = From(r) /\ hi = upto[r] /\ n = limit[r]
  BY DEF Scanned, ReaderTypeOK, From, TrailReaderAssumption, Extends
<1>2. From(r)' = lo /\ upto'[r] = hi /\ limit'[r] = n
      /\ stage'[r] = stage[r] /\ answer'[r] = answer[r] /\ size'[r] = size[r]
  BY <1>1 DEF reader, From
<1>3. /\ Found(lo, hi)' = Found(lo, hi)
      /\ TooLong(lo, hi)' <=> TooLong(lo, hi)
  BY ScanStays
<1>4. NewestFirst(Found(lo, hi), n)' = NewestFirst(Found(lo, hi), n)
  <2>1. PICK S : S = Found(lo, hi)
    OBVIOUS
  <2>2. S \in SUBSET (1..Len(cells)) /\ IsFiniteSet(S)
    <3>0. lo \in Nat \ {0} /\ hi \in Nat
      OBVIOUS
    <3>1. Found(lo, hi) \in SUBSET (lo..hi) /\ IsFiniteSet(Found(lo, hi))
      BY <3>0, FoundRange
    <3>2. lo..hi \subseteq 1..Len(cells)
      BY DEF Extends
    <3> QED
      BY <2>1, <3>1, <3>2
  <2>3. NewestFirst(S, n)' = NewestFirst(S, n)
    BY <2>2, AnswerStays
  <2> QED
    BY <1>3, <2>1, <2>3 DEF NewestFirst
<1>5. size'[r] <= upto'[r] /\ upto'[r] <= Len(cells')
  BY <1>1, <1>2 DEF Extends, Scanned, ReaderTypeOK
<1>6. stage'[r] = "unreadable" <=> TooLong(From(r), upto[r])'
  BY <1>1, <1>2, <1>3 DEF Scanned, TooLong, LineStarts
<1>7. stage'[r] = "answered" =>
        answer'[r] = NewestFirst(Found(From(r), upto[r]), limit[r])'
  <2>1. NewestFirst(Found(From(r), upto[r]), limit[r])' = NewestFirst(Found(lo, hi), n)'
    BY <1>2
  <2> QED
    BY <1>1, <1>2, <1>4, <2>1 DEF Scanned
<1> QED
  BY <1>5, <1>6, <1>7 DEF Scanned

LEMMA Joined ==
  ASSUME NEW T, NEW s \in Seq(T), NEW t \in Seq(T)
  PROVE  /\ s \o t \in Seq(T) /\ Len(s \o t) = Len(s) + Len(t)
         /\ \A i \in 1..Len(s) : (s \o t)[i] = s[i]
         /\ \A i \in 1..Len(s \o t) : i > Len(s) => (s \o t)[i] = t[i - Len(s)]
  OBVIOUS

LEMMA SinkKeeps ==
  ASSUME TrailReaderAssumption, ReaderTypeOK, EachOnce, AppendStep
  PROVE  /\ Extends /\ EachOnce' /\ UNCHANGED reader
         /\ writing' \subseteq begun' /\ begun' \subseteq Entry /\ done' \in Nat
<1> USE DEF ReaderTypeOK
<1>1. ASSUME NEW e \in Entry, Lock(e)
      PROVE  /\ Extends /\ EachOnce' /\ UNCHANGED reader
             /\ writing' \subseteq begun' /\ begun' \subseteq Entry /\ done' \in Nat
  <2>1. writing' = {e} /\ e \notin begun /\ begun' = begun \cup {e} /\ cells' = cells
    BY <1>1 DEF Lock
  <2>2. EachOnce'
    BY <2>1 DEF EachOnce
  <2> QED
    BY <1>1, <2>1, <2>2 DEF Lock, Extends
<1>2. ASSUME NEW e \in writing, NEW n \in 1..(Size[e] - done),
             cells' = cells \o [i \in 1..n |-> [of |-> e, at |-> done + i]],
             done' = done + n, UNCHANGED <<writing, begun, reader>>
      PROVE  /\ Extends /\ EachOnce' /\ UNCHANGED reader
             /\ writing' \subseteq begun' /\ begun' \subseteq Entry /\ done' \in Nat
  <2> DEFINE new == [i \in 1..n |-> [of |-> e, at |-> done + i]]
             len == Len(cells)
  <2>1. e \in Entry /\ e \in begun /\ Size[e] \in Nat /\ n \in Nat /\ len \in Nat
        /\ cells \in Seq(Cell) /\ done \in Nat
    BY DEF TrailReaderAssumption
  <2>2. new \in Seq(Cell) /\ Len(new) = n /\ \A i \in 1..n : new[i] = [of |-> e, at |-> done + i]
    BY <2>1 DEF Cell
  <2> HIDE DEF new
  <2>3. cells' = cells \o new
    BY <1>2 DEF new
  <2>4. /\ cells' \in Seq(Cell) /\ Len(cells') = len + n
        /\ \A i \in 1..len : cells'[i] = cells[i]
        /\ \A i \in 1..(len + n) : i \notin 1..len =>
             /\ i - len \in 1..n
             /\ cells'[i] = new[i - len]
    <3>1. Len(new) = n /\ new \in Seq(Cell)
      BY <2>2
    <3>2. /\ cells' \in Seq(Cell) /\ Len(cells') = len + Len(new)
          /\ \A i \in 1..len : cells'[i] = cells[i]
          /\ \A i \in 1..Len(cells') : i > len => cells'[i] = new[i - len]
      <4>1. cells \in Seq(Cell)
        BY <2>1
      <4>2. /\ cells \o new \in Seq(Cell) /\ Len(cells \o new) = Len(cells) + Len(new)
            /\ \A i \in 1..Len(cells) : (cells \o new)[i] = cells[i]
            /\ \A i \in 1..Len(cells \o new) : i > Len(cells) =>
                 (cells \o new)[i] = new[i - Len(cells)]
        BY <4>1, <3>1, Joined, Zenon
      <4> HIDE DEF new
      <4> QED
        BY <2>3, <4>2, Zenon
    <3>3. \A i \in 1..(len + n) : i \notin 1..len => i - len \in 1..n /\ i > len
      BY <2>1
    <3> QED
      BY <3>1, <3>2, <3>3
  <2>5. \A i \in 1..(len + n) : i \notin 1..len =>
          i - len \in 1..n /\ cells'[i] = [of |-> e, at |-> done + (i - len)]
    BY <2>2, <2>4
  <2> HIDE DEF len
  <2>6. Extends
    BY <2>1, <2>4 DEF Extends, len
  <2>7. ASSUME NEW i \in 1..Len(cells')
        PROVE  /\ cells'[i].of \in begun' /\ cells'[i].at \in 1..Size[cells'[i].of]
               /\ cells'[i].of \in writing' => cells'[i].at <= done'
    <3>1. CASE i \in 1..len
      <4>1. cells'[i] = cells[i] /\ cells[i] \in Cell
        BY <2>1, <2>4, <3>1 DEF len
      <4>2. /\ cells[i].of \in begun /\ cells[i].at \in 1..Size[cells[i].of]
            /\ cells[i].of \in writing => cells[i].at <= done
        BY <3>1 DEF EachOnce, len
      <4>3. cells[i].at \in Nat /\ done' = done + n /\ begun' = begun /\ writing' = writing
        BY <1>2, <4>1 DEF Cell
      <4> QED
        BY <2>1, <4>1, <4>2, <4>3
    <3>2. CASE i \notin 1..len
      <4>1. i - len \in 1..n /\ cells'[i].of = e /\ cells'[i].at = done + (i - len)
        BY <2>4, <2>5, <3>2
      <4> QED
        BY <1>2, <2>1, <4>1
    <3> QED
      BY <3>1, <3>2
  <2>8. ASSUME NEW i \in 1..Len(cells'), NEW j \in 1..Len(cells'), cells'[i] = cells'[j], i < j
        PROVE  FALSE
    <3>1. CASE j \in 1..len
      <4>1. i \in 1..len
        BY <2>1, <2>4, <2>8, <3>1
      <4> QED
        <5>1. cells'[i] = cells[i] /\ cells'[j] = cells[j]
          BY <2>4, <3>1, <4>1
        <5>2. i \in 1..Len(cells) /\ j \in 1..Len(cells) /\ i # j
          BY <2>8, <3>1, <4>1 DEF len
        <5> QED
          BY <2>8, <5>1, <5>2 DEF EachOnce
    <3>2. CASE j \notin 1..len
      <4>1. j - len \in 1..n /\ cells'[j].of = e /\ cells'[j].at = done + (j - len)
        BY <2>4, <2>5, <3>2
      <4>2. CASE i \in 1..len
        <5>1. cells'[i] = cells[i] /\ (cells[i].of \in writing => cells[i].at <= done)
          BY <2>4, <4>2 DEF EachOnce, len
        <5> QED
          BY <2>1, <2>8, <4>1, <5>1
      <4>3. CASE i \notin 1..len
        <5>1. i - len \in 1..n /\ cells'[i].at = done + (i - len)
          BY <2>4, <2>5, <4>3
        <5> QED
          BY <2>1, <2>8, <4>1, <5>1
      <4> QED
        BY <4>2, <4>3
    <3> QED
      BY <3>1, <3>2
  <2>9. \A i, j \in 1..Len(cells') : cells'[i] = cells'[j] => i = j
    <3> SUFFICES ASSUME NEW i \in 1..Len(cells'), NEW j \in 1..Len(cells'),
                        cells'[i] = cells'[j], i # j
                 PROVE  FALSE
      OBVIOUS
    <3>1. i < j \/ j < i
      OBVIOUS
    <3> QED
      BY <2>8, <3>1
  <2>10. EachOnce'
    BY <1>2, <2>7, <2>9 DEF EachOnce
  <2> QED
    BY <1>2, <2>1, <2>6, <2>10
<1>3. ASSUME Unlock
      PROVE  /\ Extends /\ EachOnce' /\ UNCHANGED reader
             /\ writing' \subseteq begun' /\ begun' \subseteq Entry /\ done' \in Nat
  <2>1. EachOnce'
    BY <1>3 DEF Unlock, EachOnce
  <2> QED
    BY <1>3, <2>1 DEF Unlock, Extends
<1> QED
  BY <1>1, <1>2, <1>3 DEF AppendStep, Write

LEMMA AnswerType ==
  ASSUME ReaderTypeOK, NEW S \in SUBSET (1..Len(cells)), IsFiniteSet(S), NEW n \in Nat
  PROVE  NewestFirst(S, n) \in Seq(Entry)
<1>1. S \subseteq Nat /\ Cardinality(S) \in Nat
  BY FS_CardinalityType DEF ReaderTypeOK
<1>2. Least(n, Cardinality(S)) \in Nat /\ Least(n, Cardinality(S)) <= Cardinality(S)
  BY <1>1 DEF Least
<1>3. ASSUME NEW m \in 1..Least(n, Cardinality(S))
      PROVE  cells[FromEnd(S, m)].of \in Entry
  <2>1. m \in 1..Cardinality(S)
    BY <1>1, <1>2
  <2>2. FromEnd(S, m) \in 1..Len(cells)
    BY <1>1, <2>1, EachRankIsTaken
  <2> QED
    <3>1. cells[FromEnd(S, m)] \in Cell
      BY <2>2 DEF ReaderTypeOK
    <3> QED
      BY <3>1 DEF Cell
<1> HIDE DEF Least
<1> QED
  BY <1>2, <1>3 DEF NewestFirst

LEMMA OtherStays ==
  ASSUME NEW q \in Reader, ReaderOK(q),
         stage'[q] = stage[q], limit'[q] = limit[q], size'[q] = size[q],
         answer'[q] = answer[q], upto'[q] = upto[q], cells' = cells
  PROVE  ReaderOK(q)'
<1>1. Scanned(q)' <=> Scanned(q)
  BY DEF Scanned, TooLong, Found, NewestFirst, FromEnd, LineStarts, Parses, Content,
         Ends, From
<1> QED
  BY <1>1 DEF ReaderOK

LEMMA ReadKeeps ==
  ASSUME TrailReaderAssumption, ReaderInv, NEW r \in Reader, Read(r)
  PROVE  ReaderTypeOK' /\ ReaderOK(r)' /\ UNCHANGED sink
         /\ \A q \in Reader : q # r =>
              /\ stage'[q] = stage[q] /\ limit'[q] = limit[q] /\ size'[q] = size[q]
              /\ answer'[q] = answer[q] /\ upto'[q] = upto[q]
<1> DEFINE Others ==
      \A q \in Reader : q # r =>
        /\ stage'[q] = stage[q] /\ limit'[q] = limit[q] /\ size'[q] = size[q]
        /\ answer'[q] = answer[q] /\ upto'[q] = upto[q]
<1>1. ReaderTypeOK /\ Len(cells) \in Nat
  BY DEF ReaderInv, ReaderTypeOK
<1>2. ASSUME NEW raw \in Limit \cup {Unset}, Ask(r, raw)
      PROVE  ReaderTypeOK' /\ ReaderOK(r)' /\ UNCHANGED sink /\ Others
  <2>1. DefaultLimit \in Nat \ {0} /\ DefaultLimit \in 0..MaxTail /\ MaxTail \in Nat
    BY DEF TrailReaderAssumption
  <2>2. UNCHANGED <<size, answer, upto, sink>>
    BY <1>2 DEF Ask
  <2>3. CASE raw = Unset \/ raw \in 1..MaxTail
    <3>1. PICK n \in 1..MaxTail : limit' = [limit EXCEPT ![r] = n]
      BY <1>2, <2>1, <2>3 DEF Ask, TrailReaderAssumption
    <3>2. stage' = [stage EXCEPT ![r] = "open"]
      BY <1>2, <2>3 DEF Ask
    <3> QED
      BY <1>1, <2>1, <2>2, <3>1, <3>2 DEF ReaderTypeOK, ReaderOK, Stages, sink
  <2>4. CASE ~(raw = Unset \/ raw \in 1..MaxTail)
    BY <1>1, <1>2, <2>2, <2>4 DEF Ask, ReaderTypeOK, ReaderOK, Stages, sink
  <2> QED
    BY <2>3, <2>4
<1>3. CASE Stat(r)
  <2>1. limit[r] \in Nat \ {0}
    BY <1>3 DEF Stat, ReaderInv, ReaderOK
  <2> QED
    BY <1>1, <1>3, <2>1 DEF Stat, ReaderTypeOK, ReaderOK, Stages, sink
<1>4. CASE Scan(r)
  <2>1. PICK lo \in Nat \ {0}, hi \in Nat, n \in Nat \ {0} :
          lo = From(r) /\ hi = Len(cells) /\ n = limit[r]
    <3>1. limit[r] \in Nat \ {0} /\ size[r] \in Nat /\ Window \in Nat
      BY <1>1, <1>4 DEF Scan, ReaderInv, ReaderOK, ReaderTypeOK, TrailReaderAssumption
    <3>2. From(r) \in Nat \ {0}
      BY <3>1 DEF From
    <3> QED
      BY <1>1, <3>1, <3>2
  <2>2. NewestFirst(Found(lo, hi), n) \in Seq(Entry)
    <3>0. lo \in Nat \ {0} /\ hi \in Nat
      OBVIOUS
    <3>1. Found(lo, hi) \in SUBSET (lo..hi) /\ IsFiniteSet(Found(lo, hi))
      BY <3>0, FoundRange
    <3>2. lo..hi \subseteq 1..Len(cells)
      BY <2>1
    <3> QED
      BY <1>1, <3>1, <3>2, AnswerType
  <2>3. /\ stage[r] = "scan" /\ UNCHANGED <<limit, size, sink>>
        /\ upto' = [upto EXCEPT ![r] = hi]
        /\ \/ TooLong(lo, hi) /\ stage' = [stage EXCEPT ![r] = "unreadable"] /\ answer' = answer
           \/ /\ ~TooLong(lo, hi) /\ stage' = [stage EXCEPT ![r] = "answered"]
              /\ answer' = [answer EXCEPT ![r] = NewestFirst(Found(lo, hi), n)]
    BY <1>4, <2>1 DEF Scan
  <2>4. cells' = cells /\ From(r)' = lo /\ upto'[r] = hi /\ limit'[r] = n /\ size'[r] = size[r]
    BY <1>1, <2>1, <2>3 DEF sink, From, ReaderTypeOK
  <2>5. TooLong(From(r), upto[r])' <=> TooLong(lo, hi)
    BY <2>4 DEF TooLong, LineStarts, Content, Ends
  <2>6. NewestFirst(Found(From(r), upto[r]), limit[r])' = NewestFirst(Found(lo, hi), n)
    <3>1. Found(From(r), upto[r])' = Found(lo, hi)
      BY <2>4 DEF Found, LineStarts, Parses, Content, Ends
    <3> QED
      BY <2>4, <3>1 DEF NewestFirst
  <2>7. ReaderTypeOK' /\ Others /\ UNCHANGED sink
    BY <1>1, <2>2, <2>3 DEF ReaderTypeOK, Stages, sink
  <2>8. stage'[r] \in {"answered", "unreadable"}
        /\ (stage'[r] = "unreadable" <=> TooLong(lo, hi))
        /\ (stage'[r] = "answered" => answer'[r] = NewestFirst(Found(lo, hi), n))
    BY <1>1, <2>3 DEF ReaderTypeOK
  <2>9. size'[r] <= upto'[r] /\ upto'[r] <= Len(cells')
    BY <1>1, <2>1, <2>3, <2>4 DEF ReaderInv, ReaderOK
  <2>10. Scanned(r)'
    BY <2>5, <2>6, <2>8, <2>9 DEF Scanned
  <2> QED
    BY <2>1, <2>4, <2>7, <2>8, <2>10 DEF ReaderOK
<1>5. CASE Reply(r)
  BY <1>1, <1>5 DEF Reply, ReaderTypeOK, ReaderOK, Stages, sink, TrailReaderAssumption
<1> QED
  BY <1>2, <1>3, <1>4, <1>5 DEF Read

LEMMA ReaderStepKeeps ==
  ASSUME TrailReaderAssumption, ReaderInv, [ReaderNext]_readerVars PROVE ReaderInv'
<1>1. CASE AppendStep
  <2>1. /\ Extends /\ EachOnce' /\ UNCHANGED reader
        /\ writing' \subseteq begun' /\ begun' \subseteq Entry /\ done' \in Nat
    BY <1>1, SinkKeeps DEF ReaderInv
  <2>2. ReaderTypeOK'
    BY <2>1 DEF ReaderInv, ReaderTypeOK, Extends, reader
  <2>3. ASSUME NEW r \in Reader PROVE ReaderOK(r)'
    <3>1. ReaderOK(r) /\ limit[r] \in Nat /\ size[r] \in Nat
      BY DEF ReaderInv, ReaderOK, ReaderTypeOK
    <3>2. stage'[r] \in {"answered", "unreadable"} => Scanned(r)'
      BY <2>1, <3>1, ScannedStays DEF ReaderInv, reader, ReaderOK
    <3> QED
      BY <2>1, <3>1, <3>2 DEF ReaderOK, reader, Extends
  <2> QED
    BY <2>1, <2>2, <2>3 DEF ReaderInv, ReaderOK
<1>2. ASSUME NEW r \in Reader, Read(r) PROVE ReaderInv'
  <2>1. ReaderTypeOK' /\ ReaderOK(r)' /\ UNCHANGED sink
    BY <1>2, ReadKeeps
  <2>2. ASSUME NEW q \in Reader, q # r PROVE ReaderOK(q)'
    <3>1. ReaderOK(q)
      BY DEF ReaderInv, ReaderOK
    <3>2. /\ stage'[q] = stage[q] /\ limit'[q] = limit[q] /\ size'[q] = size[q]
          /\ answer'[q] = answer[q] /\ upto'[q] = upto[q] /\ cells' = cells
      BY <1>2, <2>1, <2>2, ReadKeeps DEF sink
    <3> QED
      BY <3>1, <3>2, OtherStays
  <2>3. EachOnce'
    BY <2>1 DEF ReaderInv, EachOnce, sink
  <2> QED
    BY <2>1, <2>2, <2>3 DEF ReaderInv, ReaderOK
<1>3. CASE UNCHANGED readerVars
  <2>1. \A r \in Reader : ReaderOK(r)'
    BY <1>3, OtherStays DEF readerVars, sink, reader, ReaderInv, ReaderOK
  <2>2. ReaderTypeOK' /\ EachOnce'
    BY <1>3 DEF readerVars, sink, reader, ReaderInv, ReaderTypeOK, EachOnce
  <2> QED
    BY <2>1, <2>2 DEF ReaderInv, ReaderOK
<1> QED
  BY <1>1, <1>2, <1>3 DEF ReaderNext

\* The invariant holds for any events and sizes, window, cap and readers.
THEOREM ReaderInvariance == ReaderSpec => []ReaderInv
<1>1. ReaderInit => ReaderInv
  <2> SUFFICES ASSUME ReaderInit PROVE ReaderInv
    OBVIOUS
  <2>1. ReaderTypeOK
    BY TrailReaderAssumption DEF ReaderInit, ReaderTypeOK, Stages, TrailReaderAssumption
  <2>2. EachOnce /\ \A r \in Reader : ReaderOK(r)
    BY DEF ReaderInit, EachOnce, ReaderOK
  <2> QED
    BY <2>1, <2>2 DEF ReaderInv
<1>2. ReaderInv /\ [ReaderNext]_readerVars => ReaderInv'
  BY TrailReaderAssumption, ReaderStepKeeps
<1> QED
  BY <1>1, <1>2, PTL DEF ReaderSpec

-----------------------------------------------------------------------------
(* What a reader is shown.                                                   *)

\* An event has one first cell in the file.
LEMMA OnePlace ==
  ASSUME ReaderInv, NEW i \in 1..Len(cells), cells[i].at = 1
  PROVE  Place(cells[i].of) = i
<1>1. cells[i] \in Cell
  BY DEF ReaderInv, ReaderTypeOK
<1>2. cells[i] = [of |-> cells[i].of, at |-> 1]
  BY <1>1 DEF Cell
<1>3. \A j \in Places(cells[i].of) : j = i
  BY <1>2 DEF Places, ReaderInv, EachOnce
<1>4. i \in Places(cells[i].of)
  BY <1>2 DEF Places
<1> QED
  BY <1>3, <1>4 DEF Place

\* The scanner finds every event that has a line to itself in the window.
LEMMA LineIsFound ==
  ASSUME TrailReaderAssumption, ReaderInv, NEW lo \in Nat \ {0}, NEW hi \in 0..Len(cells),
         NEW top \in 0..hi, NEW e \in Entry, HasLine(e, lo, top)
  PROVE  \E i \in Found(lo, hi) : cells[i] = [of |-> e, at |-> 1]
<1>1. Size[e] \in Nat \ {0, 1} /\ Len(cells) \in Nat
  BY DEF TrailReaderAssumption, ReaderInv, ReaderTypeOK
<1>2. PICK i \in lo..top :
        /\ i + Size[e] - 1 <= top
        /\ i = 1 \/ Ends(i - 1)
        /\ \A n \in 1..Size[e] : cells[i + n - 1] = [of |-> e, at |-> n]
  BY DEF HasLine
<1> DEFINE last == i + Size[e] - 1
<1>3. i \in lo..hi /\ last \in i..hi /\ i < last /\ i \in Nat
  BY <1>1, <1>2
<1>4. \A j \in i..last : j - i + 1 \in 1..Size[e] /\ i + (j - i + 1) - 1 = j
  BY <1>1, <1>3
<1>5. \A j \in i..last : cells[j] = [of |-> e, at |-> j - i + 1]
  BY <1>2, <1>4
<1>6. \A j \in i..last : cells[j].of = e /\ (Ends(j) <=> j = last)
  <2> SUFFICES ASSUME NEW j \in i..last PROVE cells[j].of = e /\ (Ends(j) <=> j = last)
    OBVIOUS
  <2>1. cells[j].of = e /\ cells[j].at = j - i + 1
    <3>1. cells[j] = [of |-> e, at |-> j - i + 1]
      BY <1>5
    <3> QED
      BY <3>1
  <2>2. j - i + 1 = Size[e] <=> j = last
    BY <1>1, <1>3
  <2> QED
    BY <2>1, <2>2 DEF Ends
<1>7. Content(i, hi) = i..(last - 1)
  <2>1. ASSUME NEW j \in Content(i, hi) PROVE j \in i..(last - 1)
    <3>1. j \in i..hi /\ \A k \in i..j : ~Ends(k)
      BY <2>1 DEF Content
    <3>2. last \notin i..j
      BY <1>3, <1>6, <3>1
    <3> QED
      BY <1>3, <3>1, <3>2
  <2>2. ASSUME NEW j \in i..(last - 1) PROVE j \in Content(i, hi)
    <3>1. \A k \in i..j : k \in i..last /\ k # last
      BY <1>3, <2>2
    <3>2. j \in i..hi
      BY <1>3, <2>2
    <3> QED
      BY <1>6, <3>1, <3>2 DEF Content
  <2> QED
    BY <2>1, <2>2
<1>8. Cardinality(i..(last - 1)) = Size[e] - 1
  <2>1. i \in Int /\ last - 1 \in Int /\ ~(i > last - 1) /\ (last - 1) - i + 1 = Size[e] - 1
    BY <1>1, <1>3
  <2> QED
    BY <2>1, FS_Interval
<1>9. cells[i] = [of |-> e, at |-> 1]
  BY <1>3, <1>5
<1>10. Parses(i, hi)
  <2>1. \A j \in Content(i, hi) : cells[j].of = cells[i].of
    <3>1. \A j \in i..(last - 1) : j \in i..last
      BY <1>3
    <3> QED
      BY <1>3, <1>6, <1>7, <3>1
  <2> QED
    BY <1>7, <1>8, <1>9, <2>1 DEF Parses
<1>11. i \in LineStarts(lo, hi)
  BY <1>2, <1>3 DEF LineStarts
<1> QED
  BY <1>9, <1>10, <1>11 DEF Found

\* The answer of Tail to a file that is not unreadable: the events of the last lines.
LEMMA AnswerOfScan ==
  ASSUME TrailReaderAssumption, ReaderInv, NEW r \in Reader, stage[r] = "answered"
  PROVE  /\ limit[r] \in Nat \ {0} /\ From(r) \in Nat \ {0} /\ size[r] \in 0..upto[r]
         /\ upto[r] \in 0..Len(cells) /\ Len(cells) \in Nat
         /\ answer[r] = NewestFirst(Found(From(r), upto[r]), limit[r])
<1>1. limit[r] \in Nat \ {0} /\ Scanned(r) /\ size[r] \in Nat /\ upto[r] \in Nat
      /\ Len(cells) \in Nat /\ Window \in Nat
  BY DEF ReaderInv, ReaderOK, ReaderTypeOK, TrailReaderAssumption
<1>2. From(r) \in Nat \ {0}
  BY <1>1 DEF From
<1> QED
  BY <1>1, <1>2 DEF Scanned

\* The events a are the newest n of what lies between lo and hi, of those with a line
\* to themselves up to top none missing.
Newest(a, lo, hi, top, n) ==
  /\ Len(a) <= n
  /\ \A m \in 1..Len(a) :
       Cardinality({i \in 1..hi : cells[i].of = a[m]}) >= Size[a[m]] - 1
  /\ \A l, m \in 1..Len(a) : l < m => Place(a[l]) > Place(a[m])
  /\ \A e \in Entry : HasLine(e, lo, top) =>
       \/ \E m \in 1..Len(a) : a[m] = e
       \/ Len(a) = n /\ \A m \in 1..Len(a) : Place(a[m]) > Place(e)

LEMMA NewestAreShown ==
  ASSUME TrailReaderAssumption, ReaderInv, NEW lo \in Nat \ {0}, NEW hi \in 0..Len(cells),
         NEW top \in 0..hi, NEW n \in Nat \ {0}, NEW a, a = NewestFirst(Found(lo, hi), n)
  PROVE  Newest(a, lo, hi, top, n)
<1> DEFINE F == Found(lo, hi)
           c == Cardinality(F)
           p(m) == FromEnd(F, m)
           k == Least(n, c)
<1>1. /\ F \in SUBSET (lo..hi) /\ F \in SUBSET Nat /\ IsFiniteSet(F) /\ c \in Nat
      /\ Len(cells) \in Nat
  <2>1. Len(cells) \in Nat
    BY DEF ReaderInv, ReaderTypeOK
  <2>2. hi \in Nat
    BY <2>1
  <2> QED
    BY <2>1, <2>2, FoundRange
<1>2. lo..hi \subseteq 1..hi /\ 1..hi \subseteq 1..Len(cells)
  BY <1>1
<1>3. \A i \in F : i \in Nat /\ i \in 1..Len(cells) /\ Parses(i, hi) /\ cells[i].at = 1
  BY <1>1, <1>2 DEF Found, Parses
<1> HIDE DEF F
<1>4. k \in Nat /\ k <= n /\ k <= c /\ (k = n \/ k = c)
  BY <1>1 DEF Least
<1> HIDE DEF c
<1>5. \A m \in 1..c : p(m) \in F /\ Cardinality(Beyond(F, p(m))) = m - 1
  BY <1>1, EachRankIsTaken DEF c
<1>6. a = [m \in 1..k |-> cells[p(m)].of]
  BY DEF NewestFirst, F, c
<1> HIDE DEF k, p
<1>7. Len(a) = k /\ \A m \in 1..k : m \in 1..c /\ a[m] = cells[p(m)].of
  BY <1>1, <1>4, <1>6
<1>8. \A m \in 1..k : p(m) \in F /\ p(m) \in 1..Len(cells) /\ Place(a[m]) = p(m)
  BY <1>3, <1>5, <1>7, OnePlace
<1>9. ASSUME NEW m \in 1..k
      PROVE  Cardinality({i \in 1..hi : cells[i].of = a[m]}) >= Size[a[m]] - 1
  <2> DEFINE C == Content(p(m), hi)
             D == {i \in 1..hi : cells[i].of = a[m]}
  <2>1. p(m) \in lo..hi /\ Parses(p(m), hi) /\ a[m] = cells[p(m)].of
    BY <1>1, <1>3, <1>7, <1>8
  <2>2. Cardinality(C) = Size[a[m]] - 1
    BY <2>1 DEF Parses
  <2>3. C \in SUBSET D
    <3>1. \A j \in C : j \in 1..hi
      BY <2>1 DEF Content
    <3> QED
      BY <2>1, <3>1 DEF Parses
  <2>4. IsFiniteSet(D)
    <3>1. D \in SUBSET (1..hi) /\ IsFiniteSet(1..hi)
      BY FS_Interval
    <3> QED
      BY <3>1, FS_Subset
  <2> HIDE DEF C, D
  <2>5. Cardinality(C) <= Cardinality(D) /\ Cardinality(C) \in Nat /\ Cardinality(D) \in Nat
    BY <2>3, <2>4, FS_Subset, FS_CardinalityType
  <2> QED
    BY <2>2, <2>5 DEF D
<1>10. ASSUME NEW i \in F, NEW m \in 1..k, m <= Cardinality(Beyond(F, i))
       PROVE  p(m) > i
  <2>1. p(m) \in F /\ Cardinality(Beyond(F, p(m))) = m - 1 /\ p(m) \in Nat /\ i \in Nat
    BY <1>3, <1>5, <1>7
  <2>2. Cardinality(Beyond(F, i)) \in Nat
    BY <1>1, FS_Subset, FS_CardinalityType DEF Beyond
  <2>3. p(m) # i
    BY <1>10, <2>1, <2>2
  <2>4. ~(p(m) < i)
    BY <1>1, <1>10, <2>1, <2>2, BeyondFalls
  <2> QED
    BY <2>1, <2>3, <2>4
<1>11. ASSUME NEW l \in 1..k, NEW m \in 1..k, l < m PROVE p(l) > p(m)
  <2>1. Cardinality(Beyond(F, p(m))) = m - 1 /\ p(m) \in F
    BY <1>5, <1>7
  <2> QED
    BY <1>4, <1>10, <1>11, <2>1
<1>12. ASSUME NEW e \in Entry, HasLine(e, lo, top)
       PROVE  \/ \E m \in 1..k : a[m] = e
              \/ k = n /\ \A m \in 1..k : Place(a[m]) > Place(e)
  <2>1. PICK i \in F : cells[i] = [of |-> e, at |-> 1]
    BY <1>12, LineIsFound DEF F
  <2>2. Place(e) = i
    BY <1>3, <2>1, OnePlace
  <2> DEFINE rank == Cardinality(Beyond(F, i)) + 1
  <2>3. rank \in 1..c /\ Cardinality(Beyond(F, i)) \in Nat
    <3>1. Beyond(F, i) \in SUBSET F /\ i \notin Beyond(F, i)
      BY <1>3 DEF Beyond
    <3>2. IsFiniteSet(Beyond(F, i)) /\ Cardinality(Beyond(F, i)) <= c
          /\ Cardinality(Beyond(F, i)) # c
      BY <1>1, <3>1, FS_Subset DEF c
    <3>3. Cardinality(Beyond(F, i)) \in Nat
      BY <3>2, FS_CardinalityType
    <3> QED
      BY <1>1, <3>2, <3>3
  <2>4. CASE rank <= k
    <3>1. rank \in 1..k
      BY <1>4, <2>3, <2>4
    <3>2. p(rank) \in F /\ Cardinality(Beyond(F, p(rank))) = rank - 1 /\ a[rank] = cells[p(rank)].of
      BY <1>5, <1>7, <3>1
    <3>3. p(rank) = i
      <4>1. p(rank) \in Nat /\ i \in Nat /\ rank - 1 = Cardinality(Beyond(F, i))
        BY <1>3, <2>3, <3>2
      <4>2. ~(p(rank) < i)
        BY <1>1, <2>3, <3>2, <4>1, BeyondFalls
      <4>3. ~(i < p(rank))
        BY <1>1, <2>3, <3>2, <4>1, BeyondFalls
      <4> QED
        BY <4>1, <4>2, <4>3
    <3> QED
      BY <2>1, <3>1, <3>2, <3>3
  <2>5. CASE ~(rank <= k)
    <3>1. k = n
      BY <1>1, <1>4, <2>3, <2>5
    <3>2. \A m \in 1..k : m <= Cardinality(Beyond(F, i))
      BY <1>1, <1>4, <2>3, <2>5
    <3>3. \A m \in 1..k : p(m) > i
      BY <1>10, <3>2
    <3> QED
      BY <1>8, <2>2, <3>1, <3>3
  <2> QED
    BY <2>4, <2>5
<1> QED
  BY <1>4, <1>7, <1>8, <1>9, <1>11, <1>12 DEF Newest

\* A reader is shown the newest events of the window, at most as many as it asked for,
\* whatever is written meanwhile (Tail).
THEOREM AnswersAreNewest == ReaderSpec => []AnswerIsNewest
<1>1. ReaderInv => AnswerIsNewest
  <2> SUFFICES ASSUME ReaderInv, NEW r \in Reader, stage[r] = "answered"
               PROVE  Newest(answer[r], From(r), upto[r], size[r], limit[r])
    BY DEF AnswerIsNewest, Newest
  <2>1. /\ limit[r] \in Nat \ {0} /\ From(r) \in Nat \ {0} /\ size[r] \in 0..upto[r]
        /\ upto[r] \in 0..Len(cells)
        /\ answer[r] = NewestFirst(Found(From(r), upto[r]), limit[r])
    BY TrailReaderAssumption, AnswerOfScan
  <2> QED
    BY <2>1, TrailReaderAssumption, NewestAreShown
<1> QED
  BY <1>1, ReaderInvariance, PTL

\* A line is too long exactly where as many cells as the cap follow one another
\* without a newline.
LEMMA OverlongLine ==
  ASSUME TrailReaderAssumption, NEW lo \in Nat \ {0}, NEW hi \in Nat
  PROVE  TooLong(lo, hi) <=>
           \E i \in lo..hi :
             /\ i + LineCap - 1 <= hi
             /\ \A n \in i..(i + LineCap - 1) : ~Ends(n)
<1>1. LineCap \in Nat \ {0}
  BY DEF TrailReaderAssumption
<1>2. ASSUME NEW i \in LineStarts(lo, hi), Cardinality(Content(i, hi)) >= LineCap
      PROVE  /\ i \in lo..hi /\ i + LineCap - 1 <= hi
             /\ \A n \in i..(i + LineCap - 1) : ~Ends(n)
  <2>1. i \in lo..hi /\ i \in Nat
    BY DEF LineStarts
  <2> DEFINE last == i + LineCap - 1
  <2>2. last \in Content(i, hi)
    <3> SUFFICES ASSUME last \notin Content(i, hi) PROVE FALSE
      OBVIOUS
    <3>1. ASSUME NEW j \in Content(i, hi) PROVE j \in i..(last - 1)
      <4>1. j \in i..hi /\ \A k \in i..j : ~Ends(k)
        BY <3>1 DEF Content
      <4>2. CASE last <= j
        <5>1. last \in i..hi /\ \A k \in i..last : k \in i..j
          BY <1>1, <2>1, <4>1, <4>2
        <5> QED
          BY <4>1, <5>1 DEF Content
      <4> QED
        BY <1>1, <2>1, <4>1, <4>2
    <3>2. IsFiniteSet(i..(last - 1)) /\ Cardinality(i..(last - 1)) = LineCap - 1
      <4>1. i \in Int /\ last - 1 \in Int /\ (i > last - 1 => LineCap - 1 = 0)
            /\ (last - 1) - i + 1 = LineCap - 1
        BY <1>1, <2>1
      <4> QED
        BY <4>1, FS_Interval
    <3>3. Content(i, hi) \in SUBSET (i..(last - 1))
      BY <3>1
    <3>4. Cardinality(Content(i, hi)) <= LineCap - 1 /\ Cardinality(Content(i, hi)) \in Nat
      BY <3>2, <3>3, FS_Subset, FS_CardinalityType
    <3> QED
      BY <1>1, <1>2, <3>4
  <2> QED
    BY <2>1, <2>2 DEF Content
<1>3. ASSUME NEW i \in lo..hi, i + LineCap - 1 <= hi,
             \A n \in i..(i + LineCap - 1) : ~Ends(n)
      PROVE  TooLong(lo, hi)
  <2> DEFINE S == {s \in LineStarts(lo, hi) : s <= i}
             last == i + LineCap - 1
  <2>1. S \in SUBSET (lo..hi) /\ lo \in S
    BY DEF LineStarts
  <2>2. S \in SUBSET Nat /\ IsFiniteSet(S)
    <3>1. IsFiniteSet(lo..hi) /\ lo..hi \subseteq Nat
      BY FS_Interval
    <3> QED
      BY <2>1, <3>1, FS_Subset
  <2>3. PICK s \in S : \A t \in S : t <= s
    BY <2>1, <2>2, GreatestOf
  <2>4. s \in LineStarts(lo, hi) /\ s \in lo..hi /\ s <= i /\ s \in Nat
    BY <2>1, <2>2, <2>3
  <2>5. ASSUME NEW k \in s..last PROVE ~Ends(k)
    <3>1. CASE k < i
      <4>1. k + 1 \in lo..hi /\ k + 1 <= i /\ k + 1 > s /\ (k + 1) - 1 = k
        BY <1>1, <2>4, <3>1
      <4>2. k + 1 \notin S
        <5> HIDE DEF S
        <5> QED
          BY <2>3, <2>4, <4>1
      <4> QED
        BY <4>1, <4>2 DEF LineStarts
    <3>2. CASE ~(k < i)
      BY <1>1, <1>3, <2>4, <3>2
    <3> QED
      BY <3>1, <3>2
  <2>6. i..last \in SUBSET Content(s, hi)
    <3> SUFFICES ASSUME NEW j \in i..last PROVE j \in Content(s, hi)
      OBVIOUS
    <3>1. j \in s..hi /\ \A k \in s..j : k \in s..last
      BY <1>1, <1>3, <2>4
    <3> QED
      BY <2>5, <3>1 DEF Content
  <2>7. IsFiniteSet(Content(s, hi))
    <3>1. Content(s, hi) \in SUBSET (s..hi) /\ IsFiniteSet(s..hi)
      BY <2>4, FS_Interval DEF Content
    <3> QED
      BY <3>1, FS_Subset
  <2>8. Cardinality(i..last) = LineCap
    <3>1. i \in Int /\ last \in Int /\ ~(i > last) /\ last - i + 1 = LineCap
      BY <1>1
    <3> QED
      BY <3>1, FS_Interval
  <2>9. Cardinality(Content(s, hi)) >= LineCap
    <3>1. Cardinality(i..last) <= Cardinality(Content(s, hi))
          /\ Cardinality(Content(s, hi)) \in Nat
      BY <2>6, <2>7, FS_Subset, FS_CardinalityType
    <3> QED
      BY <1>1, <2>8, <3>1
  <2> QED
    BY <2>4, <2>9 DEF TooLong
<1> QED
  BY <1>2, <1>3 DEF TooLong

\* The cells of an event follow one another from its first, and those of the event being
\* written so far are the last of the file.
Unbroken ==
  /\ \A i \in 1..Len(cells) :
       /\ cells[i].at <= i
       /\ \A m \in 1..cells[i].at : cells[i - cells[i].at + m] = [of |-> cells[i].of, at |-> m]
  /\ \A e \in writing :
       /\ done <= Len(cells)
       /\ \A m \in 1..done : cells[Len(cells) - done + m] = [of |-> e, at |-> m]

LEMMA UnbrokenKeeps ==
  ASSUME TrailReaderAssumption, ReaderTypeOK, EachOnce, Unbroken, AppendStep
  PROVE  Unbroken'
<1> USE DEF ReaderTypeOK
<1>0. Len(cells) \in Nat /\ done \in Nat
  OBVIOUS
<1>1. ASSUME NEW e \in Entry, Lock(e) PROVE Unbroken'
  BY <1>0, <1>1 DEF Lock, Unbroken
<1>2. CASE Unlock
  BY <1>2 DEF Unlock, Unbroken
<1>3. ASSUME NEW e \in writing, NEW n \in 1..(Size[e] - done),
             cells' = cells \o [i \in 1..n |-> [of |-> e, at |-> done + i]],
             done' = done + n, writing' = writing
      PROVE  Unbroken'
  <2> DEFINE new == [i \in 1..n |-> [of |-> e, at |-> done + i]]
  <2>1. e \in Entry /\ Size[e] \in Nat /\ n \in Nat /\ cells \in Seq(Cell) /\ writing = {e}
    BY DEF TrailReaderAssumption, EachOnce
  <2>2. new \in Seq(Cell) /\ Len(new) = n /\ \A i \in 1..n : new[i] = [of |-> e, at |-> done + i]
    BY <1>0, <2>1 DEF Cell
  <2> HIDE DEF new
  <2>3. cells' = cells \o new
    BY <1>3 DEF new
  <2> DEFINE len == Len(cells)
  <2>4. /\ cells' \in Seq(Cell) /\ Len(cells') = len + n
        /\ \A i \in 1..len : cells'[i] = cells[i]
        /\ \A i \in 1..Len(cells') : i > len => cells'[i] = new[i - len]
    <3>1. /\ cells \o new \in Seq(Cell) /\ Len(cells \o new) = Len(cells) + Len(new)
          /\ \A i \in 1..Len(cells) : (cells \o new)[i] = cells[i]
          /\ \A i \in 1..Len(cells \o new) : i > Len(cells) =>
               (cells \o new)[i] = new[i - Len(cells)]
      <4>1. cells \in Seq(Cell)
        BY <2>1
      <4>2. new \in Seq(Cell)
        BY <2>2
      <4> QED
        BY <4>1, <4>2, Joined, Zenon
    <3>2. Len(new) = n
      BY <2>2
    <3> QED
      BY <2>3, <3>1, <3>2, Zenon
  <2>5. \A k \in 1..n : cells'[len + k] = [of |-> e, at |-> done + k]
    <3> SUFFICES ASSUME NEW k \in 1..n PROVE cells'[len + k] = [of |-> e, at |-> done + k]
      OBVIOUS
    <3>1. len + k \in 1..Len(cells') /\ len + k > len /\ (len + k) - len = k
      BY <1>0, <2>1, <2>4
    <3> QED
      BY <2>2, <2>4, <3>1
  <2>6. done <= len /\ \A m \in 1..done : cells[len - done + m] = [of |-> e, at |-> m]
    BY <2>1 DEF Unbroken
  \* The event being written, from its first cell to its last so far.
  <2>7. \A m \in 1..(done + n) : cells'[len - done + m] = [of |-> e, at |-> m]
    <3> SUFFICES ASSUME NEW m \in 1..(done + n)
                 PROVE  cells'[len - done + m] = [of |-> e, at |-> m]
      OBVIOUS
    <3>1. CASE m <= done
      <4>1. m \in 1..done /\ len - done + m \in 1..len
        BY <1>0, <2>1, <2>6, <3>1
      <4> QED
        BY <2>4, <2>6, <4>1
    <3>2. CASE m > done
      <4>1. m - done \in 1..n /\ len + (m - done) = len - done + m /\ done + (m - done) = m
        BY <1>0, <2>1, <3>2
      <4> QED
        BY <2>5, <4>1
    <3> QED
      BY <1>0, <2>1, <3>1, <3>2
  <2>8. ASSUME NEW i \in 1..Len(cells')
        PROVE  /\ cells'[i].at <= i
               /\ \A m \in 1..cells'[i].at :
                    cells'[i - cells'[i].at + m] = [of |-> cells'[i].of, at |-> m]
    <3>1. CASE i <= len
      <4>0. i \in 1..len
        BY <1>0, <2>4, <3>1
      <4>1. i \in 1..len /\ cells'[i] = cells[i] /\ cells[i].at \in Nat
        <5>1. cells[i] \in Cell
          BY <2>1, <4>0
        <5> QED
          BY <2>4, <4>0, <5>1 DEF Cell
      <4>2. cells[i].at <= i
        BY <4>1 DEF Unbroken
      <4>3. ASSUME NEW m \in 1..cells[i].at
            PROVE  cells'[i - cells[i].at + m] = [of |-> cells[i].of, at |-> m]
        <5>1. i - cells[i].at + m \in 1..len
          BY <1>0, <4>1, <4>2
        <5> QED
          BY <2>4, <4>1, <5>1 DEF Unbroken
      <4> QED
        BY <4>1, <4>2, <4>3
    <3>2. CASE i > len
      <4>1. i - len \in 1..n /\ len + (i - len) = i
        BY <1>0, <2>1, <2>4, <3>2
      <4>2. cells'[i].of = e /\ cells'[i].at = done + (i - len)
        <5>1. cells'[len + (i - len)] = [of |-> e, at |-> done + (i - len)]
          BY <2>5, <4>1
        <5> QED
          BY <4>1, <5>1
      <4>3. ASSUME NEW m \in 1..(done + (i - len))
            PROVE  cells'[i - (done + (i - len)) + m] = [of |-> e, at |-> m]
        <5>1. m \in 1..(done + n) /\ i - (done + (i - len)) + m = len - done + m
          BY <1>0, <2>1, <4>1
        <5> QED
          BY <2>7, <5>1
      <4> QED
        BY <1>0, <2>6, <4>1, <4>2, <4>3
    <3> QED
      BY <1>0, <2>1, <2>4, <3>1, <3>2
  <2>9. /\ done' <= Len(cells')
        /\ \A m \in 1..done' : cells'[Len(cells') - done' + m] = [of |-> e, at |-> m]
    <3>1. done' = done + n /\ Len(cells') = len + n
      BY <1>3, <2>4
    <3>2. done + n <= len + n /\ \A m \in 1..(done + n) : (len + n) - (done + n) + m = len - done + m
      BY <1>0, <2>1, <2>6
    <3> HIDE DEF len
    <3> QED
      BY <2>7, <3>1, <3>2
  <2> QED
    BY <1>3, <2>1, <2>8, <2>9 DEF Unbroken
<1> QED
  BY <1>1, <1>2, <1>3 DEF AppendStep, Write

\* An event that is followed by the first cell of another, its newline not yet there, will
\* never have it.
LEMMA OvertakenIsTorn ==
  ASSUME TrailReaderAssumption, ReaderTypeOK, EachOnce, Unbroken,
         NEW j \in 1..Len(cells), ~Ends(j), j + 1 \in 1..Len(cells), cells[j + 1].at = 1
  PROVE  Torn(cells[j].of)
<1> DEFINE d == cells[j].of
           p == cells[j].at
<1>1. /\ d \in Entry /\ d \in begun /\ Size[d] \in Nat /\ p \in 1..Size[d] /\ p # Size[d]
      /\ cells[j] = [of |-> d, at |-> p] /\ Len(cells) \in Nat /\ done \in Nat
  <2>1. cells[j] \in Cell /\ cells[j].of \in begun /\ cells[j].at \in 1..Size[cells[j].of]
    BY DEF ReaderTypeOK, EachOnce
  <2> QED
    BY <2>1 DEF Cell, Ends, ReaderTypeOK, TrailReaderAssumption
<1> HIDE DEF d, p
\* Wherever p and p + 1 of the event are next to each other, it is at j.
<1>2. ASSUME NEW q \in 1..Len(cells), cells[q] = [of |-> d, at |-> p],
             cells[q + 1] = [of |-> d, at |-> p + 1]
      PROVE  FALSE
  <2>1. q = j
    BY <1>1, <1>2 DEF EachOnce
  <2> QED
    BY <1>1, <1>2, <2>1
<1>3. ASSUME NEW k \in 1..Len(cells), cells[k] = [of |-> d, at |-> Size[d]] PROVE FALSE
  <2>1. /\ Size[d] <= k
        /\ \A m \in 1..Size[d] : cells[k - Size[d] + m] = [of |-> d, at |-> m]
    BY <1>3 DEF Unbroken
  <2> DEFINE q == k - Size[d] + p
  <2>2. q \in 1..Len(cells) /\ p \in 1..Size[d] /\ p + 1 \in 1..Size[d]
        /\ q + 1 = k - Size[d] + (p + 1)
    BY <1>1, <2>1
  <2> QED
    BY <1>2, <2>1, <2>2
<1>4. ASSUME d \in writing PROVE FALSE
  <2>1. p <= done /\ done <= Len(cells)
        /\ \A m \in 1..done : cells[Len(cells) - done + m] = [of |-> d, at |-> m]
    BY <1>1, <1>4 DEF EachOnce, Unbroken, p, d
  <2> DEFINE q == Len(cells) - done + p
  <2>2. q \in 1..Len(cells) /\ p \in 1..done
    BY <1>1, <2>1
  <2>3. q = j
    BY <1>1, <2>1, <2>2 DEF EachOnce
  <2>4. p + 1 \in 1..done /\ q + 1 = Len(cells) - done + (p + 1)
    BY <1>1, <2>1, <2>3
  <2> QED
    BY <1>2, <2>1, <2>2, <2>4
<1> QED
  BY <1>1, <1>3, <1>4 DEF Torn, d

\* A reader is refused the trail only over an event in its window that is too long for the
\* scanner or torn, for any sizes, window and cap and any number of readers.
THEOREM UnreadablesHaveAReason == ReaderSpec => []UnreadableForAReason
<1>1. ReaderInv /\ Unbroken => UnreadableForAReason
  <2> SUFFICES ASSUME ReaderInv, Unbroken, NEW r \in Reader, stage[r] = "unreadable"
               PROVE  \E i \in 1..upto[r] :
                        /\ i + Window > size[r]
                        /\ Size[cells[i].of] > LineCap \/ Torn(cells[i].of)
    BY DEF UnreadableForAReason
  <2>1. /\ size[r] \in Nat /\ upto[r] \in Nat /\ Window \in Nat /\ LineCap \in Nat \ {0}
        /\ Len(cells) \in Nat /\ upto[r] <= Len(cells) /\ TooLong(From(r), upto[r])
    BY TrailReaderAssumption
       DEF ReaderInv, ReaderTypeOK, ReaderOK, Scanned, TrailReaderAssumption
  <2>2. From(r) \in Nat \ {0} /\ \A i \in Nat : i >= From(r) => i + Window > size[r]
    BY <2>1 DEF From
  <2>3. PICK i \in From(r)..upto[r] : /\ i + LineCap - 1 <= upto[r]
                                      /\ \A n \in i..(i + LineCap - 1) : ~Ends(n)
    BY <2>1, <2>2, TrailReaderAssumption, OverlongLine
  <2> DEFINE last == i + LineCap - 1
             n == cells[last].at
  <2>4. /\ i \in Nat \ {0} /\ last \in 1..upto[r] /\ last \in 1..Len(cells)
        /\ last >= From(r) /\ ~Ends(last)
    BY <2>1, <2>2, <2>3
  <2>5. cells[last].of \in Entry /\ Size[cells[last].of] \in Nat /\ n < Size[cells[last].of]
        /\ n \in Nat \ {0} /\ n <= last
    <3>1. cells[last] \in Cell /\ n \in 1..Size[cells[last].of] /\ n <= last
      BY <2>4 DEF ReaderInv, ReaderTypeOK, EachOnce, Unbroken
    <3>2. cells[last].of \in Entry /\ Size[cells[last].of] \in Nat
      BY <3>1, TrailReaderAssumption DEF Cell, TrailReaderAssumption
    <3> QED
      BY <2>4, <3>1, <3>2 DEF Ends
  <2>6. CASE n >= LineCap
    <3>1. Size[cells[last].of] > LineCap
      BY <2>1, <2>5, <2>6
    <3> QED
      BY <2>2, <2>4, <3>1
  <2>7. CASE n < LineCap
    <3> DEFINE j == last - n
    <3>1. j \in i..last /\ j < last /\ j \in 1..upto[r] /\ j >= From(r)
      <4>1. /\ i \in Nat \ {0} /\ LineCap \in Nat \ {0} /\ n \in Nat \ {0} /\ n < LineCap
            /\ upto[r] \in Nat /\ i + LineCap - 1 <= upto[r]
        BY <2>1, <2>3, <2>4, <2>5, <2>7
      <4>2. i \in Nat /\ From(r) \in Nat /\ i >= From(r)
        BY <2>2, <2>3
      <4> HIDE DEF n
      <4> QED
        BY <4>1, <4>2
    <3>2. ~Ends(j) /\ j \in 1..Len(cells) /\ j + 1 \in 1..Len(cells)
      BY <2>1, <2>3, <2>4, <3>1
    <3>3. cells[j + 1].at = 1
      <4>1. 1 \in 1..n /\ last - n + 1 = j + 1
        BY <2>4, <2>5
      <4>2. cells[last - n + 1] = [of |-> cells[last].of, at |-> 1]
        BY <2>4, <4>1 DEF Unbroken
      <4> QED
        BY <4>1, <4>2
    <3>4. Torn(cells[j].of)
      BY <3>2, <3>3, TrailReaderAssumption, OvertakenIsTorn DEF ReaderInv
    <3> QED
      BY <2>2, <3>1, <3>4
  <2> QED
    BY <2>1, <2>5, <2>6, <2>7
<1>2. ReaderInit => Unbroken
  BY DEF ReaderInit, Unbroken
<1>3. ReaderInv /\ Unbroken /\ [ReaderNext]_readerVars => Unbroken'
  <2> SUFFICES ASSUME ReaderInv, Unbroken, [ReaderNext]_readerVars PROVE Unbroken'
    OBVIOUS
  <2>1. CASE AppendStep
    BY <2>1, TrailReaderAssumption, UnbrokenKeeps DEF ReaderInv
  <2>2. CASE UNCHANGED sink
    BY <2>2 DEF sink, Unbroken
  <2> QED
    BY <2>1, <2>2 DEF ReaderNext, Read, Ask, Stat, Scan, Reply, readerVars
<1> QED
  BY <1>1, <1>2, <1>3, ReaderInvariance, PTL DEF ReaderSpec
=============================================================================
