----------------------------- MODULE AuditTrail -----------------------------
(***************************************************************************)
(* The audit trail: internal/kernel/audit.  Record writes an event to a    *)
(* file and syncs it before it returns, then offers it to a bounded queue; *)
(* one goroutine takes the queue to Loki in batches and never holds a      *)
(* caller up.  Close drains the queue, and App.Close then closes the file. *)
(*                                                                         *)
(* Every writer is a sequential caller of Record: its n-th event is        *)
(* [by |-> w, n |-> n].  A line of the file is one event and a newline.  A *)
(* write that was cut short leaves a line without its end, and O_APPEND    *)
(* puts the next event on that same line, which no reader can then parse.  *)
(***************************************************************************)
EXTENDS Naturals, Sequences, FiniteSets

CONSTANTS Writer,     \* concurrent callers of Record
          MaxEvents,  \* bound of the model: events of one writer
          QueueDepth, \* queueDepth
          FlushBatch, \* flushBatch
          Faults      \* what may go wrong, see FaultKind

FaultKind == {"disk",  \* a write is cut short or refused, or the sync fails
              "loki",  \* a push is refused or times out
              "crash", \* the process is gone between any two steps
              "close"} \* App.Close runs while callers are still at work

ASSUME AuditAssumption ==
  /\ MaxEvents \in Nat
  /\ QueueDepth \in Nat \ {0}
  /\ FlushBatch \in Nat \ {0}
  /\ Faults \subseteq FaultKind

VARIABLES
  phase,    \* "up", "closing" (done is closed), "sealed" (file closed), "down"
  pc,       \* where each writer stands in Record
  count,    \* events each writer has begun to record
  lines,    \* events that have a whole line of the file to themselves
  garbled,  \* events on lines that cannot be parsed
  ending,   \* whether the file ends in a "newline" or in a "torn" line
  queue,    \* Recorder.queue
  batch,    \* what ship has taken from the queue and not yet pushed
  shipper,  \* where the goroutine of ship stands
  dropped,  \* Recorder.dropped
  shipped,  \* what Loki has accepted, in order
  recorded, \* history: events whose durable write succeeded
  offered,  \* history: events offered to the queue of this process
  late,     \* history: those of them offered after Close was called
  logged    \* history: those of a push whose failure this process has logged

callers == <<pc, count>>
file    == <<lines, garbled, ending>>
ship    == <<queue, batch, shipper, dropped, shipped>>
history == <<recorded, offered, late, logged>>
vars    == <<phase, callers, file, ship, history>>

-----------------------------------------------------------------------------
Event == [by : Writer, n : Nat]

\* The event w is recording.
Current(w) == [by |-> w, n |-> count[w]]

Written == lines \cup garbled

\* The events in a sequence.
In(s) == {s[i] : i \in 1..Len(s)}

TypeOK ==
  /\ phase \in {"up", "closing", "sealed", "down"}
  /\ pc \in [Writer -> {"idle", "append", "enqueue"}]
  /\ count \in [Writer -> Nat]
  /\ lines \subseteq Event /\ garbled \subseteq Event
  /\ ending \in {"newline", "torn"}
  /\ queue \in Seq(Event) /\ Len(queue) <= QueueDepth
  /\ batch \in Seq(Event)
  /\ shipper \in {"select", "flush", "drain", "lastFlush", "stopped"}
  /\ dropped \in Nat
  /\ shipped \in Seq(Event)
  /\ recorded \subseteq Event /\ offered \subseteq Event
  /\ late \subseteq Event /\ logged \subseteq Event

Init ==
  /\ phase = "up"
  /\ pc = [w \in Writer |-> "idle"]
  /\ count = [w \in Writer |-> 0]
  /\ lines = {} /\ garbled = {} /\ ending = "newline"
  /\ queue = <<>> /\ batch = <<>> /\ shipper = "select"
  /\ dropped = 0 /\ shipped = <<>>
  /\ recorded = {} /\ offered = {} /\ late = {} /\ logged = {}

MayFail(f) == f \in Faults

Goto(w, from, to) == pc[w] = from /\ pc' = [pc EXCEPT ![w] = to]

-----------------------------------------------------------------------------
(* The file: FileSink.Append, one caller at a time under its mutex.          *)

\* Mutant: the event is written without its newline.
PutLineUnended(e) ==
  IF ending = "newline"
  THEN lines' = lines \cup {e} /\ UNCHANGED garbled /\ ending' = "torn"
  ELSE garbled' = garbled \cup {e} /\ UNCHANGED <<lines, ending>>

\* All of the event and its newline reach the file.
PutLine(e) ==
  /\ ending' = "newline"
  /\ IF ending = "newline" THEN lines' = lines \cup {e} /\ UNCHANGED garbled
     ELSE garbled' = garbled \cup {e} /\ UNCHANGED lines

\* Some of the event, and not its newline.
PutTorn(e) ==
  /\ ending' = "torn"
  /\ garbled' = garbled \cup {e}
  /\ UNCHANGED lines

\* Record: the time is set, and the call waits for the mutex of the file.
Record(w) ==
  /\ phase # "down" /\ count[w] < MaxEvents
  /\ Goto(w, "idle", "append")
  /\ count' = [count EXCEPT ![w] = @ + 1]
  /\ UNCHANGED <<phase, file, ship, history>>

FileOpen == phase \in {"up", "closing"}

AppendLine(w) ==
  /\ FileOpen
  /\ Goto(w, "append", "enqueue")
  /\ PutLine(Current(w))
  /\ recorded' = recorded \cup {Current(w)}
  /\ UNCHANGED <<phase, count, ship, offered, late, logged>>

\* Record returns the error of the durable sink and does not enqueue.  The file
\* may hold all, some or none of the event.
AppendFails(w) ==
  /\ Goto(w, "append", "idle")
  /\ \/ phase = "sealed" /\ UNCHANGED file
     \/ /\ FileOpen /\ MayFail("disk")
        /\ PutLine(Current(w)) \/ PutTorn(Current(w)) \/ UNCHANGED file
  /\ UNCHANGED <<phase, count, ship, history>>

-----------------------------------------------------------------------------
(* The queue and the shipper.                                                *)

\* This process has offered e to the queue.
Offer(e) ==
  /\ offered' = offered \cup {e}
  /\ late' = IF phase = "up" THEN late ELSE late \cup {e}
  /\ UNCHANGED <<recorded, logged>>

\* Mutant: what does not fit the queue is not counted.
EnqueueUncounted(w) ==
  /\ phase # "down"
  /\ Goto(w, "enqueue", "idle")
  /\ queue' = IF Len(queue) < QueueDepth THEN Append(queue, Current(w)) ELSE queue
  /\ Offer(Current(w))
  /\ UNCHANGED <<phase, count, file, batch, shipper, dropped, shipped>>

\* Mutant: the event is offered to Loki before it is on disk.
EnqueueFirst(w) ==
  /\ phase # "down"
  /\ pc[w] = "append" /\ Current(w) \notin offered
  /\ IF Len(queue) < QueueDepth
     THEN queue' = Append(queue, Current(w)) /\ UNCHANGED dropped
     ELSE dropped' = dropped + 1 /\ UNCHANGED queue
  /\ Offer(Current(w))
  /\ UNCHANGED <<phase, pc, count, file, batch, shipper, shipped>>

\* Recorder.enqueue: a full queue is counted, never waited for.
Enqueue(w) ==
  /\ phase # "down"
  /\ Goto(w, "enqueue", "idle")
  /\ IF Len(queue) < QueueDepth
     THEN queue' = Append(queue, Current(w)) /\ UNCHANGED dropped
     ELSE dropped' = dropped + 1 /\ UNCHANGED queue
  /\ Offer(Current(w))
  /\ UNCHANGED <<phase, count, file, batch, shipper, shipped>>

Take == batch' = Append(batch, Head(queue)) /\ queue' = Tail(queue)

\* ship, case e := <-r.queue.
Receive ==
  /\ phase # "down" /\ shipper = "select" /\ queue # <<>>
  /\ Take
  /\ shipper' = IF Len(batch') >= FlushBatch THEN "flush" ELSE "select"
  /\ UNCHANGED <<phase, callers, file, dropped, shipped, history>>

\* ship, case <-ticker.C: an empty batch is not pushed.
Tick ==
  /\ phase # "down" /\ shipper = "select" /\ batch # <<>>
  /\ shipper' = "flush"
  /\ UNCHANGED <<phase, callers, file, queue, batch, dropped, shipped, history>>

\* ship, case <-r.done: select may choose it with events left in the queue.
NoticeDone ==
  /\ phase = "closing" /\ shipper = "select"
  /\ shipper' = "drain"
  /\ UNCHANGED <<phase, callers, file, queue, batch, dropped, shipped, history>>

DrainOne ==
  /\ phase # "down" /\ shipper = "drain" /\ queue # <<>>
  /\ Take
  /\ UNCHANGED <<phase, callers, file, shipper, dropped, shipped, history>>

\* Mutant: ship returns as soon as the queue is empty.
DrainEndUnflushed ==
  /\ phase # "down" /\ shipper = "drain" /\ queue = <<>>
  /\ shipper' = "stopped"
  /\ UNCHANGED <<phase, callers, file, queue, batch, dropped, shipped, history>>

DrainEnd ==
  /\ phase # "down" /\ shipper = "drain" /\ queue = <<>>
  /\ shipper' = IF batch = <<>> THEN "stopped" ELSE "lastFlush"
  /\ UNCHANGED <<phase, callers, file, queue, batch, dropped, shipped, history>>

Flushed == shipper' = IF shipper = "flush" THEN "select" ELSE "stopped"

\* Mutant: a push that failed is logged and tried again with the next batch.
\* A push whose answer was lost has failed too.
FlushRetried ==
  /\ phase # "down" /\ shipper \in {"flush", "lastFlush"}
  /\ shipped' = shipped \o batch
  /\ \/ batch' = <<>> /\ UNCHANGED logged
     \/ batch' = batch /\ logged' = logged \cup In(batch)
  /\ Flushed
  /\ UNCHANGED <<phase, callers, file, queue, dropped, recorded, offered, late>>

\* Recorder.flush: the batch is given up whether Loki has taken it, has not,
\* or has and could not say so; a failure is logged and nothing else.
Flush ==
  /\ phase # "down" /\ shipper \in {"flush", "lastFlush"}
  /\ \/ shipped' = shipped \o batch /\ UNCHANGED logged
     \/ /\ MayFail("loki")
        /\ shipped' \in {shipped, shipped \o batch}
        /\ logged' = logged \cup In(batch)
  /\ batch' = <<>>
  /\ Flushed
  /\ UNCHANGED <<phase, callers, file, queue, dropped, recorded, offered, late>>

-----------------------------------------------------------------------------
(* The process.                                                              *)

\* App.Close: trail.Close closes done and waits for ship ...
CloseTrail ==
  /\ MayFail("close") /\ phase = "up"
  /\ phase' = "closing"
  /\ UNCHANGED <<callers, file, ship, history>>

\* ... and sink.Close closes the file.
CloseFile ==
  /\ phase = "closing" /\ shipper = "stopped"
  /\ phase' = "sealed"
  /\ UNCHANGED <<callers, file, ship, history>>

\* What is in memory is gone; Loki and the file stay.
Vanish ==
  /\ phase' = "down"
  /\ pc' = [w \in Writer |-> "idle"]
  /\ queue' = <<>> /\ batch' = <<>> /\ shipper' = "stopped" /\ dropped' = 0
  /\ offered' = {} /\ late' = {} /\ logged' = {}
  /\ UNCHANGED <<count, shipped, recorded>>

Exit == phase = "sealed" /\ Vanish /\ UNCHANGED file

\* A crash can cut the write of one caller short, or come between a line and
\* the return of Append.
Crash ==
  /\ MayFail("crash") /\ phase # "down"
  /\ Vanish
  /\ \/ UNCHANGED file
     \/ \E w \in Writer : /\ pc[w] = "append" /\ FileOpen
                          /\ PutLine(Current(w)) \/ PutTorn(Current(w))

\* OpenFileSink appends to what is there; New starts an empty queue.
Start ==
  /\ phase = "down"
  /\ phase' = "up" /\ shipper' = "select"
  /\ UNCHANGED <<callers, file, queue, batch, dropped, shipped, history>>

-----------------------------------------------------------------------------
Ship == Receive \/ Tick \/ NoticeDone \/ DrainOne \/ DrainEnd \/ Flush

Caller(w) == Record(w) \/ AppendLine(w) \/ AppendFails(w) \/ Enqueue(w)

Next == \/ \E w \in Writer : Caller(w)
        \/ Ship \/ CloseTrail \/ CloseFile \/ Exit \/ Crash \/ Start

Spec == Init /\ [][Next]_vars

\* The goroutine of ship is scheduled, its ticker ticks, and flush gives up on
\* Loki after shipTimeout.
LiveSpec == Spec /\ WF_vars(Ship)

-----------------------------------------------------------------------------
\* Loki never knows of an event the durable trail has not: what was shipped was
\* recorded, and what Record said was recorded is in the file.
ShippedIsDurable == In(shipped) \subseteq recorded /\ recorded \subseteq Written

\* Loki is given the events of one caller in the order they were recorded, and
\* none twice, over failed pushes, full queues and restarts.
ShippedInOrder ==
  \A i, j \in 1..Len(shipped) :
    i < j /\ shipped[i].by = shipped[j].by => shipped[i].n < shipped[j].n

\* A write that was cut short costs at most one recorded event, the next one,
\* which shares its line.
TearHidesOne ==
  Cardinality(garbled \cap recorded) <= Cardinality(garbled \ recorded)

\* The events of this process that Loki has not and will not get: once ship has
\* returned, nobody takes what is in the queue.
Coming == IF shipper = "stopped" THEN {} ELSE In(queue) \cup In(batch)
Lost   == offered \ (Coming \cup In(shipped))

\* No event is missing from Loki in silence: Recorder.Dropped counts it, or the
\* failure of its push was logged (and not counted), or it came after Close was
\* called.  Nothing is counted that Loki has, may have or will get.
LossIsReported ==
  /\ Cardinality(Lost \ (logged \cup late)) <= dropped
  /\ dropped <= Cardinality(Lost \ logged)

\* An event that made it into the queue is pushed to Loki, also when Close is called
\* the moment after, unless the process is gone first; a push may still fail.
QueuedIsShipped ==
  \A w \in Writer, n \in 1..MaxEvents : LET e == [by |-> w, n |-> n] IN
    (phase = "up" /\ e \in In(queue)) ~>
      (e \in In(shipped) \cup logged \/ phase = "down")
=============================================================================
