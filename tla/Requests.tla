------------------------------ MODULE Requests ------------------------------
(***************************************************************************)
(* Requests to the HTTP API, each a handler in a goroutine of its own with *)
(* a time limit around it (httpx.Timeout over http.TimeoutHandler), and    *)
(* SSH sessions, which have none, share the one connection of the store    *)
(* (SetMaxOpenConns(1)).  What a caller does is a program of Handlers.     *)
(*                                                                         *)
(* A handler writes to a buffer.  The client gets the buffer if the        *)
(* handler is done in time, and 503 otherwise: the handler then runs on,   *)
(* with a context that is over, for nobody.                                *)
(***************************************************************************)
EXTENDS Handlers, FiniteSets

CONSTANTS
  Request, Session, \* slots for callers, each used again and again
  Asks, Uses,       \* the programs that each request and session may run
  Nobody            \* no caller

Caller == Request \cup Session

PanicCode == 1
Timeout   == 503
Success   == 200..299
Refused   == 400..499

Operation == [do : {"take", "use", "free", "commit", "check", "tell", "answer"},
              codes : SUBSET Nat, deny : BOOLEAN]

Changes(p) == \E i \in DOMAIN p : p[i].do = "commit"
Tells(p)   == \E i \in DOMAIN p : p[i].do = "tell"

\* Whether a program changes the store, and whether it goes back to it afterwards.
Kind(p) ==
  CASE \E i, j \in DOMAIN p : i < j /\ p[i].do = "commit" /\ p[j].do = "take" -> "rereads"
    [] Changes(p) /\ \A i, j \in DOMAIN p :
         i < j /\ p[i].do = "commit" => p[j].do # "take" -> "changes"
    [] OTHER -> "reads"

\* The shape of every program.  What is done on the connection comes right after it was
\* taken, and the next of it, or the end of it, right after that.
OnIt == {"use", "free", "commit"}
Balanced(p) == \A i \in DOMAIN p :
  /\ p[i].do \in {"take", "use"} <=> i + 1 \in DOMAIN p /\ p[i + 1].do \in OnIt
  /\ i = 1 => p[i].do \notin OnIt

\* The shape of what is left of a request of kind k, its change made or not, its event
\* recorded or not: it ends in a success and nothing else is one; at most one change, and
\* no event before it; denials before it; and after it no refusal any more, but for a
\* row that is gone when it is read again.
EndsWell(q) == \A i \in DOMAIN q :
  /\ q[i].do = "answer" <=> i = Len(q)
  /\ q[i].codes \subseteq IF q[i].do = "answer" THEN Success
                         ELSE Refused \cup {Internal, Timeout}
Due(q, k, made, said) ==
  IF k = "reads" THEN ~Changes(q) /\ ~made
                 ELSE (made <=> ~Changes(q)) /\ (said \/ Tells(q))
ChangesFirst(q) == \A i, j \in DOMAIN q :
  q[i].do = "commit" /\ q[j].do \in {"commit", "tell"} => i <= j
DeniesFirst(q, made) == \A i \in DOMAIN q : q[i].deny =>
  /\ ~made /\ q[i].do \notin {"commit", "answer"} /\ Timeout \notin q[i].codes
  /\ \A j \in DOMAIN q : q[j].do = "commit" => i < j
RefusesFirst(q, k, made) == \A i \in DOMAIN q :
  q[i].do # "answer" /\ (made \/ \E j \in DOMAIN q : j < i /\ q[j].do = "commit") =>
    q[i].codes \subseteq IF k = "rereads" THEN {404, Internal} ELSE {}

Orderly(q, k, made, said) ==
  /\ EndsWell(q) /\ Due(q, k, made, said) /\ ChangesFirst(q)
  /\ DeniesFirst(q, made) /\ RefusesFirst(q, k, made)

ASSUME RequestsAssumption ==
  /\ Request \cap Session = {} /\ Nobody \notin Caller
  /\ Asks \in [Request -> SUBSET Seq(Operation)] /\ Uses \in [Session -> SUBSET Seq(Operation)]
  /\ \A r \in Request : \A p \in Asks[r] :
       p # <<>> /\ Balanced(p) /\ Orderly(p, Kind(p), FALSE, FALSE)
  /\ \A s \in Session : \A p \in Uses[s] :
       Balanced(p) /\ \A i \in DOMAIN p : p[i].do \notin {"answer", "tell"} /\ ~p[i].deny

VARIABLES
  up,      \* whether the process runs
  program, \* what is left of the program of each caller
  holder,  \* the caller that holds the connection
  outer,   \* whether a request is being served or has been answered
  over,    \* requests whose context is over: timed out, or the client left
  code,    \* the status in the buffer, 0 without one; PanicCode for a panic
  answer,  \* the status that the client got, 0 without one
  logged,  \* the status in the access log, 0 without one
  told,    \* its event: "none", "done", "denied", or "unwritten" with an error in the log
  kind,    \* history: whether the program changes the store, and reads after
  changed, \* history: requests whose change was made
  grip     \* history: requests that held the connection when their time ran out

buffer  == <<code, told>>
client  == <<outer, answer, logged>>
history == <<kind, changed, grip>>
vars == <<up, program, holder, over, buffer, client, history>>

-----------------------------------------------------------------------------
TypeOK ==
  /\ up \in BOOLEAN
  /\ program \in [Caller -> Seq(Operation)]
  /\ holder \in Caller \cup {Nobody}
  /\ outer \in [Request -> {"idle", "served", "answered"}] /\ over \subseteq Request
  /\ code \in [Request -> Nat] /\ answer \in [Request -> Nat] /\ logged \in [Request -> Nat]
  /\ told \in [Request -> {"none", "done", "denied", "unwritten"}]
  /\ kind \in [Request -> {"reads", "changes", "rereads"}]
  /\ changed \subseteq Request /\ grip \subseteq Request

Init ==
  /\ up = TRUE /\ holder = Nobody /\ over = {}
  /\ program = [c \in Caller |-> <<>>]
  /\ outer = [r \in Request |-> "idle"]
  /\ code = [r \in Request |-> 0] /\ answer = [r \in Request |-> 0]
  /\ logged = [r \in Request |-> 0]
  /\ told = [r \in Request |-> "none"] /\ kind = [r \in Request |-> "reads"]
  /\ changed = {} /\ grip = {}

-----------------------------------------------------------------------------
(* Callers.                                                                *)

Arrive(r) == \E p \in Asks[r] :
  /\ up /\ outer[r] = "idle"
  /\ program' = [program EXCEPT ![r] = p]
  /\ kind' = [kind EXCEPT ![r] = Kind(p)]
  /\ outer' = [outer EXCEPT ![r] = "served"]
  /\ UNCHANGED <<up, holder, over, buffer, answer, logged, changed, grip>>

\* A connection or a session that is open goes on until the process exits.
Use(s) == \E p \in Uses[s] :
  /\ up /\ program[s] = <<>>
  /\ program' = [program EXCEPT ![s] = p]
  /\ UNCHANGED <<up, holder, over, buffer, client, history>>

Next1(c) == Head(program[c])
At(c, do) == program[c] # <<>> /\ Next1(c).do = do
Advance(c) == program' = [program EXCEPT ![c] = Tail(@)]

\* Mutant: the transaction is never committed, and the deferred Rollback undoes it.
CommitForgotten(c) ==
  /\ At(c, "commit") /\ holder' = Nobody /\ Advance(c)
  /\ UNCHANGED <<up, over, buffer, client, history>>

\* Mutant: the statement is given context.Background().
AcquireWithoutContext(c) ==
  /\ At(c, "take") /\ holder = Nobody
  /\ holder' = c /\ Advance(c)
  /\ UNCHANGED <<up, over, buffer, client, history>>

Acquire(c) ==
  /\ At(c, "take") /\ holder = Nobody /\ c \notin over
  /\ holder' = c /\ Advance(c)
  /\ UNCHANGED <<up, over, buffer, client, history>>

Go(c) ==
  /\ At(c, "use") \/ At(c, "check")
  /\ Advance(c)
  /\ UNCHANGED <<up, holder, over, buffer, client, history>>

Free(c) ==
  /\ At(c, "free") /\ holder' = Nobody /\ Advance(c)
  /\ UNCHANGED <<up, over, buffer, client, history>>

Commit(c) ==
  /\ At(c, "commit") /\ holder' = Nobody /\ Advance(c)
  /\ changed' = changed \cup ({c} \cap Request)
  /\ UNCHANGED <<up, over, buffer, client, kind, grip>>

\* authz.Emit does not look at the context, and never fails the request: that an event
\* could not be written or synced only the gateway's own log says.
Emit(r) ==
  /\ At(r, "tell") /\ Advance(r)
  /\ \E t \in {"done", "unwritten"} : told' = [told EXCEPT ![r] = t]
  /\ UNCHANGED <<up, holder, over, code, client, history>>

Write(r) ==
  /\ At(r, "answer") /\ Advance(r)
  /\ \E s \in Next1(r).codes : code' = [code EXCEPT ![r] = s]
  /\ UNCHANGED <<up, holder, over, told, client, history>>

\* Mutant: rows or a transaction are not closed on the way out.
LeaveOpen(c) == program' = [program EXCEPT ![c] = <<>>] /\ UNCHANGED holder

\* The deferred Rollback or Close, and the end of the handler.
Leave(c) ==
  /\ program' = [program EXCEPT ![c] = <<>>]
  /\ holder' = IF holder = c THEN Nobody ELSE holder

\* Mutant: an error is logged, and the handler goes on.
FailUnchecked(c) ==
  /\ program[c] # <<>> /\ Next1(c).do # "answer" /\ Next1(c).codes # {}
  /\ Advance(c)
  /\ holder' = IF holder = c /\ Next1(c).do \in {"free", "commit"} THEN Nobody ELSE holder
  /\ UNCHANGED <<up, over, buffer, client, history>>

\* An operation refuses, or fails; a wait for the connection ends with its context.  A
\* statement that is cut off by it may have been carried out all the same.
Fail(c) ==
  /\ program[c] # <<>> /\ Next1(c).do # "answer"
  /\ Next1(c).do = "take" => holder = Nobody \/ c \in over
  /\ \E s \in Next1(c).codes :
       /\ code' = IF c \in Request THEN [code EXCEPT ![c] = s] ELSE code
       /\ \/ UNCHANGED changed
          \/ /\ Next1(c).do = "commit" /\ s = Internal /\ c \in over
             /\ changed' = changed \cup {c}
  /\ IF Next1(c).deny
     THEN \E t \in {"denied", "unwritten"} : told' = [told EXCEPT ![c] = t]
     ELSE UNCHANGED told
  /\ Leave(c)
  /\ UNCHANGED <<up, over, client, kind, grip>>

Panic(r) ==
  /\ program[r] # <<>> /\ Leave(r)
  /\ code' = [code EXCEPT ![r] = PanicCode]
  /\ UNCHANGED <<up, over, told, client, history>>

-----------------------------------------------------------------------------
(* Around the handler.                                                     *)

\* The timer runs out, or the client goes away.
Expire(r) ==
  /\ up /\ outer[r] = "served" /\ r \notin over
  /\ over' = over \cup {r}
  /\ grip' = IF holder = r THEN grip \cup {r} ELSE grip
  /\ UNCHANGED <<up, program, holder, buffer, client, kind, changed>>

\* TimeoutHandler stops waiting: what the handler writes from now on is dropped.
GiveUp(r) ==
  /\ up /\ outer[r] = "served" /\ r \in over
  /\ outer' = [outer EXCEPT ![r] = "answered"]
  /\ answer' = [answer EXCEPT ![r] = Timeout]
  /\ logged' = [logged EXCEPT ![r] = Timeout]
  /\ UNCHANGED <<up, program, holder, over, buffer, history>>

\* The handler is done, and its buffer is sent.
Deliver(r) ==
  /\ up /\ outer[r] = "served" /\ code[r] \notin {0, PanicCode}
  /\ outer' = [outer EXCEPT ![r] = "answered"]
  /\ answer' = [answer EXCEPT ![r] = code[r]]
  /\ logged' = [logged EXCEPT ![r] = code[r]]
  /\ UNCHANGED <<up, program, holder, over, buffer, history>>

\* The panic is raised again here: it passes AccessLog by, and Recover answers.
RecoverPanic(r) ==
  /\ up /\ outer[r] = "served" /\ code[r] = PanicCode
  /\ outer' = [outer EXCEPT ![r] = "answered"]
  /\ answer' = [answer EXCEPT ![r] = Internal]
  /\ UNCHANGED <<up, program, holder, over, buffer, logged, history>>

\* Answered, and the handler over: another request may come.
Part(r) ==
  /\ up /\ outer[r] = "answered" /\ program[r] = <<>>
  /\ outer' = [outer EXCEPT ![r] = "idle"]
  /\ code' = [code EXCEPT ![r] = 0] /\ answer' = [answer EXCEPT ![r] = 0]
  /\ logged' = [logged EXCEPT ![r] = 0] /\ told' = [told EXCEPT ![r] = "none"]
  /\ kind' = [kind EXCEPT ![r] = "reads"]
  /\ over' = over \ {r} /\ changed' = changed \ {r} /\ grip' = grip \ {r}
  /\ UNCHANGED <<up, program, holder>>

-----------------------------------------------------------------------------
(* The process.                                                            *)

\* A stop lets no request in any more, which is no step: none has to come.  In the end
\* Shutdown has waited or given up, or the process dies: every goroutine is gone.
Halt ==
  /\ up /\ up' = FALSE
  /\ program' = [c \in Caller |-> <<>>] /\ holder' = Nobody
  /\ UNCHANGED <<over, buffer, client, history>>

-----------------------------------------------------------------------------
Run(c) ==
  \/ Go(c) \/ Free(c) \/ Commit(c) \/ Fail(c)
  \/ c \in Request /\ (Emit(c) \/ Write(c))
Reply(r) == GiveUp(r) \/ Deliver(r) \/ RecoverPanic(r)

Next ==
  \/ \E c \in Caller : Acquire(c) \/ Run(c)
  \/ \E r \in Request : Arrive(r) \/ Panic(r) \/ Expire(r) \/ Reply(r) \/ Part(r)
  \/ \E s \in Session : Use(s)
  \/ Halt

\* A goroutine that can run does, and the connection, which is given to the waiters in
\* any order, is in the end given to each; the arrivals, the timers, the panics and the
\* stop happen or not.
Fairness ==
  /\ \A c \in Caller : SF_vars(Acquire(c)) /\ WF_vars(Run(c))
  /\ \A r \in Request : WF_vars(Reply(r))

Spec == Init /\ [][Next]_vars /\ Fairness

-----------------------------------------------------------------------------
\* What the client is told is true.  After a success everything the request changes
\* is in the store, and recorded in the trail unless the log says that it could not be;
\* after a refusal nothing was changed, but for a pin whose target was deleted before
\* it was read again; and the access log has the status that the client got (Wrap,
\* Timeout, AccessLog, Emit, the handlers).
AnswerIsTrue == \A r \in Request :
  /\ answer[r] \in Success /\ kind[r] # "reads" =>
       r \in changed /\ told[r] \in {"done", "unwritten"}
  /\ answer[r] \in Refused /\ r \in changed => kind[r] = "rereads" /\ answer[r] = 404
  /\ logged[r] \in {0, answer[r]}
  /\ answer[r] # 0 /\ logged[r] = 0 => answer[r] = Internal

\* The trail and the store agree: what is recorded as done was done, a denial did
\* nothing, an event that could not be written is of a change or of a denial, and a
\* change whose handler is over is recorded or known to the log, unless the handler was
\* cut off, by its time, by a panic or by an error after it, or the process went down.
RecordsAgree == \A r \in Request :
  /\ told[r] = "done" /\ kind[r] # "reads" => r \in changed
  /\ told[r] = "denied" => r \notin changed /\ code[r] \in Refused \cup {Internal}
  /\ told[r] = "unwritten" /\ kind[r] # "reads" /\ r \notin changed =>
       code[r] \in Refused \cup {Internal}
  /\ r \in changed /\ program[r] = <<>> /\ told[r] = "none" =>
       \/ ~up \/ code[r] = PanicCode
       \/ r \in over /\ code[r] = Internal
       \/ kind[r] = "rereads" /\ code[r] \in {404, Internal}

\* A request that has run out of time, with the identity it was let in under, changes
\* nothing any more, unless it holds the connection by then: however long the others
\* keep a handler waiting, it is not carried out late (Timeout, Require).
NoLateChange ==
  [][\A r \in Request : r \in changed' \ changed /\ r \in over => r \in grip]_vars

\* Whoever runs a program comes to its end and every request is answered, unless
\* the process goes down: nobody waits for the connection forever, also sessions,
\* which have no deadline, and nobody keeps it (Open, the repositories).
Busy(c) == program[c] # <<>> \/ (c \in Request /\ outer[c] = "served" /\ up)
EverybodyIsServed == \A c \in Caller : Busy(c) ~> ~Busy(c)
=============================================================================
