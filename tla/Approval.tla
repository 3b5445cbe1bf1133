------------------------------ MODULE Approval ------------------------------
(***************************************************************************)
(* Just-in-time access requests: internal/platform/approval.  Operators    *)
(* raise requests, an admin who did not raise one approves or denies it,   *)
(* its requester cancels it, and an approved request grants access until   *)
(* its grant expires.                                                      *)
(*                                                                         *)
(* Handlers run concurrently, and each reads the clock some time before    *)
(* the one statement it sends to the database: the store has a single      *)
(* connection, so the statement waits for its turn.  A call is therefore   *)
(* three steps: Begin* reads the row and the clock and makes every check,  *)
(* the write or the query runs, and the audit event is recorded.           *)
(*                                                                         *)
(* Time is counted in ticks, several to a second.  The clock has no        *)
(* coarser unit; what is stored is RFC3339 text or whole seconds, and      *)
(* loses the fraction.                                                     *)
(***************************************************************************)
EXTENDS Integers, FiniteSets

CONSTANTS User,          \* accounts of role operator and above
          Admin,         \* those of role admin
          Request,       \* request ids, never reused
          NoRequest,     \* no request
          Scope,         \* a target and a principal on it
          Caller,        \* handlers that run at the same time
          TTL,           \* grant durations users ask for, in ticks
          Second,        \* ticks in a second
          PendingWindow, \* pendingWindow, in ticks
          MaxTime        \* bound of the model: the last tick

ASSUME ApprovalAssumption ==
  /\ Admin \subseteq User
  /\ NoRequest \notin Request
  /\ TTL \subseteq Nat
  /\ Second \in Nat \ {0}
  /\ PendingWindow \in Nat
  /\ MaxTime \in Nat

VARIABLES
  now,   \* the clock
  row,   \* the access_requests table
  call,  \* the handler each caller runs
  trail  \* durable audit events

vars == <<now, row, call, trail>>

-----------------------------------------------------------------------------
\* time.RFC3339 and int64(d.Seconds()): the fraction of a second is cut off.
Stored(t) == t - (t % Second)

Decisions == {"approved", "denied", "cancelled"}
Verbs     == {"create", "grant"} \cup Decisions
Actions   == {"raised"} \cup Decisions

Times == Nat

NoRow == [state |-> "none"]
Rows  == [state : {"pending"} \cup Decisions, requester : User, scope : Scope,
          ttl : Times, expires : Times,
          decidedBy : SUBSET User, \* empty while pending
          decidedAt : Times,       \* 0 while pending
          grant : Times]           \* 0 unless approved: no grant_expires_at

Idle  == [stage |-> "idle"]
Calls == [stage : {"write", "emit", "answered"}, verb : Verbs, who : User,
          req : Request \cup {NoRequest}, scope : Scope, ttl : Times,
          at : Times]

TypeOK ==
  /\ now \in Times
  /\ row \in [Request -> {NoRow} \cup Rows]
  /\ call \in [Caller -> {Idle} \cup Calls]
  /\ trail \subseteq [action : Actions, req : Request, who : User]

Init ==
  /\ now = 0
  /\ row = [r \in Request |-> NoRow]
  /\ call = [c \in Caller |-> Idle]
  /\ trail = {}

-----------------------------------------------------------------------------
Exists(r) == row[r] # NoRow

\* Mutant: the state column is believed.
EffectiveStateColumn(r, t) == row[r].state

\* Request.effectiveState: what a reader is told the state is.
EffectiveState(r, t) ==
  IF \/ row[r].state = "pending" /\ t >= row[r].expires
     \/ row[r].state = "approved" /\ t >= row[r].grant
  THEN "expired" ELSE row[r].state

\* Request.grantsAccess.
GrantsAccess(r, t) == row[r].state = "approved" /\ t < row[r].grant

\* service.get shows a request to its requester and to admins.
MayRead(u, r) == u \in Admin \/ row[r].requester = u

\* approve and deny are routes of admins, and no one decides their own
\* request; cancel is for its requester.
MayDecide(u, r, verb) ==
  IF verb = "cancelled" THEN row[r].requester = u
                        ELSE u \in Admin /\ row[r].requester # u

Answer(c) == call' = [call EXCEPT ![c] = Idle]

-----------------------------------------------------------------------------
\* service.create up to the insert: a fresh id, the checks, the clock.  What
\* policy.Authorize and the validations refuse leaves no trace and is no step.
BeginCreate(c, u, r, s, d) ==
  /\ call[c] = Idle
  /\ ~Exists(r) /\ \A o \in Caller : call[o] # Idle => call[o].req # r
  /\ call' = [call EXCEPT ![c] = [stage |-> "write", verb |-> "create",
                                  who |-> u, req |-> r, scope |-> s,
                                  ttl |-> d, at |-> now]]
  /\ UNCHANGED <<now, row, trail>>

\* service.decide and service.cancel up to the UPDATE.
BeginDecide(c, u, r, verb) ==
  /\ call[c] = Idle
  /\ Exists(r) /\ MayRead(u, r) /\ MayDecide(u, r, verb)
  /\ EffectiveState(r, now) = "pending"
  /\ call' = [call EXCEPT ![c] = [stage |-> "write", verb |-> verb,
                                  who |-> u, req |-> r, scope |-> row[r].scope,
                                  ttl |-> row[r].ttl, at |-> now]]
  /\ UNCHANGED <<now, row, trail>>

\* service.grant up to the SELECT: whether user u may enter s right now.
BeginGrant(c, u, s) ==
  /\ call[c] = Idle
  /\ call' = [call EXCEPT ![c] = [stage |-> "write", verb |-> "grant",
                                  who |-> u, req |-> NoRequest, scope |-> s,
                                  ttl |-> 0, at |-> now]]
  /\ UNCHANGED <<now, row, trail>>

\* Running(c, verbs): c waits for the database with one of these verbs.
Running(c, verbs) == call[c] # Idle /\ call[c].stage = "write"
                                    /\ call[c].verb \in verbs

\* repository.insert.
Insert(c) ==
  /\ Running(c, {"create"})
  /\ row' = [row EXCEPT ![call[c].req] =
               [state |-> "pending", requester |-> call[c].who,
                scope |-> call[c].scope, ttl |-> Stored(call[c].ttl),
                expires |-> Stored(call[c].at + PendingWindow),
                decidedBy |-> {}, decidedAt |-> 0, grant |-> 0]]
  /\ call' = [call EXCEPT ![c].stage = "emit"]
  /\ UNCHANGED <<now, trail>>

\* The end of the grant an approval gives.
GrantUntil(c) ==
  IF call[c].verb = "approved" THEN Stored(call[c].at + call[c].ttl) ELSE 0

\* The row a decision writes.
Decided(c) ==
  [row[call[c].req] EXCEPT !.state = call[c].verb,
                           !.decidedBy = {call[c].who},
                           !.decidedAt = Stored(call[c].at),
                           !.grant = GrantUntil(c)]

\* Mutant: the UPDATE without AND state = 'pending'.
UpdateBlind(c) ==
  /\ Running(c, Decisions)
  /\ row' = [row EXCEPT ![call[c].req] = Decided(c)]
  /\ call' = [call EXCEPT ![c].stage = "emit"]
  /\ UNCHANGED <<now, trail>>

\* Mutant: the number of rows the UPDATE changed is not looked at.
UpdateUncounted(c) ==
  /\ Running(c, Decisions)
  /\ row' = IF row[call[c].req].state = "pending"
            THEN [row EXCEPT ![call[c].req] = Decided(c)] ELSE row
  /\ call' = [call EXCEPT ![c].stage = "emit"]
  /\ UNCHANGED <<now, trail>>

\* repository.decide: UPDATE ... WHERE state = 'pending'.  One that changed no
\* row is answered not_pending, without an event.
Update(c) ==
  /\ Running(c, Decisions)
  /\ \/ /\ row[call[c].req].state = "pending"
        /\ row' = [row EXCEPT ![call[c].req] = Decided(c)]
        /\ call' = [call EXCEPT ![c].stage = "emit"]
     \/ /\ row[call[c].req].state # "pending"
        /\ Answer(c)
        /\ UNCHANGED row
  /\ UNCHANGED <<now, trail>>

\* authz.Emit of request.raised and of the event a decision leaves.
Emit(c) ==
  /\ call[c] # Idle /\ call[c].stage = "emit"
  /\ trail' = trail \cup
       {[action |-> IF call[c].verb = "create" THEN "raised" ELSE call[c].verb,
         req |-> call[c].req, who |-> call[c].who]}
  /\ Answer(c)
  /\ UNCHANGED <<now, row>>

\* The rows the WHERE of repository.activeGrant keeps: grant_expires_at is
\* compared, as text, with a clock that has lost its fraction.
Matching(c) == {r \in Request :
  /\ Exists(r) /\ row[r].state = "approved"
  /\ row[r].requester = call[c].who /\ row[r].scope = call[c].scope
  /\ row[r].grant > Stored(call[c].at)}

\* Mutant: ORDER BY grant_expires_at without DESC.
FoundShortest(c, r) == \A o \in Matching(c) : row[r].grant <= row[o].grant

\* ORDER BY grant_expires_at DESC LIMIT 1.
Found(c, r) == \A o \in Matching(c) : row[r].grant >= row[o].grant

\* service.grant from the query on: the row found is checked again in Go.
Lookup(c) ==
  /\ Running(c, {"grant"})
  /\ \/ /\ \A r \in Matching(c) : ~GrantsAccess(r, call[c].at)
        /\ call' = [call EXCEPT ![c].stage = "answered", ![c].req = NoRequest]
     \/ \E r \in Matching(c) :
          /\ Found(c, r) /\ GrantsAccess(r, call[c].at)
          /\ call' = [call EXCEPT ![c].stage = "answered", ![c].req = r]
  /\ UNCHANGED <<now, row, trail>>

\* The answer of a grant query reaches the one who asked.
Return(c) ==
  /\ call[c] # Idle /\ call[c].stage = "answered"
  /\ Answer(c)
  /\ UNCHANGED <<now, row, trail>>

\* The database refuses a statement, its context having been cancelled by a
\* client that left for one; or the event could not be recorded, which Emit
\* only logs.
Fail(c) ==
  /\ call[c] # Idle
  /\ Answer(c)
  /\ UNCHANGED <<now, row, trail>>

\* The process dies and starts again: rows and events are durable.
Crash ==
  /\ \E c \in Caller : call[c] # Idle
  /\ call' = [c \in Caller |-> Idle]
  /\ UNCHANGED <<now, row, trail>>

Tick ==
  /\ now < MaxTime
  /\ now' = now + 1
  /\ UNCHANGED <<row, call, trail>>

Step(c) ==
  \/ \E u \in User, r \in Request, s \in Scope, d \in TTL :
       BeginCreate(c, u, r, s, d)
  \/ \E u \in User, r \in Request, verb \in Decisions : BeginDecide(c, u, r, verb)
  \/ \E u \in User, s \in Scope : BeginGrant(c, u, s)
  \/ Insert(c) \/ Update(c) \/ Emit(c) \/ Lookup(c) \/ Return(c) \/ Fail(c)

Next == Tick \/ Crash \/ \E c \in Caller : Step(c)

Spec == Init /\ [][Next]_vars

-----------------------------------------------------------------------------
\* Who decided, when, and for how long: a request is approved or denied by an
\* admin who did not raise it and cancelled by the one who did, on a clock read
\* before its window closed, and an approval grants exactly the seconds the
\* request stored, from the decision on.  All of it was checked on a row and a
\* clock read before the UPDATE, which only checks that the row is pending.
DecisionIsWarranted ==
  \A r \in Request : Exists(r) /\ row[r].state # "pending" =>
    /\ \E u \in User :
         /\ row[r].decidedBy = {u}
         /\ IF row[r].state = "cancelled" THEN u = row[r].requester
            ELSE u \in Admin /\ u # row[r].requester
    /\ row[r].decidedAt < row[r].expires
    /\ row[r].state = "approved" =>
         row[r].grant = row[r].decidedAt + row[r].ttl

\* The trail and the table agree: of two handlers that decide one request
\* concurrently only the one that changed the row leaves an event, and the
\* event names the decision and the account the row holds.
EventsMatchRows ==
  \A e \in trail :
    /\ Exists(e.req)
    /\ IF e.action = "raised" THEN e.who = row[e.req].requester
       ELSE /\ row[e.req].state = e.action
            /\ row[e.req].decidedBy = {e.who}

\* A request is decided once: approve, deny and cancel that race, each having
\* read a pending row, cannot undo one another or move the end of a grant.
DecidedOnce ==
  [][\A r \in Request : Exists(r) /\ row[r].state # "pending" => row'[r] = row[r]]_vars

\* r gives the user and scope c asks about access at the instant c asks for.
Covers(c, r) ==
  /\ Exists(r) /\ GrantsAccess(r, call[c].at)
  /\ row[r].requester = call[c].who
  /\ row[r].scope = call[c].scope

\* A step that answers the grant query of c.
Answers(c) == Running(c, {"grant"}) /\ call'[c] # Idle
                                    /\ call'[c].stage = "answered"

BestAnswer(c) ==
  \/ call'[c].req = NoRequest /\ \A r \in Request : ~Covers(c, r)
  \/ /\ call'[c].req \in Request
     /\ Covers(c, call'[c].req)
     /\ \A r \in Request : Covers(c, r) => row[r].grant <= row[call'[c].req].grant

\* A grant query, asked at an instant, is answered with a request whose grant
\* covers that instant whenever there is one, and with the longest of them: a
\* longer approval is not shadowed by a shorter one, and cutting the clock to
\* seconds in the query neither hides a live grant nor revives an expired one.
LongestGrantAnswers == [][\A c \in Caller : Answers(c) => BestAnswer(c)]_vars
=============================================================================
