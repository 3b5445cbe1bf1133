-------------------------- MODULE SessionLifecycle --------------------------
(***************************************************************************)
(* One SSH session of the gateway from its channel being accepted to its   *)
(* row being closed: internal/dataplane/sshd (session.go, registry.go,     *)
(* recorder.go), the session rows of internal/platform/session, the admin  *)
(* kill switch, and the process the whole runs in (internal/app), which    *)
(* may be stopped, may crash, and reconciles the rows when it starts.      *)
(*                                                                         *)
(* pc[s] is where the goroutine of session s stands in serveSession, proxy *)
(* and pump; each state is named for the call that comes next.  Whether    *)
(* the caller may open the session (resolve) is a choice here.             *)
(***************************************************************************)
EXTENDS Naturals, FiniteSets

CONSTANTS Session,    \* ids of sessions: ids.New never returns one twice
          Admin,      \* concurrent requests to the kill endpoint
          NoSession,  \* no session id
          Faults,     \* which calls may fail, see FaultKind
          ObjectStore \* whether recordings are uploaded (Server.recordings # nil)

FaultKind == {"recorder", \* opening or writing the recording file
              "insert",   \* the INSERT of a session row
              "finish",   \* the UPDATE that closes it
              "target",   \* the target refuses a dial, a channel or a start
              "upload",   \* the object store refuses
              "trail",    \* the audit file cannot be appended to
              "stop",     \* SIGTERM: the context of the process is cancelled
              "crash"}    \* the process is gone between any two steps

ASSUME SessionAssumption == NoSession \notin Session
ASSUME FaultsAssumption == Faults \subseteq FaultKind
ASSUME ObjectStoreAssumption == ObjectStore \in BOOLEAN

VARIABLES
  gateway,    \* "running", "stopping" (context cancelled) or "down"
  pc,         \* program counter of each session's goroutine
  row,        \* "none", "open", "ended" by finish, "restarted" by closeDangling
  live,       \* the registry: ids whose CancelFunc can be called
  cancelled,  \* sessions whose CancelFunc the registry has called
  rec,        \* the recording file: "none", "open", "closed"
  target,     \* "none", "connected", "running", "exited", "closed"
  copiers,    \* the goroutines of pump that still copy
  user,       \* the client at the other end of the channel: "here" or "gone"
  shown,      \* sessions with output on the channel and not yet in the recording
  unrecorded, \* sessions whose user was shown output the recording lacks
  stored,     \* recordings in the object store
  trail,      \* durable audit events, <<action, session>>
  kill        \* the kill request each admin has in flight

vars == <<gateway, pc, row, live, cancelled, rec, target, copiers, user,
          shown, unrecorded, stored, trail, kill>>

-----------------------------------------------------------------------------
Events == {"session.refused", "session.opened", "session.closed",
           "recording.stored", "recording.not_stored",
           "session.killed closed=true", "session.killed closed=false"}

\* Before the registry holds the session, while it does, and after.
Early  == {"idle", "refused", "awaitRefused", "await", "recorder", "insert",
           "register"}
InRegistry == {"dial", "newSession", "abandon", "opened", "begin", "select",
               "drain", "closeRec", "finish", "store", "auditStored",
               "auditNotStored", "auditClosed", "leave"}
Over   == {"done", "dead"}
States == Early \cup InRegistry \cup Over

\* The states in which the row has been inserted and finish not yet called.
Listed == {"register", "dial", "newSession", "abandon", "opened", "begin",
           "select", "drain", "closeRec", "finish"}

\* From newRecorder to rec.Close on the path that reaches pump.
Recording == {"insert", "register", "dial", "newSession", "abandon", "opened",
              "begin", "select", "drain", "closeRec"}

NoKill == [pc |-> "idle", sid |-> NoSession, closed |-> "false"]
KillStates == {NoKill} \cup
              [pc : {"found", "emit"}, sid : Session, closed : {"true", "false"}]

TypeOK ==
  /\ gateway \in {"running", "stopping", "down"}
  /\ pc \in [Session -> States]
  /\ row \in [Session -> {"none", "open", "ended", "restarted"}]
  /\ live \subseteq Session
  /\ cancelled \subseteq Session
  /\ rec \in [Session -> {"none", "open", "closed"}]
  /\ target \in [Session -> {"none", "connected", "running", "exited", "closed"}]
  /\ copiers \in [Session -> SUBSET {"stdin", "output"}]
  /\ user \in [Session -> {"here", "gone"}]
  /\ shown \subseteq Session
  /\ unrecorded \subseteq Session
  /\ stored \subseteq Session
  /\ trail \subseteq Events \X Session
  /\ kill \in [Admin -> KillStates]

Init ==
  /\ gateway = "running"
  /\ pc = [s \in Session |-> "idle"]
  /\ row = [s \in Session |-> "none"]
  /\ live = {}
  /\ cancelled = {}
  /\ rec = [s \in Session |-> "none"]
  /\ target = [s \in Session |-> "none"]
  /\ copiers = [s \in Session |-> {}]
  /\ user = [s \in Session |-> "here"]
  /\ shown = {}
  /\ unrecorded = {}
  /\ stored = {}
  /\ trail = {}
  /\ kill = [a \in Admin |-> NoKill]

-----------------------------------------------------------------------------
MayFail(f) == f \in Faults

Up == gateway # "down"

\* Every database call takes the server's context, and database/sql refuses
\* to run one whose context is done.
CtxDone == gateway = "stopping"

\* Mutant: pump is handed the server's context instead of the session's.
ServerCtxDone(s) == CtxDone

\* The context of one session: its parent's, or its own CancelFunc was called.
SessionCtxDone(s) == CtxDone \/ s \in cancelled

Goto(s, from, to) == /\ Up
                     /\ pc[s] = from
                     /\ pc' = [pc EXCEPT ![s] = to]

\* Server.audit: a failed append is logged and the session goes on.
Audit(e, s) == \/ trail' = trail \cup {<<e, s>>}
               \/ MayFail("trail") /\ UNCHANGED trail

\* The close of a session row: UPDATE ... WHERE ended_at IS NULL, and an
\* error that finish only logs.
FinishRow(s) ==
  \/ /\ ~CtxDone
     /\ row' = [row EXCEPT ![s] = IF @ = "open" THEN "ended" ELSE @]
  \/ /\ CtxDone \/ MayFail("finish")
     /\ UNCHANGED row

-----------------------------------------------------------------------------
(* serveSession: resolve, then wait for the client to ask for a shell.     *)

Resolve(s) ==
  /\ \/ ~CtxDone /\ Goto(s, "idle", "await")
     \/ Goto(s, "idle", "refused")
  /\ UNCHANGED <<gateway, row, live, cancelled, rec, target, copiers, user,
                 shown, unrecorded, stored, trail, kill>>

RecordRefusal(s) ==
  /\ Goto(s, "refused", "awaitRefused")
  /\ Audit("session.refused", s)
  /\ UNCHANGED <<gateway, row, live, cancelled, rec, target, copiers, user,
                 shown, unrecorded, stored, kill>>

\* A shell or exec request arrives; a refused caller is told so and is done.
StartRequested(s) ==
  /\ user[s] = "here"
  /\ \/ Goto(s, "await", "recorder")
     \/ Goto(s, "awaitRefused", "done")
  /\ UNCHANGED <<gateway, row, live, cancelled, rec, target, copiers, user,
                 shown, unrecorded, stored, trail, kill>>

\* The channel is closed, or startTimeout passes first.
NeverStarts(s) ==
  /\ Goto(s, "await", "done") \/ Goto(s, "awaitRefused", "done")
  /\ UNCHANGED <<gateway, row, live, cancelled, rec, target, copiers, user,
                 shown, unrecorded, stored, trail, kill>>

-----------------------------------------------------------------------------
(* proxy, up to pump.                                                      *)

OpenRecording(s) ==
  /\ \/ /\ Goto(s, "recorder", "insert")
        /\ rec' = [rec EXCEPT ![s] = "open"]
     \/ /\ MayFail("recorder")
        /\ Goto(s, "recorder", "done")
        /\ UNCHANGED rec
  /\ UNCHANGED <<gateway, row, live, cancelled, target, copiers, user,
                 shown, unrecorded, stored, trail, kill>>

\* Mutant: an insert that failed is logged and the session goes on.
InsertRowBestEffort(s) ==
  /\ Goto(s, "insert", "register")
  /\ \/ ~CtxDone /\ row' = [row EXCEPT ![s] = "open"]
     \/ (CtxDone \/ MayFail("insert")) /\ UNCHANGED row
  /\ UNCHANGED <<gateway, live, cancelled, rec, target, copiers, user,
                 shown, unrecorded, stored, trail, kill>>

\* openSession; on an error the deferred rec.Close runs.
InsertRow(s) ==
  /\ \/ /\ ~CtxDone
        /\ Goto(s, "insert", "register")
        /\ row' = [row EXCEPT ![s] = "open"]
        /\ UNCHANGED rec
     \/ /\ CtxDone \/ MayFail("insert")
        /\ Goto(s, "insert", "done")
        /\ rec' = [rec EXCEPT ![s] = "closed"]
        /\ UNCHANGED row
  /\ UNCHANGED <<gateway, live, cancelled, target, copiers, user,
                 shown, unrecorded, stored, trail, kill>>

\* Mutant: live.add is forgotten.
RegisterForgotten(s) ==
  /\ Goto(s, "register", "dial")
  /\ UNCHANGED <<gateway, row, live, cancelled, rec, target, copiers, user,
                 shown, unrecorded, stored, trail, kill>>

Register(s) ==
  /\ Goto(s, "register", "dial")
  /\ live' = live \cup {s}
  /\ UNCHANGED <<gateway, row, cancelled, rec, target, copiers, user,
                 shown, unrecorded, stored, trail, kill>>

\* ssh.Dial is not given the context, so a cancelled session still dials.
Dial(s) ==
  /\ \/ /\ Goto(s, "dial", "newSession")
        /\ target' = [target EXCEPT ![s] = "connected"]
     \/ /\ MayFail("target")
        /\ Goto(s, "dial", "abandon")
        /\ UNCHANGED target
  /\ UNCHANGED <<gateway, row, live, cancelled, rec, copiers, user,
                 shown, unrecorded, stored, trail, kill>>

NewSession(s) ==
  /\ \/ Goto(s, "newSession", "opened")
     \/ MayFail("target") /\ Goto(s, "newSession", "abandon")
  /\ UNCHANGED <<gateway, row, live, cancelled, rec, target, copiers, user,
                 shown, unrecorded, stored, trail, kill>>

\* Mutant: the early return of a failed dial forgets the row.
AbandonUnfinished(s) ==
  /\ Goto(s, "abandon", "leave")
  /\ UNCHANGED <<gateway, row, live, cancelled, rec, target, copiers, user,
                 shown, unrecorded, stored, trail, kill>>

\* A dial or a channel that failed: the row is closed and proxy returns.
Abandon(s) ==
  /\ Goto(s, "abandon", "leave")
  /\ FinishRow(s)
  /\ UNCHANGED <<gateway, live, cancelled, rec, target, copiers, user,
                 shown, unrecorded, stored, trail, kill>>

RecordOpened(s) ==
  /\ Goto(s, "opened", "begin")
  /\ Audit("session.opened", s)
  /\ UNCHANGED <<gateway, row, live, cancelled, rec, target, copiers, user,
                 shown, unrecorded, stored, kill>>

-----------------------------------------------------------------------------
(* pump: the shell, the copiers, and the two ways out of the select.       *)

\* The pty, the pipes, and begin: nothing here looks at the context.
Begin(s) ==
  /\ \/ /\ Goto(s, "begin", "select")
        /\ target' = [target EXCEPT ![s] = "running"]
        /\ copiers' = [copiers EXCEPT ![s] = {"stdin", "output"}]
     \/ /\ MayFail("target")
        /\ Goto(s, "begin", "closeRec")
        /\ UNCHANGED <<target, copiers>>
  /\ UNCHANGED <<gateway, row, live, cancelled, rec, user,
                 shown, unrecorded, stored, trail, kill>>

\* Mutant: pump returns without wg.Wait().
SelectExitedNoWait(s) ==
  /\ Goto(s, "select", "closeRec")
  /\ target[s] = "exited"
  /\ UNCHANGED <<gateway, row, live, cancelled, rec, target, copiers, user,
                 shown, unrecorded, stored, trail, kill>>

\* case <-done: the target's session ended, and wg.Wait() comes next.
SelectExited(s) ==
  /\ Goto(s, "select", "drain")
  /\ target[s] = "exited"
  /\ UNCHANGED <<gateway, row, live, cancelled, rec, target, copiers, user,
                 shown, unrecorded, stored, trail, kill>>

\* Mutant: the target's session is signalled but not closed.
SelectCancelledOpen(s) ==
  /\ Goto(s, "select", "closeRec")
  /\ SessionCtxDone(s)
  /\ UNCHANGED <<gateway, row, live, cancelled, rec, target, copiers, user,
                 shown, unrecorded, stored, trail, kill>>

\* case <-ctx.Done(): hang up and return without waiting for the copiers.
SelectCancelled(s) ==
  /\ Goto(s, "select", "closeRec")
  /\ SessionCtxDone(s)
  /\ target' = [target EXCEPT ![s] = "closed"]
  /\ UNCHANGED <<gateway, row, live, cancelled, rec, copiers, user,
                 shown, unrecorded, stored, trail, kill>>

\* wg.Wait() returns once every copier has.
Drain(s) ==
  /\ Goto(s, "drain", "closeRec")
  /\ copiers[s] = {}
  /\ UNCHANGED <<gateway, row, live, cancelled, rec, target, copiers, user,
                 shown, unrecorded, stored, trail, kill>>

CopierReturns(s, c) ==
  /\ c \in copiers[s]
  /\ copiers' = [copiers EXCEPT ![s] = @ \ {c}]
  /\ UNCHANGED <<gateway, pc, row, live, cancelled, rec, target, user,
                 stored, trail, kill>>

\* io.Copy(targetStdin, channel) sits in a read of the user's channel, so it
\* returns when that channel ends ...
StdinEnds(s) ==
  /\ user[s] = "gone"
  /\ CopierReturns(s, "stdin")
  /\ UNCHANGED <<shown, unrecorded>>

\* ... or when the user sends something a target that is over will not take.
StdinRejected(s) ==
  /\ user[s] = "here"
  /\ target[s] \in {"exited", "closed"}
  /\ CopierReturns(s, "stdin")
  /\ UNCHANGED <<shown, unrecorded>>

OutputEnds(s) ==
  /\ s \notin shown
  /\ user[s] = "gone" \/ target[s] # "running"
  /\ CopierReturns(s, "output")
  /\ UNCHANGED <<shown, unrecorded>>

\* io.MultiWriter(channel, rec): the channel is written first ...
ShowOutput(s) ==
  /\ "output" \in copiers[s] /\ s \notin shown
  /\ user[s] = "here"
  /\ shown' = shown \cup {s}
  /\ UNCHANGED <<gateway, pc, row, live, cancelled, rec, target, copiers, user,
                 unrecorded, stored, trail, kill>>

\* ... and the recording after it, by which time it may be closed; a write to
\* it that fails ends the copy.
RecordOutput(s) ==
  /\ s \in shown
  /\ shown' = shown \ {s}
  /\ \/ /\ rec[s] = "open"
        /\ UNCHANGED <<gateway, pc, row, live, cancelled, rec, target, copiers,
                       user, unrecorded, stored, trail, kill>>
     \/ /\ rec[s] = "closed" \/ MayFail("recorder")
        /\ CopierReturns(s, "output")
        /\ unrecorded' = unrecorded \cup {s}

-----------------------------------------------------------------------------
(* proxy, after pump, and its deferred calls.                              *)

\* Mutant: the close is left to the deferred call, after the upload.
CloseRecordingDeferred(s) ==
  /\ Goto(s, "closeRec", "finish")
  /\ UNCHANGED <<gateway, row, live, cancelled, rec, target, copiers, user,
                 shown, unrecorded, stored, trail, kill>>

CloseRecording(s) ==
  /\ Goto(s, "closeRec", "finish")
  /\ rec' = [rec EXCEPT ![s] = "closed"]
  /\ UNCHANGED <<gateway, row, live, cancelled, target, copiers, user,
                 shown, unrecorded, stored, trail, kill>>

Finish(s) ==
  /\ Goto(s, "finish", "store")
  /\ FinishRow(s)
  /\ UNCHANGED <<gateway, live, cancelled, rec, target, copiers, user,
                 shown, unrecorded, stored, trail, kill>>

\* Mutant: an upload that failed is logged and leaves no event.
StoreSilent(s) ==
  /\ \/ /\ ~ObjectStore \/ CtxDone \/ MayFail("upload")
        /\ Goto(s, "store", "auditClosed")
        /\ UNCHANGED stored
     \/ /\ ObjectStore /\ ~CtxDone
        /\ Goto(s, "store", "auditStored")
        /\ stored' = stored \cup {s}
  /\ UNCHANGED <<gateway, row, live, cancelled, rec, target, copiers, user,
                 shown, unrecorded, trail, kill>>

\* The upload takes the server's context too.
Store(s) ==
  /\ \/ /\ ~ObjectStore
        /\ Goto(s, "store", "auditClosed")
        /\ UNCHANGED stored
     \/ /\ ObjectStore /\ ~CtxDone
        /\ Goto(s, "store", "auditStored")
        /\ stored' = stored \cup {s}
     \/ /\ ObjectStore /\ (CtxDone \/ MayFail("upload"))
        /\ Goto(s, "store", "auditNotStored")
        /\ UNCHANGED stored
  /\ UNCHANGED <<gateway, row, live, cancelled, rec, target, copiers, user,
                 shown, unrecorded, trail, kill>>

RecordCopy(s) ==
  /\ \/ Goto(s, "auditStored", "auditClosed") /\ Audit("recording.stored", s)
     \/ /\ Goto(s, "auditNotStored", "auditClosed")
        /\ Audit("recording.not_stored", s)
  /\ UNCHANGED <<gateway, row, live, cancelled, rec, target, copiers, user,
                 shown, unrecorded, stored, kill>>

RecordClosed(s) ==
  /\ Goto(s, "auditClosed", "leave")
  /\ Audit("session.closed", s)
  /\ UNCHANGED <<gateway, row, live, cancelled, rec, target, copiers, user,
                 shown, unrecorded, stored, kill>>

\* The deferred calls: the target's client, the registry, the recording, the
\* channel, which ends the copiers that are left: one that has shown its output
\* finds the recording closed.
Leave(s) ==
  /\ Goto(s, "leave", "done")
  /\ target' = [target EXCEPT ![s] = IF @ = "none" THEN @ ELSE "closed"]
  /\ live' = live \ {s}
  /\ rec' = [rec EXCEPT ![s] = "closed"]
  /\ copiers' = [copiers EXCEPT ![s] = {}]
  /\ unrecorded' = unrecorded \cup (shown \cap {s})
  /\ shown' = shown \ {s}
  /\ UNCHANGED <<gateway, row, cancelled, user, stored, trail, kill>>

-----------------------------------------------------------------------------
(* What the gateway does not control.                                      *)

TargetExits(s) ==
  /\ target[s] = "running"
  /\ target' = [target EXCEPT ![s] = "exited"]
  /\ UNCHANGED <<gateway, pc, row, live, cancelled, rec, copiers, user,
                 shown, unrecorded, stored, trail, kill>>

UserLeaves(s) ==
  /\ pc[s] \notin {"idle"} \cup Over
  /\ user[s] = "here"
  /\ user' = [user EXCEPT ![s] = "gone"]
  /\ UNCHANGED <<gateway, pc, row, live, cancelled, rec, target, copiers,
                 shown, unrecorded, stored, trail, kill>>

-----------------------------------------------------------------------------
(* The kill endpoint: read the row, call the registry, record the event.   *)

KillRead(a, s) ==
  /\ gateway = "running"
  /\ kill[a].pc = "idle"
  /\ row[s] = "open"
  /\ kill' = [kill EXCEPT ![a] = [pc |-> "found", sid |-> s, closed |-> "false"]]
  /\ UNCHANGED <<gateway, pc, row, live, cancelled, rec, target, copiers, user,
                 shown, unrecorded, stored, trail>>

KillSignal(a) ==
  LET s == kill[a].sid IN
  /\ kill[a].pc = "found"
  /\ kill' = [kill EXCEPT ![a] = [pc |-> "emit", sid |-> s,
                   closed |-> IF s \in live THEN "true" ELSE "false"]]
  /\ cancelled' = IF s \in live THEN cancelled \cup {s} ELSE cancelled
  /\ UNCHANGED <<gateway, pc, row, live, rec, target, copiers, user,
                 shown, unrecorded, stored, trail>>

KillEvent(closed) == IF closed = "true" THEN "session.killed closed=true"
                                        ELSE "session.killed closed=false"

KillAnswer(a) ==
  /\ kill[a].pc = "emit"
  /\ Audit(KillEvent(kill[a].closed), kill[a].sid)
  /\ kill' = [kill EXCEPT ![a] = NoKill]
  /\ UNCHANGED <<gateway, pc, row, live, cancelled, rec, target, copiers, user,
                 shown, unrecorded, stored>>

-----------------------------------------------------------------------------
(* The process.                                                            *)

Stop == /\ gateway = "running"
        /\ MayFail("stop")
        /\ gateway' = "stopping"
        /\ UNCHANGED <<pc, row, live, cancelled, rec, target, copiers, user,
                       shown, unrecorded, stored, trail, kill>>

\* Run returned after http.Shutdown, which waits for no session; or a crash.
\* Either way every goroutine, file and socket of the process is gone, and what
\* a copier had shown and not yet recorded is recorded by nobody.
Halt == /\ gateway = "stopping" \/ (Up /\ MayFail("crash"))
        /\ gateway' = "down"
        /\ pc' = [s \in Session |->
                    IF pc[s] \in {"idle"} \cup Over THEN pc[s] ELSE "dead"]
        /\ live' = {}
        /\ rec' = [s \in Session |-> IF rec[s] = "open" THEN "closed" ELSE rec[s]]
        /\ target' = [s \in Session |->
                        IF target[s] = "none" THEN "none" ELSE "closed"]
        /\ copiers' = [s \in Session |-> {}]
        /\ unrecorded' = unrecorded \cup shown
        /\ shown' = {}
        /\ kill' = [a \in Admin |-> NoKill]
        /\ UNCHANGED <<row, cancelled, user, stored, trail>>

\* Mutant: a start that listens without reconciling the rows.
StartUnreconciled ==
  /\ gateway = "down"
  /\ gateway' = "running"
  /\ UNCHANGED <<pc, row, live, cancelled, rec, target, copiers, user,
                 shown, unrecorded, stored, trail, kill>>

\* app.New reconciles before anything listens: closeDangling.
Start == /\ gateway = "down"
         /\ gateway' = "running"
         /\ row' = [s \in Session |-> IF row[s] = "open" THEN "restarted"
                                                         ELSE row[s]]
         /\ UNCHANGED <<pc, live, cancelled, rec, target, copiers, user,
                        shown, unrecorded, stored, trail, kill>>

-----------------------------------------------------------------------------
\* The steps of the gateway that wait for nobody outside it.
Own(s) == \/ RecordRefusal(s)  \/ NeverStarts(s)    \/ OpenRecording(s)
          \/ InsertRow(s)      \/ Register(s)       \/ Abandon(s)
          \/ RecordOpened(s)   \/ SelectExited(s)   \/ SelectCancelled(s)
          \/ Drain(s)          \/ StdinEnds(s)      \/ CloseRecording(s)
          \/ Finish(s)         \/ Store(s)          \/ RecordCopy(s)
          \/ RecordClosed(s)   \/ Leave(s)

\* The steps that wait for the target to answer.
Asks(s) == Dial(s) \/ NewSession(s) \/ Begin(s)

SessionStep(s) == \/ Own(s) \/ Asks(s)
                  \/ Resolve(s) \/ StartRequested(s)
                  \/ StdinRejected(s) \/ OutputEnds(s)
                  \/ ShowOutput(s) \/ RecordOutput(s)
                  \/ TargetExits(s) \/ UserLeaves(s)

KillStep(a) == (\E s \in Session : KillRead(a, s)) \/ KillSignal(a) \/ KillAnswer(a)

Next == \/ \E s \in Session : SessionStep(s)
        \/ \E a \in Admin : KillStep(a)
        \/ Stop \/ Halt \/ Start

Spec == Init /\ [][Next]_vars

-----------------------------------------------------------------------------
(* Fairness.  The goroutines of a running process are scheduled, a stopping *)
(* process exits, and UserLeaves and the target are only assumed fair where *)
(* a property says so: nothing in the gateway bounds how long they take.    *)

GatewayFair == /\ \A s \in Session : WF_vars(Own(s)) /\ WF_vars(RecordOutput(s))
               /\ WF_vars(gateway = "stopping" /\ Halt)

\* The target answers a dial and a start, whatever it answers.
TargetAnswers == \A s \in Session : WF_vars(Asks(s))

\* The client takes the output it is sent, and an exited target has left only so
\* much of it, so that copy ends however many writes it takes.
ClientReads == \A s \in Session : SF_vars(target[s] = "exited" /\ OutputEnds(s))

\* The user closes the channel in the end.
UserEnds == \A s \in Session : WF_vars(UserLeaves(s))

PatientSpec == Spec /\ GatewayFair /\ TargetAnswers /\ ClientReads
LiveSpec    == PatientSpec /\ UserEnds

-----------------------------------------------------------------------------
(* Safety.                                                                  *)

\* "A session that is not recorded does not open", and one nobody can list or
\* kill is refused: while a shell runs on a target (SelectCancelled, Drain and
\* Leave have not yet run) its recording is open, its row is listed as active
\* and the registry can reach it.
ShellIsAccounted ==
  \A s \in Session : target[s] = "running" =>
     rec[s] = "open" /\ row[s] = "open" /\ s \in live /\ Up

\* The target is not so much as dialed before the recording and the row exist
\* (newRecorder, openSession, then dial), whatever failed on the way there.
DialedIsIndexed ==
  \A s \in Session : target[s] # "none" => rec[s] # "none" /\ row[s] # "none"

\* The list of active sessions names only sessions this process is serving:
\* early returns, failed dials, crashes and restarts leave no row behind.
NoPhantomRows ==
  gateway = "running" =>
     \A s \in Session : row[s] = "open" => pc[s] \in Listed

\* Output the user saw is missing from the recording only when the session was
\* being cut from outside, or the process went down between the two writes of
\* io.MultiWriter: on every other path pump waits for its copiers before rec.Close.
UnrecordedOnlyIfCut ==
  [][\A s \in unrecorded' \ unrecorded : SessionCtxDone(s) \/ gateway' = "down"]_vars

\* Once session.closed is in the trail, the trail also holds session.opened
\* and what became of the copy, the row is closed and the recording final.
ClosedEventIsComplete ==
  \A s \in Session : <<"session.closed", s>> \in trail =>
     /\ <<"session.opened", s>> \in trail
     /\ row[s] = "ended" /\ rec[s] = "closed" /\ target[s] # "running"
     /\ ObjectStore => \/ s \in stored /\ <<"recording.stored", s>> \in trail
                       \/ <<"recording.not_stored", s>> \in trail

\* What was uploaded is the whole recording: it is never written to again.
StoredCopyIsFinal == \A s \in stored : rec[s] = "closed"

\* A kill that answers killed: false is not lying about a shell: at that
\* moment none is running for the session.
MissedKillLeavesNoShell ==
  [][\A a \in Admin : kill[a].pc = "found" /\ kill'[a].pc = "emit"
        /\ kill'[a].closed = "false" => target[kill[a].sid] # "running"]_vars

\* The session path keeps the promise of IndexedAccess.
Shell(s) == IF target[s] = "running" THEN "on"
            ELSE IF target[s] \in {"exited", "closed"} \/ rec[s] = "closed"
                 THEN "over" ELSE "none"
Index(s) == IF row[s] \in {"ended", "restarted"} THEN "closed" ELSE row[s]

Promise == INSTANCE IndexedAccess WITH
             index <- [s \in Session |-> Index(s)],
             recording <- rec,
             shell <- [s \in Session |-> Shell(s)]

PromiseKept == Promise!Spec

-----------------------------------------------------------------------------
(* Liveness.                                                                *)

\* A session whose context the kill switch cancelled comes to an end, however
\* long the target would have gone on, once its user has left.
KilledSessionEnds ==
  \A s \in Session : s \in cancelled ~> pc[s] \in Over

\* A row stays listed as active only while the process lives and a shell that
\* nobody cut runs on the target: every refused dial, failed start, end and kill
\* closes it in the end.
OpenRowIsClosed ==
  \A s \in Session : row[s] = "open" ~>
     \/ row[s] # "open" \/ gateway = "down"
     \/ target[s] = "running" /\ ~SessionCtxDone(s)

=============================================================================
