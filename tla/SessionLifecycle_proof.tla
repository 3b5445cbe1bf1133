----------------------- MODULE SessionLifecycle_proof -----------------------
(***************************************************************************)
(* Proofs about SessionLifecycle for any sets of sessions and admins, any  *)
(* set of faults, with or without an object store.                         *)
(***************************************************************************)
EXTENDS SessionLifecycle, TLAPS

\* The states in which the recording has been closed by CloseRecording.
Recorded == {"finish", "store", "auditStored", "auditNotStored", "auditClosed"}

\* What ties the program counter of one session to everything else.
ShellWhileSelecting(s) == target[s] = "running" => pc[s] = "select"
RecordingOpen(s)       == pc[s] \in Recording => rec[s] = "open"
RecordingClosed(s)     == pc[s] \in Recorded => rec[s] = "closed"
RowOpen(s)             == pc[s] \in Listed => row[s] = "open"
RegistryMatches(s)     == s \in live <=> pc[s] \in InRegistry
DownIsIdle(s)          == Up \/ (pc[s] \in {"idle"} \cup Over /\ rec[s] # "open")
Indexed(s)             == target[s] # "none" => rec[s] # "none" /\ row[s] # "none"
Final(s)               == s \in stored => rec[s] = "closed" /\ pc[s] \notin Early
RecordingExists(s)     == pc[s] \in InRegistry => rec[s] # "none"
Untouched(s) == /\ pc[s] \in Early \ {"insert", "register"} => rec[s] = "none"
                /\ pc[s] \in Early \ {"register"} => row[s] = "none"
TargetMatches(s) ==
  /\ pc[s] \in Early \cup {"dial"} => target[s] = "none"
  /\ pc[s] \in {"newSession", "opened", "begin"} => target[s] = "connected"
  /\ pc[s] = "select" => target[s] \in {"running", "exited"}

SessionInv(s) ==
  /\ ShellWhileSelecting(s)
  /\ RecordingOpen(s)
  /\ RecordingClosed(s)
  /\ RowOpen(s)
  /\ RegistryMatches(s)
  /\ DownIsIdle(s)
  /\ Indexed(s)
  /\ Final(s)
  /\ RecordingExists(s)
  /\ Untouched(s)
  /\ TargetMatches(s)

\* The inductive invariant.
IInv == TypeOK /\ \A s \in Session : SessionInv(s)

USE DEF Early, InRegistry, Over, States, Listed, Recording, Recorded

-----------------------------------------------------------------------------
LEMMA TypeInit == Init => TypeOK
  BY DEF Init, TypeOK, NoKill, KillStates

\* An audit event of a session goes where audit events go.
LEMMA AuditType ==
  ASSUME trail \subseteq Events \X Session, NEW s \in Session, NEW e \in Events,
         Audit(e, s)
  PROVE  trail' \subseteq Events \X Session
<1>1. <<e, s>> \in Events \X Session OBVIOUS
<1> QED BY <1>1 DEF Audit

\* Every step of a session keeps the types.
LEMMA TypeSession ==
  ASSUME TypeOK, NEW s \in Session, SessionStep(s)
  PROVE  TypeOK'
<1> USE DEF TypeOK, Goto, FinishRow, CopierReturns
<1>1. CASE RecordRefusal(s)
  <2>1. "session.refused" \in Events
    BY DEF Events
  <2>2. trail' \subseteq Events \X Session
    BY <1>1, <2>1, AuditType DEF RecordRefusal
  <2> QED BY <1>1, <2>2 DEF RecordRefusal
<1>2. CASE NeverStarts(s) BY <1>2 DEF NeverStarts
<1>3. CASE OpenRecording(s) BY <1>3 DEF OpenRecording
<1>4. CASE InsertRow(s) BY <1>4 DEF InsertRow
<1>5. CASE Register(s) BY <1>5 DEF Register
<1>6. CASE Abandon(s) BY <1>6 DEF Abandon
<1>7. CASE RecordOpened(s)
  <2>1. "session.opened" \in Events
    BY DEF Events
  <2>2. trail' \subseteq Events \X Session
    BY <1>7, <2>1, AuditType DEF RecordOpened
  <2> QED BY <1>7, <2>2 DEF RecordOpened
<1>8. CASE SelectExited(s) BY <1>8 DEF SelectExited
<1>9. CASE SelectCancelled(s) BY <1>9 DEF SelectCancelled
<1>10. CASE Drain(s) BY <1>10 DEF Drain
<1>11. CASE StdinEnds(s) BY <1>11 DEF StdinEnds
<1>12. CASE CloseRecording(s) BY <1>12 DEF CloseRecording
<1>13. CASE Finish(s) BY <1>13 DEF Finish
<1>14. CASE Store(s) BY <1>14 DEF Store
<1>15. CASE RecordCopy(s)
  <2>1. "recording.stored" \in Events /\ "recording.not_stored" \in Events
    BY DEF Events
  <2>2. trail' \subseteq Events \X Session
    BY <1>15, <2>1, AuditType DEF RecordCopy
  <2> QED BY <1>15, <2>2 DEF RecordCopy
<1>16. CASE RecordClosed(s)
  <2>1. "session.closed" \in Events
    BY DEF Events
  <2>2. trail' \subseteq Events \X Session
    BY <1>16, <2>1, AuditType DEF RecordClosed
  <2> QED BY <1>16, <2>2 DEF RecordClosed
<1>17. CASE Leave(s) BY <1>17 DEF Leave
<1>18. CASE Dial(s) BY <1>18 DEF Dial
<1>19. CASE NewSession(s) BY <1>19 DEF NewSession
<1>20. CASE Begin(s)
  <2>1. copiers' \in [Session -> SUBSET {"stdin", "output"}]
    BY <1>20 DEF Begin
  <2> QED BY <1>20, <2>1 DEF Begin
<1>21. CASE Resolve(s) BY <1>21 DEF Resolve
<1>22. CASE StartRequested(s) BY <1>22 DEF StartRequested
<1>23. CASE StdinRejected(s) BY <1>23 DEF StdinRejected
<1>24. CASE OutputEnds(s) BY <1>24 DEF OutputEnds
<1>25. CASE ShowOutput(s) \/ RecordOutput(s) BY <1>25 DEF ShowOutput, RecordOutput
<1>26. CASE TargetExits(s) BY <1>26 DEF TargetExits
<1>27. CASE UserLeaves(s) BY <1>27 DEF UserLeaves
<1> QED
  BY <1>1, <1>2, <1>3, <1>4, <1>5, <1>6, <1>7, <1>8, <1>9, <1>10, <1>11, <1>12,
     <1>13, <1>14, <1>15, <1>16, <1>17, <1>18, <1>19, <1>20, <1>21, <1>22, <1>23,
     <1>24, <1>25, <1>26, <1>27 DEF SessionStep, Own, Asks

\* So does a step of the kill endpoint ...
LEMMA TypeKill ==
  ASSUME TypeOK, NEW a \in Admin, KillStep(a)
  PROVE  TypeOK'
<1> USE DEF TypeOK, KillStates, NoKill
<1>1. CASE \E s \in Session : KillRead(a, s)
  BY <1>1 DEF KillRead
<1>2. CASE KillSignal(a)
  <2> DEFINE rcd == [pc |-> "emit", sid |-> kill[a].sid,
                     closed |-> IF kill[a].sid \in live THEN "true" ELSE "false"]
  <2>1. kill[a].sid \in Session
    BY <1>2 DEF KillSignal
  <2>3. rcd \in KillStates
    BY <2>1
  <2>4. kill' \in [Admin -> KillStates]
    <3>1. kill' = [kill EXCEPT ![a] = rcd]
      BY <1>2 DEF KillSignal
    <3> HIDE DEF rcd
    <3> QED BY <2>3, <3>1
  <2>5. cancelled' \subseteq Session
    BY <1>2 DEF KillSignal
  <2> QED BY <1>2, <2>4, <2>5 DEF KillSignal
<1>3. CASE KillAnswer(a)
  <2>1. kill' \in [Admin -> KillStates]
    BY <1>3 DEF KillAnswer
  <2>2. kill[a].sid \in Session
    BY <1>3 DEF KillAnswer
  <2>3. trail' \subseteq Events \X Session
    <3>1. KillEvent(kill[a].closed) \in Events
      BY DEF Events, KillEvent
    <3> QED BY <1>3, <2>2, <3>1, AuditType DEF KillAnswer
  <2> QED BY <1>3, <2>1, <2>3 DEF KillAnswer
<1> QED BY <1>1, <1>2, <1>3 DEF KillStep

\* ... and a step of the process as a whole.
LEMMA TypeProcess ==
  ASSUME TypeOK, Stop \/ Halt \/ Start
  PROVE  TypeOK'
<1> USE DEF TypeOK, KillStates, NoKill
<1>1. CASE Stop BY <1>1 DEF Stop
<1>2. CASE Halt BY <1>2 DEF Halt
<1>3. CASE Start BY <1>3 DEF Start
<1> QED BY <1>1, <1>2, <1>3

-----------------------------------------------------------------------------
LEMMA InvInit == Init => IInv
<1> SUFFICES ASSUME Init PROVE IInv OBVIOUS
<1>1. TypeOK BY TypeInit
<1>2. ASSUME NEW s \in Session PROVE SessionInv(s)
  BY DEF Init, SessionInv, ShellWhileSelecting, RecordingOpen, RecordingClosed,
         RowOpen, RegistryMatches, DownIsIdle, Indexed, Final, Up,
       RecordingExists, Untouched, TargetMatches
<1> QED BY <1>1, <1>2 DEF IInv

\* A step of one session keeps the invariant of every session.
LEMMA InvSession ==
  ASSUME IInv, NEW s \in Session, SessionStep(s)
  PROVE  IInv'
<1>1. TypeOK' BY TypeSession DEF IInv
<1>2. ASSUME NEW t \in Session PROVE SessionInv(t)'
  <2> TypeOK /\ SessionInv(s) /\ SessionInv(t) BY DEF IInv
  <2> USE DEF TypeOK, SessionInv, ShellWhileSelecting, RecordingOpen,
              RecordingClosed, RowOpen, RegistryMatches, DownIsIdle, Indexed,
              Final, RecordingExists, Untouched, TargetMatches, Up, Goto,
              FinishRow, CopierReturns
  <2>1. CASE RecordRefusal(s) BY <2>1 DEF RecordRefusal
  <2>2. CASE NeverStarts(s) BY <2>2 DEF NeverStarts
  <2>3. CASE OpenRecording(s) BY <2>3 DEF OpenRecording
  <2>4. CASE InsertRow(s) BY <2>4 DEF InsertRow
  <2>5. CASE Register(s) BY <2>5 DEF Register
  <2>6. CASE Abandon(s) BY <2>6 DEF Abandon
  <2>7. CASE RecordOpened(s) BY <2>7 DEF RecordOpened
  <2>8. CASE SelectExited(s) BY <2>8 DEF SelectExited
  <2>9. CASE SelectCancelled(s) BY <2>9 DEF SelectCancelled
  <2>10. CASE Drain(s) BY <2>10 DEF Drain
  <2>11. CASE StdinEnds(s) BY <2>11 DEF StdinEnds
  <2>12. CASE CloseRecording(s) BY <2>12 DEF CloseRecording
  <2>13. CASE Finish(s) BY <2>13 DEF Finish
  <2>14. CASE Store(s) BY <2>14 DEF Store
  <2>15. CASE RecordCopy(s) BY <2>15 DEF RecordCopy
  <2>16. CASE RecordClosed(s) BY <2>16 DEF RecordClosed
  <2>17. CASE Leave(s) BY <2>17 DEF Leave
  <2>18. CASE Dial(s) BY <2>18 DEF Dial
  <2>19. CASE NewSession(s) BY <2>19 DEF NewSession
  <2>20. CASE Begin(s) BY <2>20 DEF Begin
  <2>21. CASE Resolve(s) BY <2>21 DEF Resolve
  <2>22. CASE StartRequested(s) BY <2>22 DEF StartRequested
  <2>23. CASE StdinRejected(s) BY <2>23 DEF StdinRejected
  <2>24. CASE OutputEnds(s) BY <2>24 DEF OutputEnds
  <2>25. CASE ShowOutput(s) \/ RecordOutput(s) BY <2>25 DEF ShowOutput, RecordOutput
  <2>26. CASE TargetExits(s) BY <2>26 DEF TargetExits
  <2>27. CASE UserLeaves(s) BY <2>27 DEF UserLeaves
  <2> QED
    BY <2>1, <2>2, <2>3, <2>4, <2>5, <2>6, <2>7, <2>8, <2>9, <2>10, <2>11, <2>12,
       <2>13, <2>14, <2>15, <2>16, <2>17, <2>18, <2>19, <2>20, <2>21, <2>22,
       <2>23, <2>24, <2>25, <2>26, <2>27 DEF SessionStep, Own, Asks
<1> QED BY <1>1, <1>2 DEF IInv

\* The kill endpoint touches no session but through its context.
LEMMA InvKill ==
  ASSUME IInv, NEW a \in Admin, KillStep(a)
  PROVE  IInv'
<1>1. TypeOK' BY TypeKill DEF IInv
<1>2. UNCHANGED <<gateway, pc, row, live, rec, target, stored>>
  BY DEF KillStep, KillRead, KillSignal, KillAnswer
<1>3. \A s \in Session : SessionInv(s) => SessionInv(s)'
  BY <1>2 DEF SessionInv, ShellWhileSelecting, RecordingOpen, RecordingClosed,
       RowOpen, RegistryMatches, DownIsIdle, Indexed, Final, Up,
       RecordingExists, Untouched, TargetMatches
<1> QED BY <1>1, <1>3 DEF IInv

\* A stop, a crash and a start keep it: Halt leaves no session in progress, so
\* Start closes no row of a session that is.
LEMMA InvProcess ==
  ASSUME IInv, Stop \/ Halt \/ Start
  PROVE  IInv'
<1>1. TypeOK' BY TypeProcess DEF IInv
<1>2. ASSUME NEW s \in Session PROVE SessionInv(s)'
  <2> TypeOK /\ SessionInv(s) BY DEF IInv
  <2> USE DEF TypeOK, SessionInv, ShellWhileSelecting, RecordingOpen,
              RecordingClosed, RowOpen, RegistryMatches, DownIsIdle, Indexed,
              Final, RecordingExists, Untouched, TargetMatches, Up
  <2>1. CASE Stop BY <2>1 DEF Stop
  <2>2. CASE Halt BY <2>2 DEF Halt
  <2>3. CASE Start BY <2>3 DEF Start
  <2> QED BY <2>1, <2>2, <2>3
<1> QED BY <1>1, <1>2 DEF IInv

LEMMA InvNext == IInv /\ [Next]_vars => IInv'
<1> SUFFICES ASSUME IInv, [Next]_vars PROVE IInv' OBVIOUS
<1>1. CASE \E s \in Session : SessionStep(s) BY <1>1, InvSession
<1>2. CASE \E a \in Admin : KillStep(a) BY <1>2, InvKill
<1>3. CASE Stop \/ Halt \/ Start BY <1>3, InvProcess
<1>4. CASE UNCHANGED vars
  BY <1>4 DEF vars, IInv, TypeOK, SessionInv, ShellWhileSelecting,
       RecordingOpen, RecordingClosed, RowOpen, RegistryMatches, DownIsIdle,
       Indexed, Final, Up, RecordingExists, Untouched, TargetMatches
<1> QED BY <1>1, <1>2, <1>3, <1>4 DEF Next

\* The invariant of the session path: the state of a session's row, recording,
\* registry entry and target follow from where its goroutine stands.
THEOREM Invariance == Spec => []IInv
<1>1. Init => IInv BY InvInit
<1>2. IInv /\ [Next]_vars => IInv' BY InvNext
<1> QED BY <1>1, <1>2, PTL DEF Spec

-----------------------------------------------------------------------------
\* Every variable of the session path keeps its type, whatever fails.
THEOREM TypeCorrect == Spec => []TypeOK
<1>1. IInv => TypeOK BY DEF IInv
<1> QED BY <1>1, Invariance, PTL

\* No shell runs on a target unless its recording is open, its row is listed as
\* active and the kill switch can reach it.
THEOREM ShellsAreAccounted == Spec => []ShellIsAccounted
<1>1. IInv => ShellIsAccounted
  BY DEF IInv, SessionInv, ShellWhileSelecting, RecordingOpen, RowOpen,
       RegistryMatches, DownIsIdle, ShellIsAccounted
<1> QED BY <1>1, Invariance, PTL

\* No target is dialed for a session that has no recording or no row.
THEOREM DialsAreIndexed == Spec => []DialedIsIndexed
<1>1. IInv => DialedIsIndexed
  BY DEF IInv, SessionInv, Indexed, DialedIsIndexed
<1> QED BY <1>1, Invariance, PTL

\* A recording in the object store is never written to again.
THEOREM StoredCopiesAreFinal == Spec => []StoredCopyIsFinal
<1>1. IInv => StoredCopyIsFinal
  BY DEF IInv, TypeOK, SessionInv, Final, StoredCopyIsFinal
<1> QED BY <1>1, Invariance, PTL

-----------------------------------------------------------------------------
\* Whatever fails, a session leaves its row open behind it only where its process goes
\* down, which the next start makes up for, or where the close of this very row fails or
\* is cancelled by a stop: no other path out of serveSession forgets it.
Phantom(s)    == row[s] = "open" /\ pc[s] \notin Listed
CloseFails(s) == pc[s] \in {"abandon", "finish"} /\ (CtxDone \/ MayFail("finish"))
Forgets(s)    == Phantom(s)' /\ ~Phantom(s)

THEOREM PhantomsAreFailedCloses ==
  Spec => [][\A s \in Session : Forgets(s) => gateway' = "down" \/ CloseFails(s)]_vars
<1> DEFINE Owed == \A s \in Session : Forgets(s) => gateway' = "down" \/ CloseFails(s)
<1>1. IInv /\ [Next]_vars => [Owed]_vars
  <2> SUFFICES ASSUME IInv, Next, NEW s \in Session, Forgets(s), gateway' # "down"
               PROVE  CloseFails(s)
    OBVIOUS
  <2> TypeOK /\ SessionInv(s) BY DEF IInv
  <2> USE DEF Forgets, Phantom, CloseFails
  <2>1. ASSUME NEW t \in Session, SessionStep(t) PROVE CloseFails(s)
    <3> USE DEF TypeOK, Goto
    <3>1. CASE Abandon(t) \/ Finish(t)
      BY <3>1 DEF Abandon, Finish, FinishRow
    <3>2. CASE ~(Abandon(t) \/ Finish(t))
      BY <2>1, <3>2
         DEF SessionStep, Own, Asks, CopierReturns, RecordRefusal, NeverStarts,
             OpenRecording, InsertRow, Register, RecordOpened, SelectExited,
             SelectCancelled, Drain, StdinEnds, CloseRecording, Store, RecordCopy,
             RecordClosed, Leave, Dial, NewSession, Begin, Resolve, StartRequested,
             StdinRejected, OutputEnds, ShowOutput, RecordOutput, TargetExits, UserLeaves,
             SessionInv, RowOpen, Untouched
    <3> QED BY <3>1, <3>2
  <2>2. ASSUME NEW a \in Admin, KillStep(a) PROVE FALSE
    BY <2>2 DEF KillStep, KillRead, KillSignal, KillAnswer
  <2>3. CASE Stop \/ Halt \/ Start
    BY <2>3 DEF Stop, Halt, Start
  <2> QED BY <2>1, <2>2, <2>3 DEF Next
<1> QED BY <1>1, Invariance, PTL DEF Spec

\* While no UPDATE that closes a row fails, the list of active sessions names only
\* sessions that this process is serving, across stops, crashes and starts.
THEOREM NoPhantoms ==
  ASSUME "finish" \notin Faults
  PROVE  Spec => []NoPhantomRows
<1> DEFINE Inv == IInv /\ NoPhantomRows
<1> USE DEF NoPhantomRows
<1>1. Init => Inv
  BY InvInit DEF Init
<1>2. Inv /\ [Next]_vars => Inv'
  <2> SUFFICES ASSUME Inv, [Next]_vars PROVE Inv' OBVIOUS
  <2>1. IInv' BY InvNext
  <2> TypeOK BY DEF IInv
  <2>2. ASSUME NEW s \in Session, SessionStep(s) PROVE NoPhantomRows'
    BY <2>2 DEF TypeOK, SessionStep, Own, Asks, Goto, MayFail, CtxDone,
         FinishRow, CopierReturns, RecordRefusal, NeverStarts, OpenRecording,
         InsertRow, Register, Abandon, RecordOpened, SelectExited,
         SelectCancelled, Drain, StdinEnds, CloseRecording, Finish, Store,
         RecordCopy, RecordClosed, Leave, Dial, NewSession, Begin, Resolve,
         StartRequested, StdinRejected, OutputEnds, ShowOutput, RecordOutput, TargetExits,
         UserLeaves
  <2>3. ASSUME NEW a \in Admin, KillStep(a) PROVE NoPhantomRows'
    BY <2>3 DEF KillStep, KillRead, KillSignal, KillAnswer
  <2>4. CASE Stop BY <2>1, <2>4 DEF Stop
  <2>5. CASE Halt BY <2>1, <2>5 DEF Halt
  <2>6. CASE Start BY <2>1, <2>6 DEF Start, TypeOK
  <2>7. CASE UNCHANGED vars BY <2>1, <2>7 DEF vars
  <2> QED BY <2>1, <2>2, <2>3, <2>4, <2>5, <2>6, <2>7 DEF Next
<1> QED BY <1>1, <1>2, PTL DEF Spec

-----------------------------------------------------------------------------
(* The closed event comes last: what it entails is carried from the step    *)
(* that makes it true to the step that records it.                          *)

Ending == {"store", "auditStored", "auditNotStored", "auditClosed"}

CopyIsTold(s) ==
  ObjectStore => \/ s \in stored /\ <<"recording.stored", s>> \in trail
                 \/ <<"recording.not_stored", s>> \in trail

RowEnds   == {"finish", "stop"} \cap Faults = {}
TrailTaken == "trail" \notin Faults

OpenedIsTold(s) == pc[s] \in {"begin", "select", "drain", "closeRec", "finish"} \cup Ending
                     /\ TrailTaken => <<"session.opened", s>> \in trail
RowEnded(s)     == pc[s] \in Ending /\ RowEnds => row[s] = "ended"
CopyMatches(s)  == /\ pc[s] = "auditStored" => s \in stored
                   /\ pc[s] = "auditClosed" /\ TrailTaken => CopyIsTold(s)
CloseIsLast(s)  == <<"session.closed", s>> \in trail =>
                     /\ pc[s] \in {"leave"} \cup Over /\ rec[s] = "closed"
                     /\ RowEnds => row[s] = "ended"
                     /\ TrailTaken => <<"session.opened", s>> \in trail /\ CopyIsTold(s)
EndInv(s) == OpenedIsTold(s) /\ RowEnded(s) /\ CopyMatches(s) /\ CloseIsLast(s)

\* A session.closed in the trail says that the recording is final and that no shell runs,
\* whatever fails and crashes. What else it entails is missing only for a reason of its
\* own: the end of the row where its UPDATE fails or is cancelled by a stop, session.opened
\* and the fate of the copy where an event cannot be written.
ClosedNeeds(s) == <<"session.closed", s>> \in trail =>
  /\ pc[s] \in {"leave"} \cup Over /\ rec[s] = "closed" /\ target[s] # "running"
  /\ RowEnds => row[s] = "ended"
  /\ TrailTaken => <<"session.opened", s>> \in trail /\ CopyIsTold(s)

THEOREM ClosedEventsLackForAReason == Spec => [](\A s \in Session : ClosedNeeds(s))
<1> DEFINE NoStop == RowEnds => gateway # "stopping"
           Inv == IInv /\ NoStop /\ \A s \in Session : EndInv(s)
<1> USE DEF Ending, EndInv, OpenedIsTold, RowEnded, CopyMatches, CloseIsLast, CopyIsTold,
            RowEnds, TrailTaken
<1>1. Init => Inv
  BY InvInit DEF Init
<1>2. Inv /\ [Next]_vars => Inv'
  <2> SUFFICES ASSUME Inv, [Next]_vars PROVE Inv' OBVIOUS
  <2> IInv' BY InvNext
  <2> TypeOK BY DEF IInv
  <2>1. ASSUME NEW s \in Session, SessionStep(s)
        PROVE  NoStop' /\ \A t \in Session : EndInv(t)'
    <3>1. NoStop'
      BY <2>1 DEF SessionStep, Own, Asks, CopierReturns, RecordRefusal, NeverStarts,
           OpenRecording, InsertRow, Register, Abandon, RecordOpened, SelectExited,
           SelectCancelled, Drain, StdinEnds, CloseRecording, Finish, Store, RecordCopy,
           RecordClosed, Leave, Dial, NewSession, Begin, Resolve, StartRequested,
           StdinRejected, OutputEnds, ShowOutput, RecordOutput, TargetExits, UserLeaves
    <3>2. ASSUME NEW t \in Session PROVE EndInv(t)'
      <4> SessionInv(s) /\ SessionInv(t) BY DEF IInv
      <4> USE DEF TypeOK, SessionInv, RecordingClosed, RowOpen, Untouched, Goto,
                  FinishRow, CopierReturns, CtxDone, MayFail, Audit
      <4>1. CASE RecordRefusal(s) BY <4>1 DEF RecordRefusal
      <4>2. CASE NeverStarts(s) BY <4>2 DEF NeverStarts
      <4>3. CASE OpenRecording(s) BY <4>3 DEF OpenRecording
      <4>4. CASE InsertRow(s) BY <4>4 DEF InsertRow
      <4>5. CASE Register(s) BY <4>5 DEF Register
      <4>6. CASE Abandon(s) BY <4>6 DEF Abandon
      <4>7. CASE RecordOpened(s) BY <4>7 DEF RecordOpened
      <4>8. CASE SelectExited(s) BY <4>8 DEF SelectExited
      <4>9. CASE SelectCancelled(s) BY <4>9 DEF SelectCancelled
      <4>10. CASE Drain(s) BY <4>10 DEF Drain
      <4>11. CASE \/ StdinEnds(s) \/ StdinRejected(s) \/ OutputEnds(s)
                  \/ ShowOutput(s) \/ RecordOutput(s)
        BY <4>11 DEF StdinEnds, StdinRejected, OutputEnds, ShowOutput, RecordOutput
      <4>12. CASE CloseRecording(s) BY <4>12 DEF CloseRecording
      <4>13. CASE Finish(s) BY <4>13 DEF Finish
      <4>14. CASE Store(s) BY <4>14 DEF Store
      <4>15. CASE RecordCopy(s) BY <4>15 DEF RecordCopy
      <4>16. CASE RecordClosed(s) BY <4>16 DEF RecordClosed
      <4>17. CASE Leave(s) BY <4>17 DEF Leave
      <4>18. CASE Dial(s) BY <4>18 DEF Dial
      <4>19. CASE NewSession(s) BY <4>19 DEF NewSession
      <4>20. CASE Begin(s) BY <4>20 DEF Begin
      <4>21. CASE Resolve(s) BY <4>21 DEF Resolve
      <4>22. CASE StartRequested(s) BY <4>22 DEF StartRequested
      <4>23. CASE TargetExits(s) \/ UserLeaves(s) BY <4>23 DEF TargetExits, UserLeaves
      <4> QED
        BY <2>1, <4>1, <4>2, <4>3, <4>4, <4>5, <4>6, <4>7, <4>8, <4>9, <4>10, <4>11,
           <4>12, <4>13, <4>14, <4>15, <4>16, <4>17, <4>18, <4>19, <4>20, <4>21, <4>22,
           <4>23 DEF SessionStep, Own, Asks
    <3> QED BY <3>1, <3>2
  <2>2. ASSUME NEW a \in Admin, KillStep(a)
        PROVE  NoStop' /\ \A t \in Session : EndInv(t)'
    <3>1. CASE (\E s \in Session : KillRead(a, s)) \/ KillSignal(a)
      BY <3>1 DEF KillRead, KillSignal
    <3>2. CASE KillAnswer(a)
      <4>1. KillEvent(kill[a].closed) # "session.closed" BY DEF KillEvent
      <4>2. trail' \subseteq trail \cup {<<KillEvent(kill[a].closed), kill[a].sid>>}
            /\ trail \subseteq trail'
        BY <3>2 DEF KillAnswer, Audit
      <4>3. \A t \in Session : <<"session.closed", t>> \in trail' => <<"session.closed", t>> \in trail
        BY <4>1, <4>2
      <4> QED BY <3>2, <4>2, <4>3 DEF KillAnswer
    <3> QED BY <2>2, <3>1, <3>2 DEF KillStep
  <2>3. CASE Stop BY <2>3 DEF Stop, MayFail
  <2>4. CASE Halt BY <2>4 DEF Halt, TypeOK
  <2>5. CASE Start BY <2>5 DEF Start, TypeOK
  <2>6. CASE UNCHANGED vars BY <2>6 DEF vars
  <2> QED BY <2>1, <2>2, <2>3, <2>4, <2>5, <2>6 DEF Next
<1>3. Inv => \A s \in Session : ClosedNeeds(s)
  BY DEF IInv, TypeOK, SessionInv, ShellWhileSelecting, ClosedNeeds
<1> QED BY <1>1, <1>2, <1>3, PTL DEF Spec

\* While every event and the end of every row can be written, a session.closed in the
\* trail entails session.opened, the ended row, the final recording and what became of
\* its copy, whatever crashes in between.
THEOREM ClosedEventsAreComplete ==
  ASSUME "finish" \notin Faults, "trail" \notin Faults, "stop" \notin Faults
  PROVE  Spec => []ClosedEventIsComplete
<1>1. (\A s \in Session : ClosedNeeds(s)) => ClosedEventIsComplete
  BY DEF ClosedNeeds, RowEnds, TrailTaken, CopyIsTold, ClosedEventIsComplete
<1> QED BY <1>1, ClosedEventsLackForAReason, PTL

\* A kill that answers killed: false leaves no shell of that session running.
THEOREM MissedKills == Spec => MissedKillLeavesNoShell
<1> DEFINE Honest == \A a \in Admin : kill[a].pc = "found" /\ kill'[a].pc = "emit"
                        /\ kill'[a].closed = "false" => target[kill[a].sid] # "running"
<1>1. IInv /\ [Next]_vars => [Honest]_vars
  <2> SUFFICES ASSUME IInv, Next, NEW a \in Admin, kill[a].pc = "found",
                      kill'[a].pc = "emit", kill'[a].closed = "false"
               PROVE  target[kill[a].sid] # "running"
    OBVIOUS
  <2> TypeOK BY DEF IInv
  <2>1. kill' # kill OBVIOUS
  <2>2. ~ \E s \in Session : SessionStep(s)
    BY <2>1 DEF SessionStep, Own, Asks, CopierReturns, RecordRefusal, NeverStarts,
         OpenRecording, InsertRow, Register, Abandon, RecordOpened, SelectExited,
         SelectCancelled, Drain, StdinEnds, CloseRecording, Finish, Store,
         RecordCopy, RecordClosed, Leave, Dial, NewSession, Begin, Resolve,
         StartRequested, StdinRejected, OutputEnds, ShowOutput, RecordOutput, TargetExits,
         UserLeaves
  <2>3. ~ (Stop \/ Halt \/ Start)
    BY <2>1 DEF Stop, Halt, Start, NoKill
  <2>4. PICK b \in Admin : KillStep(b)
    BY <2>2, <2>3 DEF Next
  <2>5. KillSignal(a)
    BY <2>4 DEF KillStep, KillRead, KillSignal, KillAnswer, TypeOK, NoKill
  <2>6. kill[a].sid \in Session /\ kill[a].sid \notin live
    BY <2>5 DEF KillSignal, TypeOK, KillStates, NoKill
  <2> QED
    BY <2>6 DEF IInv, SessionInv, ShellWhileSelecting, RegistryMatches
<1> QED BY <1>1, Invariance, PTL DEF Spec, MissedKillLeavesNoShell

-----------------------------------------------------------------------------
(* What the user saw and the recording lacks.                               *)

\* A copier that still runs is awaited by pump, or the session is being cut; only one
\* that runs has output shown and not yet recorded.
Copying(s) == copiers[s] # {} => Up /\ (pc[s] \in {"select", "drain"} \/ SessionCtxDone(s))
Showing(s) == s \in shown => "output" \in copiers[s]
CopyInv    == IInv /\ \A s \in Session : Copying(s) /\ Showing(s)

USE DEF Copying, Showing

LEMMA CopyInvNext == CopyInv /\ [Next]_vars => CopyInv'
<1> SUFFICES ASSUME CopyInv, [Next]_vars
             PROVE  \A s \in Session : Copying(s)' /\ Showing(s)'
  BY InvNext DEF CopyInv
<1> USE DEF CopyInv
<1> TypeOK BY DEF IInv
<1>1. ASSUME NEW s \in Session, SessionStep(s), NEW t \in Session
      PROVE  Copying(t)' /\ Showing(t)'
  <2> USE DEF TypeOK, Goto, Up, CtxDone, SessionCtxDone, CopierReturns
  <2>1. CASE \/ StdinEnds(s) \/ StdinRejected(s) \/ OutputEnds(s)
             \/ ShowOutput(s) \/ RecordOutput(s)
    BY <2>1 DEF StdinEnds, StdinRejected, OutputEnds, ShowOutput, RecordOutput
  <2>2. CASE Begin(s) \/ Leave(s)
    BY <2>2 DEF Begin, Leave
  <2> QED
    BY <1>1, <2>1, <2>2
       DEF SessionStep, Own, Asks, RecordRefusal, NeverStarts, OpenRecording,
           InsertRow, Register, Abandon, RecordOpened, SelectExited,
           SelectCancelled, Drain, CloseRecording, Finish, Store, RecordCopy,
           RecordClosed, Dial, NewSession, Resolve, StartRequested, TargetExits,
           UserLeaves
<1>2. ASSUME NEW a \in Admin, KillStep(a), NEW t \in Session
      PROVE  Copying(t)' /\ Showing(t)'
  BY <1>2 DEF KillStep, KillRead, KillSignal, KillAnswer, SessionCtxDone, CtxDone, Up
<1>3. CASE Stop BY <1>3 DEF Stop, SessionCtxDone, CtxDone, Up
<1>4. CASE Halt BY <1>4 DEF Halt
<1>5. CASE Start BY <1>5 DEF Start, Up, SessionCtxDone, CtxDone
<1>6. CASE UNCHANGED vars BY <1>6 DEF vars, SessionCtxDone, CtxDone, Up
<1> QED BY <1>1, <1>2, <1>3, <1>4, <1>5, <1>6 DEF Next

\* Output is lost to the recording by a copier whose write is refused, by the close of
\* the channel behind one that had shown some, or with the whole process.
LEMMA LossIsHere ==
  ASSUME TypeOK, Next, NEW s \in Session, s \in unrecorded' \ unrecorded, gateway' # "down"
  PROVE  \/ RecordOutput(s) /\ copiers[s] # {} /\ (rec[s] = "closed" \/ MayFail("recorder"))
         \/ Leave(s) /\ s \in shown
<1>1. PICK t \in Session : SessionStep(t)
  BY DEF Next, KillStep, KillRead, KillSignal, KillAnswer, Stop, Halt, Start
<1>2. RecordOutput(t) \/ Leave(t)
  BY <1>1 DEF SessionStep, Own, Asks, CopierReturns, RecordRefusal, NeverStarts,
     OpenRecording, InsertRow, Register, Abandon, RecordOpened, SelectExited,
     SelectCancelled, Drain, StdinEnds, CloseRecording, Finish, Store,
     RecordCopy, RecordClosed, Dial, NewSession, Begin, Resolve, StartRequested,
     StdinRejected, OutputEnds, ShowOutput, TargetExits, UserLeaves
<1> QED BY <1>2 DEF RecordOutput, Leave, CopierReturns, TypeOK

\* Whatever fails, output the user saw is missing from a recording only when the session
\* was being cut from outside, when a write to the recording failed, or when the process
\* went down: pump waits for its copiers before rec.Close.
Unrecorded(s) == s \in unrecorded' \ unrecorded
WriteFails(s) == RecordOutput(s) /\ MayFail("recorder")

THEOREM OutputIsLostForAReason ==
  Spec => [][\A s \in Session : Unrecorded(s) =>
               SessionCtxDone(s) \/ WriteFails(s) \/ gateway' = "down"]_vars
<1> DEFINE Cut == \A s \in Session : Unrecorded(s) =>
                    SessionCtxDone(s) \/ WriteFails(s) \/ gateway' = "down"
<1>1. Init => CopyInv
  BY InvInit DEF Init, CopyInv
<1>2. CopyInv /\ [Next]_vars => [Cut]_vars
  <2> SUFFICES ASSUME CopyInv, Next, NEW s \in Session, Unrecorded(s),
                      gateway' # "down", ~WriteFails(s)
               PROVE  SessionCtxDone(s)
    OBVIOUS
  <2> USE DEF Unrecorded, WriteFails
  <2> TypeOK /\ SessionInv(s) /\ Copying(s) /\ Showing(s) BY DEF CopyInv, IInv
  <2>1. CASE RecordOutput(s) /\ copiers[s] # {} /\ rec[s] = "closed"
    <3>1. pc[s] \notin Recording
      BY <2>1 DEF SessionInv, RecordingOpen
    <3> QED BY <2>1, <3>1
  <2>2. CASE Leave(s) /\ s \in shown
    BY <2>2 DEF Leave, Goto
  <2> QED BY <2>1, <2>2, LossIsHere
<1> QED BY <1>1, <1>2, CopyInvNext, PTL DEF Spec

\* While every write to a recording succeeds, output the user saw is missing from it
\* only when the session was being cut from outside or the process went down.
THEOREM OutputIsRecorded ==
  ASSUME "recorder" \notin Faults
  PROVE  Spec => UnrecordedOnlyIfCut
<1> DEFINE Cut == \A s \in Session : Unrecorded(s) =>
                    SessionCtxDone(s) \/ WriteFails(s) \/ gateway' = "down"
           Seen == \A s \in unrecorded' \ unrecorded : SessionCtxDone(s) \/ gateway' = "down"
<1>1. TypeOK /\ TypeOK' /\ [Cut]_vars => [Seen]_vars
  BY DEF Unrecorded, WriteFails, MayFail, TypeOK
<1> QED BY <1>1, TypeCorrect, OutputIsLostForAReason, PTL DEF UnrecordedOnlyIfCut

-----------------------------------------------------------------------------
(* SessionLifecycle implements IndexedAccess.                              *)

LEMMA PromiseInit == Init => Promise!Init
  BY DEF Init, Promise!Init, Index, Shell

\* A step that leaves row, recording and target alone is a stutter.
LEMMA PromiseStutter ==
  ASSUME UNCHANGED <<row, rec, target>>
  PROVE  UNCHANGED Promise!vars
  BY DEF Promise!vars, Index, Shell

LEMMA PromiseSession ==
  ASSUME IInv, NEW s \in Session, SessionStep(s)
  PROVE  [Promise!Next]_(Promise!vars)
<1> TypeOK /\ (\A t \in Session : SessionInv(t)) BY DEF IInv
<1> USE DEF TypeOK, Index, Shell
<1>1. CASE UNCHANGED <<row, rec, target>>
  BY <1>1, PromiseStutter
<1>2. CASE OpenRecording(s)
  <2>1. Promise!StartRecording(s) \/ UNCHANGED <<row, rec, target>>
    BY <1>2 DEF OpenRecording, Goto, Promise!StartRecording, SessionInv, Untouched,
         TargetMatches
  <2> QED BY <2>1, <1>1 DEF Promise!Next
<1>3. CASE InsertRow(s)
  <2>1. /\ target[s] = "none" /\ row[s] = "none" /\ rec[s] = "open"
        /\ UNCHANGED target
    BY <1>3 DEF InsertRow, Goto, SessionInv, Untouched, TargetMatches, RecordingOpen
  <2>2. CASE row' = [row EXCEPT ![s] = "open"] /\ UNCHANGED rec
    <3>1. Promise!OpenIndex(s)
      BY <2>1, <2>2 DEF Promise!OpenIndex
    <3> QED BY <3>1 DEF Promise!Next
  <2>3. CASE rec' = [rec EXCEPT ![s] = "closed"] /\ UNCHANGED row
    <3>1. Promise!EndRecording(s)
      BY <2>1, <2>3 DEF Promise!EndRecording
    <3> QED BY <3>1 DEF Promise!Next
  <2> QED BY <1>3, <2>2, <2>3 DEF InsertRow
<1>4. CASE Dial(s)
  <2>1. UNCHANGED Promise!vars
    BY <1>4 DEF Dial, Goto, Promise!vars, SessionInv, TargetMatches, RecordingOpen
  <2> QED BY <2>1
<1>5. CASE Abandon(s) \/ Finish(s)
  <2>1. row[s] = "open" /\ target[s] # "running" /\ UNCHANGED <<rec, target>>
    BY <1>5 DEF Abandon, Finish, Goto, SessionInv, RowOpen, ShellWhileSelecting
  <2>2. CASE row' = [row EXCEPT ![s] = "ended"]
    <3>1. Promise!CloseIndex(s)
      BY <2>1, <2>2 DEF Promise!CloseIndex
    <3> QED BY <3>1 DEF Promise!Next
  <2> QED BY <1>1, <1>5, <2>1, <2>2 DEF Abandon, Finish, FinishRow
<1>6. CASE Begin(s)
  <2>1. /\ target[s] = "connected" /\ row[s] = "open" /\ rec[s] = "open"
        /\ UNCHANGED <<row, rec>>
    BY <1>6 DEF Begin, Goto, SessionInv, RowOpen, RecordingOpen, TargetMatches
  <2>2. CASE target' = [target EXCEPT ![s] = "running"]
    <3>1. Promise!StartShell(s)
      BY <2>1, <2>2 DEF Promise!StartShell
    <3> QED BY <3>1 DEF Promise!Next
  <2> QED BY <1>1, <1>6, <2>1, <2>2 DEF Begin
<1>7. CASE SelectCancelled(s) \/ TargetExits(s)
  <2>1. PICK x \in {"closed", "exited"} : target' = [target EXCEPT ![s] = x]
    BY <1>7 DEF SelectCancelled, TargetExits
  <2>2. target[s] \in {"running", "exited"} /\ UNCHANGED <<row, rec>>
    BY <1>7 DEF SelectCancelled, TargetExits, Goto, SessionInv, TargetMatches
  <2>3. CASE target[s] = "running"
    <3>1. Promise!EndShell(s)
      BY <2>1, <2>2, <2>3 DEF Promise!EndShell
    <3> QED BY <3>1 DEF Promise!Next
  <2>4. CASE target[s] = "exited"
    <3>1. UNCHANGED Promise!vars
      BY <2>1, <2>2, <2>4 DEF Promise!vars
    <3> QED BY <3>1
  <2> QED BY <2>2, <2>3, <2>4
<1>8. CASE CloseRecording(s) \/ Leave(s)
  <2>1. /\ rec[s] # "none" /\ target[s] # "running" /\ UNCHANGED row
        /\ rec' = [rec EXCEPT ![s] = "closed"]
    BY <1>8 DEF CloseRecording, Leave, Goto, SessionInv, ShellWhileSelecting,
         RecordingExists
  <2>2. \A t \in Session \ {s} : target'[t] = target[t]
    BY <1>8 DEF CloseRecording, Leave
  <2>3. target'[s] # "running"
    BY <1>8, <2>1 DEF CloseRecording, Leave
  <2>4. CASE rec[s] = "open"
    <3>1. Promise!EndRecording(s)
      BY <2>1, <2>2, <2>3, <2>4 DEF Promise!EndRecording
    <3> QED BY <3>1 DEF Promise!Next
  <2>5. CASE rec[s] = "closed"
    <3>1. UNCHANGED Promise!vars
      BY <2>1, <2>2, <2>3, <2>5 DEF Promise!vars
    <3> QED BY <3>1
  <2> QED BY <2>1, <2>4, <2>5
<1> QED
  BY <1>1, <1>2, <1>3, <1>4, <1>5, <1>6, <1>7, <1>8
  DEF SessionStep, Own, Asks, CopierReturns, RecordRefusal, NeverStarts, Register,
      RecordOpened, SelectExited, Drain, StdinEnds, Store, RecordCopy,
      RecordClosed, NewSession, Resolve, StartRequested, StdinRejected,
      OutputEnds, ShowOutput, RecordOutput, UserLeaves

LEMMA PromiseProcess ==
  ASSUME IInv, Stop \/ Halt \/ Start
  PROVE  [Promise!Next]_(Promise!vars)
<1> TypeOK /\ (\A t \in Session : SessionInv(t)) BY DEF IInv
<1> USE DEF TypeOK, Index, Shell
<1>1. CASE Stop
  BY <1>1, PromiseStutter DEF Stop
<1>2. CASE Halt
  <2>1. Promise!Interrupt
    BY <1>2 DEF Halt, Promise!Interrupt, SessionInv, Indexed, ShellWhileSelecting,
         RecordingOpen
  <2> QED BY <2>1 DEF Promise!Next
<1>3. CASE Start
  <2>1. Promise!Recover
    BY <1>3 DEF Start, Up, Promise!Recover, SessionInv, DownIsIdle,
         ShellWhileSelecting
  <2> QED BY <2>1 DEF Promise!Next
<1> QED BY <1>1, <1>2, <1>3

\* The session path keeps the promise of the index, in every step: shells run
\* inside a recorded and listed interval, and closed rows stay closed.
THEOREM KeepsPromise == Spec => PromiseKept
<1>1. Init => Promise!Init BY PromiseInit
<1>2. IInv /\ [Next]_vars => [Promise!Next]_(Promise!vars)
  <2> SUFFICES ASSUME IInv, [Next]_vars PROVE [Promise!Next]_(Promise!vars)
    OBVIOUS
  <2>1. CASE \E s \in Session : SessionStep(s) BY <2>1, PromiseSession
  <2>2. CASE \E a \in Admin : KillStep(a)
    BY <2>2, PromiseStutter DEF KillStep, KillRead, KillSignal, KillAnswer
  <2>3. CASE Stop \/ Halt \/ Start BY <2>3, PromiseProcess
  <2>4. CASE UNCHANGED vars BY <2>4, PromiseStutter DEF vars
  <2> QED BY <2>1, <2>2, <2>3, <2>4 DEF Next
<1> QED BY <1>1, <1>2, Invariance, PTL DEF Spec, PromiseKept, Promise!Spec
=============================================================================
