# marstack-access: a TLA+ verification project

This directory models the SSH access gateway in `../src` (Go, `internal/`): who may open a session on
which target and for how long a decision holds, how a session is opened, recorded, listed, killed and closed, how access
is requested and granted, how requests share the store and what they are told, and how the audit trail is kept and read.  TLC checks the models on small instances and TLAPS
proves the theorems for every value of the constants.

## The system

The gateway is one process (`internal/app`) with two planes over one SQLite store
(`internal/store`, one connection, so statements are serialised and every transaction is atomic).

| Component | Source (`internal/`) | State it keeps | Operations | What makes it correct |
|---|---|---|---|---|
| SSH session path | `dataplane/sshd/session.go`, `registry.go`, `recorder.go`, `dialer.go` | one goroutine per session, the registry of live sessions, the recording file | resolve, awaitStart, proxy, pump, finish, store | nothing runs on a target unrecorded, unlisted or unkillable; every row is closed; a killed session ends |
| SSH front door | `dataplane/sshd/server.go` | connections and the identity fixed at the handshake | authenticate, handle, Run | a session is opened only for an identity, policy and grant that held, and a certificate fits its target |
| HTTP plumbing | `kernel/httpx`, `kernel/authz`, every `handler.go` | one buffer and one deadline per request, the one connection of the store | guard, handler, time limit, recovery, access log | the client is told the truth, the trail has what was done or the log says why not, nobody waits for ever |
| Session index | `platform/session` | `sessions` rows | open, close, kill, reconcile, list | the active list names exactly what runs |
| Approval | `platform/approval` | `access_requests` rows | create, approve, deny, cancel, HasGrant | one decision per request, never by the requester, no grant past its expiry |
| Policy | `platform/policy` | `policies`, their principals | create, remove, Authorize | deny by default; a policy of a deleted target is inert |
| Target | `platform/target` | `targets`, principals, pinned host keys | register, trust, remove | a pin is replaced only on demand |
| Identity | `platform/identity` | users, tokens, keys | create, delete, issue, revoke, authenticate, bootstrap | a key or a token names one account, and nothing of a deleted or revoked one lets anybody in |
| Audit trail | `kernel/audit`, `platform/trail` | append-only file, bounded shipment queue | Record, ship, flush, Close, Tail | durable before shipped, nothing shipped twice; a reader gets the newest events, whole |
| Certificates and dialer | `dataplane/certs`, `dataplane/sshd/dialer.go` | the CA key | Check, Sign, dial | a certificate is short, and good on a target whose clock is a little off; the host is the pinned one |
| Start and stop | `app`, `store` | migrations, bootstrap token | New, Run, Close | a crash during the first start does not lock everyone out |

The SSH host key, the object store client, the value checks, logging, the command
line client, the console and the architecture tests are listed in `PROJECT.json` with what is modelled of
each, or why it is not.

### How the parts interact

* **Shared state.** Everything durable is in SQLite, and `store.Open` allows one connection: two
  handlers never interleave inside a statement or a transaction, and always may between two. That is
  the grain of the models: one step per statement, file operation or channel operation.
* **Calls.** `resolve` of the session path reads the inventory, the policies and the grants through the
  interfaces that `app` wires; `awaitStart` and `proxy` write the session index and the trail. The
  kill endpoint reaches a running session only through the in-memory registry and its `CancelFunc`.
* **Goroutines.** One per connection, one per channel and three copiers per session; one per HTTP
  request; and `ship` of the audit recorder, which is fed by a bounded channel.
* **Process.** `app.New` migrates, bootstraps, reconciles and only then serves; `Run` cancels one context
  that every session and every database call of a session hangs from; `Close` drains the audit
  queue and closes the file. SQLite, the audit file, the recordings, the host key and the bootstrap token
  survive; rows of open sessions are closed by the next start.

### What is hard here

A kill, the end of the target's shell, the user leaving and a stop race in one `select`; every step of
a session can fail and must undo what came before it; a decision is checked on a row and a clock
read earlier than its `UPDATE`; target, principals, policy and grant are read one after the other while
operators rewrite them, and acted on only when the user asks for a shell, up to a timer later, and when a file, a row and an address were got, which has no deadline; output is shown to the user before it is recorded; a certificate is cut to seconds
and judged by another clock; every request and session waits for one connection, and a request that has run out of time works
on; a file write can be cut short, and is read while it happens; the first start makes three writes that no
transaction ties together. `PROJECT.json` lists each hazard with its line and the properties aimed at it.

## Modules

| Module | Models | Extends or uses |
|---|---|---|
| `SessionLifecycle` | the session path, its rows, the registry, kills, stop, crash and start | instances `IndexedAccess` |
| `IndexedAccess` | the abstract promise: no shell without an open recording and an open row | |
| `Gate` | from a TCP connection to a login on a target, with timers, a certificate and clocks, while everything it rests on changes | instances `Warrant` |
| `Warrant` | the abstract promise: nobody is let in but on grounds that each held since the channel opened | |
| `Approval` | access requests and grants, with a clock | |
| `Access` | `resolve` against the inventory, pins and policies that change meanwhile | |
| `AccessHistory` | `Access` with a memory of what held since each channel opened; for proofs only | `Access`, instances `Warrant` |
| `Accounts` | accounts, tokens and keys, the guard of the routes, who a connection belongs to | |
| `Handlers` | every handler of every route, and what sessions ask of the store: its operations in their order | |
| `Requests` | any of these on the one connection, with time limits, clients that leave, failures, panics and a stop | `Handlers` |
| `AuditTrail` | `Record`, the file, the queue, `ship`, `Close` | |
| `TrailReader` | `GET /v1/audit` while the file is written to | |
| `Startup` | the steps of `New`, the bootstrap token and host key files | |
| `MC...` | the instance of each for TLC: sets, faults, symmetry | each its module |
| `..._proof` | the theorems of each; `Access_proof` has those of `AccessHistory` too, and `AuditTrail_proof` those of `TrailReader` | each its modules, `TLAPS` |

`Gate` composes what decides about a session: the keys of `Accounts`, the inventory and policies of `Access` and the grants of
`Approval` are its world, each changed by any operation at any moment and read by one step, because those modules have shown what their
own steps do. That its one-step `Lookup` stands for the two statements of the code is shown too: `Access`, with a history, implements the same `Warrant` that
`Gate` implements, as far as a channel has resolved. `Requests` composes all handlers, without their data. The other modules stand alone, and where two meet one stands in
for the other: `SessionLifecycle` chooses freely whether `resolve` succeeds, `Access` lets grants begin and end at will, and `Startup`
leaves the closing of rows to `Start` of `SessionLifecycle`.

### SessionLifecycle

`pc[s]` is where the goroutine of session `s` stands in `serveSession`, `proxy` and `pump`, and each value
names the call that comes next: `Resolve`, `StartRequested` (`awaitStart`), `OpenRecording`, `InsertRow`, `Register`, `Dial`,
`NewSession`, `RecordOpened`, `Begin`, then the `select` of `pump` as two actions, `SelectExited` and
`SelectCancelled`, `Drain` (`wg.Wait`), `CloseRecording`, `Finish`, `Store` with its event, `RecordClosed`, `Leave`.
A failed call takes the early return of the code (`RecordRefusal`, `NeverStarts`, `Abandon`). `row`, `live`, `rec`, `stored` and
`trail` are the table, the registry, the recording file, the bucket and the audit file; `target` is the far end and
`copiers` the goroutines of `pump` that still copy. `io.MultiWriter` writes to the channel first and to the recording second, so output is `shown` (`ShowOutput`)
before it is recorded (`RecordOutput`), and what comes in between, an end of the session or of the process, leaves it `unrecorded`. `KillRead`, `KillSignal` and `KillAnswer` are the kill
handler, which reads the row, then the registry, then answers. `Stop`, `Halt` and `Start` are the process; `Faults` says
which calls may fail. The actions that wait for somebody outside, the target (`Asks`), the user
and the copiers that read from either, are kept apart from those that do not (`Own`), because fairness differs.

`IndexedAccess` says the same with three variables and none of the steps. `Promise` maps the table, the
recording and the far end of each session on it, and `PromiseKept` is its specification.

### Approval

A call is three steps because the code is: `BeginCreate`, `BeginDecide` and `BeginGrant` read the clock and the row and make every
check; `Insert`, `Update` and `Lookup` are the one statement, which may run any number of ticks later; `Emit` is the event. The
clock has several ticks to the second, and what is stored is cut to seconds (`Stored`), as RFC3339 text and
`int64(d.Seconds())` are. `Fail` and `Crash` stop a call at any of its steps.

### Access

A channel is opened by an identity fixed at its handshake and then reads, one action per statement: the row of the
target by name, its principals, the policies and the grant. `Register`, `Remove`, and the pin requests in their own
steps (`Trust`, `Pin`, `AnswerTrust`, `FailPin`, `AbandonTrust`), `CreatePolicy`, `CheckPrincipals` and
`InsertPolicy`, `DeletePolicy`, `GrantBegins` and `GrantEnds` move between any two of them. `gone` is history: the targets that
had been deleted when the channel was opened. Ids are never used twice (`internal/kernel/ids`).

`AccessHistory` adds what `Gate` has: `held` remembers for which claims each ground has held since a channel opened, and `Promise` maps a channel that has
resolved on `Warrant`'s admission. The account of a channel is taken for identified, since it was fixed at the handshake, before the channel; whose it is, is a matter for
`Accounts` and `Gate`. The history multiplies the states of `access` beyond a run, so no run has it; the theorems do.

### Accounts

`Arrive`, `Authenticate` and `GetUser` are a request up to its statement: the guard reads the token once (`Authentic`), and the service looks up the
account that the path names. The statement is an action of its own: `InsertUser`, `DeleteUser` with its cascade, `InsertToken`,
`DeleteToken`, `InsertKey`, `DeleteKey`. `Fail` ends a request early, `Emit` is the event of a removal. A `Connection` arrives, has
its key looked up (`ByPublicKey`) and keeps the account that it found. `late` and `gone` are history: what had been removed when the request
or the connection came. `owner` is kept after a token is revoked, because a revoked token can still be sent.

### Gate

`conn[k]` is where `Server.handle` stands with a connection: `Accept` sets the deadline of the handshake, `Authenticate` looks a key up, once, and
`RefuseKey` counts those refused. `pc[c]` is where a channel stands in `serveSession` and `dial`: `Lookup`, `Authorize` and `HasGrant` are `resolve`, each one
read; `StartShell` and `NeverStarts` are `awaitStart`, which a refused channel goes through as well; `Sign`, `Connect` and `Login` are `dial`. The clock has
several ticks to the second, and a certificate's window is cut to seconds (`Sec`); a target looks at it on a clock of its own (`drift`). `owner`,
`registered`, `pin`, `allowed`, `until` and `host` are the world, and `WorldStep` is everybody who changes it. `met` and `held` are history: for which claims (a key,
a user, a target, a host key) each ground has held since the connection came and since the channel opened. `Promise` maps them on `Warrant`.

Time passes between any two steps, those of the gateway too: a read waits for the store's only connection, and between the shell request and the certificate come
the recorder, the row, the registry and `sourceAddress`, with a name lookup, none of which has a deadline. `Tick` waits for the timers alone (`TimersFire`). `HasGrant` reads its clock before its
statement, so a grant is compared with the earlier `read`. `decided` and `asked` are history: when `resolve` answered, and when the shell was asked for. What is bounded is the wait between these two,
and the life of the certificate; what lies between the shell request and the certificate is not. The dialer's timeout ends with the TCP connection, and the SSH login on it has none.

### Handlers and Requests

A handler is the sequence of what it does to the outside: take the connection, use it, give it back, change the store, check something, record an event, answer,
each with the statuses that it may end with. `Handlers` has a definition for every function of the five packages with a repository, built as the code is
built, from the handler down to the statement; `Routes` are the routes of `buildRouter` and `SessionUses` what an SSH connection asks of the store.

In `Requests`, `program[c]` is what is left of that sequence for a caller, and `holder` who has the connection. `Acquire`, `Go`, `Free`, `Commit`, `Emit` and `Write` are its
operations; `Fail` is any of them that refuses or fails, with what a deferred `Rollback` or `Close` does (`Leave`); `Panic` can come anywhere. Around the
handler, `Expire` is the end of a request's context, `GiveUp`, `Deliver` and `RecoverPanic` the three ways to an answer (`Timeout`, `AccessLog`, `Recover`).
`Emit` and the denial in `Fail` may be unable to write their event: `authz.Emit` logs that and the handler goes on (`told` is `"unwritten"`; the event may be in the file all the
same, when only its sync failed). A handler that was given up runs on: `code` is what it writes, `answer` what the client has. A statement that its context cuts off may have been carried out
(`Fail`). `kind`, `changed` and `grip` are history.

### AuditTrail

`AppendLine`, `AppendFails` and `Enqueue` are `Record`; a cut write leaves the file's `ending` torn, and the next append shares
its line (`garbled`). `Receive`, `Tick`, `NoticeDone`, `DrainOne`, `DrainEnd` and `Flush` are `ship` and `flush`. `CloseTrail`,
`CloseFile` and `Exit` are the end of `App.Close`. A push fails before Loki takes the batch or after. `recorded`, `offered`, `logged` (events of a failed push) and `late` (events recorded once `Close` was
called) are history; `Lost` is what was offered and is neither shipped nor on its way, and once `ship` has returned nothing is on its way.

### TrailReader

The file is a sequence of cells, and an event a number of them, the last its newline, so that a write shows up in part and is torn anywhere (`Write`,
`Unlock`). `Ask` is `limitOf`, `Stat` takes the size, `Scan` reads from the window's start to wherever the file ends by then, and `Reply` answers. `Found`,
`TooLong` and `NewestFirst` are the scanner, its line cap and the reversal; `AnswerIsNewest` states what they are for without them.

### Startup

`pc` is the step of `New`: `SkipApplied`, `ApplyMigration`, `CommitMigration`, `CountUsers`, `CreateUser`, `IssueFirstToken`, `OpenTokenFile`,
`WriteToken`, `ReadHostKey`, `OpenHostKey`, `WriteHostKey`. `Break` ends a start at any of them; an open transaction rolls back,
and a file is left absent, cut or whole. Administrators may create and delete accounts while the gateway serves, and read
and remove the token file.

## Runs

| Run | Instance | Asks | Distinct states |
|---|---|---|---|
| `session_all` | 1 session, 2 kills, every fault but a row that cannot be closed | what holds whatever fails, the refinement of `IndexedAccess`, killed sessions end, rows are closed | 159 thousand |
| `session_pair` | 2 sessions, 1 kill, targets and uploads that fail, crashes and restarts | exact active list, whole recordings, complete closed events | 2.1 million |
| `kill_needs_user` | no fault, a silent user | violation: a killed session that never ends | |
| `gate` | 1 connection with 1 channel, 2 registrations of a name, 2 host keys, 2 changes, 3 ticks, 3 clocks of targets | the refinement of `Warrant`, the delays that are bounded, a certificate's window | 1.5 million |
| `requests` | 1 request of any route and 1 session, again and again | answers, trail and store agree; nothing late; everybody is served | 38 thousand |
| `approval` | 2 requests, 2 handlers, grants of 1, 2 and 4 ticks, 2 ticks to the second | decisions, events, grant queries | 4.0 million |
| `audit` | 2 callers with 2 events each, queue of 1, batch of 2, every fault | durable, ordered, shipped, no loss in silence | 322 thousand |
| `reader` | 4 events of 2 to 5 cells, a window of 6, lines of less than 4, 1 reader | which events a query shows, and over what it shows none | 624 thousand |
| `startup` | 2 migrations, 3 breaks, 3 tokens | migrations, host key, first account, recovery | 1.8 thousand |
| `startup_lockout` | 1 migration, 1 break | violation: an account nobody can sign in to | |
| `access` | 2 registrations of one name, 2 principals, 2 keys, 2 pin requests of which one replaces, 1 policy request, 1 channel, 1 grant | what a channel resolves to; pins and policies that race | 2.5 million |
| `accounts` | 2 accounts, 2 tokens, 2 keys of one fingerprint, 2 requests, 1 connection, 2 events | credentials of deleted accounts, keys that race, revocation | 2.2 million |

The bounds are the smallest in which each hazard happens. A session does not read another's state, so one is
enough for what its failures leave behind, and two for what they share (the list, a crash, a start). Two
kills can find the same session before and after it registers. Two handlers give every race over one row, and
two requests with grants of different lengths give every order of overlapping grants; three ticks of clock let a
pending window of one second close and a grant cut to nothing (one tick of a two-tick second) be queried, a grant of two ticks end before the clock does and one of four outlast it. A queue of one is full with the second
event, and a batch of two is reached and missed. Two registrations of a name are what a swap behind a reader's
back takes. Two accounts, two additions of one key and two
requests are what a race over a credential takes; a token is one of the two accounts' or both are one's, and the second request is the one
that deletes. Channels meet only in the world, which changes twice at any moment in `gate`: often enough to
take a ground away and to give it back, or to put another in its place; its timers run out inside the clock, and the clocks of targets are
off by more than the skew, by the skew and the other way. Callers of `requests` meet only at the connection, which one other caller can hold as
well as many can; lists have up to two rows and a token's selector is taken up to once. Two
requests of any route beside a session have over 14 million states, in which TLC found no violation of the safety properties before it was
stopped, and which the theorems cover. In `reader` a window starts and ends inside an event, holds one to three of them, and can be filled by an overlong one.
A crash between the statement and the record of a migration needs two, one to have run before. What does not depend
on the bounds is proved, see below.

`CHECK_DEADLOCK FALSE` stands where an instance really runs out: channels and requests are each used once, callers of
`Record` stop at `MaxEvents`, the clock of `gate` ends, the events of `reader` are all recorded, and the process of `requests` may go down for good. `session_all`, `session_pair`, `approval`, `accounts`, `startup` and `startup_lockout` keep the check
on. `approval`, `access`, `accounts`, `gate` and `session_pair` use symmetry, and state no liveness.

### Fairness

* `GatewayFair`: the goroutines of a running process are scheduled, so a step that waits for nobody outside
  is taken in the end, output that was shown is recorded or refused by the recorder (`RecordOutput`), and a process whose context is cancelled exits (`http.Shutdown` has a timeout and `Run` waits for no session).
* `TargetAnswers`: a dial, a channel and a start are answered, well or badly. Connecting has a timeout (`targetTimeout`),
  what follows on the connection has none, so this is an assumption about targets.
* `ClientReads`: the client takes what it is sent. Nothing in the gateway bounds this, so it is an assumption
  about clients, made by the specifications with fairness only.
* `UserEnds`: the user leaves in the end. `session_all` assumes it; `kill_needs_user` drops it, and is a violation. No run
  assumes that the target's shell ends.
* `Requests`: `WF(Run)` and `WF(Reply)`, since a goroutine that can go on does; `SF(Acquire)`, since the connection is free again and again while others take it, and
  `database/sql` gives it to the waiters in an order of its own but passes none over for ever. Nothing is assumed of timers, of arrivals, of panics or of a stop: a caller is
  served without a deadline too.
* `WF(Ship)`: the goroutine is scheduled, the ticker ticks and a push gives up after `shipTimeout`. Nothing is assumed of callers.
* `WF(New)`: the start is sequential code, and whoever runs the gateway starts it again when it is down.

### What the violations show

1. `kill_needs_user`: after its `select`, `pump` waits for the copier that reads the user's channel, which
   looks at no context. `docs/ARCHITECTURE.md:294` says cancelling the context ends the session.
2. `startup_lockout`: the first account, its token and the token's file are three writes, and the
   next start looks at the first only.

### What was seen and is not a run

* A kill between the row's insert and `live.add` finds an open row and no `CancelFunc`; its answer suggests that
  another node serves the session. `MissedKillLeavesNoShell` says no shell runs at that moment.
* A graceful stop ends a session through its context, and `finish` gives the database that same, cancelled context: the row is closed
  by the next start, with "gateway restarted", although the session ended cleanly.
* A session whose dial fails is closed in the index without the upload and without `session.closed`. A crash after
  the row's close loses the event; `ClosedEventIsComplete` is the direction that holds.
* A decision is checked on a clock read before its `UPDATE`, so a request can be approved a moment after
  its window closed; `DecisionIsWarranted` speaks of the clock the handler read.
* A grant shorter than a second is stored as none (`approval/repository.go:24`).
* A host key file that a break cut short keeps the gateway from starting until it is removed: `ServesAgain` names that exception, and
  `OneHostKey` is what it buys.
* The reads of `resolve` need not agree at one instant, and that instant is not the session's, which `docs/ARCHITECTURE.md:13` asks for: policy and grant
  may each hold at their own read and never together, and the session starts up to `awaitStart`'s timer later. What does hold is `DestinationIsOne` of the target,
  `Warranted` of each ground (`ResolutionsAreWarranted` for the statements as they are) and `StartIsBounded` of the two parts of the delay
  that a timer or a certificate ends. The rest, from the shell request to the certificate and within `resolve`, has no bound.
* `docs/ARCHITECTURE.md:155` says that cancelling an approval closes the connection. `cancel` takes a pending request only, and a grant that ends or a policy that is
  removed touches no session that runs.
* A session that is killed while it dials has been reported killed and starts its shell all the same, to hang up at once
  (`session.go:287`; `docs/ARCHITECTURE.md:302`).
* The drop counter does not count the events of a failed push (`audit.go:166` logs), although `README.md:318-319` ("if Loki is down the event is already on disk and the drop is counted") and
  `docs/SECURITY.md:516` say so; it also misses what is recorded once `ship` has returned, when `App.Close` runs beside a handler. `LossIsReported` says what a missing event is known by:
  the counter, the log, or that it came after `Close`. `OnlyRefusalsAreCounted` says that the counter is of refused events alone.
* An event that cannot be written is logged and nothing else: `authz.Emit` (`authz.go:114`) and `Server.audit` (`server.go:305`) go on, so a full disk leaves changes, answered with success, and sessions
  without an event, where `docs/SECURITY.md:507-509` has the failure returned "so a session that cannot be recorded can be refused". `AnswerIsTrue` and `RecordsAgree` name that case.
* Output is shown before it is recorded (`session.go:303,307`), so a crash between the two writes leaves a recording without output that its user saw (`UnrecordedOnlyIfCut`).
* A row whose `finish` fails stays open until the next start, and a session that listens to nobody still shows as active.
* `docs/SECURITY.md:430` gives a certificate 80 random bits of serial; an SSH certificate has 64, and `certs.go` fills those.
* One line over the scanner's cap makes the trail unreadable through the API until it has left the window; no event is lost. `tail_test.go:180` says that one damaged line must not hide
  every good one: that holds of damaged lines below the cap. Torn writes can join short events to a line over it, but nothing else can: `UnreadableForAReason`.
* A request whose time runs out while it waits for the connection changes nothing, but one that holds it by then may finish its change, record it, and write a success
  that nobody reads: its client has 503, which says neither. `RecordsAgree` says when a change may have no event.
* Policies of a deleted target stay in their table, and its grants too. They are inert as ids are never reused (`DeletedIsUnreachable`).
* The event of a pin names the key that is pinned when the target is read again, which may be another request's, and a request whose second
  read fails leaves none. `PinIsRecorded` is what holds.
* A request that was let in before its token was revoked, or its account deleted, still makes its one change, which may be a token or a
  key for another account. `RevokedIsRefused` speaks of requests that arrive afterwards, as `README.md:103` does; `NoLateChange` bounds how much later the change can be.
* A connection outlives its account and its key: it goes on opening channels while policy and grant hold, and the key may
  meanwhile be registered to another account.

## Theorems

Each `_proof` module proves its module's inductive invariant `IInv` (`Init => IInv`, `IInv /\ [Next]_vars => IInv'`), one lemma per
action or group of actions, and draws the theorems of `PROJECT.json` from it, for all values of the constants. They
assume what the named `ASSUME`s say, and where a theorem assumes more (three do, below) its statement says so. Fairness and symmetry
play no part. That each `TypeOK` is an invariant is proved and no longer a property of a run.

* **SessionLifecycle.** No property is inductive: that a shell is recorded and listed depends on how the goroutine
  got there. `SessionInv` ties `pc` to each other variable: `ShellWhileSelecting`, `RecordingOpen`, `RecordingClosed`, `RowOpen`, `RegistryMatches`, `DownIsIdle`, `Indexed`,
  `Final`, `RecordingExists`, `Untouched`, `TargetMatches`. From it come `ShellIsAccounted`, `DialedIsIndexed`, `StoredCopyIsFinal`,
  `MissedKillLeavesNoShell`, and `KeepsPromise`, that every step is a step of `IndexedAccess` or a stutter.
  What depends on which calls fail is proved for any faults first, as what each lack is due to. `PhantomsAreFailedCloses`: a session leaves an open row behind only in the step that takes the process down, or where
  the close of this very row fails or is cancelled by a stop. `ClosedEventsLackForAReason`: a `session.closed` always comes with a final recording and no shell; its row is ended unless a close of it can fail or be cancelled, and
  `session.opened` and the fate of the copy are in the trail unless an event cannot be written. `EndInv` says for each place after `pump` which of the records are there. `OutputIsLostForAReason`: a recording
  misses output that its user saw only of a session that was being cut from outside, after a write to it that failed, or when the process went down, since `pump` waits for its copiers first. Three properties of the runs are what is left when the fault is not there: `NoPhantoms` assumes that rows can be closed (`"finish" \notin Faults`), since a refused `finish` leaves
  its row to the next start; `OutputIsRecorded` assumes a recording file that accepts writes (`"recorder" \notin Faults`), and allows for the crash between the two writes; `ClosedEventsAreComplete` assumes that rows can be closed, that the trail can be written and that
  no stop cancels the call that closes the row.
* **Gate.** The invariant says, for each place in `serveSession` and `dial`, which grounds are remembered in `met` and `held` for the claim that the channel will be let in
  under, and how the clock stands to the timers. A grant is compared with a clock that was read before its row: that whatever passes the comparison has held since the channel opened
  (`GrantsLast`) takes a grant that lasts at least a tick. `StartsAreBounded` has the wait for the shell and the certificate's life, each whatever time the steps between them take; `WindowsAreKept` rests on lemmas about
  cutting a time to seconds (`SecOf`, `SecOrder`). `EntriesAreWarranted` is the refinement: every step is a `Watch` of `Warrant`, and only `Login` an `Admit`.
* **Requests.** The theorems hold for any programs of a shape that `RequestsAssumption` states: what is done on the connection comes between taking and
  giving it back (`Balanced`), and a request ends in its only success, makes at most one change, records no event before it, denies before it, and refuses nothing after it but a row
  that is read again (`Orderly`). `OrderlyGoesOn` and `FitGoesOn` say that what is left after an operation has that shape too. `ConnectionHeld` reads the holder off the programs,
  `HeldInTime` carries the deadline to the statement (`NothingIsLate`), and `LeftBehind` says what an end leaves in the buffer, the trail and the store, from which `AnswersAreTrue` and
  `TrailAgreesWithStore` follow. That the code's programs have that shape is a theorem as well, for lists of any length and any number of taken selectors: `RoutesAreOrderly` and
  `SessionUsesAreBalanced` take each handler apart as it is built, into pieces that look (`Looks`), at most one that changes (`Does`), what it records and its answer (`Writes`), with a
  lemma for joining pieces and one for repeating a piece (`Repeat`), which needs no induction because it says where each operation of the whole comes from.
* **Approval.** `CreateOwnsItsId`, `DecisionWasAllowed`, `EventIsTrue` and `TTLIsWhole` carry what a call has checked from its first step to its last: the
  `WHERE` of the `UPDATE` only looks at the state. Lemmas about cutting to seconds show that the query neither loses a live
  grant nor revives an expired one.
* **AuditTrail.** `PipelineIsOrdered` and `PipelineIsRecorded` range over what was shipped, the batch and the queue together, `CurrentIsLast` says
  where the event of a busy caller may be, and `TearIsPaid` counts torn writes. `DropInv` splits what was offered into what has been in the queue and what was refused: the
  counter is the number of the latter, and what `ship` has left in the queue when it returns came after `Close`. From it come `LossesAreReported` and `OnlyRefusalsAreCounted`, for any faults.
* **TrailReader.** `ReaderInv` says that no cell of an event is in the file twice (`EachOnce`) and that what a query holds follows from the part of the file it has read (`Scanned`), which
  a file that only grows does not change. That an answer is the newest events, each whole and none between two left out (`AnswersAreNewest`), is a statement about positions: the lines
  that are found are ranked by how many end after them. Distinct lines have distinct ranks, so by the pigeonhole principle each rank is taken (`EachRankIsTaken`), which replaces an
  induction over the file. `UnreadablesHaveAReason` shows that a line over the cap that is made of events
  below it has a torn event in it (`Unbroken`, `OvertakenIsTorn`), and that it is in the window.
* **Startup.** `MigrationIsNext` (the transaction is open on the one after the last recorded), `ShownKeyIsKept` (a key that was shown is the file's)
  and `FirstIsAlone` (bootstrap is past its count only in a store without accounts).
* **Access.** `IdsAreUsed`, `CheckedFits` and `PinsAreAsked` carry ids, checks and keys over the steps in which everything else changes.
  `HistoryInv` is the invariant of `AccessHistory`: a target has at most one key (`KeysAreOne`), a channel asks for one user, name and principal (`AsksForOne`) and has one target from the
  row on (`HasOneTarget`), what holds is remembered (`Remembers`), and a channel that is past a read has that read's ground in `held`, for each claim that fits it (`Grounded`).
  `ResolutionsAreWarranted` is the refinement of `Warrant`, and `ResolvedAreClaims` that it is about something: every channel that resolves has exactly one claim, so that none gets in beside the mapping.
* **Accounts.** `CredentialIsOnes` and `KeyIsOnes` make a cascade take exactly what the account owned; `EmitIsDue` and `TrailIsPast` say that what a
  request is about to record is gone, that no other request will record it, and that its id is not given out again; `LateStaysLate` and
  `GoneStaysGone` carry a revocation to the step that looks the credential up.

Every safety property of a passing run is stated by a theorem. Only model-checked is liveness (`KilledSessionEnds`, `OpenRowIsClosed`, `QueuedIsShipped`,
`ServesAgain`, `EverybodyIsServed`), which is outside what the provers do, as is anything with `ENABLED`. What a definition computes by recursion over its data is out of reach too;
where a proof needed such a fact, the definition was stated over positions instead (`Repeat` of `Handlers`, the ranks of the reader's lines).

## Not modelled, and the plan

Not modelled: the bytes of a session and of a recording and the copiers that move them, window changes of a running shell, parsing of destinations, payloads and bodies, the
signatures of certificates and uploads, the creation of the certificate authority's key, request ids, headers and logging. They are sequential, without state that
a property could be about, or outside the gateway. The command line client makes one HTTP request per command, the console is a set of static files over the same routes, and the
architecture tests check imports.

What could follow, in this order:

1. **Recorder and copiers**: chunks in the order they are shown, a recorder that fails in the middle, and what `io.MultiWriter` does then; `UnrecordedOnlyIfCut` speaks of output without its order.
2. **`Gate` with the index**: the recording and the row between the shell's request and the certificate, which are `SessionLifecycle` now, so that one refinement has both abstract specifications.
3. **`Accounts` under `Gate`**: that a connection's account held its key at the handshake is said by `Warranted` of `Gate`, which reads the key in one step, and not yet of `Accounts`, which has the requests beside it, as `AccessHistory` says it of a destination.
