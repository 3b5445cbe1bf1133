-------------------------------- MODULE Gate --------------------------------
(***************************************************************************)
(* From a TCP connection to a login on a target: the handshake of a        *)
(* connection and its deadline (Server.handle, authenticate), the channels *)
(* that run under its identity (serveSession, resolve), the wait for the   *)
(* user's shell request (awaitStart) and the dial with a certificate and a *)
(* pinned host key (dialer.dial, certs), while keys, targets, pins,        *)
(* policies and grants change, and under a clock.                          *)
(*                                                                         *)
(* One name is asked for; the targets are registrations of it, one after   *)
(* the other, with ids that are never reused.  The reads of one lookup are *)
(* one step here: the module Access shows that they are of one             *)
(* registration.  The recording, the row and the registry, which come      *)
(* between StartShell and Sign, are the module SessionLifecycle.           *)
(*                                                                         *)
(* Time passes between any two steps: a read may wait for the store's only *)
(* connection, and between the shell request and the certificate come a    *)
(* file, a row and the lookup of a name.  None of these has a deadline.    *)
(* Tick waits for the timers alone: what one does when it fires is done    *)
(* within a tick.                                                          *)
(***************************************************************************)
EXTENDS Integers

CONSTANTS
  Key, User, Target, HostKey,  \* SSH keys of users, accounts, registrations
  Connection, Channel, ConnOf, \* channels, and the connection each is opened on
  Accepting,                   \* the targets that accept the principal asked for
  Nobody, NoTarget, NoPin,     \* no owner, no registration, NULL host_key
  PerSecond,                   \* ticks to the second, which certificates are cut to
  HandshakeTimeout, MaxAuthTries, StartTimeout, TargetTimeout,
  CertLifetime, ClockSkew, MaxTTL,
  DefaultCols, MaxDimension, Asked, \* columns of a terminal, those a client asks for
  Drifts,                      \* by how much the clocks of targets may be off
  GrantTTL,                    \* how long a grant lasts once it is approved
  FirstClock, MaxClock,        \* bounds of the model: the clock
  MaxChanges                   \* bound of the model: changes of the world

ASSUME GateAssumption ==
  /\ ConnOf \in [Channel -> Connection]
  /\ Accepting \subseteq Target
  /\ Nobody \notin User /\ NoTarget \notin Target /\ NoPin \notin HostKey
  /\ PerSecond \in Nat \ {0}
  /\ HandshakeTimeout \in Nat \ {0} /\ StartTimeout \in Nat \ {0}
  /\ TargetTimeout \in Nat \ {0} /\ CertLifetime \in Nat \ {0}
  /\ ClockSkew \in Nat /\ MaxTTL \in Nat /\ GrantTTL \in Nat \ {0}
  /\ MaxAuthTries \in Nat /\ MaxDimension \in Nat /\ DefaultCols \in 1..MaxDimension
  /\ Asked \subseteq Nat
  /\ Drifts \subseteq Int /\ FirstClock \in Nat /\ MaxClock \in Nat
  /\ MaxChanges \in Nat

VARIABLES
  now, drift,  \* the gateway's clock, and how far ahead those of targets are
  owner,       \* the account each key is registered to
  registered,  \* the registration that has the name, and those that ever had it
  used,
  pin,         \* host_key of each target
  allowed,     \* the accounts that a policy allows on each target
  until,       \* when the grant of each account and target expires, 0 without one
  host,        \* the host key that answers at the address of each target
  changes,     \* how often any of these was changed
  conn,        \* where each connection stands in handle
  offered, who, tries, \* the key it authenticated with, as whom, keys refused
  deadline,    \* of its handshake
  pc,          \* where each channel stands in serveSession and dial
  dest, seen,  \* the target and the pinned key it resolved to
  timer,       \* when awaitStart, and then the connect, give up
  cols,        \* the width of the terminal asked for
  notBefore, notAfter, \* the window of its certificate, in seconds
  read,        \* the time against which its grant is read
  decided, asked, \* history: when resolve answered, when a shell was asked for
  issued, judged, \* history: when its certificate was issued, and judged by the target
  met, held    \* history: see Warrant

clock    == <<now, drift>>
world    == <<owner, registered, used, pin, allowed, until, host, changes>>
hello    == <<conn, offered, who, tries, deadline>>
resolved == <<dest, seen, read, decided, asked>>
ticket   == <<notBefore, notAfter, issued, judged>>
history  == <<met, held>>
vars == <<clock, world, hello, pc, resolved, timer, cols, ticket, history>>

-----------------------------------------------------------------------------
Ground == {"target", "policy", "grant", "pin"}
Claim  == [key : Key, user : User, target : Target, host : HostKey]

Identified == {x \in Claim : owner[x.key] = x.user}
Holds ==
  [g \in Ground |-> {x \in Claim :
     \/ g = "target" /\ registered = x.target
     \/ g = "policy" /\ <<x.user, x.target>> \in allowed
     \/ g = "grant"  /\ until[x.user][x.target] > now
     \/ g = "pin"    /\ pin[x.target] = x.host}]

Came   == {k \in Connection : conn[k] # "none"}
Opened == {c \in Channel : pc[c] # "none"}

\* History: what held since the connection came and since the channel opened.
Watch ==
  /\ met' = [k \in Connection |->
               IF k \in Came' THEN met[k] \cup Identified' ELSE {}]
  /\ held' = [c \in Channel |-> [g \in Ground |->
               IF c \in Opened' THEN held[c][g] \cup Holds'[g] ELSE {}]]

Reading == {"lookup", "authorize", "grant"}
Waiting == {"start", "refused"}
Verdict == {"inside", "early", "late"}

TypeOK ==
  /\ now \in Nat /\ drift \in Drifts
  /\ owner \in [Key -> User \cup {Nobody}]
  /\ registered \in Target \cup {NoTarget} /\ used \subseteq Target
  /\ pin \in [Target -> HostKey \cup {NoPin}]
  /\ allowed \subseteq User \X Target
  /\ until \in [User -> [Target -> Nat]]
  /\ host \in [Target -> HostKey] /\ changes \in Nat
  /\ conn \in [Connection -> {"none", "handshake", "keyed", "up", "down"}]
  /\ offered \in [Connection -> Key] /\ who \in [Connection -> User \cup {Nobody}]
  /\ tries \in [Connection -> Nat] /\ deadline \in [Connection -> Nat]
  /\ pc \in [Channel -> {"none", "connect", "login", "done", "sign"}
                        \cup Reading \cup Waiting \cup Verdict]
  /\ dest \in [Channel -> Target \cup {NoTarget}]
  /\ seen \in [Channel -> HostKey \cup {NoPin}]
  /\ timer \in [Channel -> Nat] /\ cols \in [Channel -> Nat]
  /\ notBefore \in [Channel -> Int] /\ notAfter \in [Channel -> Int]
  /\ read \in [Channel -> Nat] /\ decided \in [Channel -> Nat]
  /\ asked \in [Channel -> Nat]
  /\ issued \in [Channel -> Nat] /\ judged \in [Channel -> Nat]
  /\ met \in [Connection -> SUBSET Claim]
  /\ held \in [Channel -> [Ground -> SUBSET Claim]]

\* A gateway in service: one target, pinned or not, with any policies and grants.
Init ==
  /\ now = FirstClock /\ drift \in Drifts
  /\ owner \in [Key -> User]
  /\ registered \in Target /\ used = {registered}
  /\ pin \in [Target -> HostKey \cup {NoPin}]
  /\ \A t \in Target \ used : pin[t] = NoPin
  /\ allowed \in SUBSET (User \X used)
  /\ until \in [User -> [Target -> {0, FirstClock + GrantTTL}]]
  /\ \A u \in User, t \in Target : t \notin used => until[u][t] = 0
  /\ host \in [Target -> HostKey] /\ changes = 0
  /\ \A t \in Target \ used : host[t] = host[registered]
  /\ conn = [k \in Connection |-> "none"]
  /\ offered \in [Connection -> Key] /\ who = [k \in Connection |-> Nobody]
  /\ tries = [k \in Connection |-> 0] /\ deadline = [k \in Connection |-> 0]
  /\ pc = [c \in Channel |-> "none"]
  /\ dest = [c \in Channel |-> NoTarget] /\ seen = [c \in Channel |-> NoPin]
  /\ timer = [c \in Channel |-> 0] /\ cols = [c \in Channel |-> DefaultCols]
  /\ notBefore = [c \in Channel |-> 0] /\ notAfter = [c \in Channel |-> 0]
  /\ read = [c \in Channel |-> 0] /\ decided = [c \in Channel |-> 0]
  /\ asked = [c \in Channel |-> 0]
  /\ issued = [c \in Channel |-> 0] /\ judged = [c \in Channel |-> 0]
  /\ met = [k \in Connection |-> {}]
  /\ held = [c \in Channel |-> [g \in Ground |-> {}]]

-----------------------------------------------------------------------------
(* The world, as operators, admins, approvers and hosts change it.         *)

Change == changes < MaxChanges /\ changes' = changes + 1
Bystanders == UNCHANGED <<clock, hello, pc, resolved, timer, cols, ticket>>

RegisterKey(key, u) ==
  /\ Change /\ owner[key] = Nobody
  /\ owner' = [owner EXCEPT ![key] = u]
  /\ UNCHANGED <<registered, used, pin, allowed, until, host>>
  /\ Bystanders /\ Watch

\* The key or its account is removed, and the keys of an account go with it.
RemoveKey(key) ==
  /\ Change /\ owner[key] # Nobody
  /\ owner' = [owner EXCEPT ![key] = Nobody]
  /\ UNCHANGED <<registered, used, pin, allowed, until, host>>
  /\ Bystanders /\ Watch

Register(t) ==
  /\ Change /\ registered = NoTarget /\ t \notin used
  /\ registered' = t /\ used' = used \cup {t}
  /\ UNCHANGED <<owner, pin, allowed, until, host>>
  /\ Bystanders /\ Watch

\* The policies and the grants of a removed target stay.
Remove ==
  /\ Change /\ registered # NoTarget
  /\ registered' = NoTarget
  /\ pin' = [t \in Target |-> IF t = registered THEN NoPin ELSE pin[t]]
  /\ UNCHANGED <<owner, used, allowed, until, host>>
  /\ Bystanders /\ Watch

Pin(t, h) ==
  /\ Change /\ registered = t
  /\ pin' = [pin EXCEPT ![t] = h]
  /\ UNCHANGED <<owner, registered, used, allowed, until, host>>
  /\ Bystanders /\ Watch

Allow(u, t) ==
  /\ Change /\ registered = t
  /\ allowed' = allowed \cup {<<u, t>>}
  /\ UNCHANGED <<owner, registered, used, pin, until, host>>
  /\ Bystanders /\ Watch

Forbid(u, t) ==
  /\ Change /\ <<u, t>> \in allowed
  /\ allowed' = allowed \ {<<u, t>>}
  /\ UNCHANGED <<owner, registered, used, pin, until, host>>
  /\ Bystanders /\ Watch

Approve(u, t) ==
  /\ Change /\ t \in used
  /\ until' = [until EXCEPT ![u][t] = now + GrantTTL]
  /\ UNCHANGED <<owner, registered, used, pin, allowed, host>>
  /\ Bystanders /\ Watch

SwapHost(t, h) ==
  /\ Change /\ host[t] # h
  /\ host' = [host EXCEPT ![t] = h]
  /\ UNCHANGED <<owner, registered, used, pin, allowed, until>>
  /\ Bystanders /\ Watch

-----------------------------------------------------------------------------
(* Connections.                                                            *)

Lobby == UNCHANGED <<clock, world, pc, resolved, timer, cols, ticket>>

Accept(k) ==
  /\ conn[k] = "none"
  /\ conn' = [conn EXCEPT ![k] = "handshake"]
  /\ deadline' = [deadline EXCEPT ![k] = now + HandshakeTimeout]
  /\ UNCHANGED <<offered, who, tries>>
  /\ Lobby /\ Watch

\* The one time that the identity of a connection is looked up.
Authenticate(k, key) ==
  /\ conn[k] = "handshake" /\ owner[key] # Nobody
  /\ conn' = [conn EXCEPT ![k] = "keyed"]
  /\ offered' = [offered EXCEPT ![k] = key]
  /\ who' = [who EXCEPT ![k] = owner[key]]
  /\ UNCHANGED <<tries, deadline>>
  /\ Lobby /\ Watch

RefuseKey(k, key) ==
  /\ conn[k] = "handshake" /\ owner[key] = Nobody
  /\ tries' = [tries EXCEPT ![k] = @ + 1]
  /\ conn' = [conn EXCEPT ![k] =
                IF tries[k] + 1 >= MaxAuthTries THEN "down" ELSE "handshake"]
  /\ UNCHANGED <<offered, who, deadline>>
  /\ Lobby /\ Watch

\* The handshake is over, and with it the deadline.
Establish(k) ==
  /\ conn[k] = "keyed" /\ now < deadline[k]
  /\ conn' = [conn EXCEPT ![k] = "up"]
  /\ deadline' = [deadline EXCEPT ![k] = 0]
  /\ UNCHANGED <<offered, who, tries>>
  /\ Lobby /\ Watch

HandshakeExpires(k) ==
  /\ conn[k] \in {"handshake", "keyed"} /\ now >= deadline[k]
  /\ conn' = [conn EXCEPT ![k] = "down"]
  /\ UNCHANGED <<offered, who, tries, deadline>>
  /\ Lobby /\ Watch

Disconnect(k) ==
  /\ conn[k] \in {"handshake", "keyed", "up"}
  /\ conn' = [conn EXCEPT ![k] = "down"]
  /\ UNCHANGED <<offered, who, tries, deadline>>
  /\ Lobby /\ Watch

-----------------------------------------------------------------------------
(* Channels.                                                               *)

UserOf(c) == who[ConnOf[c]]
Goto(c, from, to) == pc[c] = from /\ pc' = [pc EXCEPT ![c] = to]
Rest == UNCHANGED <<clock, world, hello>>

OpenChannel(c) ==
  /\ conn[ConnOf[c]] = "up" /\ Goto(c, "none", "lookup")
  /\ Rest /\ UNCHANGED <<resolved, timer, cols, ticket>> /\ Watch

Reachable == registered \in Accepting /\ pin[registered] # NoPin
Lookup(c) ==
  /\ Goto(c, "lookup", "authorize") /\ Reachable
  /\ dest' = [dest EXCEPT ![c] = registered]
  /\ seen' = [seen EXCEPT ![c] = pin[registered]]
  /\ Rest /\ UNCHANGED <<read, decided, asked, timer, cols, ticket>> /\ Watch

Permitted(c) == <<UserOf(c), dest[c]>> \in allowed
\* The clock is read here, and the grant when the store gets to it.
Authorize(c) ==
  /\ Goto(c, "authorize", "grant") /\ Permitted(c)
  /\ read' = [read EXCEPT ![c] = now]
  /\ Rest /\ UNCHANGED <<dest, seen, decided, asked, timer, cols, ticket>> /\ Watch

\* Mutant: an approved request that has run out still grants.
ApprovedOnce(c) == until[UserOf(c)][dest[c]] > 0

Granted(c) == until[UserOf(c)][dest[c]] > read[c]
AwaitStart(c) == timer' = [timer EXCEPT ![c] = now + StartTimeout]
HasGrant(c) ==
  /\ Goto(c, "grant", "start") /\ Granted(c)
  /\ decided' = [decided EXCEPT ![c] = now]
  /\ AwaitStart(c)
  /\ Rest /\ UNCHANGED <<dest, seen, read, asked, cols, ticket>> /\ Watch

\* A refused channel is told so only when it asks for its shell.
Refuse(c) ==
  /\ \/ Goto(c, "lookup", "refused") /\ ~Reachable
     \/ Goto(c, "authorize", "refused") /\ ~Permitted(c)
     \/ Goto(c, "grant", "refused") /\ ~Granted(c)
  /\ AwaitStart(c)
  /\ Rest /\ UNCHANGED <<resolved, cols, ticket>> /\ Watch

\* The destination is malformed, or a read fails.
ReadFails(c) ==
  /\ \E at \in Reading : Goto(c, at, "refused")
  /\ AwaitStart(c)
  /\ Rest /\ UNCHANGED <<resolved, cols, ticket>> /\ Watch

Bounded(n) == IF n = 0 \/ n > MaxDimension THEN DefaultCols ELSE n

\* Mutant: each request is given the whole time anew.
RequestPtyAnew(c, n) ==
  /\ pc[c] \in Waiting
  /\ cols' = [cols EXCEPT ![c] = Bounded(n)]
  /\ AwaitStart(c)
  /\ Rest /\ UNCHANGED <<pc, resolved, ticket>> /\ Watch

\* Any other request is answered, and does not restart the timer.
RequestPty(c, n) ==
  /\ pc[c] \in Waiting
  /\ cols' = [cols EXCEPT ![c] = Bounded(n)]
  /\ Rest /\ UNCHANGED <<pc, resolved, timer, ticket>> /\ Watch

\* The request may have been queued before the user left.
StartShell(c) ==
  /\ Goto(c, "start", "sign") \/ Goto(c, "refused", "done")
  /\ asked' = [asked EXCEPT ![c] = now]
  /\ Rest /\ UNCHANGED <<dest, seen, read, decided, timer, cols, ticket>> /\ Watch

NeverStarts(c) ==
  /\ \E at \in Waiting : Goto(c, at, "done")
  /\ now >= timer[c] \/ conn[ConnOf[c]] = "down"
  /\ Rest /\ UNCHANGED <<resolved, timer, cols, ticket>> /\ Watch

-----------------------------------------------------------------------------
(* The dial: a certificate of seconds, a TCP connection, a login.          *)

Sec(t) == t \div PerSecond
\* Mutant: the clocks of targets are taken to agree.
ValidAtOnce == now

ValidAfter == now - ClockSkew
ValidBefore == now + CertLifetime

Check == /\ Sec(ValidAfter) > 0 /\ Sec(ValidBefore) > 0
         /\ ValidAfter < ValidBefore
         /\ ValidBefore - ValidAfter <= MaxTTL

\* The rest of a certificate is the same for each: one principal, one source address.
Build(c) ==
  /\ notBefore' = [notBefore EXCEPT ![c] = Sec(ValidAfter)]
  /\ notAfter' = [notAfter EXCEPT ![c] = Sec(ValidBefore)]

\* Before this come the recorder, the row, the registry and the source address, for any
\* number of ticks: the certificate starts when all of them are done.
Sign(c) ==
  /\ Goto(c, "sign", "connect") /\ Check /\ Build(c)
  /\ issued' = [issued EXCEPT ![c] = now]
  /\ timer' = [timer EXCEPT ![c] = now + TargetTimeout]
  /\ Rest /\ UNCHANGED <<resolved, cols, judged>> /\ Watch

\* The request does not pass the check, or there is no signer or no source address.
SignFails(c) ==
  /\ Goto(c, "sign", "done")
  /\ Rest /\ UNCHANGED <<resolved, timer, cols, ticket>> /\ Watch

Connect(c) ==
  /\ Goto(c, "connect", "login")
  /\ Rest /\ UNCHANGED <<resolved, timer, cols, ticket>> /\ Watch

\* Refused, or timed out: the timeout of the dialer ends here.
ConnectFails(c) ==
  /\ Goto(c, "connect", "done")
  /\ Rest /\ UNCHANGED <<resolved, timer, cols, ticket>> /\ Watch

\* The host shows the pinned key, and looks at the window on its own clock.
FarSecond == Sec(now + drift)
Login(c) ==
  /\ pc[c] = "login" /\ host[dest[c]] = seen[c]
  /\ \/ FarSecond < notBefore[c] /\ Goto(c, "login", "early")
     \/ FarSecond >= notAfter[c] /\ Goto(c, "login", "late")
     \/ notBefore[c] <= FarSecond /\ FarSecond < notAfter[c]
        /\ Goto(c, "login", "inside")
  /\ judged' = [judged EXCEPT ![c] = now]
  /\ Rest /\ UNCHANGED <<resolved, timer, cols, notBefore, notAfter, issued>> /\ Watch

\* The host shows another key, refuses the principal, or goes away.
LoginFails(c) ==
  /\ Goto(c, "login", "done")
  /\ Rest /\ UNCHANGED <<resolved, timer, cols, ticket>> /\ Watch

-----------------------------------------------------------------------------
\* No timer that has run out is left to fire.
TimersFire == \A c \in Channel :
  pc[c] \in Waiting \cup {"connect"} => now < timer[c]

Tick ==
  /\ now < MaxClock /\ TimersFire
  /\ now' = now + 1
  /\ UNCHANGED <<drift, world, hello, pc, resolved, timer, cols, ticket>> /\ Watch

WorldStep ==
  \/ \E key \in Key : RemoveKey(key) \/ \E u \in User : RegisterKey(key, u)
  \/ Remove
  \/ \E t \in Target :
       \/ Register(t)
       \/ \E h \in HostKey : Pin(t, h) \/ SwapHost(t, h)
       \/ \E u \in User : Allow(u, t) \/ Forbid(u, t) \/ Approve(u, t)

ConnectionStep(k) ==
  \/ Accept(k) \/ Establish(k) \/ HandshakeExpires(k) \/ Disconnect(k)
  \/ \E key \in Key : Authenticate(k, key) \/ RefuseKey(k, key)

ChannelStep(c) ==
  \/ OpenChannel(c) \/ Lookup(c) \/ Authorize(c) \/ HasGrant(c)
  \/ Refuse(c) \/ ReadFails(c) \/ StartShell(c) \/ NeverStarts(c)
  \/ Sign(c) \/ SignFails(c) \/ Connect(c) \/ ConnectFails(c)
  \/ Login(c) \/ LoginFails(c)
  \/ \E n \in Asked : RequestPty(c, n)

Next == \/ Tick
        \/ WorldStep
        \/ \E k \in Connection : ConnectionStep(k)
        \/ \E c \in Channel : ChannelStep(c)

Spec == Init /\ [][Next]_vars

-----------------------------------------------------------------------------
\* The claim under which a channel runs.
ClaimOf(c) == [key |-> offered[ConnOf[c]], user |-> UserOf(c),
               target |-> dest[c], host |-> seen[c]]

Promise == INSTANCE Warrant WITH
  identified <- Identified, holds <- Holds, come <- Came, opened <- Opened,
  admitted <- [c \in Channel |-> IF pc[c] = "inside" THEN {ClaimOf(c)} ELSE {}]

\* A channel is let in to a target, whose host has just shown the key, only
\* under a claim each part of which held: the key was the user's at some moment
\* since the connection came; the target, its policy, its grant and the pinned key
\* each at some moment since the channel opened (serveSession, handle).
Warranted == Promise!Spec

\* How old a decision may be, as far as the code bounds it: the shell of a session
\* was asked for within the one wait for it, however the client spaced its requests,
\* and the session started within the life of its certificate, by the target's clock
\* (awaitStart, dial). Nothing bounds what lies between the two.
StartIsBounded == \A c \in Channel : pc[c] = "inside" =>
  /\ asked[c] <= decided[c] + StartTimeout
  /\ judged[c] + drift < issued[c] + CertLifetime

\* A target whose clock is no further behind than the skew never finds a
\* certificate too new, and one finds it too old no more than the second that is cut
\* off before its end (dial, unixSeconds).
WindowIsKept == \A c \in Channel :
  /\ pc[c] = "early" => drift < -ClockSkew
  /\ pc[c] = "late" => judged[c] + drift > issued[c] + CertLifetime - PerSecond
=============================================================================
