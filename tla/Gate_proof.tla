----------------------------- MODULE Gate_proof -----------------------------
(***************************************************************************)
(* Proofs about Gate: types, that a channel is let in only under a claim   *)
(* was warranted, which parts of its delay are bounded, and what a         *)
(* target may hold against a certificate's window.                         *)
(*                                                                         *)
(* The inductive invariant says of each place in serveSession and dial     *)
(* what has been read on the way there and was remembered by history, and  *)
(* how the clock stands to the timers that were set.                       *)
(***************************************************************************)
EXTENDS Gate, TLAPS

-----------------------------------------------------------------------------
(* Seconds.                                                                *)

LEMMA SecOf ==
  ASSUME NEW t \in Int
  PROVE  /\ Sec(t) \in Int
         /\ PerSecond * Sec(t) <= t
         /\ t < PerSecond * Sec(t) + PerSecond
<1>1. PerSecond \in Nat /\ PerSecond > 0
  BY GateAssumption
<1> DEFINE S == PerSecond
<1> HIDE DEF S
<1>2. S \in Nat /\ S > 0
  BY <1>1 DEF S
<1>3. t \div S \in Int /\ S * (t \div S) <= t /\ t < S * (t \div S) + S
  BY <1>2
<1> QED
  BY <1>3 DEF Sec, S

\* Cutting to seconds keeps the order, and loses less than a second.
LEMMA SecOrder ==
  ASSUME NEW a \in Int, NEW b \in Int
  PROVE  /\ Sec(a) < Sec(b) => a < b
         /\ Sec(a) >= Sec(b) => a > b - PerSecond
<1> DEFINE S == PerSecond  x == Sec(a)  y == Sec(b)
<1>1. S \in Nat /\ S > 0
  BY GateAssumption
<1>2. /\ x \in Int /\ y \in Int
      /\ S * x <= a /\ a < S * x + S /\ S * y <= b /\ b < S * y + S
  BY SecOf
<1> HIDE DEF S, x, y
<1>3. ASSUME x < y PROVE a < b
  <2>1. x + 1 <= y
    BY <1>2, <1>3
  <2>2. S * (x + 1) <= S * y
    BY <1>1, <1>2, <2>1
  <2>3. S * (x + 1) = S * x + S
    BY <1>1, <1>2
  <2> QED
    BY <1>1, <1>2, <2>2, <2>3
<1>4. ASSUME x >= y PROVE a > b - S
  <2>1. S * x >= S * y
    BY <1>1, <1>2, <1>4
  <2>2. S * x \in Int /\ S * y \in Int
    BY <1>1, <1>2
  <2> QED
    BY <1>1, <1>2, <2>1, <2>2
<1> QED
  BY <1>3, <1>4 DEF S, x, y

-----------------------------------------------------------------------------
(* History.                                                                *)

LEMMA WorldTyped == Identified \subseteq Claim /\ Holds \in [Ground -> SUBSET Claim]
BY DEF Identified, Holds

LEMMA WorldTypedNext == Identified' \subseteq Claim /\ Holds' \in [Ground -> SUBSET Claim]
BY DEF Identified, Holds

LEMMA HistoryTyped ==
  ASSUME TypeOK, Watch
  PROVE  /\ met' \in [Connection -> SUBSET Claim]
         /\ held' \in [Channel -> [Ground -> SUBSET Claim]]
<1> USE WorldTypedNext
<1>1. met' \in [Connection -> SUBSET Claim]
  BY DEF Watch, TypeOK
<1>2. ASSUME NEW c \in Channel, NEW g \in Ground
      PROVE  (IF c \in Opened' THEN held[c][g] \cup Holds'[g] ELSE {}) \in SUBSET Claim
  BY DEF TypeOK
<1> QED
  BY <1>1, <1>2 DEF Watch

\* What history has seen it keeps, and what holds now it has seen.
LEMMA HistoryGrows ==
  ASSUME TypeOK, Watch
  PROVE  /\ \A k \in Connection : conn'[k] # "none" =>
              met[k] \subseteq met'[k] /\ Identified' \subseteq met'[k]
         /\ \A c \in Channel, g \in Ground : pc'[c] # "none" =>
              held[c][g] \subseteq held'[c][g] /\ Holds'[g] \subseteq held'[c][g]
BY DEF Watch, Came, Opened

\* What each ground is of a claim.
LEMMA GroundsHold ==
  ASSUME NEW x \in Claim
  PROVE  /\ x \in Identified <=> owner[x.key] = x.user
         /\ x \in Holds["target"] <=> registered = x.target
         /\ x \in Holds["policy"] <=> <<x.user, x.target>> \in allowed
         /\ x \in Holds["grant"] <=> until[x.user][x.target] > now
         /\ x \in Holds["pin"] <=> pin[x.target] = x.host
BY DEF Identified, Holds, Ground

-----------------------------------------------------------------------------
(* Types.                                                                  *)

LEMMA TypeInit == Init => TypeOK
<1> SUFFICES ASSUME Init PROVE TypeOK
  OBVIOUS
<1>1. until \in [User -> [Target -> Nat]]
  BY GateAssumption DEF Init
<1>2. /\ met \in [Connection -> SUBSET Claim]
      /\ held \in [Channel -> [Ground -> SUBSET Claim]]
  BY DEF Init
<1> QED
  BY <1>1, <1>2, GateAssumption DEF Init, TypeOK

LEMMA TypeWorld ==
  ASSUME TypeOK, WorldStep
  PROVE  TypeOK'
<1> USE GateAssumption DEF Bystanders, clock, hello, resolved, ticket, Change
<1>1. ASSUME NEW key \in Key, NEW u \in User, RegisterKey(key, u)
      PROVE  TypeOK'
  BY <1>1, HistoryTyped DEF RegisterKey, TypeOK
<1>2. ASSUME NEW key \in Key, RemoveKey(key) PROVE TypeOK'
  BY <1>2, HistoryTyped DEF RemoveKey, TypeOK
<1>3. CASE Remove
  BY <1>3, HistoryTyped DEF Remove, TypeOK
<1>4. ASSUME NEW t \in Target, Register(t) PROVE TypeOK'
  BY <1>4, HistoryTyped DEF Register, TypeOK
<1>5. ASSUME NEW t \in Target, NEW h \in HostKey, Pin(t, h) PROVE TypeOK'
  BY <1>5, HistoryTyped DEF Pin, TypeOK
<1>8. ASSUME NEW t \in Target, NEW h \in HostKey, SwapHost(t, h) PROVE TypeOK'
  BY <1>8, HistoryTyped DEF SwapHost, TypeOK
<1>6. ASSUME NEW t \in Target, NEW u \in User, Allow(u, t) \/ Forbid(u, t) PROVE TypeOK'
  BY <1>6, HistoryTyped DEF Allow, Forbid, TypeOK
<1>7. ASSUME NEW t \in Target, NEW u \in User, Approve(u, t) PROVE TypeOK'
  BY <1>7, HistoryTyped DEF Approve, TypeOK
<1> QED
  BY <1>1, <1>2, <1>3, <1>4, <1>5, <1>6, <1>7, <1>8 DEF WorldStep

LEMMA TypeConnection ==
  ASSUME TypeOK, NEW k \in Connection, ConnectionStep(k)
  PROVE  TypeOK'
<1> USE GateAssumption DEF Lobby, clock, world, resolved, ticket
<1>1. CASE Accept(k) BY <1>1, HistoryTyped DEF Accept, TypeOK
<1>2. CASE Establish(k) BY <1>2, HistoryTyped DEF Establish, TypeOK
<1>5. CASE HandshakeExpires(k) BY <1>5, HistoryTyped DEF HandshakeExpires, TypeOK
<1>6. CASE Disconnect(k) BY <1>6, HistoryTyped DEF Disconnect, TypeOK
<1>3. ASSUME NEW key \in Key, Authenticate(k, key) PROVE TypeOK'
  BY <1>3, HistoryTyped DEF Authenticate, TypeOK
<1>4. ASSUME NEW key \in Key, RefuseKey(k, key) PROVE TypeOK'
  BY <1>4, HistoryTyped DEF RefuseKey, TypeOK
<1> QED
  BY <1>1, <1>2, <1>3, <1>4, <1>5, <1>6 DEF ConnectionStep

LEMMA TypeChannel ==
  ASSUME TypeOK, NEW c \in Channel, ChannelStep(c)
  PROVE  TypeOK'
<1> USE GateAssumption DEF Rest, clock, world, hello, resolved, ticket, Goto, Reading, Waiting,
        Verdict
<1>1. CASE OpenChannel(c) \/ NeverStarts(c) \/ SignFails(c)
           \/ Connect(c) \/ ConnectFails(c) \/ LoginFails(c)
  BY <1>1, HistoryTyped DEF OpenChannel, NeverStarts, SignFails,
     Connect, ConnectFails, LoginFails, TypeOK
<1>9. CASE Authorize(c) BY <1>9, HistoryTyped DEF Authorize, TypeOK
<1>10. CASE StartShell(c) BY <1>10, HistoryTyped DEF StartShell, TypeOK
<1>2. CASE Lookup(c) BY <1>2, HistoryTyped DEF Lookup, Reachable, TypeOK
<1>3. CASE HasGrant(c) BY <1>3, HistoryTyped DEF HasGrant, AwaitStart, TypeOK
<1>4. CASE Refuse(c)
  <2>1. pc' = [pc EXCEPT ![c] = "refused"]
    BY <1>4 DEF Refuse
  <2> QED BY <1>4, <2>1, HistoryTyped DEF Refuse, AwaitStart, TypeOK
<1>8. CASE ReadFails(c)
  <2>1. pc' = [pc EXCEPT ![c] = "refused"]
    BY <1>8 DEF ReadFails
  <2> QED BY <1>8, <2>1, HistoryTyped DEF ReadFails, AwaitStart, TypeOK
<1>5. CASE Sign(c)
  <2>1. Sec(ValidAfter) \in Int /\ Sec(ValidBefore) \in Int
    BY SecOf DEF ValidAfter, ValidBefore, TypeOK
  <2> QED BY <1>5, <2>1, HistoryTyped DEF Sign, Build, TypeOK
<1>6. CASE Login(c) BY <1>6, HistoryTyped DEF Login, TypeOK
<1>7. ASSUME NEW n \in Asked, RequestPty(c, n) PROVE TypeOK'
  BY <1>7, HistoryTyped DEF RequestPty, Bounded, TypeOK
<1> QED
  BY <1>1, <1>2, <1>3, <1>4, <1>5, <1>6, <1>7, <1>8, <1>9, <1>10 DEF ChannelStep

LEMMA TypeStep == TypeOK /\ [Next]_vars => TypeOK'
<1> SUFFICES ASSUME TypeOK, [Next]_vars PROVE TypeOK'
  OBVIOUS
<1>1. CASE Tick
  BY <1>1, HistoryTyped DEF Tick, world, hello, resolved, ticket, TypeOK
<1>2. CASE UNCHANGED vars
  BY <1>2 DEF vars, clock, world, hello, resolved, ticket, history, TypeOK
<1> QED
  BY <1>1, <1>2, TypeWorld, TypeConnection, TypeChannel DEF Next

\* Every variable keeps its type, for any sets and any timers.
THEOREM TypeCorrect == Spec => []TypeOK
BY TypeInit, TypeStep, PTL DEF Spec

-----------------------------------------------------------------------------
(* The inductive invariant.                                                *)

AfterGrant  == {"start", "sign", "connect", "login"} \cup Verdict
AfterPolicy == AfterGrant \cup {"grant"}
AfterLookup == AfterPolicy \cup {"authorize"}

\* The key of an authenticated connection was its account's since it came.
IdentityInv(k) ==
  /\ conn[k] \in {"none", "handshake"} => who[k] = Nobody
  /\ conn[k] \in {"keyed", "up"} => who[k] \in User
  /\ who[k] \in User =>
       \A x \in Claim : x.key = offered[k] /\ x.user = who[k] => x \in met[k]

\* What a channel has read on its way has held since it opened.
WarrantInv(c) ==
  /\ pc[c] # "none" => UserOf(c) \in User
  /\ pc[c] \in {"none", "lookup"} => dest[c] = NoTarget
  /\ pc[c] \in AfterLookup => dest[c] \in Target /\ seen[c] \in HostKey
  /\ dest[c] # NoTarget =>
       \A x \in Claim : x.target = dest[c] =>
         x \in held[c]["target"] /\ (x.host = seen[c] => x \in held[c]["pin"])
  /\ pc[c] \in AfterPolicy =>
       \A x \in Claim : x.user = UserOf(c) /\ x.target = dest[c] => x \in held[c]["policy"]
  /\ pc[c] = "grant" => read[c] <= now /\ \A x \in Claim :
       /\ x.user = UserOf(c) /\ x.target = dest[c]
       /\ until[x.user][x.target] > read[c]
       => x \in held[c]["grant"]
  /\ pc[c] \in AfterGrant =>
       \A x \in Claim : x.user = UserOf(c) /\ x.target = dest[c] => x \in held[c]["grant"]

\* How the clock stands to the timers, and what the certificate says.
Issued == {"connect", "login"} \cup Verdict
TimeInv(c) ==
  /\ pc[c] = "start" => timer[c] = decided[c] + StartTimeout /\ now <= timer[c]
  /\ pc[c] \in {"sign"} \cup Issued => asked[c] <= decided[c] + StartTimeout
  /\ pc[c] \in Issued => /\ notBefore[c] = Sec(issued[c] - ClockSkew)
                         /\ notAfter[c] = Sec(issued[c] + CertLifetime)
  /\ pc[c] \in {"connect", "login"} => issued[c] <= now
  /\ pc[c] \in Verdict => issued[c] <= judged[c]
  /\ pc[c] = "inside" => Sec(judged[c] + drift) < notAfter[c]
  /\ pc[c] = "early" => Sec(judged[c] + drift) < notBefore[c]
  /\ pc[c] = "late" => Sec(judged[c] + drift) >= notAfter[c]

IInv == /\ TypeOK
        /\ \A k \in Connection : IdentityInv(k)
        /\ \A c \in Channel : WarrantInv(c) /\ TimeInv(c)

LEMMA InvInit == Init => IInv
<1> SUFFICES ASSUME Init PROVE IInv
  OBVIOUS
<1>1. ASSUME NEW k \in Connection PROVE IdentityInv(k)
  BY GateAssumption DEF Init, IdentityInv
<1>2. ASSUME NEW c \in Channel PROVE WarrantInv(c) /\ TimeInv(c)
  BY DEF Init, WarrantInv, TimeInv, AfterLookup, AfterPolicy, AfterGrant, Issued, Verdict
<1> QED
  BY <1>1, <1>2, TypeInit DEF IInv

-----------------------------------------------------------------------------
(* Who is whom.                                                            *)

\* A connection is authenticated once, and never comes again.
LEMMA WhoIsFixed ==
  ASSUME IInv, [Next]_vars, NEW k \in Connection
  PROVE  /\ conn'[k] = "none" => conn[k] = "none"
         /\ who[k] \in User => who'[k] = who[k] /\ offered'[k] = offered[k]
<1> USE GateAssumption
<1> TypeOK /\ IdentityInv(k)
  BY DEF IInv
<1>1. CASE UNCHANGED hello
  BY <1>1 DEF hello
<1>2. ASSUME NEW j \in Connection, ConnectionStep(j)
      PROVE  /\ conn'[k] = "none" => conn[k] = "none"
             /\ who[k] \in User => who'[k] = who[k] /\ offered'[k] = offered[k]
  <2>1. CASE Accept(j) \/ Establish(j) \/ HandshakeExpires(j) \/ Disconnect(j)
    BY <2>1 DEF Accept, Establish, HandshakeExpires, Disconnect, TypeOK
  <2>2. ASSUME NEW key \in Key, Authenticate(j, key) \/ RefuseKey(j, key)
        PROVE  /\ conn'[k] = "none" => conn[k] = "none"
               /\ who[k] \in User => who'[k] = who[k] /\ offered'[k] = offered[k]
    BY <2>2 DEF Authenticate, RefuseKey, TypeOK, IdentityInv
  <2> QED
    BY <1>2, <2>1, <2>2 DEF ConnectionStep
<1>3. ASSUME NEW c \in Channel, ChannelStep(c) PROVE UNCHANGED hello
  BY <1>3 DEF ChannelStep, OpenChannel, Lookup, Authorize, HasGrant, Refuse, ReadFails,
     StartShell, NeverStarts, Sign, SignFails, Connect, ConnectFails, Login, LoginFails,
     RequestPty, Rest
<1>4. CASE WorldStep
  BY <1>4 DEF WorldStep, RegisterKey, RemoveKey, Register, Remove, Pin, SwapHost, Allow,
     Forbid, Approve, Bystanders, hello
<1> QED
  BY <1>1, <1>2, <1>3, <1>4 DEF Next, Tick, vars

\* Every step remembers the world it leads to, or changes nothing.
LEMMA StepsWatch == [Next]_vars => Watch \/ UNCHANGED vars
BY DEF Next, Tick, WorldStep, RegisterKey, RemoveKey, Register, Remove, Pin, SwapHost, Allow,
   Forbid, Approve, ConnectionStep, Accept, Authenticate, RefuseKey, Establish,
   HandshakeExpires, Disconnect, ChannelStep, OpenChannel, Lookup, Authorize, HasGrant,
   Refuse, ReadFails, StartShell, NeverStarts, Sign, SignFails, Connect, ConnectFails, Login,
   LoginFails, RequestPty

LEMMA IdentityHolds ==
  ASSUME IInv, [Next]_vars, NEW k \in Connection
  PROVE  IdentityInv(k)'
<1> USE GateAssumption
<1> TypeOK /\ IdentityInv(k)
  BY DEF IInv
<1>1. CASE UNCHANGED vars
  BY <1>1 DEF vars, hello, history, IdentityInv
<1>2. ASSUME Watch, UNCHANGED <<who, offered>>,
             conn'[k] \in {"none", "handshake"} => conn[k] \in {"none", "handshake"},
             conn'[k] \in {"keyed", "up"} => conn[k] \in {"keyed", "up"},
             conn'[k] = "none" => conn[k] = "none"
      PROVE  IdentityInv(k)'
  BY <1>2, HistoryGrows DEF IdentityInv
<1>3. ASSUME NEW key \in Key, Authenticate(k, key) PROVE IdentityInv(k)'
  <2>1. /\ conn'[k] = "keyed" /\ who'[k] = owner[key] /\ offered'[k] = key
        /\ owner' = owner /\ owner[key] \in User /\ Watch
    BY <1>3 DEF Authenticate, Lobby, world, TypeOK
  <2>2. ASSUME NEW x \in Claim, x.key = key, x.user = owner[key] PROVE x \in met'[k]
    <3>1. x \in Identified'
      BY <2>1, <2>2 DEF Identified
    <3> QED BY <3>1, <2>1, HistoryGrows
  <2> QED BY <2>1, <2>2 DEF IdentityInv
<1>4. ASSUME NEW j \in Connection, ConnectionStep(j) PROVE IdentityInv(k)'
  <2>1. CASE Accept(j) BY <2>1, <1>2 DEF Accept, TypeOK
  <2>2. CASE Establish(j) BY <2>2, <1>2 DEF Establish, TypeOK
  <2>3. CASE HandshakeExpires(j) BY <2>3, <1>2 DEF HandshakeExpires, TypeOK
  <2>4. CASE Disconnect(j) BY <2>4, <1>2 DEF Disconnect, TypeOK
  <2>5. ASSUME NEW key \in Key, RefuseKey(j, key) PROVE IdentityInv(k)'
    BY <2>5, <1>2 DEF RefuseKey, TypeOK
  <2>6. ASSUME NEW key \in Key, Authenticate(j, key) PROVE IdentityInv(k)'
    <3>1. CASE j = k BY <2>6, <3>1, <1>3
    <3>2. CASE j # k
      <4>1. /\ Watch /\ who'[k] = who[k] /\ offered'[k] = offered[k] /\ conn'[k] = conn[k]
        BY <2>6, <3>2 DEF Authenticate, TypeOK
      <4> QED BY <4>1, HistoryGrows DEF IdentityInv
    <3> QED BY <3>1, <3>2
  <2> QED BY <1>4, <2>1, <2>2, <2>3, <2>4, <2>5, <2>6 DEF ConnectionStep
<1>5. CASE Watch /\ UNCHANGED hello
  BY <1>5, <1>2 DEF hello
<1>6. CASE WorldStep
  BY <1>5, <1>6 DEF WorldStep, RegisterKey, RemoveKey, Register, Remove, Pin, SwapHost,
     Allow, Forbid, Approve, Bystanders, hello
<1>7. ASSUME NEW c \in Channel, ChannelStep(c) PROVE IdentityInv(k)'
  <2>1. Watch /\ UNCHANGED hello
    BY <1>7 DEF ChannelStep, OpenChannel, Lookup, Authorize, HasGrant, Refuse, ReadFails,
       StartShell, NeverStarts, Sign, SignFails, Connect, ConnectFails, Login, LoginFails,
       RequestPty, Rest
  <2> QED BY <2>1, <1>5
<1>8. CASE Tick BY <1>5, <1>8 DEF Tick
<1> QED
  BY <1>1, <1>4, <1>6, <1>7, <1>8 DEF Next

-----------------------------------------------------------------------------
(* What a channel has read.                                                *)

\* A grant changes only by an approval, and then it lasts.
LEMMA GrantsLast ==
  ASSUME TypeOK, [Next]_vars, NEW u \in User, NEW t \in Target
  PROVE  /\ now \in Nat /\ now' \in Nat /\ now <= now'
         /\ until'[u][t] = until[u][t] \/ until'[u][t] > now'
<1> USE GateAssumption
<1>1. CASE Tick \/ UNCHANGED vars
  BY <1>1 DEF Tick, TypeOK, vars, clock, world
<1>2. ASSUME NEW k \in Connection, ConnectionStep(k) PROVE UNCHANGED <<now, until>>
  BY <1>2 DEF ConnectionStep, Accept, Authenticate, RefuseKey, Establish,
     HandshakeExpires, Disconnect, Lobby, clock, world
<1>3. ASSUME NEW c \in Channel, ChannelStep(c) PROVE UNCHANGED <<now, until>>
  BY <1>3 DEF ChannelStep, OpenChannel, Lookup, Authorize, HasGrant, Refuse, ReadFails,
     StartShell, NeverStarts, Sign, SignFails, Connect, ConnectFails, Login, LoginFails,
     RequestPty, Rest, clock, world
<1>4. ASSUME NEW v \in User, NEW w \in Target, Approve(v, w)
      PROVE  now' = now /\ (until'[u][t] = until[u][t] \/ until'[u][t] > now')
  <2>1. now' = now /\ until' = [until EXCEPT ![v][w] = now + GrantTTL]
    BY <1>4 DEF Approve, Bystanders, clock
  <2>2. until \in [User -> [Target -> Nat]] /\ now \in Nat
    BY DEF TypeOK
  <2>3. CASE u = v /\ t = w
    <3>1. until'[u][t] = now + GrantTTL
      BY <2>1, <2>2, <2>3
    <3> QED BY <2>1, <2>2, <3>1
  <2>4. CASE u # v \/ t # w
    BY <2>1, <2>2, <2>4
  <2> QED BY <2>1, <2>3, <2>4
<1>5. CASE WorldStep
  <2>1. CASE \E v \in User, w \in Target : Approve(v, w)
    BY <1>4, <2>1 DEF TypeOK
  <2>2. CASE ~ \E v \in User, w \in Target : Approve(v, w)
    <3>1. UNCHANGED <<now, until>>
      BY <1>5, <2>2 DEF WorldStep, RegisterKey, RemoveKey, Register, Remove, Pin, SwapHost,
         Allow, Forbid, Bystanders, clock
    <3> QED BY <3>1 DEF TypeOK
  <2> QED BY <2>1, <2>2
<1> QED
  BY <1>1, <1>2, <1>3, <1>5 DEF Next, TypeOK

\* A channel that is nowhere it was not before keeps what it has.
LEMMA WarrantKept ==
  ASSUME IInv, [Next]_vars, Watch, NEW c \in Channel,
         dest'[c] = dest[c], seen'[c] = seen[c], pc[c] # "none" \/ pc'[c] = "none",
         pc[c] # "none" => pc'[c] # "none",
         pc'[c] \in {"none", "lookup"} => pc[c] \in {"none", "lookup"},
         pc'[c] \in AfterLookup => pc[c] \in AfterLookup,
         pc'[c] \in AfterPolicy => pc[c] \in AfterPolicy,
         pc'[c] = "grant" => pc[c] = "grant" /\ read'[c] = read[c],
         pc'[c] \in AfterGrant => pc[c] \in AfterGrant
  PROVE  WarrantInv(c)'
<1> USE GateAssumption
<1> TypeOK /\ WarrantInv(c) /\ ConnOf[c] \in Connection
  BY DEF IInv
<1>1. pc[c] # "none" => UserOf(c) \in User /\ UserOf(c)' = UserOf(c)
  BY WhoIsFixed DEF UserOf, WarrantInv
<1>2. \A g \in Ground : pc'[c] # "none" => held[c][g] \subseteq held'[c][g]
  BY HistoryGrows
<1>3. Ground = {"target", "policy", "grant", "pin"}
  BY DEF Ground
<1>4. dest'[c] # NoTarget =>
       \A x \in Claim : x.target = dest'[c] =>
         x \in held'[c]["target"] /\ (x.host = seen'[c] => x \in held'[c]["pin"])
  BY <1>2, <1>3 DEF WarrantInv
<1>5. pc'[c] \in AfterPolicy =>
       \A x \in Claim : x.user = UserOf(c)' /\ x.target = dest'[c] => x \in held'[c]["policy"]
  <2> HAVE pc'[c] \in AfterPolicy
  <2>1. pc'[c] # "none" /\ pc[c] # "none"
    BY DEF AfterPolicy, AfterGrant, Verdict
  <2> QED BY <2>1, <1>1, <1>2, <1>3 DEF WarrantInv
<1>6. pc'[c] \in AfterGrant =>
       \A x \in Claim : x.user = UserOf(c)' /\ x.target = dest'[c] => x \in held'[c]["grant"]
  <2> HAVE pc'[c] \in AfterGrant
  <2>1. pc'[c] # "none" /\ pc[c] # "none"
    BY DEF AfterPolicy, AfterGrant, Verdict
  <2> QED BY <2>1, <1>1, <1>2, <1>3 DEF WarrantInv
<1>7. pc'[c] # "none" => UserOf(c)' \in User
  BY <1>1
<1>8. ASSUME pc'[c] = "grant"
      PROVE  /\ read'[c] <= now'
             /\ \A x \in Claim :
                  x.user = UserOf(c)' /\ x.target = dest'[c]
                    /\ until'[x.user][x.target] > read'[c]
                  => x \in held'[c]["grant"]
  <2>1. /\ pc[c] = "grant" /\ read'[c] = read[c] /\ UserOf(c)' = UserOf(c)
        /\ dest'[c] = dest[c] /\ read[c] \in Nat /\ read[c] <= now
    BY <1>1, <1>8 DEF WarrantInv, TypeOK
  <2>2. UserOf(c) \in User /\ dest[c] \in Target
    BY <1>1, <2>1 DEF WarrantInv, AfterLookup, AfterPolicy
  <2>3. now \in Nat /\ now' \in Nat /\ now <= now'
    BY <2>2, GrantsLast
  <2>4. ASSUME NEW x \in Claim, x.user = UserOf(c), x.target = dest[c],
               until'[x.user][x.target] > read[c]
        PROVE  x \in held'[c]["grant"]
    <3>1. CASE until'[x.user][x.target] = until[x.user][x.target]
      <4>1. x \in held[c]["grant"]
        BY <2>1, <2>4, <3>1 DEF WarrantInv
      <4> QED BY <4>1, <1>2, <1>3, <1>8
    <3>2. CASE until'[x.user][x.target] > now'
      <4>1. x \in Holds'["grant"]
        BY <3>2 DEF Holds, Ground
      <4> QED BY <4>1, <1>3, <1>8, HistoryGrows
    <3> QED BY <2>2, <2>4, <3>1, <3>2, GrantsLast
  <2> QED BY <2>1, <2>3, <2>4
<1> QED
  BY <1>4, <1>5, <1>6, <1>7, <1>8 DEF WarrantInv

\* A channel that stands still keeps what it has, whoever moves.
LEMMA WarrantStill ==
  ASSUME IInv, [Next]_vars, Watch, NEW c \in Channel,
         dest'[c] = dest[c], seen'[c] = seen[c], read'[c] = read[c], pc'[c] = pc[c]
  PROVE  WarrantInv(c)'
BY WarrantKept

LEMMA WarrantOwn ==
  ASSUME IInv, [Next]_vars, NEW c \in Channel, ChannelStep(c)
  PROVE  WarrantInv(c)'
<1> USE GateAssumption
<1> TypeOK /\ WarrantInv(c) /\ ConnOf[c] \in Connection
  BY DEF IInv
<1>0. ASSUME UNCHANGED <<dest, seen>>, Watch, pc[c] \in AfterGrant, pc'[c] \in AfterGrant
      PROVE  WarrantInv(c)'
  BY <1>0, WarrantKept DEF AfterLookup, AfterPolicy, AfterGrant, Verdict
<1>14. ASSUME UNCHANGED <<dest, seen>>, Watch, pc[c] # "none",
              pc'[c] = "refused" \/ pc'[c] = "done"
       PROVE  WarrantInv(c)'
  BY <1>14, WarrantKept DEF AfterLookup, AfterPolicy, AfterGrant, Verdict
<1>1. CASE OpenChannel(c)
  <2>1. /\ pc[c] = "none" /\ pc'[c] = "lookup" /\ UNCHANGED <<dest, seen, who>> /\ Watch
        /\ conn[ConnOf[c]] = "up"
    BY <1>1 DEF OpenChannel, Goto, Rest, hello, resolved, TypeOK
  <2>2. UserOf(c)' \in User
    BY <2>1 DEF UserOf, IInv, IdentityInv
  <2>3. dest[c] = NoTarget
    BY <2>1 DEF WarrantInv
  <2> QED
    BY <2>1, <2>2, <2>3 DEF WarrantInv, AfterLookup, AfterPolicy, AfterGrant, Verdict
<1>2. CASE Lookup(c)
  <2>1. /\ pc[c] = "lookup" /\ pc'[c] = "authorize" /\ dest'[c] = registered
        /\ seen'[c] = pin[registered] /\ UNCHANGED <<who, registered, pin>> /\ Watch
        /\ registered \in Target /\ pin[registered] \in HostKey
    BY <1>2 DEF Lookup, Goto, Reachable, Rest, hello, world, TypeOK
  <2>2. UserOf(c)' \in User
    BY <2>1 DEF UserOf, WarrantInv
  <2>3. ASSUME NEW x \in Claim, x.target = dest'[c]
        PROVE  x \in held'[c]["target"] /\ (x.host = seen'[c] => x \in held'[c]["pin"])
    <3>1. x \in Holds'["target"] /\ (x.host = seen'[c] => x \in Holds'["pin"])
      BY <2>1, <2>3 DEF Holds, Ground
    <3>2. {"target", "pin"} \subseteq Ground
      BY DEF Ground
    <3> QED BY <3>1, <3>2, <2>1, HistoryGrows
  <2> QED
    BY <2>1, <2>2, <2>3 DEF WarrantInv, AfterLookup, AfterPolicy, AfterGrant, Verdict
<1>3. CASE Authorize(c)
  <2>1. /\ pc[c] = "authorize" /\ pc'[c] = "grant"
        /\ UNCHANGED <<dest, seen, who, allowed, until, now>>
        /\ Watch /\ <<UserOf(c), dest[c]>> \in allowed /\ read'[c] = now
    BY <1>3 DEF Authorize, Goto, Permitted, Rest, clock, hello, world, TypeOK
  <2>2. UserOf(c)' = UserOf(c) /\ UserOf(c) \in User
    BY <2>1 DEF UserOf, WarrantInv
  <2>3. ASSUME NEW x \in Claim, x.user = UserOf(c), x.target = dest[c]
        PROVE  x \in held'[c]["policy"]
    <3>1. x \in Holds'["policy"]
      BY <2>1, <2>3 DEF Holds, Ground
    <3>2. "policy" \in Ground
      BY DEF Ground
    <3> QED BY <3>1, <3>2, <2>1, HistoryGrows
  <2>4. \A g \in Ground : held[c][g] \subseteq held'[c][g]
    BY <2>1, HistoryGrows
  <2>5. {"target", "pin"} \subseteq Ground
    BY DEF Ground
  <2>6. pc[c] \in AfterLookup
    BY <2>1 DEF AfterLookup
  <2>7. ASSUME NEW x \in Claim, until'[x.user][x.target] > read'[c]
        PROVE  x \in held'[c]["grant"]
    <3>1. x \in Holds'["grant"]
      BY <2>1, <2>7 DEF Holds, Ground
    <3>2. "grant" \in Ground
      BY DEF Ground
    <3> QED BY <3>1, <3>2, <2>1, HistoryGrows
  <2>8. read'[c] <= now'
    BY <2>1 DEF TypeOK
  <2> QED
    BY <2>1, <2>2, <2>3, <2>4, <2>5, <2>6, <2>7, <2>8
    DEF WarrantInv, AfterLookup, AfterPolicy, AfterGrant, Verdict
<1>4. CASE HasGrant(c)
  <2>1. /\ pc[c] = "grant" /\ pc'[c] = "start" /\ UNCHANGED <<dest, seen, who>>
        /\ Watch /\ until[UserOf(c)][dest[c]] > read[c]
    BY <1>4 DEF HasGrant, Goto, Granted, Rest, hello, TypeOK
  <2>2. UserOf(c)' = UserOf(c) /\ UserOf(c) \in User
    BY <2>1 DEF UserOf, WarrantInv
  <2>3. ASSUME NEW x \in Claim, x.user = UserOf(c), x.target = dest[c]
        PROVE  x \in held'[c]["grant"]
    <3>1. x \in held[c]["grant"]
      BY <2>1, <2>3 DEF WarrantInv
    <3>2. "grant" \in Ground
      BY DEF Ground
    <3> QED BY <3>1, <3>2, <2>1, HistoryGrows
  <2>4. \A g \in Ground : held[c][g] \subseteq held'[c][g]
    BY <2>1, HistoryGrows
  <2>5. {"target", "pin", "policy"} \subseteq Ground
    BY DEF Ground
  <2>6. pc[c] \in AfterLookup /\ pc[c] \in AfterPolicy
    BY <2>1 DEF AfterLookup, AfterPolicy
  <2> QED
    BY <2>1, <2>2, <2>3, <2>4, <2>5, <2>6
    DEF WarrantInv, AfterLookup, AfterPolicy, AfterGrant, Verdict
<1>5. CASE Refuse(c)
  <2>1. pc[c] # "none" /\ pc'[c] = "refused" /\ UNCHANGED <<dest, seen>> /\ Watch
    BY <1>5 DEF Refuse, Goto, resolved, TypeOK
  <2> QED BY <2>1, <1>14
<1>6. CASE ReadFails(c)
  <2>1. pc[c] # "none" /\ pc'[c] = "refused" /\ UNCHANGED <<dest, seen>> /\ Watch
    BY <1>6 DEF ReadFails, Goto, Reading, resolved, TypeOK
  <2> QED BY <2>1, <1>14
<1>7. CASE StartShell(c)
  <2>1. UNCHANGED <<dest, seen>> /\ Watch
    BY <1>7 DEF StartShell
  <2>2. CASE Goto(c, "start", "sign")
    BY <2>1, <2>2, <1>0 DEF AfterGrant, Goto, TypeOK
  <2>3. CASE Goto(c, "refused", "done")
    BY <2>1, <2>3, <1>14 DEF Goto, TypeOK
  <2> QED BY <1>7, <2>2, <2>3 DEF StartShell
<1>8. CASE NeverStarts(c)
  <2>1. pc[c] # "none" /\ pc'[c] = "done" /\ UNCHANGED <<dest, seen>> /\ Watch
    BY <1>8 DEF NeverStarts, Goto, Waiting, resolved, TypeOK
  <2> QED BY <2>1, <1>14
<1>9. CASE Sign(c)
  <2>1. pc[c] = "sign" /\ pc'[c] = "connect" /\ UNCHANGED <<dest, seen>> /\ Watch
    BY <1>9 DEF Sign, Goto, resolved, TypeOK
  <2> QED BY <2>1, <1>0 DEF AfterGrant
<1>10. CASE SignFails(c) \/ ConnectFails(c) \/ LoginFails(c)
  <2>1. pc[c] # "none" /\ pc'[c] = "done" /\ UNCHANGED <<dest, seen>> /\ Watch
    BY <1>10 DEF SignFails, ConnectFails, LoginFails, Goto, resolved, TypeOK
  <2> QED BY <2>1, <1>14
<1>11. CASE Connect(c)
  <2>1. pc[c] = "connect" /\ pc'[c] = "login" /\ UNCHANGED <<dest, seen>> /\ Watch
    BY <1>11 DEF Connect, Goto, resolved, TypeOK
  <2> QED BY <2>1, <1>0 DEF AfterGrant
<1>12. CASE Login(c)
  <2>1. pc[c] = "login" /\ pc'[c] \in Verdict /\ UNCHANGED <<dest, seen>> /\ Watch
    BY <1>12 DEF Login, Goto, Verdict, resolved, TypeOK
  <2> QED BY <2>1, <1>0 DEF AfterGrant
<1>13. ASSUME NEW n \in Asked, RequestPty(c, n) PROVE WarrantInv(c)'
  <2>1. UNCHANGED <<pc, dest, seen, read>> /\ Watch
    BY <1>13 DEF RequestPty, resolved
  <2> QED BY <2>1, WarrantStill
<1> QED
  BY <1>1, <1>2, <1>3, <1>4, <1>5, <1>6, <1>7, <1>8, <1>9, <1>10, <1>11, <1>12, <1>13
  DEF ChannelStep

\* A step of one channel leaves every other where it is.
LEMMA OthersStay ==
  ASSUME TypeOK, NEW c \in Channel, NEW d \in Channel \ {c}, ChannelStep(c)
  PROVE  /\ Watch /\ UNCHANGED <<clock, hello>>
         /\ pc'[d] = pc[d] /\ dest'[d] = dest[d] /\ seen'[d] = seen[d]
         /\ read'[d] = read[d] /\ decided'[d] = decided[d] /\ asked'[d] = asked[d]
         /\ timer'[d] = timer[d] /\ issued'[d] = issued[d] /\ judged'[d] = judged[d]
         /\ notBefore'[d] = notBefore[d] /\ notAfter'[d] = notAfter[d]
<1> USE DEF TypeOK, Rest, Goto, resolved, ticket
<1>1. CASE OpenChannel(c) \/ Authorize(c) \/ StartShell(c) \/ NeverStarts(c)
           \/ SignFails(c) \/ Connect(c) \/ ConnectFails(c) \/ LoginFails(c)
  BY <1>1 DEF OpenChannel, Authorize, StartShell, NeverStarts, SignFails, Connect,
     ConnectFails, LoginFails
<1>2. CASE Lookup(c) \/ HasGrant(c) \/ Refuse(c) \/ ReadFails(c)
  BY <1>2 DEF Lookup, HasGrant, Refuse, ReadFails, AwaitStart
<1>3. CASE Sign(c) \/ Login(c)
  BY <1>3 DEF Sign, Build, Login
<1>4. ASSUME NEW n \in Asked, RequestPty(c, n)
      PROVE /\ Watch /\ UNCHANGED <<clock, hello>>
            /\ pc'[d] = pc[d] /\ dest'[d] = dest[d] /\ seen'[d] = seen[d]
            /\ read'[d] = read[d] /\ decided'[d] = decided[d] /\ asked'[d] = asked[d]
            /\ timer'[d] = timer[d] /\ issued'[d] = issued[d] /\ judged'[d] = judged[d]
            /\ notBefore'[d] = notBefore[d] /\ notAfter'[d] = notAfter[d]
  BY <1>4 DEF RequestPty
<1> QED
  BY <1>1, <1>2, <1>3, <1>4 DEF ChannelStep

LEMMA WarrantHolds ==
  ASSUME IInv, [Next]_vars, NEW c \in Channel
  PROVE  WarrantInv(c)'
<1> TypeOK /\ WarrantInv(c)
  BY DEF IInv
<1>1. CASE UNCHANGED vars
  BY <1>1 DEF vars, clock, world, hello, resolved, history, WarrantInv, UserOf
<1>2. CASE Tick \/ WorldStep
  <2>1. Watch /\ UNCHANGED <<pc, dest, seen, read>>
    BY <1>2 DEF Tick, WorldStep, RegisterKey, RemoveKey, Register, Remove, Pin, SwapHost,
       Allow, Forbid, Approve, Bystanders, resolved
  <2> QED BY <2>1, WarrantStill
<1>3. ASSUME NEW k \in Connection, ConnectionStep(k) PROVE WarrantInv(c)'
  <2>1. Watch /\ UNCHANGED <<pc, dest, seen, read>>
    BY <1>3 DEF ConnectionStep, Accept, Authenticate, RefuseKey, Establish,
       HandshakeExpires, Disconnect, Lobby, resolved
  <2> QED BY <2>1, WarrantStill
<1>4. ASSUME NEW d \in Channel, ChannelStep(d) PROVE WarrantInv(c)'
  <2>1. CASE c = d BY <1>4, <2>1, WarrantOwn
  <2>2. CASE c # d BY <1>4, <2>2, OthersStay, WarrantStill
  <2> QED BY <2>1, <2>2
<1> QED
  BY <1>1, <1>2, <1>3, <1>4 DEF Next

-----------------------------------------------------------------------------
(* The clock.                                                              *)

\* A channel that stands still, while the clock does too or may go on.
LEMMA TimeStill ==
  ASSUME TypeOK, NEW c \in Channel, TimeInv(c), drift' = drift,
         \/ now' = now
         \/ now' = now + 1 /\ (pc[c] = "start" => now < timer[c]),
         pc'[c] = pc[c], decided'[c] = decided[c], asked'[c] = asked[c],
         timer'[c] = timer[c],
         issued'[c] = issued[c], judged'[c] = judged[c],
         notBefore'[c] = notBefore[c], notAfter'[c] = notAfter[c]
  PROVE  TimeInv(c)'
BY GateAssumption DEF TimeInv, TypeOK, Issued, Verdict, Sec

LEMMA TimeOwn ==
  ASSUME IInv, NEW c \in Channel, ChannelStep(c)
  PROVE  TimeInv(c)'
<1> USE GateAssumption DEF Issued, Verdict
<1> TypeOK /\ TimeInv(c)
  BY DEF IInv
<1>1. ASSUME pc'[c] \in {"lookup", "authorize", "grant", "refused", "done"}
      PROVE  TimeInv(c)'
  BY <1>1 DEF TimeInv
<1>2. CASE OpenChannel(c) \/ Lookup(c) \/ Authorize(c) \/ Refuse(c) \/ ReadFails(c)
           \/ NeverStarts(c) \/ SignFails(c) \/ ConnectFails(c) \/ LoginFails(c)
  BY <1>1, <1>2 DEF OpenChannel, Lookup, Authorize, Refuse, ReadFails, NeverStarts,
     SignFails, ConnectFails, LoginFails, Goto, TypeOK
<1>3. CASE HasGrant(c)
  <2>1. /\ pc'[c] = "start" /\ decided'[c] = now /\ timer'[c] = now + StartTimeout
        /\ now' = now
    BY <1>3 DEF HasGrant, Goto, AwaitStart, Rest, clock, TypeOK
  <2> QED BY <2>1 DEF TimeInv, TypeOK
<1>4. CASE StartShell(c)
  <2>1. /\ asked'[c] = now /\ decided'[c] = decided[c] /\ now' = now
    BY <1>4 DEF StartShell, Rest, clock, TypeOK
  <2>2. CASE Goto(c, "start", "sign")
    <3>1. pc[c] = "start" /\ pc'[c] = "sign"
      BY <2>2 DEF Goto, TypeOK
    <3> QED BY <2>1, <3>1 DEF TimeInv, TypeOK
  <2>3. CASE Goto(c, "refused", "done")
    BY <2>3, <1>1 DEF Goto, TypeOK
  <2> QED BY <1>4, <2>2, <2>3 DEF StartShell
<1>5. CASE Sign(c)
  <2>1. /\ pc[c] = "sign" /\ pc'[c] = "connect" /\ issued'[c] = now /\ now' = now
        /\ notBefore'[c] = Sec(now - ClockSkew) /\ notAfter'[c] = Sec(now + CertLifetime)
        /\ UNCHANGED <<decided, asked>>
    BY <1>5 DEF Sign, Build, Goto, ValidAfter, ValidBefore, Rest, clock, resolved, TypeOK
  <2> QED BY <2>1 DEF TimeInv, TypeOK, Sec
<1>6. CASE Connect(c)
  <2>1. /\ pc[c] = "connect" /\ pc'[c] = "login"
        /\ UNCHANGED <<now, decided, asked, issued, notBefore, notAfter>>
    BY <1>6 DEF Connect, Goto, Rest, clock, resolved, ticket, TypeOK
  <2> QED BY <2>1 DEF TimeInv, TypeOK, Sec
<1>7. CASE Login(c)
  <2>1. /\ pc[c] = "login" /\ judged'[c] = now
        /\ UNCHANGED <<now, drift, decided, asked, issued, notBefore, notAfter>>
    BY <1>7 DEF Login, Rest, clock, resolved, TypeOK
  <2>2. /\ pc'[c] \in Verdict
        /\ pc'[c] = "inside" => FarSecond < notAfter[c]
        /\ pc'[c] = "early" => FarSecond < notBefore[c]
        /\ pc'[c] = "late" => FarSecond >= notAfter[c]
    BY <1>7 DEF Login, Goto, TypeOK
  <2>3. FarSecond = Sec(judged'[c] + drift')
    BY <2>1 DEF FarSecond
  <2>4. pc'[c] \notin {"start", "sign", "connect", "login"}
    BY <2>2
  <2> QED BY <2>1, <2>2, <2>3, <2>4 DEF TimeInv, TypeOK, Sec
<1>8. ASSUME NEW n \in Asked, RequestPty(c, n) PROVE TimeInv(c)'
  <2>1. UNCHANGED <<now, drift, pc, decided, asked, timer, issued, judged,
                    notBefore, notAfter>>
    BY <1>8 DEF RequestPty, Rest, clock, resolved, ticket
  <2> QED BY <2>1, TimeStill
<1> QED
  BY <1>2, <1>3, <1>4, <1>5, <1>6, <1>7, <1>8 DEF ChannelStep

LEMMA TimeHolds ==
  ASSUME IInv, [Next]_vars, NEW c \in Channel
  PROVE  TimeInv(c)'
<1> TypeOK /\ TimeInv(c)
  BY DEF IInv
<1>1. CASE UNCHANGED vars
  BY <1>1, TimeStill DEF vars, clock, resolved, ticket
<1>2. CASE Tick
  BY <1>2, TimeStill DEF Tick, TimersFire, Waiting, resolved, ticket
<1>3. CASE WorldStep
  BY <1>3, TimeStill DEF WorldStep, RegisterKey, RemoveKey, Register, Remove, Pin, SwapHost,
     Allow, Forbid, Approve, Bystanders, clock, resolved, ticket
<1>4. ASSUME NEW k \in Connection, ConnectionStep(k) PROVE TimeInv(c)'
  BY <1>4, TimeStill DEF ConnectionStep, Accept, Authenticate, RefuseKey, Establish,
     HandshakeExpires, Disconnect, Lobby, clock, resolved, ticket
<1>5. ASSUME NEW d \in Channel, ChannelStep(d) PROVE TimeInv(c)'
  <2>1. CASE c = d BY <1>5, <2>1, TimeOwn
  <2>2. CASE c # d BY <1>5, <2>2, OthersStay, TimeStill DEF clock
  <2> QED BY <2>1, <2>2
<1> QED
  BY <1>1, <1>2, <1>3, <1>4, <1>5 DEF Next

LEMMA Invariance == Spec => []IInv
<1>1. IInv /\ [Next]_vars => IInv'
  <2> SUFFICES ASSUME IInv, [Next]_vars PROVE IInv'
    OBVIOUS
  <2>1. TypeOK' BY TypeStep DEF IInv
  <2>2. \A k \in Connection : IdentityInv(k)' BY IdentityHolds
  <2>3. \A c \in Channel : WarrantInv(c)' /\ TimeInv(c)' BY WarrantHolds, TimeHolds
  <2> QED BY <2>1, <2>2, <2>3 DEF IInv
<1> QED
  BY <1>1, InvInit, PTL DEF Spec

-----------------------------------------------------------------------------
(* What a reader should know.                                              *)

\* The shell of a session was asked for within one wait of the answer of resolve,
\* and a target lets nobody in later than the life of a certificate after its issue.
THEOREM StartsAreBounded == Spec => []StartIsBounded
<1>1. IInv => StartIsBounded
  <2> SUFFICES ASSUME IInv, NEW c \in Channel, pc[c] = "inside"
               PROVE  /\ asked[c] <= decided[c] + StartTimeout
                      /\ judged[c] + drift < issued[c] + CertLifetime
    BY DEF StartIsBounded
  <2>1. /\ Sec(judged[c] + drift) < Sec(issued[c] + CertLifetime)
        /\ asked[c] <= decided[c] + StartTimeout
    BY DEF IInv, TimeInv, Issued, Verdict
  <2>2. judged[c] \in Nat /\ drift \in Int /\ issued[c] \in Nat /\ CertLifetime \in Nat
    BY GateAssumption DEF IInv, TypeOK
  <2> QED BY <2>1, <2>2, SecOrder
<1> QED
  BY <1>1, Invariance, PTL

\* A certificate is refused as too new only by a clock behind by more than the
\* skew, and as too old only in its last second or after it.
THEOREM WindowsAreKept == Spec => []WindowIsKept
<1>1. IInv => WindowIsKept
  <2> SUFFICES ASSUME IInv, NEW c \in Channel
               PROVE  /\ pc[c] = "early" => drift < -ClockSkew
                      /\ pc[c] = "late" =>
                           judged[c] + drift > issued[c] + CertLifetime - PerSecond
    BY DEF WindowIsKept
  <2>1. /\ judged[c] \in Nat /\ drift \in Int /\ issued[c] \in Nat
        /\ ClockSkew \in Nat /\ CertLifetime \in Nat /\ PerSecond \in Nat
    BY GateAssumption DEF IInv, TypeOK
  <2>2. ASSUME pc[c] = "early" PROVE drift < -ClockSkew
    <3>1. /\ Sec(judged[c] + drift) < Sec(issued[c] - ClockSkew)
          /\ issued[c] <= judged[c]
      BY <2>2 DEF IInv, TimeInv, Issued, Verdict
    <3>2. judged[c] + drift < issued[c] - ClockSkew
      BY <2>1, <3>1, SecOrder
    <3> QED BY <2>1, <3>1, <3>2
  <2>3. ASSUME pc[c] = "late"
        PROVE  judged[c] + drift > issued[c] + CertLifetime - PerSecond
    <3>1. Sec(judged[c] + drift) >= Sec(issued[c] + CertLifetime)
      BY <2>3 DEF IInv, TimeInv, Issued, Verdict
    <3> QED BY <2>1, <3>1, SecOrder
  <2> QED BY <2>2, <2>3
<1> QED
  BY <1>1, Invariance, PTL

\* A channel is let in at its login, alone, and stays what it is.
LEMMA ChannelMoves ==
  ASSUME IInv, [Next]_vars, NEW c \in Channel
  PROVE  /\ pc[c] # "none" => pc'[c] # "none"
         /\ pc[c] = "inside" => pc'[c] = "inside" /\ dest'[c] = dest[c] /\ seen'[c] = seen[c]
         /\ pc'[c] = "inside" /\ pc[c] # "inside" =>
              /\ pc[c] = "login" /\ dest'[c] = dest[c] /\ seen'[c] = seen[c]
              /\ \A d \in Channel \ {c} : pc'[d] = pc[d]
<1> TypeOK
  BY DEF IInv
<1>1. CASE UNCHANGED <<pc, dest, seen>>
  BY <1>1
<1>2. CASE Tick \/ WorldStep
  BY <1>1, <1>2 DEF Tick, WorldStep, RegisterKey, RemoveKey, Register, Remove, Pin, SwapHost,
     Allow, Forbid, Approve, Bystanders, resolved
<1>3. ASSUME NEW k \in Connection, ConnectionStep(k) PROVE UNCHANGED <<pc, dest, seen>>
  BY <1>3 DEF ConnectionStep, Accept, Authenticate, RefuseKey, Establish,
     HandshakeExpires, Disconnect, Lobby, resolved
<1>4. ASSUME ChannelStep(c)
      PROVE /\ pc[c] # "inside"
            /\ pc'[c] # "none"
            /\ pc'[c] = "inside" => pc[c] = "login" /\ UNCHANGED <<dest, seen>>
  <2> USE DEF Goto, TypeOK, resolved
  <2>1. CASE OpenChannel(c) \/ Authorize(c) \/ StartShell(c) \/ NeverStarts(c)
             \/ SignFails(c) \/ Connect(c) \/ ConnectFails(c) \/ LoginFails(c)
    BY <2>1 DEF OpenChannel, Authorize, StartShell, NeverStarts, SignFails, Connect,
       ConnectFails, LoginFails, Waiting
  <2>2. CASE Lookup(c) \/ HasGrant(c) \/ Refuse(c) \/ ReadFails(c)
    BY <2>2 DEF Lookup, HasGrant, Refuse, ReadFails, Reading
  <2>3. CASE Sign(c) \/ Login(c)
    BY <2>3 DEF Sign, Build, Login
  <2>4. ASSUME NEW n \in Asked, RequestPty(c, n)
        PROVE pc' = pc /\ pc[c] \in Waiting
    BY <2>4 DEF RequestPty
  <2> QED BY <1>4, <2>1, <2>2, <2>3, <2>4 DEF ChannelStep, Waiting
<1>5. ASSUME NEW d \in Channel, ChannelStep(d), d # c
      PROVE  pc'[c] = pc[c] /\ dest'[c] = dest[c] /\ seen'[c] = seen[c]
  BY <1>5, OthersStay
<1>6. ASSUME NEW d \in Channel, ChannelStep(d)
      PROVE  /\ pc[c] # "none" => pc'[c] # "none"
             /\ pc[c] = "inside" =>
                  pc'[c] = "inside" /\ dest'[c] = dest[c] /\ seen'[c] = seen[c]
             /\ pc'[c] = "inside" /\ pc[c] # "inside" =>
                  /\ pc[c] = "login" /\ dest'[c] = dest[c] /\ seen'[c] = seen[c]
                  /\ \A e \in Channel \ {c} : pc'[e] = pc[e]
  <2>1. CASE d # c BY <1>5, <1>6, <2>1
  <2>2. CASE d = c
    <3>1. \A e \in Channel \ {c} : pc'[e] = pc[e]
      BY <1>6, <2>2, OthersStay
    <3> QED BY <1>4, <1>6, <2>2, <3>1
  <2> QED BY <2>1, <2>2
<1> QED
  BY <1>1, <1>2, <1>3, <1>6 DEF Next, vars, resolved

\* A channel is let in only under a claim each part of which held: the key since
\* the connection came, the rest since the channel opened. Every step of the front
\* door is a step of Warrant.
THEOREM EntriesAreWarranted == Spec => Warranted
<1> DEFINE in == [c \in Channel |-> IF pc[c] = "inside" THEN {ClaimOf(c)} ELSE {}]
<1>1. Init => Promise!Init
  BY WorldTyped, GateAssumption DEF Init, Promise!Init, Came, Opened
<1>2. ASSUME IInv, [Next]_vars
      PROVE  [Promise!Next]_(Promise!vars)
  <2> TypeOK BY <1>2 DEF IInv
  <2> USE GateAssumption
  <2>1. CASE UNCHANGED vars
    BY <2>1 DEF vars, clock, world, hello, resolved, history, Promise!vars, Identified,
       Holds, Came, Opened, ClaimOf, UserOf
  <2>2. CASE Watch
    <3>1. Promise!Watch
      <4>1. Came \subseteq Came' /\ Came' \subseteq Connection
        BY <1>2, WhoIsFixed DEF Came
      <4>2. Opened \subseteq Opened' /\ Opened' \subseteq Channel
        BY <1>2, ChannelMoves DEF Opened
      <4> QED BY <2>2, <4>1, <4>2, WorldTypedNext DEF Watch, Promise!Watch
    <3>2. ASSUME NEW c \in Channel, pc[c] # "none"
          PROVE  UserOf(c) \in User /\ UserOf(c)' = UserOf(c)
                 /\ offered'[ConnOf[c]] = offered[ConnOf[c]]
      <4>1. UserOf(c) \in User /\ ConnOf[c] \in Connection
        BY <1>2, <3>2 DEF IInv, WarrantInv
      <4> QED BY <1>2, <4>1, WhoIsFixed DEF UserOf
    <3>3. ASSUME NEW c \in Channel, pc[c] = "inside"
          PROVE  pc'[c] = "inside" /\ ClaimOf(c)' = ClaimOf(c)
      BY <1>2, <3>2, <3>3, ChannelMoves DEF ClaimOf
    <3>4. CASE \A c \in Channel : pc'[c] = "inside" => pc[c] = "inside"
      <4>1. in' = in
        BY <3>3, <3>4
      <4> QED BY <3>1, <4>1 DEF Promise!Next
    <3>5. ASSUME NEW c \in Channel, pc'[c] = "inside", pc[c] # "inside"
          PROVE  Promise!Next
      <4> DEFINE x == ClaimOf(c)
      <4>1. /\ pc[c] = "login" /\ dest'[c] = dest[c] /\ seen'[c] = seen[c]
            /\ \A d \in Channel \ {c} : pc'[d] = pc[d]
        BY <1>2, <3>5, ChannelMoves
      <4>2. x' = x /\ UserOf(c) \in User
        BY <3>2, <4>1 DEF ClaimOf
      <4>3. /\ dest[c] \in Target /\ seen[c] \in HostKey /\ dest[c] # NoTarget
            /\ pc[c] \in AfterPolicy /\ pc[c] \in AfterGrant
        BY <1>2, <4>1 DEF IInv, WarrantInv, AfterLookup, AfterPolicy, AfterGrant
      <4>4. ConnOf[c] \in Connection /\ offered[ConnOf[c]] \in Key
        BY DEF TypeOK
      <4>5. /\ x \in Claim /\ x.key = offered[ConnOf[c]] /\ x.user = UserOf(c)
            /\ x.target = dest[c] /\ x.host = seen[c]
        BY <4>2, <4>3, <4>4 DEF ClaimOf, Claim
      <4> HIDE DEF x
      <4>6. x \in met[ConnOf[c]]
        BY <1>2, <4>2, <4>4, <4>5 DEF IInv, IdentityInv, UserOf
      <4>7. \A g \in Ground : x \in held[c][g]
        BY <1>2, <4>3, <4>5 DEF IInv, WarrantInv, Ground
      <4>8. in[c] = {}
        BY <3>5
      <4>9. in' = [in EXCEPT ![c] = {x}]
        <5>1. \A d \in Channel \ {c} : in'[d] = in[d]
          BY <3>3, <4>1
        <5>2. in'[c] = {x}
          BY <3>5, <4>2 DEF x
        <5> QED BY <5>1, <5>2
      <4> HIDE DEF in
      <4>10. Promise!Admit(c)
        BY <4>6, <4>7, <4>8, <4>9 DEF Promise!Admit, in
      <4> QED BY <3>1, <4>10 DEF Promise!Next
    <3> QED BY <3>4, <3>5
  <2> QED BY <1>2, <2>1, <2>2, StepsWatch
<1> QED
  BY <1>1, <1>2, Invariance, PTL DEF Spec, Warranted, Promise!Spec
=============================================================================
