---------------------------- MODULE Access_proof ----------------------------
(***************************************************************************)
(* Theorems about Access, for any number of targets, names, principals,     *)
(* keys, channels and requests; and that AccessHistory implements Warrant.  *)
(***************************************************************************)
EXTENDS AccessHistory, TLAPS

-----------------------------------------------------------------------------
(* The inductive invariant.                                                  *)

\* An id that a channel or a request holds has been given out, and one that was
\* deleted stays deleted.
IdsAreUsed ==
  /\ \A c \in Channel : channel[c].target \subseteq used
  /\ \A c \in Channel : channel[c].gone \subseteq used \ targets
  /\ \A h \in Writing : \A p \in writing[h].policy : p.target \in used
  /\ \A p \in policies : p.target \in used

\* A policy that is about to be inserted has been checked.
CheckedFits ==
  \A h \in Writing : writing[h].pc = "insert" =>
    \A p \in writing[h].policy : p.principals \subseteq reg[p.target].accepts

\* A pinned target has an id, and the key is one that a request asked for.
PinsAreAsked ==
  \A t \in Target : pin[t] \subseteq EverPinned(t) /\ (t \notin used => pin[t] = {})

IInv ==
  /\ TypeOK
  /\ IdsAreUsed /\ DeletedIsUnreachable
  /\ CheckedFits /\ PolicyFitsTarget
  /\ PinsAreAsked /\ PinIsRecorded
  /\ DestinationIsOne

LEMMA InitHolds == Init => IInv
<1> SUFFICES ASSUME Init PROVE IInv
  OBVIOUS
<1> USE DEF Init, NoChannel, NotPinning, NotWriting, Unregistered
<1>1. TypeOK
  BY DEF TypeOK, Resolution, Pinning, PolicyRequest
<1>2. IdsAreUsed /\ DeletedIsUnreachable
  BY DEF IdsAreUsed, DeletedIsUnreachable
<1>3. CheckedFits /\ PolicyFitsTarget
  BY DEF CheckedFits, PolicyFitsTarget
<1>4. PinsAreAsked /\ PinIsRecorded
  BY DEF PinsAreAsked, PinIsRecorded
<1>5. DestinationIsOne
  BY DEF DestinationIsOne
<1> QED
  BY <1>1, <1>2, <1>3, <1>4, <1>5 DEF IInv

-----------------------------------------------------------------------------
(* Types.                                                                    *)

LEMMA RefusalIsResolution ==
  /\ [NoChannel EXCEPT !.pc = "refused"] \in Resolution
  /\ [NoChannel EXCEPT !.pc = "refused"].target = {}
  /\ [NoChannel EXCEPT !.pc = "refused"].gone = {}
BY DEF Resolution, NoChannel

\* What a step does to the channels: nothing, or one of them is opened, finds its
\* target, moves on, or is refused.
Opens(c) ==
  \E u \in User, n \in Name, a \in Principal :
    channel' = [channel EXCEPT ![c] =
      [pc |-> "lookup", user |-> {u}, name |-> {n}, principal |-> {a},
       target |-> {}, pin |-> {}, gone |-> used \ targets]]

Finds(c) ==
  \E t \in targets :
    /\ channel[c].name = {reg[t].name}
    /\ channel' = [channel EXCEPT ![c].pc = "principals", ![c].target = {t},
                                  ![c].pin = pin[t]]

Moves(c) ==
  \E v \in {"policy", "grant", "resolved"} :
    /\ channel' = [channel EXCEPT ![c].pc = v]
    /\ channel[c].pc \in {"principals", "policy", "grant"}
    /\ channel[c].pc = "principals" =>
         \E t \in Target : /\ channel[c].target = {t} /\ channel[c].pin # {}
                           /\ channel[c].principal \subseteq PrincipalsOf(t)

\* The step of a channel is one of these, and touches nothing else.
LEMMA ChannelSteps ==
  ASSUME NEW c \in Channel, Resolve(c)
  PROVE  /\ Opens(c) \/ Finds(c) \/ Moves(c) \/ Refuse(c)
         /\ UNCHANGED <<used, targets, reg, pin, policies, grants, pinning, writing,
                        trail>>
<1>1. CASE \E u \in User, n \in Name, a \in Principal : OpenChannel(c, u, n, a)
  BY <1>1 DEF OpenChannel, Opens, Rest, inventory, access
<1>2. CASE Lookup(c)
  BY <1>2 DEF Lookup, Finds, Rest, inventory, access
<1>3. CASE FailRead(c)
  BY <1>3 DEF FailRead, Rest, inventory, access
<1>4. ASSUME NEW t \in Target, LookupPrincipals(c, t)
      PROVE  /\ Moves(c) \/ Refuse(c)
             /\ UNCHANGED <<used, targets, reg, pin, policies, grants, pinning,
                            writing, trail>>
  BY <1>4 DEF LookupPrincipals, Moves, Rest, inventory, access
<1>5. ASSUME NEW t \in Target, NEW u \in User, NEW a \in Principal,
             Authorize(c, t, u, a) \/ HasGrant(c, t, u, a)
      PROVE  /\ Moves(c) \/ Refuse(c)
             /\ UNCHANGED <<used, targets, reg, pin, policies, grants, pinning,
                            writing, trail>>
  BY <1>5 DEF Authorize, HasGrant, Moves, Rest, inventory, access
<1> QED
  BY <1>1, <1>2, <1>3, <1>4, <1>5 DEF Resolve

\* What the three kinds of step leave in the channel.
Empty(c) == channel'[c].target = {} /\ channel'[c].gone \subseteq used \ targets

Found(c) ==
  \E t \in targets :
    /\ channel'[c].pc = "principals" /\ channel'[c].target = {t}
    /\ channel'[c].pin = pin[t] /\ channel'[c].name = {reg[t].name}
    /\ channel'[c].gone = channel[c].gone

Checked(c) ==
  /\ channel'[c].target = channel[c].target /\ channel'[c].name = channel[c].name
  /\ channel'[c].principal = channel[c].principal
  /\ channel'[c].pin = channel[c].pin /\ channel'[c].gone = channel[c].gone
  /\ channel[c].pc \in {"principals", "policy", "grant"}
  /\ channel[c].pc = "principals" =>
       \E t \in Target : /\ channel[c].target = {t} /\ channel[c].pin # {}
                         /\ channel[c].principal \subseteq PrincipalsOf(t)

LEMMA ChannelAfter ==
  ASSUME TypeOK, NEW c \in Channel, Resolve(c)
  PROVE  /\ channel' \in [Channel -> Resolution]
         /\ \A d \in Channel \ {c} : channel'[d] = channel[d]
         /\ Empty(c) \/ Found(c) \/ Checked(c)
<1>1. channel \in [Channel -> Resolution] /\ channel[c] \in Resolution
  BY DEF TypeOK
<1>2. CASE Opens(c)
  <2> PICK u \in User, n \in Name, a \in Principal :
         channel' = [channel EXCEPT ![c] =
           [pc |-> "lookup", user |-> {u}, name |-> {n}, principal |-> {a},
            target |-> {}, pin |-> {}, gone |-> used \ targets]]
    BY <1>2 DEF Opens
  <2> DEFINE r == [pc |-> "lookup", user |-> {u}, name |-> {n}, principal |-> {a},
                   target |-> {}, pin |-> {}, gone |-> used \ targets]
  <2>1. r \in Resolution /\ r.target = {} /\ r.gone = used \ targets
    BY DEF TypeOK, Resolution
  <2>2. channel' = [channel EXCEPT ![c] = r]
    OBVIOUS
  <2> HIDE DEF r
  <2> QED
    BY <1>1, <2>1, <2>2 DEF Empty
<1>3. CASE Finds(c)
  <2> PICK t \in targets :
         /\ channel[c].name = {reg[t].name}
         /\ channel' = [channel EXCEPT ![c].pc = "principals", ![c].target = {t},
                                       ![c].pin = pin[t]]
    BY <1>3 DEF Finds
  <2> DEFINE r == [channel[c] EXCEPT !.pc = "principals", !.target = {t}, !.pin = pin[t]]
  <2>1. t \in Target /\ pin[t] \in SUBSET HostKey
    BY DEF TypeOK
  <2>2. /\ r \in Resolution /\ r.pc = "principals" /\ r.target = {t} /\ r.pin = pin[t]
        /\ r.name = channel[c].name /\ r.gone = channel[c].gone
    BY <1>1, <2>1 DEF Resolution
  <2>3. channel' = [channel EXCEPT ![c] = r]
    BY <1>1
  <2> HIDE DEF r
  <2>4. channel'[c] = r /\ channel' \in [Channel -> Resolution]
        /\ \A d \in Channel \ {c} : channel'[d] = channel[d]
    BY <1>1, <2>2, <2>3
  <2> QED
    BY <2>2, <2>4 DEF Found
<1>4. CASE Moves(c)
  <2> PICK v \in {"policy", "grant", "resolved"} :
         /\ channel' = [channel EXCEPT ![c].pc = v]
         /\ channel[c].pc \in {"principals", "policy", "grant"}
         /\ channel[c].pc = "principals" =>
              \E t \in Target : /\ channel[c].target = {t} /\ channel[c].pin # {}
                                /\ channel[c].principal \subseteq PrincipalsOf(t)
    BY <1>4 DEF Moves
  <2> DEFINE r == [channel[c] EXCEPT !.pc = v]
  <2>1. /\ r \in Resolution /\ r.target = channel[c].target /\ r.name = channel[c].name
        /\ r.principal = channel[c].principal /\ r.pin = channel[c].pin
        /\ r.gone = channel[c].gone
    BY <1>1 DEF Resolution
  <2>2. channel' = [channel EXCEPT ![c] = r]
    BY <1>1
  <2> HIDE DEF r
  <2>3. channel'[c] = r /\ channel' \in [Channel -> Resolution]
        /\ \A d \in Channel \ {c} : channel'[d] = channel[d]
    BY <1>1, <2>1, <2>2
  <2>4. /\ channel'[c].target = channel[c].target /\ channel'[c].name = channel[c].name
        /\ channel'[c].principal = channel[c].principal
        /\ channel'[c].pin = channel[c].pin /\ channel'[c].gone = channel[c].gone
    BY <2>1, <2>3
  <2>5. Checked(c)
    BY <2>4, Zenon DEF Checked
  <2> QED
    BY <2>3, <2>5
<1>5. CASE Refuse(c)
  <2> DEFINE r == [NoChannel EXCEPT !.pc = "refused"]
  <2>1. r \in Resolution /\ r.target = {} /\ r.gone = {}
    BY RefusalIsResolution
  <2>2. channel' = [channel EXCEPT ![c] = r]
    BY <1>5 DEF Refuse
  <2> HIDE DEF r
  <2> QED
    BY <1>1, <2>1, <2>2 DEF Empty
<1> QED
  BY <1>2, <1>3, <1>4, <1>5, ChannelSteps

-----------------------------------------------------------------------------
(* Steps of the channels.                                                    *)

LEMMA ResolveKeeps ==
  ASSUME IInv, NEW c \in Channel, Resolve(c)
  PROVE  IInv'
<1> USE DEF IInv
<1>1. UNCHANGED <<used, targets, reg, pin, policies, grants, pinning, writing, trail>>
  BY ChannelSteps
<1>2. /\ channel' \in [Channel -> Resolution]
      /\ \A d \in Channel \ {c} : channel'[d] = channel[d]
      /\ Empty(c) \/ Found(c) \/ Checked(c)
  BY ChannelAfter
<1>3. TypeOK'
  BY <1>1, <1>2 DEF TypeOK
<1>4. targets \subseteq used
  BY DEF TypeOK
<1>5. channel'[c].target \subseteq used /\ channel'[c].gone \subseteq used \ targets
  BY <1>2, <1>4 DEF IdsAreUsed, Empty, Found, Checked
<1>6. IdsAreUsed'
  BY <1>1, <1>2, <1>5 DEF IdsAreUsed
<1>7. channel'[c].target \cap channel'[c].gone = {}
  BY <1>2, <1>5 DEF DeletedIsUnreachable, IdsAreUsed, Empty, Found, Checked
<1>8. DeletedIsUnreachable'
  BY <1>2, <1>7 DEF DeletedIsUnreachable
<1>9. CheckedFits' /\ PolicyFitsTarget'
  BY <1>1 DEF CheckedFits, PolicyFitsTarget
<1>10. \A t \in Target : HavePinned(t)' = HavePinned(t) /\ EverPinned(t)' = EverPinned(t)
  BY <1>1 DEF EverPinned, HavePinned
<1>11. PinsAreAsked' /\ PinIsRecorded'
  <2>1. targets \subseteq Target
    BY DEF TypeOK
  <2> QED
    BY <1>1, <1>10, <2>1 DEF PinsAreAsked, PinIsRecorded
<1>12. ASSUME NEW t \in Target, channel'[c].target = {t}
       PROVE  /\ channel'[c].name = {reg[t].name}
              /\ channel'[c].pin \subseteq EverPinned(t)
              /\ channel'[c].pc \in {"policy", "grant", "resolved"} =>
                   /\ channel'[c].principal \subseteq reg[t].accepts
                   /\ channel'[c].pin # {}
  <2>1. CASE Found(c)
    BY <1>12, <2>1 DEF Found, PinsAreAsked
  <2>2. CASE Checked(c)
    <3>1. /\ channel[c].target = {t}
          /\ channel'[c].name = {reg[t].name}
          /\ channel'[c].pin \subseteq EverPinned(t)
      BY <1>12, <2>2 DEF Checked, DestinationIsOne
    <3>2. CASE channel[c].pc = "principals"
      BY <2>2, <3>1, <3>2 DEF Checked, PrincipalsOf
    <3>3. CASE channel[c].pc # "principals"
      BY <2>2, <3>1, <3>3 DEF Checked, DestinationIsOne
    <3> QED
      BY <3>1, <3>2, <3>3
  <2> QED
    BY <1>2, <1>12, <2>1, <2>2 DEF Empty
<1>13. DestinationIsOne'
  BY <1>1, <1>2, <1>10, <1>12 DEF DestinationIsOne
<1> QED
  BY <1>3, <1>6, <1>8, <1>9, <1>11, <1>13

-----------------------------------------------------------------------------
(* Steps of the inventory.                                                   *)

LEMMA RegisterKeeps ==
  ASSUME IInv, NEW t \in Target, NEW n \in Name, NEW ps \in SUBSET Principal,
         Register(t, n, ps)
  PROVE  IInv'
<1> USE DEF IInv
<1> DEFINE r == [name |-> n, accepts |-> ps]
<1>1. /\ t \notin used /\ used' = used \cup {t} /\ targets' = targets \cup {t}
      /\ reg' = [reg EXCEPT ![t] = r] /\ r \in Registration
      /\ UNCHANGED <<pin, policies, grants, channel, pinning, writing, trail>>
  BY DEF Register, access, Registration
<1>2. /\ used \subseteq Target /\ targets \subseteq used
      /\ reg \in [Target -> Registration \cup {Unregistered}]
  BY DEF TypeOK
<1> HIDE DEF r
<1>3. TypeOK'
  BY <1>1, <1>2 DEF TypeOK
<1>4. \A x \in used : reg'[x] = reg[x]
  BY <1>1, <1>2
<1>5. IdsAreUsed' /\ DeletedIsUnreachable'
  <2>1. \A c \in Channel : channel[c].gone \subseteq used' \ targets'
    BY <1>1 DEF IdsAreUsed
  <2> QED
    BY <1>1, <2>1 DEF IdsAreUsed, DeletedIsUnreachable
<1>6. CheckedFits' /\ PolicyFitsTarget'
  BY <1>1, <1>4 DEF CheckedFits, PolicyFitsTarget, IdsAreUsed
<1>7. \A x \in Target : HavePinned(x)' = HavePinned(x) /\ EverPinned(x)' = EverPinned(x)
  BY <1>1 DEF EverPinned, HavePinned
<1>8. PinsAreAsked' /\ PinIsRecorded'
  <2>1. pin[t] = {} /\ {t} \X pin[t] \subseteq trail
    BY <1>1 DEF PinsAreAsked
  <2>2. PinsAreAsked'
    BY <1>1, <1>7 DEF PinsAreAsked
  <2>3. PinIsRecorded'
    BY <1>1, <1>2, <1>7, <2>1 DEF PinIsRecorded
  <2> QED
    BY <2>2, <2>3
<1>9. DestinationIsOne'
  BY <1>1, <1>4, <1>7 DEF DestinationIsOne, IdsAreUsed
<1> QED
  BY <1>3, <1>5, <1>6, <1>8, <1>9

LEMMA RemoveKeeps ==
  ASSUME IInv, NEW t \in Target, Remove(t)
  PROVE  IInv'
<1> USE DEF IInv
<1>1. /\ targets' = targets \ {t}
      /\ UNCHANGED <<used, reg, pin, policies, grants, channel, pinning, writing, trail>>
  BY DEF Remove, access
<1>2. TypeOK'
  BY <1>1 DEF TypeOK
<1>3. IdsAreUsed' /\ DeletedIsUnreachable'
  BY <1>1 DEF IdsAreUsed, DeletedIsUnreachable
<1>4. CheckedFits' /\ PolicyFitsTarget'
  BY <1>1 DEF CheckedFits, PolicyFitsTarget
<1>5. \A x \in Target : HavePinned(x)' = HavePinned(x) /\ EverPinned(x)' = EverPinned(x)
  BY <1>1 DEF EverPinned, HavePinned
<1>6. targets \subseteq Target
  BY DEF TypeOK
<1>7. PinsAreAsked' /\ PinIsRecorded'
  BY <1>1, <1>5, <1>6 DEF PinsAreAsked, PinIsRecorded
<1>8. DestinationIsOne'
  BY <1>1, <1>5 DEF DestinationIsOne
<1> QED
  BY <1>2, <1>3, <1>4, <1>7, <1>8

-----------------------------------------------------------------------------
(* Steps of the requests that pin a host key.                                *)

\* The request moves to v, keeping its target and its key.
Advances(h, v) ==
  /\ pinning' = [pinning EXCEPT ![h].pc = v]
  /\ pinning[h].pc \in {"pin", "get"} /\ v \in {"get", "answered", "abandoned"}

\* Nothing that was pinned is forgotten.
PinnedGrow ==
  \A t \in Target : /\ EverPinned(t) \subseteq EverPinned(t)'
                    /\ HavePinned(t) \subseteq HavePinned(t)'

LEMMA AdvanceGrows ==
  ASSUME TypeOK, NEW h \in Trusting, NEW v, Advances(h, v)
  PROVE  /\ pinning' \in [Trusting -> Pinning]
         /\ pinning'[h].pc = v /\ pinning'[h].target = pinning[h].target
         /\ pinning'[h].key = pinning[h].key
         /\ \A x \in Trusting \ {h} : pinning'[x] = pinning[x]
         /\ PinnedGrow
<1>1. pinning \in [Trusting -> Pinning] /\ pinning[h] \in Pinning
  BY DEF TypeOK
<1> DEFINE r == [pinning[h] EXCEPT !.pc = v]
<1>2. r \in Pinning /\ r.pc = v /\ r.target = pinning[h].target /\ r.key = pinning[h].key
  BY <1>1 DEF Advances, Pinning
<1>3. pinning' = [pinning EXCEPT ![h] = r]
  BY DEF Advances
<1>4. v \in {"get", "answered", "abandoned"}
  BY DEF Advances
<1> HIDE DEF r
<1>5. /\ pinning' \in [Trusting -> Pinning] /\ pinning'[h] = r
      /\ \A x \in Trusting \ {h} : pinning'[x] = pinning[x]
  BY <1>1, <1>2, <1>3
<1>6. ASSUME NEW t \in Target
      PROVE  HavePinned(t) \subseteq HavePinned(t)'
  BY <1>2, <1>4, <1>5 DEF HavePinned
<1>7. \A x \in Trusting : pinning'[x].key = pinning[x].key
  BY <1>2, <1>5
<1>8. PinnedGrow
  BY <1>6, <1>7 DEF PinnedGrow, EverPinned, HavePinned
<1> QED
  BY <1>2, <1>5, <1>8

\* A request that has pinned nothing starts, or is refused.
LEMMA StartGrows ==
  ASSUME TypeOK, NEW h \in Trusting, NEW r \in Pinning,
         pinning' = [pinning EXCEPT ![h] = r], pinning[h].pc \in {"idle", "pin"}
  PROVE  /\ pinning' \in [Trusting -> Pinning]
         /\ PinnedGrow
         /\ \A t \in Target : \A x \in HavePinned(t) : pinning'[x] = pinning[x]
<1>1. pinning \in [Trusting -> Pinning]
  BY DEF TypeOK
<1>2. /\ pinning' \in [Trusting -> Pinning]
      /\ \A x \in Trusting \ {h} : pinning'[x] = pinning[x]
  BY <1>1
<1>3. \A t \in Target : h \notin HavePinned(t)
  BY DEF HavePinned
<1>4. \A t \in Target : \A x \in HavePinned(t) : pinning'[x] = pinning[x]
  BY <1>2, <1>3 DEF HavePinned
<1>5. \A t \in Target : HavePinned(t) \subseteq HavePinned(t)'
  BY <1>4 DEF HavePinned
<1>6. PinnedGrow
  BY <1>4, <1>5 DEF PinnedGrow, EverPinned
<1> QED
  BY <1>2, <1>4, <1>6

\* What such a step leaves alone.
LEMMA TrustLeaves ==
  ASSUME IInv, PinnedGrow,
         UNCHANGED <<used, targets, reg, policies, grants, channel, writing>>
  PROVE  /\ IdsAreUsed' /\ DeletedIsUnreachable'
         /\ CheckedFits' /\ PolicyFitsTarget' /\ DestinationIsOne'
<1> USE DEF IInv
<1>1. IdsAreUsed' /\ DeletedIsUnreachable'
  BY DEF IdsAreUsed, DeletedIsUnreachable
<1>2. CheckedFits' /\ PolicyFitsTarget'
  BY DEF CheckedFits, PolicyFitsTarget
<1>3. DestinationIsOne'
  BY DEF DestinationIsOne, PinnedGrow
<1> QED
  BY <1>1, <1>2, <1>3

\* A request that starts or is refused changes no pin.
LEMMA StartKeeps ==
  ASSUME IInv, NEW h \in Trusting, NEW r \in Pinning,
         pinning' = [pinning EXCEPT ![h] = r], pinning[h].pc \in {"idle", "pin"},
         UNCHANGED <<used, targets, reg, pin, policies, grants, channel, writing, trail>>
  PROVE  IInv'
<1> USE DEF IInv
<1>1. /\ pinning' \in [Trusting -> Pinning] /\ PinnedGrow
      /\ \A t \in Target : \A x \in HavePinned(t) : pinning'[x] = pinning[x]
  BY StartGrows
<1>2. TypeOK'
  BY <1>1 DEF TypeOK
<1>3. PinsAreAsked'
  BY <1>1 DEF PinsAreAsked, PinnedGrow
<1>4. PinIsRecorded'
  <2>1. targets \subseteq Target
    BY DEF TypeOK
  <2> QED
    BY <1>1, <2>1 DEF PinIsRecorded, PinnedGrow
<1> QED
  BY <1>1, <1>2, <1>3, <1>4, TrustLeaves

LEMMA TrustKeeps ==
  ASSUME IInv, NEW h \in Trusting, NEW t \in Target, NEW k \in HostKey, Trust(h, t, k)
  PROVE  IInv'
<1> DEFINE r == [pc |-> "pin", target |-> {t}, key |-> {k}]
<1>1. r \in Pinning
  BY DEF Pinning
<1>2. /\ pinning' = [pinning EXCEPT ![h] = r] /\ pinning[h].pc = "idle"
      /\ UNCHANGED <<used, targets, reg, pin, policies, grants, channel, writing, trail>>
  BY DEF Trust, inventory, access
<1> HIDE DEF r
<1> QED
  BY <1>1, <1>2, StartKeeps

LEMMA DeclineKeeps ==
  ASSUME IInv, NEW h \in Trusting, pinning[h].pc = "pin", Decline(h),
         UNCHANGED <<used, targets, reg, pin, policies, grants, channel, writing, trail>>
  PROVE  IInv'
<1> DEFINE r == [NotPinning EXCEPT !.pc = "refused"]
<1>1. r \in Pinning
  BY DEF Pinning, NotPinning
<1>2. pinning' = [pinning EXCEPT ![h] = r]
  BY DEF Decline
<1> HIDE DEF r
<1> QED
  BY <1>1, <1>2, StartKeeps

\* The row of the target gets the request's key.
LEMMA PinKeeps ==
  ASSUME IInv, NEW h \in Trusting, NEW t \in Target, Pin(h, t)
  PROVE  IInv'
<1> USE DEF IInv
<1>1. /\ pinning[h].pc = "pin" /\ pinning[h].target = {t}
      /\ UNCHANGED <<used, targets, reg, policies, grants, channel, writing, trail>>
  BY DEF Pin, access
<1>2. CASE Decline(h) /\ UNCHANGED pin
  BY <1>1, <1>2, DeclineKeeps
<1>3. CASE /\ pinning' = [pinning EXCEPT ![h].pc = "get"]
           /\ t \in targets /\ pin' = [pin EXCEPT ![t] = pinning[h].key]
  <2>1. /\ pinning' \in [Trusting -> Pinning] /\ PinnedGrow
        /\ pinning'[h].pc = "get" /\ pinning'[h].target = {t}
        /\ pinning'[h].key = pinning[h].key
        /\ \A x \in Trusting \ {h} : pinning'[x] = pinning[x]
    BY <1>1, <1>3, AdvanceGrows DEF Advances
  <2>2. pin \in [Target -> SUBSET HostKey] /\ pinning[h].key \subseteq HostKey
    BY DEF TypeOK, Pinning
  <2>3. TypeOK'
    BY <1>1, <1>3, <2>1, <2>2 DEF TypeOK
  <2>4. h \in HavePinned(t)'
    BY <2>1 DEF HavePinned
  <2>5. \A x \in Target \ {t} : pin'[x] = pin[x]
    BY <1>3, <2>2
  <2>6. pin'[t] = pinning[h].key
    BY <1>3, <2>2
  <2>7. t \in used /\ targets \subseteq Target
    BY <1>3 DEF TypeOK
  <2>8. pin'[t] \subseteq EverPinned(t)'
    BY <2>1, <2>4, <2>6 DEF EverPinned
  <2>9. PinsAreAsked'
    BY <1>1, <2>1, <2>5, <2>7, <2>8 DEF PinsAreAsked, PinnedGrow
  <2>10. ASSUME NEW x \in targets, x # t
         PROVE  \/ {x} \X pin'[x] \subseteq trail'
                \/ \E y \in HavePinned(x)' : pinning'[y].pc # "answered"
    <3>1. x \in Target /\ pin'[x] = pin[x]
      BY <2>5, <2>7, <2>10
    <3>2. \A y \in HavePinned(x) : y \in HavePinned(x)' /\ y # h
      BY <1>1, <2>1, <3>1 DEF HavePinned, PinnedGrow
    <3>3. \A y \in HavePinned(x) : pinning'[y] = pinning[y]
      BY <2>1, <3>2 DEF HavePinned
    <3> QED
      BY <1>1, <3>1, <3>2, <3>3 DEF PinIsRecorded
  <2>11. PinIsRecorded'
    BY <1>1, <2>1, <2>4, <2>10 DEF PinIsRecorded
  <2> QED
    BY <1>1, <2>1, <2>3, <2>9, <2>11, TrustLeaves
<1> QED
  BY <1>2, <1>3 DEF Pin

\* The answer, if the target still exists, records the key that is pinned by now.
LEMMA AnswerKeeps ==
  ASSUME IInv, NEW h \in Trusting, NEW t \in Target,
         AnswerTrust(h, t) \/ AbandonTrust(h, t)
  PROVE  IInv'
<1> USE DEF IInv
<1>1. PICK v \in {"answered", "abandoned"} :
        /\ pinning[h].pc = "get" /\ pinning[h].target = {t}
        /\ pinning' = [pinning EXCEPT ![h].pc = v]
        /\ v = "answered" =>
             trail' = IF t \in targets THEN trail \cup ({t} \X pin[t]) ELSE trail
        /\ v = "abandoned" => trail' = trail
        /\ UNCHANGED <<used, targets, reg, pin, policies, grants, channel, writing>>
  BY DEF AnswerTrust, AbandonTrust, inventory, access
<1>2. /\ pinning' \in [Trusting -> Pinning] /\ PinnedGrow
      /\ pinning'[h].pc = v /\ pinning'[h].target = {t}
      /\ \A x \in Trusting \ {h} : pinning'[x] = pinning[x]
  BY <1>1, AdvanceGrows DEF Advances
<1>3. trail \subseteq trail' /\ trail' \subseteq Target \X HostKey
  BY <1>1 DEF TypeOK
<1>4. TypeOK'
  BY <1>1, <1>2, <1>3 DEF TypeOK
<1>5. PinsAreAsked'
  BY <1>1, <1>2 DEF PinsAreAsked, PinnedGrow
<1>6. ASSUME NEW x \in targets
      PROVE  \/ {x} \X pin[x] \subseteq trail'
             \/ \E y \in HavePinned(x)' : pinning'[y].pc # "answered"
  <2>1. x \in Target
    BY DEF TypeOK
  <2>2. CASE x = t /\ v = "answered"
    BY <1>1, <2>2
  <2>3. CASE x = t /\ v = "abandoned"
    BY <1>2, <2>3 DEF HavePinned
  <2>4. CASE x # t
    <3>1. \A y \in HavePinned(x) : y \in HavePinned(x)' /\ y # h
      BY <1>1, <1>2, <2>1, <2>4 DEF HavePinned, PinnedGrow
    <3>2. \A y \in HavePinned(x) : pinning'[y] = pinning[y]
      BY <1>2, <3>1 DEF HavePinned
    <3> QED
      BY <1>3, <3>1, <3>2 DEF PinIsRecorded
  <2> QED
    BY <2>2, <2>3, <2>4
<1>7. PinIsRecorded'
  BY <1>1, <1>6 DEF PinIsRecorded
<1> QED
  BY <1>1, <1>2, <1>4, <1>5, <1>7, TrustLeaves

-----------------------------------------------------------------------------
(* Steps on policies and grants.                                             *)

\* What such a step leaves alone.
LEMMA AccessLeaves ==
  ASSUME IInv, UNCHANGED <<used, targets, reg, pin, channel, pinning, trail>>
  PROVE  DeletedIsUnreachable' /\ PinsAreAsked' /\ PinIsRecorded' /\ DestinationIsOne'
<1> USE DEF IInv
<1>1. \A t \in Target : HavePinned(t)' = HavePinned(t) /\ EverPinned(t)' = EverPinned(t)
  BY DEF EverPinned, HavePinned
<1>2. targets \subseteq Target
  BY DEF TypeOK
<1>3. DeletedIsUnreachable' /\ DestinationIsOne'
  BY <1>1 DEF DeletedIsUnreachable, DestinationIsOne
<1>4. PinsAreAsked' /\ PinIsRecorded'
  BY <1>1, <1>2 DEF PinsAreAsked, PinIsRecorded
<1> QED
  BY <1>3, <1>4

\* The request of a policy starts, is checked, or is answered; r is its record then.
LEMMA WritingKeeps ==
  ASSUME IInv, NEW h \in Writing, NEW r \in PolicyRequest,
         writing' = [writing EXCEPT ![h] = r],
         \A p \in r.policy : p.target \in used,
         r.pc = "insert" =>
           \A p \in r.policy : p.principals \subseteq reg[p.target].accepts,
         policies' \in SUBSET Policy,
         \A p \in policies' \ policies :
           p.target \in used /\ p.principals \subseteq reg[p.target].accepts,
         UNCHANGED <<used, targets, reg, pin, grants, channel, pinning, trail>>
  PROVE  IInv'
<1> USE DEF IInv
<1>1. writing \in [Writing -> PolicyRequest]
  BY DEF TypeOK
<1>2. TypeOK'
  BY <1>1 DEF TypeOK
<1>3. writing'[h] = r /\ \A x \in Writing \ {h} : writing'[x] = writing[x]
  BY <1>1
<1>4. IdsAreUsed'
  BY <1>3 DEF IdsAreUsed
<1>5. CheckedFits' /\ PolicyFitsTarget'
  BY <1>3 DEF CheckedFits, PolicyFitsTarget
<1> QED
  BY <1>2, <1>4, <1>5, AccessLeaves

LEMMA PolicyStepsKeep ==
  ASSUME IInv, NEW h \in Writing, NEW p \in Policy,
         CreatePolicy(h, p) \/ CheckPrincipals(h, p) \/ InsertPolicy(h, p)
  PROVE  IInv'
<1> USE DEF IInv
<1>1. /\ writing \in [Writing -> PolicyRequest] /\ writing[h] \in PolicyRequest
      /\ targets \subseteq used /\ policies \in SUBSET Policy
  BY DEF TypeOK
<1> DEFINE done == [pc |-> "answered", policy |-> {}]
<1>2. done \in PolicyRequest /\ done.policy = {}
  BY DEF PolicyRequest
<1>3. AnswerPolicy(h) => writing' = [writing EXCEPT ![h] = done]
  BY DEF AnswerPolicy
<1> HIDE DEF done
<1>4. CASE CreatePolicy(h, p)
  <2> DEFINE r == [pc |-> "principals", policy |-> {p}]
  <2>1. r \in PolicyRequest /\ r.policy = {p} /\ r.pc = "principals"
    BY DEF PolicyRequest
  <2>2. /\ writing' = [writing EXCEPT ![h] = r] /\ p.target \in targets
        /\ UNCHANGED <<used, targets, reg, pin, policies, grants, channel, pinning, trail>>
    BY <1>4 DEF CreatePolicy, inventory, access
  <2> HIDE DEF r
  <2> QED
    BY <1>1, <2>1, <2>2, WritingKeeps
<1>5. CASE CheckPrincipals(h, p)
  <2>1. /\ writing[h].policy = {p}
        /\ UNCHANGED <<used, targets, reg, pin, policies, grants, channel, pinning, trail>>
    BY <1>5 DEF CheckPrincipals, inventory, access
  <2>2. CASE AnswerPolicy(h)
    BY <1>1, <1>2, <1>3, <2>1, <2>2, WritingKeeps
  <2>3. CASE /\ p.principals \subseteq PrincipalsOf(p.target)
             /\ writing' = [writing EXCEPT ![h].pc = "insert"]
    <3> DEFINE r == [writing[h] EXCEPT !.pc = "insert"]
    <3>1. r \in PolicyRequest /\ r.policy = {p}
      BY <1>1, <2>1 DEF PolicyRequest
    <3>2. writing' = [writing EXCEPT ![h] = r]
      BY <2>3
    <3>3. p.principals \subseteq reg[p.target].accepts
      BY <2>3 DEF PrincipalsOf
    <3>4. p.target \in used
      BY <2>1 DEF IdsAreUsed
    <3> HIDE DEF r
    <3> QED
      BY <1>1, <2>1, <3>1, <3>2, <3>3, <3>4, WritingKeeps
  <2> QED
    BY <1>5, <2>2, <2>3 DEF CheckPrincipals
<1>6. CASE InsertPolicy(h, p)
  <2>1. /\ writing[h].policy = {p} /\ writing[h].pc = "insert"
        /\ policies' = policies \cup {p} /\ writing' = [writing EXCEPT ![h] = done]
        /\ UNCHANGED <<used, targets, reg, pin, grants, channel, pinning, trail>>
    BY <1>3, <1>6 DEF InsertPolicy, inventory
  <2>2. p.target \in used /\ p.principals \subseteq reg[p.target].accepts
    BY <2>1 DEF IdsAreUsed, CheckedFits
  <2> QED
    BY <1>1, <1>2, <2>1, <2>2, WritingKeeps DEF PolicyRequest
<1> QED
  BY <1>4, <1>5, <1>6

LEMMA FailPolicyKeeps ==
  ASSUME IInv, NEW h \in Writing, FailPolicy(h)
  PROVE  IInv'
<1> DEFINE done == [pc |-> "answered", policy |-> {}]
<1>1. done \in PolicyRequest /\ done.policy = {} /\ done.pc = "answered"
  BY DEF PolicyRequest
<1>2. policies \in SUBSET Policy
  BY DEF IInv, TypeOK
<1>3. /\ writing' = [writing EXCEPT ![h] = done]
      /\ UNCHANGED <<used, targets, reg, pin, policies, grants, channel, pinning, trail>>
  BY DEF FailPolicy, AnswerPolicy, inventory, access
<1> HIDE DEF done
<1> QED
  BY <1>1, <1>2, <1>3, WritingKeeps

\* Deleting a policy, or a grant that begins or ends, breaks nothing.
LEMMA GrantStepsKeep ==
  ASSUME IInv, policies' \in SUBSET policies, grants' \in SUBSET Grant,
         UNCHANGED <<used, targets, reg, pin, channel, pinning, writing, trail>>
  PROVE  IInv'
<1> USE DEF IInv
<1>1. TypeOK'
  BY DEF TypeOK
<1>2. IdsAreUsed' /\ CheckedFits' /\ PolicyFitsTarget'
  BY DEF IdsAreUsed, CheckedFits, PolicyFitsTarget
<1> QED
  BY <1>1, <1>2, AccessLeaves

-----------------------------------------------------------------------------
LEMMA OperatorsKeep == IInv /\ Operators => IInv'
<1> SUFFICES ASSUME IInv, Operators PROVE IInv'
  OBVIOUS
<1>1. ASSUME NEW t \in Target, NEW n \in Name, NEW ps \in SUBSET Principal,
             Register(t, n, ps)
      PROVE  IInv'
  BY <1>1, RegisterKeeps
<1>2. ASSUME NEW t \in Target, Remove(t)
      PROVE  IInv'
  BY <1>2, RemoveKeeps
<1>3. ASSUME NEW h \in Trusting, NEW t \in Target,
             \/ \E k \in HostKey : Trust(h, t, k)
             \/ Pin(h, t) \/ AnswerTrust(h, t) \/ AbandonTrust(h, t)
      PROVE  IInv'
  BY <1>3, TrustKeeps, PinKeeps, AnswerKeeps
<1>4. ASSUME NEW h \in Trusting, FailPin(h)
      PROVE  IInv'
  <2>1. /\ pinning[h].pc = "pin" /\ Decline(h)
        /\ UNCHANGED <<used, targets, reg, pin, policies, grants, channel, writing, trail>>
    BY <1>4 DEF FailPin, inventory, access
  <2> QED
    BY <2>1, DeclineKeeps
<1> QED
  BY <1>1, <1>2, <1>3, <1>4 DEF Operators

LEMMA AdminsKeep == IInv /\ Admins => IInv'
<1> SUFFICES ASSUME IInv, Admins PROVE IInv'
  OBVIOUS
<1>1. ASSUME NEW h \in Writing, NEW p \in Policy,
             CreatePolicy(h, p) \/ CheckPrincipals(h, p) \/ InsertPolicy(h, p)
      PROVE  IInv'
  BY <1>1, PolicyStepsKeep
<1>2. ASSUME NEW h \in Writing, FailPolicy(h)
      PROVE  IInv'
  BY <1>2, FailPolicyKeeps
<1>3. grants \in SUBSET Grant
  BY DEF IInv, TypeOK
<1>4. ASSUME NEW p \in Policy, DeletePolicy(p)
      PROVE  IInv'
  <2>1. policies' \in SUBSET policies /\ grants' \in SUBSET Grant
    BY <1>3, <1>4 DEF DeletePolicy
  <2>2. UNCHANGED <<used, targets, reg, pin, channel, pinning, writing, trail>>
    BY <1>4 DEF DeletePolicy, inventory
  <2> QED
    BY <2>1, <2>2, GrantStepsKeep
<1>5. ASSUME NEW g \in Grant, GrantBegins(g) \/ GrantEnds(g)
      PROVE  IInv'
  <2>1. policies' \in SUBSET policies /\ grants' \in SUBSET Grant
    BY <1>3, <1>5 DEF GrantBegins, GrantEnds
  <2>2. UNCHANGED <<used, targets, reg, pin, channel, pinning, writing, trail>>
    BY <1>5 DEF GrantBegins, GrantEnds, inventory
  <2> QED
    BY <2>1, <2>2, GrantStepsKeep
<1> QED
  BY <1>1, <1>2, <1>4, <1>5 DEF Admins

\* Every step keeps the inductive invariant.
LEMMA StepKeeps == IInv /\ [Next]_vars => IInv'
<1> SUFFICES ASSUME IInv, [Next]_vars PROVE IInv'
  OBVIOUS
<1>1. CASE Next
  BY <1>1, OperatorsKeep, AdminsKeep, ResolveKeeps DEF Next
<1>2. CASE UNCHANGED vars
  <2>1. UNCHANGED <<used, targets, reg, pin, policies, grants, channel, pinning, writing,
                    trail>>
    BY <1>2 DEF vars, inventory, access
  <2>2. policies' \in SUBSET policies /\ grants' \in SUBSET Grant
    BY <2>1 DEF IInv, TypeOK
  <2> QED
    BY <2>1, <2>2, GrantStepsKeep
<1> QED
  BY <1>1, <1>2

\* The inductive invariant holds in every reachable state.
THEOREM Invariance == Spec => []IInv
BY InitHolds, StepKeeps, PTL DEF Spec

\* Every variable keeps its type.
THEOREM TypeCorrect == Spec => []TypeOK
BY Invariance, PTL DEF IInv

\* A channel speaks of one registration, from its name to the key it was pinned to,
\* whatever is registered, deleted and pinned while Server.resolve reads.
THEOREM DestinationStaysOne == Spec => []DestinationIsOne
BY Invariance, PTL DEF IInv

\* No channel finds a target that was deleted before it opened.
THEOREM DeletedStaysUnreachable == Spec => []DeletedIsUnreachable
BY Invariance, PTL DEF IInv

\* No policy names a principal that its target refuses.
THEOREM PoliciesFit == Spec => []PolicyFitsTarget
BY Invariance, PTL DEF IInv

\* Every pin is in the trail, or its request is not answered.
THEOREM PinsAreRecorded == Spec => []PinIsRecorded
BY Invariance, PTL DEF IInv

-----------------------------------------------------------------------------
\* Only Pin writes a key, and over another one only where that was asked for.
LEMMA StepReplaces == TypeOK /\ [Next]_vars => PinChanges
<1> SUFFICES ASSUME TypeOK, [Next]_vars, NEW x \in Target, pin[x] # {}, pin'[x] # pin[x]
             PROVE  \E h \in Trusting : Replaces(h, x)
  BY DEF PinChanges
<1>1. ASSUME UNCHANGED pin
      PROVE  FALSE
  BY <1>1
<1>2. PICK h \in Trusting, t \in Target : Pin(h, t)
  <2>1. CASE Operators
    BY <1>1, <2>1 DEF Operators, Register, Remove, Trust, FailPin, AnswerTrust,
                      AbandonTrust, inventory
  <2>2. CASE Admins
    BY <1>1, <2>2 DEF Admins, CreatePolicy, CheckPrincipals, InsertPolicy, FailPolicy,
                      DeletePolicy, GrantBegins, GrantEnds, inventory
  <2>3. CASE \E c \in Channel : Resolve(c)
    BY <1>1, <2>3, ChannelSteps
  <2>4. CASE UNCHANGED vars
    BY <1>1, <2>4 DEF vars, inventory
  <2> QED
    BY <2>1, <2>2, <2>3, <2>4 DEF Next
<1>3. t = x
  BY <1>2 DEF Pin, TypeOK
<1> QED
  BY <1>2, <1>3 DEF Pin, Replaces

\* A pinned key is replaced only by a request that asks for it.
THEOREM PinsAreReplacedOnDemand == Spec => PinIsReplacedOnDemand
<1>1. TypeOK /\ [Next]_vars => PinChanges
  BY StepReplaces
<1> QED
  BY <1>1, TypeCorrect, PTL DEF Spec, PinIsReplacedOnDemand

-----------------------------------------------------------------------------
(* AccessHistory implements Warrant.                                         *)

Located  == {"principals", "policy", "grant", "resolved"}
Accepted == {"policy", "grant", "resolved"}

\* What a channel has read of a claim.
Fits(c, x) ==
  /\ channel[c].user = {x.user} /\ channel[c].name = {x.name}
  /\ channel[c].principal = {x.principal}
  /\ channel[c].target = {x.target} /\ channel[c].pin = {x.host}

AtMostOne(S) == \A x, y \in S : x = y

KeysAreOne ==
  /\ \A h \in Trusting : AtMostOne(pinning[h].key)
  /\ \A t \in Target : AtMostOne(pin[t])
  /\ \A c \in Channel : AtMostOne(channel[c].pin)

AsksForOne(c) ==
  channel[c].pc \in {"lookup"} \cup Located =>
    \E u \in User, n \in Name, a \in Principal :
      channel[c].user = {u} /\ channel[c].name = {n} /\ channel[c].principal = {a}

HasOneTarget(c) == channel[c].pc \in Located => \E t \in Target : channel[c].target = {t}

\* What holds is remembered, and what a channel has found was so.
Remembers(c) == c \in Opened => \A g \in Ground : Holds[g] \subseteq held[c][g]

Grounded(c) == \A x \in Claim : Fits(c, x) =>
  /\ channel[c].pc \in Located  => x \in held[c]["target"] /\ x \in held[c]["pin"]
  /\ channel[c].pc \in Accepted => x \in held[c]["principal"]
  /\ channel[c].pc \in {"grant", "resolved"} => x \in held[c]["policy"]
  /\ channel[c].pc = "resolved" => x \in held[c]["grant"]

HistoryInv ==
  /\ held \in [Channel -> [Ground -> SUBSET Claim]]
  /\ KeysAreOne
  /\ \A c \in Channel : AsksForOne(c) /\ HasOneTarget(c) /\ Remembers(c) /\ Grounded(c)

LEMMA HoldsTyped == Holds \in [Ground -> SUBSET Claim]
BY DEF Holds

LEMMA HistoryInitHolds == HistoryInit => HistoryInv
<1> SUFFICES ASSUME HistoryInit PROVE HistoryInv
  OBVIOUS
<1> USE DEF HistoryInit, Init, NoChannel, NotPinning
<1>1. held \in [Channel -> [Ground -> SUBSET Claim]]
  OBVIOUS
<1>2. KeysAreOne
  BY DEF KeysAreOne, AtMostOne
<1>3. \A c \in Channel : AsksForOne(c) /\ HasOneTarget(c) /\ Remembers(c) /\ Grounded(c)
  BY DEF AsksForOne, HasOneTarget, Remembers, Grounded, Located, Accepted, Opened
<1> QED
  BY <1>1, <1>2, <1>3 DEF HistoryInv

\* What a step of a channel does to it, with what it has read.
BeginsToAsk(c) == \E u \in User, n \in Name, a \in Principal :
  channel'[c] = [pc |-> "lookup", user |-> {u}, name |-> {n}, principal |-> {a},
                 target |-> {}, pin |-> {}, gone |-> used \ targets]
ReadsRow(c) == \E t \in targets :
  /\ channel[c].pc = "lookup" /\ channel[c].name = {reg[t].name}
  /\ channel'[c] = [channel[c] EXCEPT !.pc = "principals", !.target = {t}, !.pin = pin[t]]
ReadsPrincipal(c) == \E t \in Target :
  /\ channel[c].pc = "principals" /\ channel[c].target = {t} /\ channel[c].pin # {}
  /\ channel[c].principal \subseteq PrincipalsOf(t)
  /\ channel'[c] = [channel[c] EXCEPT !.pc = "policy"]
ReadsPolicy(c) == \E t \in Target, u \in User, a \in Principal :
  /\ channel[c].pc = "policy" /\ Asks(c, t, u, a) /\ Allows(policies, u, t, a)
  /\ channel'[c] = [channel[c] EXCEPT !.pc = "grant"]
ReadsGrant(c) == \E t \in Target, u \in User, a \in Principal :
  /\ channel[c].pc = "grant" /\ Asks(c, t, u, a)
  /\ [user |-> u, target |-> t, principal |-> a] \in grants
  /\ channel'[c] = [channel[c] EXCEPT !.pc = "resolved"]
IsRefused(c) == channel'[c] = [NoChannel EXCEPT !.pc = "refused"]

Reads(c) == \/ BeginsToAsk(c) \/ ReadsRow(c) \/ ReadsPrincipal(c) \/ ReadsPolicy(c)
            \/ ReadsGrant(c) \/ IsRefused(c)

LEMMA ChannelReads ==
  ASSUME TypeOK, NEW c \in Channel, Resolve(c)
  PROVE  /\ Reads(c)
         /\ channel[c].pc # "resolved"
         /\ UNCHANGED <<used, targets, reg, pin, policies, grants, pinning, writing, trail>>
         /\ \A d \in Channel \ {c} : channel'[d] = channel[d]
<1> channel \in [Channel -> Resolution]
  BY DEF TypeOK
<1> USE DEF Rest, inventory, access, Refuse, Reads, BeginsToAsk, ReadsRow, ReadsPrincipal,
            ReadsPolicy, ReadsGrant, IsRefused
<1>1. CASE \E u \in User, n \in Name, a \in Principal : OpenChannel(c, u, n, a)
  BY <1>1 DEF OpenChannel
<1>2. CASE Lookup(c)
  BY <1>2 DEF Lookup
<1>3. CASE FailRead(c)
  BY <1>3 DEF FailRead
<1>4. ASSUME NEW t \in Target, LookupPrincipals(c, t)
      PROVE  /\ Reads(c) /\ channel[c].pc # "resolved"
             /\ UNCHANGED <<used, targets, reg, pin, policies, grants, pinning, writing, trail>>
             /\ \A d \in Channel \ {c} : channel'[d] = channel[d]
  BY <1>4 DEF LookupPrincipals
<1>5. ASSUME NEW t \in Target, NEW u \in User, NEW a \in Principal,
             Authorize(c, t, u, a) \/ HasGrant(c, t, u, a)
      PROVE  /\ Reads(c) /\ channel[c].pc # "resolved"
             /\ UNCHANGED <<used, targets, reg, pin, policies, grants, pinning, writing, trail>>
             /\ \A d \in Channel \ {c} : channel'[d] = channel[d]
  BY <1>5 DEF Authorize, HasGrant
<1> QED
  BY <1>1, <1>2, <1>3, <1>4, <1>5 DEF Resolve

LEMMA OthersReadNothing ==
  ASSUME Operators \/ Admins \/ UNCHANGED vars
  PROVE  UNCHANGED channel
BY DEF Operators, Register, Remove, Trust, Pin, FailPin, AnswerTrust, AbandonTrust, Admins,
       CreatePolicy, CheckPrincipals, InsertPolicy, FailPolicy, DeletePolicy, GrantBegins,
       GrantEnds, vars

\* A channel that has read is open, and its key is none, the one it had or that of a target.
LEMMA ReadsLeave ==
  ASSUME NEW c, channel[c] \in Resolution, Reads(c)
  PROVE  /\ channel'[c].pc # "idle"
         /\ \/ channel'[c].pin \in {{}, channel[c].pin}
            \/ \E t \in targets : channel'[c].pin = pin[t]
<1>1. CASE BeginsToAsk(c)
  BY <1>1 DEF BeginsToAsk
<1>2. CASE ReadsRow(c)
  BY <1>2 DEF ReadsRow, Resolution
<1>3. CASE ReadsPrincipal(c) \/ ReadsPolicy(c) \/ ReadsGrant(c)
  BY <1>3 DEF ReadsPrincipal, ReadsPolicy, ReadsGrant, Resolution
<1>4. CASE IsRefused(c)
  BY <1>4 DEF IsRefused, NoChannel
<1> QED
  BY <1>1, <1>2, <1>3, <1>4 DEF Reads

LEMMA KeysStayOne == ASSUME TypeOK, HistoryInv, [Next]_vars PROVE KeysAreOne'
<1> USE DEF TypeOK, AtMostOne
<1>1. KeysAreOne
  BY DEF HistoryInv
<1>2. ASSUME UNCHANGED <<pin, pinning, channel>> PROVE KeysAreOne'
  BY <1>1, <1>2 DEF KeysAreOne
<1>3. CASE Operators
  <2>1. channel' = channel
    BY <1>3, OthersReadNothing
  <2>2. ASSUME NEW h \in Trusting, NEW t \in Target, Pin(h, t)
        PROVE  KeysAreOne'
    <3>1. \A g \in Trusting : pinning'[g].key \in {pinning[g].key, {}}
      BY <2>2 DEF Pin, Decline, NotPinning, Pinning
    <3>2. \A x \in Target : pin'[x] \in {pin[x], pinning[h].key}
      BY <2>2 DEF Pin
    <3> QED
      BY <1>1, <2>1, <3>1, <3>2 DEF KeysAreOne
  <2>3. ASSUME NEW h \in Trusting, NEW t \in Target,
               (\E k \in HostKey : Trust(h, t, k)) \/ AnswerTrust(h, t) \/ AbandonTrust(h, t)
        PROVE  KeysAreOne'
    <3>1. \A g \in Trusting : AtMostOne(pinning'[g].key)
      <4>1. ASSUME NEW k \in HostKey, Trust(h, t, k), NEW g \in Trusting
            PROVE  pinning'[g].key \in {pinning[g].key, {k}}
        BY <4>1 DEF Trust
      <4>2. ASSUME AnswerTrust(h, t) \/ AbandonTrust(h, t), NEW g \in Trusting
            PROVE  pinning'[g].key = pinning[g].key
        BY <4>2 DEF AnswerTrust, AbandonTrust, Pinning
      <4>3. \A k : AtMostOne({k})
        OBVIOUS
      <4> QED
        BY <1>1, <2>3, <4>1, <4>2, <4>3 DEF KeysAreOne
    <3>2. pin' = pin
      BY <2>3 DEF Trust, AnswerTrust, AbandonTrust, inventory
    <3> QED
      BY <1>1, <2>1, <3>1, <3>2 DEF KeysAreOne
  <2>4. ASSUME NEW h \in Trusting, FailPin(h)
        PROVE  KeysAreOne'
    BY <1>1, <2>1, <2>4 DEF FailPin, Decline, NotPinning, KeysAreOne, inventory
  <2>5. ASSUME NEW t \in Target,
               Remove(t) \/ \E n \in Name, ps \in SUBSET Principal : Register(t, n, ps)
        PROVE  KeysAreOne'
    BY <1>2, <2>5 DEF Remove, Register
  <2> QED
    BY <1>3, <2>2, <2>3, <2>4, <2>5 DEF Operators
<1>4. CASE Admins
  BY <1>2, <1>4, OthersReadNothing
     DEF Admins, CreatePolicy, CheckPrincipals, InsertPolicy, FailPolicy, DeletePolicy,
         GrantBegins, GrantEnds, inventory
<1>5. ASSUME NEW c \in Channel, Resolve(c) PROVE KeysAreOne'
  <2>1. Reads(c) /\ UNCHANGED <<pin, pinning>> /\ \A d \in Channel \ {c} : channel'[d] = channel[d]
    BY <1>5, ChannelReads
  <2>2. channel[c] \in Resolution /\ targets \subseteq Target
    OBVIOUS
  <2>3. AtMostOne(channel'[c].pin)
    BY <1>1, <2>1, <2>2, ReadsLeave DEF KeysAreOne
  <2> QED
    BY <1>1, <2>1, <2>3 DEF KeysAreOne
<1>6. CASE UNCHANGED vars
  BY <1>2, <1>6 DEF vars, inventory
<1> QED
  BY <1>3, <1>4, <1>5, <1>6 DEF Next

\* What held once is kept, and what holds is added.
LEMMA HistoryGrows ==
  ASSUME HistoryInv, Watch
  PROVE  /\ held' \in [Channel -> [Ground -> SUBSET Claim]]
         /\ \A c \in Opened' : \A g \in Ground :
              held[c][g] \subseteq held'[c][g] /\ Holds'[g] \subseteq held'[c][g]
<1>1. Holds' \in [Ground -> SUBSET Claim]
  BY DEF Holds
<1>2. held \in [Channel -> [Ground -> SUBSET Claim]]
  BY DEF HistoryInv
<1> QED
  BY <1>1, <1>2 DEF Watch, Opened

LEMMA OpenedStay ==
  ASSUME TypeOK, [Next]_vars
  PROVE  Opened \subseteq Opened' /\ Opened' \subseteq Channel
<1>1. ASSUME NEW c \in Channel, NEW d \in Channel, Resolve(d), channel[c].pc # "idle"
      PROVE  channel'[c].pc # "idle"
  <2>1. Reads(d) /\ \A e \in Channel \ {d} : channel'[e] = channel[e]
    BY <1>1, ChannelReads
  <2>2. channel[d] \in Resolution
    BY DEF TypeOK
  <2>3. channel'[d].pc # "idle"
    BY <2>1, <2>2, ReadsLeave
  <2> QED
    BY <1>1, <2>1, <2>3
<1>2. ASSUME UNCHANGED channel PROVE Opened' = Opened
  BY <1>2 DEF Opened
<1> QED
  BY <1>1, <1>2, OthersReadNothing DEF Next, Opened

-----------------------------------------------------------------------------
(* What each read grounds.                                                   *)

\* A channel that did not move stands where it stood, with more behind it.
LEMMA StandingStays ==
  ASSUME HistoryInv, Watch, NEW c \in Channel, channel'[c] = channel[c]
  PROVE  AsksForOne(c)' /\ HasOneTarget(c)' /\ Grounded(c)'
<1>1. AsksForOne(c)' /\ HasOneTarget(c)'
  BY DEF HistoryInv, AsksForOne, HasOneTarget, Located
<1>2. \A x \in Claim : Fits(c, x)' <=> Fits(c, x)
  BY DEF Fits
<1>3. channel[c].pc \in Located => \A g \in Ground : held[c][g] \subseteq held'[c][g]
  BY HistoryGrows DEF Located, Opened
<1>4. Grounded(c)'
  BY <1>2, <1>3 DEF HistoryInv, Grounded, Located, Accepted, Ground
<1> QED
  BY <1>1, <1>4

LEMMA GroundsHold ==
  ASSUME NEW x \in Claim
  PROVE  /\ x \in Holds["target"] <=> x.target \in targets /\ reg[x.target].name = x.name
         /\ x \in Holds["pin"] <=> x.target \in targets /\ pin[x.target] = {x.host}
         /\ x \in Holds["principal"] <=> x.principal \in PrincipalsOf(x.target)
         /\ x \in Holds["policy"] <=> Allows(policies, x.user, x.target, x.principal)
         /\ x \in Holds["grant"] <=> [user |-> x.user, target |-> x.target,
                                      principal |-> x.principal] \in grants
BY DEF Holds, Ground

LEMMA MovedStays ==
  ASSUME TypeOK, HistoryInv, Watch, NEW c \in Channel, Reads(c)
  PROVE  AsksForOne(c)' /\ HasOneTarget(c)' /\ Grounded(c)'
<1> PICK r \in Resolution : channel[c] = r
  BY DEF TypeOK
<1>1. AsksForOne(c) /\ HasOneTarget(c) /\ Remembers(c) /\ Grounded(c)
  BY DEF HistoryInv
<1>2. channel[c].pc # "idle" => \A g \in Ground : Holds[g] \subseteq held[c][g]
  BY <1>1 DEF Remembers, Opened
<1>3. channel'[c].pc # "idle" => \A g \in Ground : held[c][g] \subseteq held'[c][g]
  BY HistoryGrows DEF Opened
<1>4. /\ targets \subseteq Target
      /\ \A x \in Claim : x.target \in Target
  BY DEF TypeOK, Claim
<1>5. CASE BeginsToAsk(c)
  <2> PICK u \in User, n \in Name, a \in Principal :
        channel'[c] = [pc |-> "lookup", user |-> {u}, name |-> {n}, principal |-> {a},
                       target |-> {}, pin |-> {}, gone |-> used \ targets]
    BY <1>5 DEF BeginsToAsk
  <2>1. AsksForOne(c)' /\ HasOneTarget(c)'
    BY DEF AsksForOne, HasOneTarget, Located
  <2>2. \A x : ~Fits(c, x)'
    BY DEF Fits
  <2> QED
    BY <2>1, <2>2 DEF Grounded
<1>6. CASE ReadsRow(c)
  <2> PICK t \in targets :
        /\ channel[c].pc = "lookup" /\ channel[c].name = {reg[t].name}
        /\ channel'[c] = [r EXCEPT !.pc = "principals", !.target = {t}, !.pin = pin[t]]
    BY <1>6 DEF ReadsRow
  <2>1. /\ channel'[c].pc = "principals" /\ channel'[c].target = {t} /\ channel'[c].pin = pin[t]
        /\ channel'[c].user = channel[c].user /\ channel'[c].name = channel[c].name
        /\ channel'[c].principal = channel[c].principal
    BY DEF Resolution
  <2>2. AsksForOne(c)' /\ HasOneTarget(c)'
    BY <1>1, <1>4, <2>1 DEF AsksForOne, HasOneTarget, Located
  <2>3. ASSUME NEW x \in Claim, Fits(c, x)'
        PROVE  x \in held'[c]["target"] /\ x \in held'[c]["pin"]
    <3>1. x.target = t /\ reg[t].name = x.name /\ pin[t] = {x.host}
      BY <2>1, <2>3 DEF Fits
    <3>2. x \in Holds["target"] /\ x \in Holds["pin"]
      BY <3>1, GroundsHold
    <3> QED
      BY <1>2, <1>3, <2>1, <3>2 DEF Ground
  <2> QED
    BY <2>1, <2>2, <2>3 DEF Grounded, Accepted
<1>7. ASSUME NEW v \in Accepted, channel'[c] = [r EXCEPT !.pc = v],
             channel[c].pc \in Located
      PROVE  /\ AsksForOne(c)' /\ HasOneTarget(c)'
             /\ channel'[c].pc = v
             /\ \A x \in Claim : Fits(c, x)' <=> Fits(c, x)
             /\ \A g \in Ground : held[c][g] \subseteq held'[c][g]
             /\ \A g \in Ground : Holds[g] \subseteq held'[c][g]
             /\ \A x \in Claim : Fits(c, x)' => x \in held'[c]["target"] /\ x \in held'[c]["pin"]
  <2>1. /\ channel'[c].pc = v /\ channel'[c].target = channel[c].target
        /\ channel'[c].pin = channel[c].pin
        /\ channel'[c].user = channel[c].user /\ channel'[c].name = channel[c].name
        /\ channel'[c].principal = channel[c].principal
    BY <1>7 DEF Resolution
  <2>2. AsksForOne(c)' /\ HasOneTarget(c)'
    BY <1>1, <1>7, <2>1 DEF AsksForOne, HasOneTarget, Located
  <2>3. \A x \in Claim : Fits(c, x)' <=> Fits(c, x)
    BY <2>1 DEF Fits
  <2>4. /\ \A g \in Ground : held[c][g] \subseteq held'[c][g]
        /\ \A g \in Ground : Holds[g] \subseteq held'[c][g]
    BY <1>2, <1>3, <1>7, <2>1 DEF Accepted, Located
  <2>5. \A x \in Claim : Fits(c, x)' => x \in held'[c]["target"] /\ x \in held'[c]["pin"]
    BY <1>1, <1>7, <2>3, <2>4 DEF Grounded, Ground
  <2> QED
    BY <2>1, <2>2, <2>3, <2>4, <2>5
<1>8. CASE ReadsPrincipal(c)
  <2> PICK t \in Target :
        /\ channel[c].pc = "principals" /\ channel[c].target = {t}
        /\ channel[c].principal \subseteq PrincipalsOf(t)
        /\ channel'[c] = [r EXCEPT !.pc = "policy"]
    BY <1>8 DEF ReadsPrincipal
  <2>1. ASSUME NEW x \in Claim, Fits(c, x)
        PROVE  x \in held'[c]["principal"]
    <3>1. x.target = t /\ x.principal \in PrincipalsOf(t)
      BY <2>1 DEF Fits
    <3> QED
      BY <1>7, <3>1, GroundsHold DEF Accepted, Located, Ground
  <2> QED
    BY <1>7, <2>1 DEF Accepted, Located, Grounded
<1>9. CASE ReadsPolicy(c)
  <2> PICK t \in Target, u \in User, a \in Principal :
        /\ channel[c].pc = "policy" /\ Asks(c, t, u, a) /\ Allows(policies, u, t, a)
        /\ channel'[c] = [r EXCEPT !.pc = "grant"]
    BY <1>9 DEF ReadsPolicy
  <2>1. ASSUME NEW x \in Claim, Fits(c, x)
        PROVE  x \in held'[c]["principal"] /\ x \in held'[c]["policy"]
    <3>1. x.target = t /\ x.principal = a /\ x.user = u
      BY <2>1 DEF Fits, Asks
    <3>2. x \in Holds["policy"]
      BY <3>1, GroundsHold
    <3>3. x \in held[c]["principal"]
      BY <1>1, <2>1 DEF Grounded, Accepted
    <3> QED
      BY <1>7, <3>2, <3>3 DEF Accepted, Located, Ground
  <2> QED
    BY <1>7, <2>1 DEF Accepted, Located, Grounded
<1>10. CASE ReadsGrant(c)
  <2> PICK t \in Target, u \in User, a \in Principal :
        /\ channel[c].pc = "grant" /\ Asks(c, t, u, a)
        /\ [user |-> u, target |-> t, principal |-> a] \in grants
        /\ channel'[c] = [r EXCEPT !.pc = "resolved"]
    BY <1>10 DEF ReadsGrant
  <2>1. ASSUME NEW x \in Claim, Fits(c, x)
        PROVE  /\ x \in held'[c]["principal"] /\ x \in held'[c]["policy"]
               /\ x \in held'[c]["grant"]
    <3>1. x.target = t /\ x.principal = a /\ x.user = u
      BY <2>1 DEF Fits, Asks
    <3>2. x \in Holds["grant"]
      BY <3>1, GroundsHold
    <3>3. x \in held[c]["principal"] /\ x \in held[c]["policy"]
      BY <1>1, <2>1 DEF Grounded, Accepted
    <3> QED
      BY <1>7, <3>2, <3>3 DEF Accepted, Located, Ground
  <2> QED
    BY <1>7, <2>1 DEF Accepted, Located, Grounded
<1>11. CASE IsRefused(c)
  <2>1. channel'[c].pc = "refused"
    BY <1>11 DEF IsRefused, NoChannel
  <2> QED
    BY <2>1 DEF AsksForOne, HasOneTarget, Grounded, Located, Accepted
<1> QED
  BY <1>5, <1>6, <1>8, <1>9, <1>10, <1>11 DEF Reads

LEMMA HistoryStep ==
  ASSUME TypeOK, HistoryInv, [Next /\ Watch]_<<vars, held>>
  PROVE  HistoryInv'
<1>1. CASE Next /\ Watch
  <2>1. held' \in [Channel -> [Ground -> SUBSET Claim]] /\ KeysAreOne'
    BY <1>1, HistoryGrows, KeysStayOne
  <2>2. ASSUME NEW c \in Channel PROVE Remembers(c)'
    BY <1>1, HistoryGrows DEF Remembers
  <2>3. ASSUME NEW c \in Channel PROVE AsksForOne(c)' /\ HasOneTarget(c)' /\ Grounded(c)'
    <3>1. channel'[c] = channel[c] \/ Reads(c)
      BY <1>1, ChannelReads, OthersReadNothing DEF Next
    <3> QED
      BY <1>1, <3>1, StandingStays, MovedStays
  <2> QED
    BY <2>1, <2>2, <2>3 DEF HistoryInv
<1>2. CASE UNCHANGED <<vars, held>>
  <2>1. UNCHANGED <<pin, pinning, channel, held, targets, reg, policies, grants>>
    BY <1>2 DEF vars, inventory, access
  <2>2. Holds' = Holds /\ Opened' = Opened
    BY <2>1 DEF Holds, Opened, PrincipalsOf
  <2> QED
    BY <2>1, <2>2 DEF HistoryInv, KeysAreOne, AtMostOne, AsksForOne, HasOneTarget, Remembers,
                      Grounded, Fits
<1> QED
  BY <1>1, <1>2

LEMMA HistoryIsSpec == HistorySpec => Spec
<1>1. HistoryInit => Init
  BY DEF HistoryInit
<1>2. [Next /\ Watch]_<<vars, held>> => [Next]_vars
  OBVIOUS
<1> QED
  BY <1>1, <1>2, PTL DEF HistorySpec, Spec

\* What holds is remembered, and what a channel has found so far was so since it opened.
THEOREM HistoryInvariance == HistorySpec => []HistoryInv
<1>1. HistorySpec => []TypeOK
  BY HistoryIsSpec, TypeCorrect
<1>2. TypeOK /\ HistoryInv /\ [Next /\ Watch]_<<vars, held>> => HistoryInv'
  BY HistoryStep
<1> QED
  BY HistoryInitHolds, <1>1, <1>2, PTL DEF HistorySpec

\* What a channel has read, once it has resolved, makes one claim.
HaveClaims == \A c \in Channel :
  channel[c].pc = "resolved" => \E x \in Claim : ClaimsOf(c) = {x} /\ Fits(c, x)

LEMMA ResolvedClaims == IInv /\ HistoryInv => HaveClaims
<1> SUFFICES ASSUME IInv, HistoryInv, NEW c \in Channel, channel[c].pc = "resolved"
             PROVE  \E x \in Claim : ClaimsOf(c) = {x} /\ Fits(c, x)
  BY DEF HaveClaims
<1>1. PICK u \in User, n \in Name, a \in Principal :
        channel[c].user = {u} /\ channel[c].name = {n} /\ channel[c].principal = {a}
  BY DEF HistoryInv, AsksForOne, Located
<1>2. PICK t \in Target : channel[c].target = {t}
  BY DEF HistoryInv, HasOneTarget, Located
<1>3. PICK k \in HostKey : channel[c].pin = {k}
  <2>1. channel[c].pin # {}
    BY <1>2 DEF IInv, DestinationIsOne
  <2>2. channel[c].pin \subseteq HostKey
    BY DEF IInv, TypeOK, Resolution
  <2>3. AtMostOne(channel[c].pin)
    BY DEF HistoryInv, KeysAreOne
  <2> QED
    BY <2>1, <2>2, <2>3 DEF AtMostOne
<1> DEFINE x == [user |-> u, name |-> n, principal |-> a, target |-> t, host |-> k]
<1>4. x \in Claim /\ Fits(c, x)
  BY <1>1, <1>2, <1>3 DEF Claim, Fits
<1>5. ClaimsOf(c) = {x}
  BY <1>1, <1>2, <1>3, <1>4 DEF ClaimsOf, Fits, Claim
<1> QED
  BY <1>4, <1>5

\* Every step of resolve, and of those it runs among, is a step of Warrant.
LEMMA WarrantStep ==
  ASSUME IInv, HistoryInv, IInv', HistoryInv', [Next /\ Watch]_<<vars, held>>
  PROVE  [Promise!Next]_(Promise!vars)
<1> TypeOK
  BY DEF IInv
<1>c. HaveClaims'
  BY ResolvedClaims, PTL
<1>1. CASE UNCHANGED <<vars, held>>
  <2>1. UNCHANGED <<pin, channel, held, targets, reg, policies, grants>>
    BY <1>1 DEF vars, inventory, access
  <2> QED
    BY <2>1 DEF Promise!vars, Holds, Opened, PrincipalsOf, ClaimsOf
<1>2. CASE Next /\ Watch
  <2>1. Promise!Watch
    <3>1. Opened \subseteq Opened' /\ Opened' \subseteq Channel
      BY <1>2, OpenedStay
    <3>2. Holds' \in [Ground -> SUBSET Claim]
      BY DEF Holds
    <3> QED
      BY <1>2, <3>1, <3>2 DEF Promise!Watch, Watch
  <2>2. ASSUME NEW c \in Channel, channel'[c] = channel[c] PROVE ClaimsOf(c)' = ClaimsOf(c)
    BY <2>2 DEF ClaimsOf
  <2>3. CASE channel' = channel
    BY <2>1, <2>2, <2>3 DEF Promise!Next
  <2>4. ASSUME NEW c \in Channel, Resolve(c) PROVE Promise!Next
    <3>1. /\ Reads(c) /\ channel[c].pc # "resolved"
          /\ \A d \in Channel \ {c} : ClaimsOf(d)' = ClaimsOf(d)
      BY <2>2, <2>4, ChannelReads
    <3>2. ClaimsOf(c) = {}
      BY <3>1 DEF ClaimsOf
    <3>3. CASE channel'[c].pc # "resolved"
      <4>1. ClaimsOf(c)' = {}
        BY <3>3 DEF ClaimsOf
      <4>2. \A d \in Channel : ClaimsOf(d)' = ClaimsOf(d)
        BY <3>1, <3>2, <4>1
      <4> QED
        BY <2>1, <4>2 DEF Promise!Next
    <3>4. CASE channel'[c].pc = "resolved"
      <4>1. PICK x \in Claim : ClaimsOf(c)' = {x} /\ Fits(c, x)'
        BY <1>c, <3>4 DEF HaveClaims
      <4>2. ReadsGrant(c)
        <5>1. channel[c] \in Resolution
          BY DEF TypeOK
        <5>2. ~BeginsToAsk(c) /\ ~IsRefused(c)
          <6>1. ASSUME BeginsToAsk(c) PROVE channel'[c].pc = "lookup"
            BY <6>1 DEF BeginsToAsk
          <6>2. ASSUME IsRefused(c) PROVE channel'[c].pc = "refused"
            BY <6>2 DEF IsRefused, NoChannel
          <6> QED
            BY <3>4, <6>1, <6>2
        <5>3. ~ReadsRow(c) /\ ~ReadsPrincipal(c) /\ ~ReadsPolicy(c)
          BY <3>4, <5>1 DEF ReadsRow, ReadsPrincipal, ReadsPolicy, Resolution
        <5> QED
          BY <3>1, <5>2, <5>3 DEF Reads
      <4>3. PICK t \in Target, u \in User, a \in Principal :
              /\ channel[c].pc = "grant" /\ Asks(c, t, u, a)
              /\ [user |-> u, target |-> t, principal |-> a] \in grants
              /\ channel'[c] = [channel[c] EXCEPT !.pc = "resolved"]
        BY <4>2 DEF ReadsGrant
      <4>4. Fits(c, x)
        BY <4>1, <4>3 DEF Fits, TypeOK, Resolution
      <4>5. x \in Holds["grant"]
        BY <4>3, <4>4, GroundsHold DEF Fits, Asks
      <4>6. c \in Opened
        BY <4>3 DEF Opened
      <4>7. \A g \in Ground : x \in held[c][g]
        <5>1. x \in held[c]["grant"]
          BY <4>5, <4>6 DEF HistoryInv, Remembers, Ground
        <5> QED
          BY <4>3, <4>4, <5>1 DEF HistoryInv, Grounded, Located, Accepted, Ground
      <4>8. Promise!Admit(c)
        BY <3>1, <3>2, <4>1, <4>6, <4>7 DEF Promise!Admit
      <4> QED
        BY <2>1, <4>8 DEF Promise!Next
    <3> QED
      BY <3>3, <3>4
  <2> QED
    BY <1>2, <2>3, <2>4, OthersReadNothing DEF Next
<1> QED
  BY <1>1, <1>2

\* A channel that resolve lets through has one account, name, principal, target and key.
THEOREM ResolvedAreClaims == HistorySpec => []ResolvedHasClaim
<1>1. IInv /\ HistoryInv => ResolvedHasClaim
  BY ResolvedClaims DEF ResolvedHasClaim, HaveClaims
<1> QED
  BY <1>1, HistoryIsSpec, Invariance, HistoryInvariance, PTL

\* resolve lets a channel through only to a target that had the name and the key, took the
\* principal, and was under a policy and a grant, each at some moment since the channel
\* opened: the promise that Gate keeps too.
THEOREM ResolutionsAreWarranted == HistorySpec => ResolvedIsWarranted
<1>1. HistoryInit => Promise!Init
  <2> SUFFICES ASSUME HistoryInit PROVE Promise!Init
    OBVIOUS
  <2>1. Opened = {} /\ \A c \in Channel : ClaimsOf(c) = {}
    BY DEF HistoryInit, Init, Opened, NoChannel, ClaimsOf
  <2> QED
    BY <2>1, HoldsTyped DEF Promise!Init, HistoryInit
<1>2. IInv /\ HistoryInv /\ IInv' /\ HistoryInv' /\ [Next /\ Watch]_<<vars, held>>
        => [Promise!Next]_(Promise!vars)
  BY WarrantStep
<1> QED
  BY <1>1, <1>2, HistoryIsSpec, Invariance, HistoryInvariance, PTL
     DEF HistorySpec, ResolvedIsWarranted, Promise!Spec

=============================================================================
