--------------------------- MODULE Accounts_proof ---------------------------
(***************************************************************************)
(* Theorems about Accounts, for any number of accounts, tokens, keys,      *)
(* requests and connections.                                               *)
(***************************************************************************)
EXTENDS Accounts, TLAPS

-----------------------------------------------------------------------------
(* The inductive invariant.                                                *)

Rows == users \cup tokens \cup keys

\* A credential is one account's, and so is what a request does with it.
CredentialIsOnes ==
  /\ \A t \in Token : owner[t] # {} => t \in used
  /\ \A t \in Token : \A x, y \in owner[t] : x = y
  /\ \A c \in Caller : \A x, y \in call[c].by : x = y

KeyIsOnes == \A k \in Key : \A x, y \in entry[k].user : x = y

\* What a request is about to say it removed is gone, and nobody else says so.
EmitIsDue ==
  \A c \in Caller : call[c].stage = "emit" =>
    /\ call[c].object \subseteq used \ Rows
    /\ \A e \in trail : e[1] \notin call[c].object
    /\ \A d \in Caller : call[d].stage = "emit" /\ d # c =>
         call[c].object \cap call[d].object = {}

\* What was recorded as removed had been given out, and stays gone.
TrailIsPast == \A e \in trail : e[1] \in used

\* A late request holds a token that stays gone,
LateStaysLate ==
  \A c \in Caller : call[c].late = "yes" /\ call[c].stage = "arrived" =>
    call[c].token \subseteq used \ tokens

\* and so do the keys that a connection came too late for.
GoneStaysGone ==
  \A n \in Connection :
    /\ conn[n].gone \subseteq used \ keys
    /\ conn[n].key = {} \/ conn[n].gone = {}
    /\ conn[n].stage = "idle" => conn[n].key = {}

IInv ==
  /\ TypeOK
  /\ CredentialIsOnes /\ KeyIsOnes
  /\ NothingOutlivesAccount
  /\ EachNamesOne
  /\ EmitIsDue /\ TrailIsPast /\ EventsAreTrue
  /\ LateStaysLate /\ GoneStaysGone

LEMMA RolesAre == Roles = {"viewer", "operator", "admin"}
BY DEF Roles, ranks

LEMMA InitHolds == Init => IInv
<1> SUFFICES ASSUME Init PROVE IInv
  OBVIOUS
<1> USE AccountsAssumption DEF Init, NoAccount, NoEntry, Idle, NoConnection
<1>1. TypeOK
  <2>1. used \subseteq Object /\ users \subseteq User /\ tokens \subseteq Token
        /\ users \cup tokens \cup keys \subseteq used /\ keys \subseteq Key
    BY DEF Object
  <2>2. account \in [User -> Account]
    <3>1. NoAccount \in Account /\ \A n \in Name :
            [name |-> {n}, role |-> "admin"] \in Account
      BY RolesAre DEF Account
    <3> QED
      BY <3>1
  <2>3. owner \in [Token -> SUBSET User] /\ entry \in [Key -> Entry]
    BY DEF Entry
  <2>4. call \in [Caller -> Call] /\ conn \in [Connection -> Handshake]
    BY DEF Call, Verbs, Handshake
  <2> QED
    BY <2>1, <2>2, <2>3, <2>4 DEF TypeOK
<1>2. CredentialIsOnes /\ KeyIsOnes /\ NothingOutlivesAccount
  BY DEF KeyIsOnes, CredentialIsOnes, NothingOutlivesAccount
<1>3. EachNamesOne
  BY DEF EachNamesOne
<1>4. EmitIsDue /\ TrailIsPast /\ EventsAreTrue
  BY DEF EmitIsDue, TrailIsPast, EventsAreTrue
<1>5. LateStaysLate /\ GoneStaysGone
  BY DEF LateStaysLate, GoneStaysGone
<1> QED
  BY <1>1, <1>2, <1>3, <1>4, <1>5 DEF IInv

-----------------------------------------------------------------------------
(* What becomes of a request.                                              *)

Others(c) == \A d \in Caller \ {c} : call'[d] = call[d]

LEMMA AnswerLeaves ==
  ASSUME TypeOK, NEW c \in Caller, Answer(c)
  PROVE  /\ call' \in [Caller -> Call] /\ Others(c)
         /\ call'[c].stage = "idle" /\ call'[c].by = {}
<1>1. Idle \in Call /\ Idle.stage = "idle" /\ Idle.by = {}
  BY DEF Idle, Call, Verbs
<1> QED
  BY <1>1 DEF Answer, TypeOK, Others

LEMMA RemovedLeaves ==
  ASSUME TypeOK, NEW c \in Caller, NEW o \in Object, Removed(c, o)
  PROVE  /\ call' \in [Caller -> Call] /\ Others(c)
         /\ call'[c].stage = "emit" /\ call'[c].object = {o}
         /\ call'[c].by = call[c].by
<1> DEFINE r == [call[c] EXCEPT !.stage = "emit", !.object = {o}]
<1>1. call[c] \in Call /\ call \in [Caller -> Call]
  BY DEF TypeOK
<1>2. r \in Call /\ r.stage = "emit" /\ r.object = {o} /\ r.by = call[c].by
  BY <1>1 DEF Call
<1>3. call' = [call EXCEPT ![c] = r]
  BY <1>1 DEF Removed
<1> HIDE DEF r
<1> QED
  BY <1>1, <1>2, <1>3 DEF Others

\* The parts of the invariant that speak of requests, after one of them has been
\* answered; rows may have gone, and fresh ids been given out.
LEMMA AnsweredKeeps ==
  ASSUME IInv, NEW c \in Caller, Answer(c),
         used \subseteq used', Rows' \cap used \subseteq Rows,
         tokens' \cap used \subseteq tokens, keys' \cap used \subseteq keys,
         UNCHANGED <<conn, trail>>
  PROVE  /\ call' \in [Caller -> Call]
         /\ \A d \in Caller : \A x, y \in call'[d].by : x = y
         /\ EmitIsDue' /\ TrailIsPast' /\ EventsAreTrue' /\ LateStaysLate' /\ GoneStaysGone'
<1>1. /\ call' \in [Caller -> Call] /\ Others(c)
      /\ call'[c].stage = "idle" /\ call'[c].by = {}
  BY AnswerLeaves DEF IInv
<1>2. \A d \in Caller : \A x, y \in call'[d].by : x = y
  BY <1>1 DEF IInv, CredentialIsOnes, Others
<1>3. EmitIsDue'
  <2> SUFFICES ASSUME NEW d \in Caller, call'[d].stage = "emit"
               PROVE  /\ call'[d].object \subseteq used' \ Rows'
                      /\ \A e \in trail' : e[1] \notin call'[d].object
                      /\ \A x \in Caller : call'[x].stage = "emit" /\ x # d =>
                           call'[d].object \cap call'[x].object = {}
    BY DEF EmitIsDue
  <2>1. d # c /\ call'[d] = call[d]
    BY <1>1 DEF Others
  <2>2. call[d].object \subseteq used \ Rows
    BY <2>1 DEF IInv, EmitIsDue
  <2>3. \A x \in Caller : call'[x].stage = "emit" => x # c /\ call'[x] = call[x]
    BY <1>1 DEF Others
  <2> QED
    BY <2>1, <2>2, <2>3 DEF IInv, EmitIsDue
<1>4. TrailIsPast' /\ EventsAreTrue'
  BY DEF IInv, TrailIsPast, EventsAreTrue, Rows
<1>5. LateStaysLate' /\ GoneStaysGone'
  BY <1>1 DEF IInv, LateStaysLate, GoneStaysGone, Others
<1> QED
  BY <1>1, <1>2, <1>3, <1>4, <1>5

\* The same when a request has removed o and is left to say so.
LEMMA RemovalKeeps ==
  ASSUME IInv, NEW c \in Caller, NEW o \in Rows, Removed(c, o),
         used' = used, Rows' \subseteq Rows \ {o}, tokens' \subseteq tokens,
         keys' \subseteq keys, UNCHANGED <<conn, trail>>
  PROVE  /\ call' \in [Caller -> Call]
         /\ \A d \in Caller : \A x, y \in call'[d].by : x = y
         /\ EmitIsDue' /\ TrailIsPast' /\ EventsAreTrue' /\ LateStaysLate' /\ GoneStaysGone'
<1>0. o \in Object /\ o \in used
  BY DEF IInv, TypeOK, Rows, Object
<1>1. /\ call' \in [Caller -> Call] /\ Others(c)
      /\ call'[c].stage = "emit" /\ call'[c].object = {o}
      /\ call'[c].by = call[c].by
  BY <1>0, RemovedLeaves DEF IInv
<1>2. \A d \in Caller : \A x, y \in call'[d].by : x = y
  BY <1>1 DEF IInv, CredentialIsOnes, Others
<1>3. \A e \in trail : e[1] # o
  BY DEF IInv, EventsAreTrue, Rows
<1>4. \A d \in Caller \ {c} : call'[d].stage = "emit" =>
        call'[d].object \subseteq used \ Rows /\ call'[d] = call[d]
  BY <1>1 DEF IInv, EmitIsDue, Others
<1>5. EmitIsDue'
  <2> SUFFICES ASSUME NEW d \in Caller, call'[d].stage = "emit"
               PROVE  /\ call'[d].object \subseteq used' \ Rows'
                      /\ \A e \in trail' : e[1] \notin call'[d].object
                      /\ \A x \in Caller : call'[x].stage = "emit" /\ x # d =>
                           call'[d].object \cap call'[x].object = {}
    BY DEF EmitIsDue
  <2>1. CASE d = c
    BY <1>0, <1>1, <1>3, <1>4, <2>1
  <2>2. CASE d # c
    <3>1. call'[d] = call[d] /\ call[d].object \subseteq used \ Rows
      BY <1>4, <2>2
    <3>2. ASSUME NEW x \in Caller, call'[x].stage = "emit", x # d
          PROVE  call'[d].object \cap call'[x].object = {}
      <4>1. CASE x = c
        BY <1>1, <3>1, <4>1
      <4>2. CASE x # c
        BY <1>4, <3>1, <3>2, <4>2 DEF IInv, EmitIsDue
      <4> QED
        BY <4>1, <4>2
    <3> QED
      BY <3>1, <3>2 DEF IInv, EmitIsDue
  <2> QED
    BY <2>1, <2>2
<1>6. TrailIsPast' /\ EventsAreTrue'
  BY DEF IInv, TrailIsPast, EventsAreTrue, Rows
<1>7. LateStaysLate' /\ GoneStaysGone'
  BY <1>1 DEF IInv, LateStaysLate, GoneStaysGone, Others
<1> QED
  BY <1>1, <1>2, <1>5, <1>6, <1>7

\* What is answered without a change, but for tokens that have expired.
LEMMA AnswerKeeps ==
  ASSUME IInv, NEW c \in Caller, Answer(c), expired' \subseteq tokens',
         UNCHANGED <<used, users, account, tokens, owner, keys, entry, conn, trail>>
  PROVE  IInv'
<1>1. Rows' = Rows
  BY DEF Rows
<1>2. /\ call' \in [Caller -> Call]
      /\ \A d \in Caller : \A x, y \in call'[d].by : x = y
      /\ EmitIsDue' /\ TrailIsPast' /\ EventsAreTrue' /\ LateStaysLate' /\ GoneStaysGone'
  BY <1>1, AnsweredKeeps
<1>3. TypeOK'
  BY <1>2 DEF IInv, TypeOK
<1>4. CredentialIsOnes' /\ KeyIsOnes' /\ NothingOutlivesAccount' /\ EachNamesOne'
  BY <1>2 DEF IInv, CredentialIsOnes, KeyIsOnes, NothingOutlivesAccount, EachNamesOne
<1> QED
  BY <1>2, <1>3, <1>4 DEF IInv

-----------------------------------------------------------------------------
(* Steps that change rows.                                                 *)

LEMMA InsertUserKeeps ==
  ASSUME IInv, NEW c \in Caller, NEW u \in User, NEW n \in Name,
         NEW r \in GivenRole, InsertUser(c, u, n, r)
  PROVE  IInv'
<1> DEFINE a == [name |-> {n}, role |-> r]
<1>1. a \in Account /\ a.name = {n}
  BY RolesAre, AccountsAssumption DEF Account
<1>2. /\ TypeOK /\ u \notin used /\ Answer(c) /\ u \in Object
      /\ UNCHANGED <<tokens, owner, expired, keys, entry, conn, trail>>
  BY DEF IInv, InsertUser, Object
<1>3. \/ UNCHANGED <<used, users, account>>
      \/ /\ used' = used \cup {u} /\ users' = users \cup {u}
         /\ account' = [account EXCEPT ![u] = a]
         /\ \A x \in users : account[x].name # {n}
  BY DEF InsertUser
<1> HIDE DEF a
<1>4. /\ account' \in [User -> Account] /\ users \subseteq users'
      /\ used' \subseteq Object /\ users' \subseteq User /\ used \subseteq used'
      /\ users' \cup tokens \cup keys \subseteq used'
      /\ \A x \in users : account'[x] = account[x]
  BY <1>1, <1>2, <1>3 DEF TypeOK
<1>5. Rows' \cap used \subseteq Rows
  BY <1>2, <1>3 DEF Rows
<1>6. /\ call' \in [Caller -> Call]
      /\ \A d \in Caller : \A x, y \in call'[d].by : x = y
      /\ EmitIsDue' /\ TrailIsPast' /\ EventsAreTrue' /\ LateStaysLate' /\ GoneStaysGone'
  BY <1>2, <1>4, <1>5, AnsweredKeeps
<1>7. TypeOK'
  BY <1>2, <1>4, <1>6 DEF TypeOK
<1>8. CredentialIsOnes' /\ KeyIsOnes' /\ NothingOutlivesAccount'
  BY <1>2, <1>4, <1>6 DEF IInv, CredentialIsOnes, KeyIsOnes, NothingOutlivesAccount
<1>9. EachNamesOne'
  <2>1. \A x, y \in users' : account'[x].name = account'[y].name => x = y
    <3>1. CASE UNCHANGED <<used, users, account>>
      BY <3>1 DEF IInv, EachNamesOne
    <3>2. CASE /\ users' = users \cup {u} /\ account' = [account EXCEPT ![u] = a]
               /\ \A x \in users : account[x].name # {n}
      <4>1. account'[u].name = {n} /\ \A x \in users : account'[x].name # {n}
        BY <1>1, <1>2, <1>4, <3>2 DEF TypeOK
      <4> QED
        BY <1>4, <3>2, <4>1 DEF IInv, EachNamesOne
    <3> QED
      BY <1>3, <3>1, <3>2
  <2> QED
    BY <1>2, <2>1 DEF IInv, EachNamesOne
<1> QED
  BY <1>6, <1>7, <1>8, <1>9 DEF IInv

LEMMA InsertTokenKeeps ==
  ASSUME IInv, NEW c \in Caller, NEW t \in Token, NEW u \in User,
         InsertToken(c, t, u)
  PROVE  IInv'
<1>1. /\ TypeOK /\ t \notin used /\ Answer(c) /\ t \in Object
      /\ UNCHANGED <<users, account, expired, keys, entry, conn, trail>>
  BY DEF IInv, InsertToken, Object
<1>2. \/ UNCHANGED <<used, tokens, owner>>
      \/ /\ u \in users
         /\ used' = used \cup {t} /\ tokens' = tokens \cup {t}
         /\ owner' = [owner EXCEPT ![t] = {u}]
  BY DEF InsertToken
<1>3. /\ owner \in [Token -> SUBSET User] /\ used \subseteq Object /\ tokens \subseteq Token
      /\ users \cup tokens \cup keys \subseteq used
  BY <1>1 DEF TypeOK
<1>4. /\ used' \subseteq Object /\ tokens' \subseteq Token /\ used \subseteq used'
      /\ users \cup tokens' \cup keys \subseteq used' /\ tokens \subseteq tokens'
  BY <1>1, <1>2, <1>3
<1>5. /\ owner' \in [Token -> SUBSET User]
      /\ \A x \in Token \ {t} : owner'[x] = owner[x]
      /\ owner'[t] = owner[t] \/ (owner'[t] = {u} /\ u \in users /\ t \in used')
      /\ \A x \in tokens : owner'[x] = owner[x]
  <2>1. CASE owner' = owner
    BY <1>3, <2>1
  <2>2. CASE u \in users /\ used' = used \cup {t} /\ owner' = [owner EXCEPT ![t] = {u}]
    BY <1>1, <1>3, <2>2
  <2> QED
    BY <1>2, <2>1, <2>2
<1>6. \A x \in tokens' : owner'[x] # {} /\ owner'[x] \subseteq users
  BY <1>1, <1>2, <1>3, <1>5 DEF IInv, NothingOutlivesAccount
<1>7. Rows' \cap used \subseteq Rows /\ tokens' \cap used \subseteq tokens
  BY <1>1, <1>2 DEF Rows
<1>8. /\ call' \in [Caller -> Call]
      /\ \A d \in Caller : \A x, y \in call'[d].by : x = y
      /\ EmitIsDue' /\ TrailIsPast' /\ EventsAreTrue' /\ LateStaysLate' /\ GoneStaysGone'
  BY <1>1, <1>4, <1>7, AnsweredKeeps
<1>9. TypeOK'
  BY <1>1, <1>4, <1>5, <1>8 DEF TypeOK
<1>10. CredentialIsOnes'
  BY <1>4, <1>5, <1>8 DEF IInv, CredentialIsOnes
<1>11. NothingOutlivesAccount'
  BY <1>1, <1>5, <1>6 DEF IInv, NothingOutlivesAccount
<1>12. EachNamesOne' /\ KeyIsOnes'
  BY <1>1 DEF IInv, EachNamesOne, KeyIsOnes
<1> QED
  BY <1>8, <1>9, <1>10, <1>11, <1>12 DEF IInv

LEMMA InsertKeyKeeps ==
  ASSUME IInv, NEW c \in Caller, NEW k \in Key, NEW u \in User,
         NEW f \in Fingerprint, NEW l \in Label, InsertKey(c, k, u, f, l)
  PROVE  IInv'
<1> DEFINE e == [user |-> {u}, fingerprint |-> {f}, label |-> {l}]
<1>1. e \in Entry /\ e.user = {u} /\ e.fingerprint = {f}
  BY DEF Entry
<1>2. /\ TypeOK /\ k \notin used /\ Answer(c) /\ k \in Object
      /\ UNCHANGED <<users, account, tokens, owner, expired, conn, trail>>
  BY DEF IInv, InsertKey, Object
<1>3. \/ UNCHANGED <<used, keys, entry>>
      \/ /\ u \in users /\ \A x \in keys : entry[x].fingerprint # {f}
         /\ used' = used \cup {k} /\ keys' = keys \cup {k}
         /\ entry' = [entry EXCEPT ![k] = e]
  BY DEF InsertKey
<1> HIDE DEF e
<1>4. /\ entry' \in [Key -> Entry] /\ used' \subseteq Object /\ keys' \subseteq Key
      /\ used \subseteq used' /\ users \cup tokens \cup keys' \subseteq used'
      /\ \A x \in keys : entry'[x] = entry[x]
  BY <1>1, <1>2, <1>3 DEF TypeOK
<1>5. Rows' \cap used \subseteq Rows /\ keys' \cap used \subseteq keys
  BY <1>2, <1>3 DEF Rows
<1>6. /\ call' \in [Caller -> Call]
      /\ \A d \in Caller : \A x, y \in call'[d].by : x = y
      /\ EmitIsDue' /\ TrailIsPast' /\ EventsAreTrue' /\ LateStaysLate' /\ GoneStaysGone'
  BY <1>2, <1>4, <1>5, AnsweredKeeps
<1>7. TypeOK'
  BY <1>2, <1>4, <1>6 DEF TypeOK
<1>8. CredentialIsOnes' /\ KeyIsOnes'
  <2>1. \A x \in Key : entry'[x] = entry[x] \/ entry'[x].user = {u}
    <3>1. CASE entry' = entry
      BY <3>1
    <3>2. CASE entry' = [entry EXCEPT ![k] = e]
      BY <1>1, <1>2, <3>2 DEF TypeOK
    <3> QED
      BY <1>3, <3>1, <3>2
  <2>2. KeyIsOnes'
    <3> SUFFICES ASSUME NEW x \in Key PROVE \A v, w \in entry'[x].user : v = w
      BY DEF KeyIsOnes
    <3>1. CASE entry'[x].user = {u}
      BY <3>1
    <3>2. CASE entry'[x] = entry[x]
      BY <3>2 DEF IInv, KeyIsOnes
    <3> QED
      BY <2>1, <3>1, <3>2
  <2> QED
    BY <1>2, <1>4, <1>6, <2>2 DEF IInv, CredentialIsOnes
<1>9. NothingOutlivesAccount' /\ EachNamesOne'
  <2>1. CASE UNCHANGED <<used, keys, entry>>
    BY <1>2, <2>1 DEF IInv, NothingOutlivesAccount, EachNamesOne
  <2>2. CASE /\ u \in users /\ \A x \in keys : entry[x].fingerprint # {f}
             /\ keys' = keys \cup {k} /\ entry' = [entry EXCEPT ![k] = e]
    <3>1. entry'[k].user = {u} /\ entry'[k].fingerprint = {f}
      BY <1>1, <1>2, <2>2 DEF TypeOK
    <3>2. \A x \in keys' : entry'[x].user # {} /\ entry'[x].user \subseteq users'
      BY <1>2, <1>4, <2>2, <3>1 DEF IInv, NothingOutlivesAccount
    <3>3. \A x, y \in keys' : entry'[x].fingerprint = entry'[y].fingerprint => x = y
      BY <1>4, <2>2, <3>1 DEF IInv, EachNamesOne
    <3> QED
      BY <1>2, <3>2, <3>3 DEF IInv, NothingOutlivesAccount, EachNamesOne
  <2> QED
    BY <1>3, <2>1, <2>2
<1> QED
  BY <1>6, <1>7, <1>8, <1>9 DEF IInv

LEMMA DeleteUserKeeps ==
  ASSUME IInv, NEW c \in Caller, NEW u \in User, DeleteUser(c, u)
  PROVE  IInv'
<1>1. /\ TypeOK /\ u \in Object /\ UNCHANGED <<used, owner, conn, trail>>
      /\ expired' = expired \cap tokens'
  BY DEF IInv, DeleteUser, Object
<1>2. CASE u \in users
  <2>1. /\ users' = users \ {u} /\ account' = [account EXCEPT ![u] = NoAccount]
        /\ tokens' = {t \in tokens : owner[t] # {u}}
        /\ keys' = {k \in keys : entry[k].user # {u}}
        /\ entry' = [k \in Key |-> IF k \in keys' THEN entry[k] ELSE NoEntry]
        /\ Removed(c, u)
    BY <1>2 DEF DeleteUser
  <2>2. NoAccount \in Account /\ NoEntry \in Entry
    BY DEF NoAccount, NoEntry, Account, Entry
  <2>3. /\ account' \in [User -> Account] /\ entry' \in [Key -> Entry]
        /\ \A x \in users' : account'[x] = account[x]
        /\ \A k \in keys' : entry'[k] = entry[k]
    BY <1>1, <2>1, <2>2 DEF TypeOK
  <2>4. u \notin tokens /\ u \notin keys
    BY <1>1, AccountsAssumption DEF TypeOK
  <2>5. Rows' \subseteq Rows \ {u} /\ tokens' \subseteq tokens /\ keys' \subseteq keys
    BY <2>1, <2>4 DEF Rows
  <2>6. u \in Rows
    BY <1>2 DEF Rows
  <2>7. /\ call' \in [Caller -> Call]
        /\ \A d \in Caller : \A x, y \in call'[d].by : x = y
        /\ EmitIsDue' /\ TrailIsPast' /\ EventsAreTrue' /\ LateStaysLate' /\ GoneStaysGone'
    BY <1>1, <2>1, <2>5, <2>6, RemovalKeeps
  <2>8. TypeOK'
    BY <1>1, <2>1, <2>3, <2>5, <2>7 DEF TypeOK
  <2>9. CredentialIsOnes' /\ KeyIsOnes'
    <3>1. \A x \in Key : entry'[x] = entry[x] \/ entry'[x].user = {}
      BY <2>1, <2>3 DEF NoEntry
    <3> QED
      BY <1>1, <2>7, <3>1 DEF IInv, CredentialIsOnes, KeyIsOnes
  <2>10. \A t \in tokens' : owner'[t] # {} /\ owner'[t] \subseteq users'
    <3>1. SUFFICES ASSUME NEW t \in tokens' PROVE owner[t] # {} /\ owner[t] \subseteq users'
      BY <1>1
    <3>2. t \in Token /\ t \in tokens /\ owner[t] # {u}
      BY <1>1, <2>1 DEF TypeOK
    <3>3. owner[t] # {} /\ owner[t] \subseteq users /\ \A x, y \in owner[t] : x = y
      BY <3>2 DEF IInv, CredentialIsOnes, NothingOutlivesAccount
    <3> QED
      BY <2>1, <3>2, <3>3
  <2>11. \A k \in keys' : entry'[k].user # {} /\ entry'[k].user \subseteq users'
    <3>1. SUFFICES ASSUME NEW k \in keys'
                   PROVE  entry[k].user # {} /\ entry[k].user \subseteq users'
      BY <2>3
    <3>2. k \in Key /\ k \in keys /\ entry[k].user # {u}
      BY <1>1, <2>1 DEF TypeOK
    <3>3. entry[k].user # {} /\ entry[k].user \subseteq users
          /\ \A x, y \in entry[k].user : x = y
      BY <3>2 DEF IInv, KeyIsOnes, NothingOutlivesAccount
    <3> QED
      BY <2>1, <3>2, <3>3
  <2>12. EachNamesOne'
    BY <2>1, <2>3, <2>5 DEF IInv, EachNamesOne
  <2> QED
    BY <2>7, <2>8, <2>9, <2>10, <2>11, <2>12 DEF IInv, NothingOutlivesAccount
<1>3. CASE u \notin users
  <2>1. Answer(c) /\ UNCHANGED <<users, account, tokens, keys, entry>>
    BY <1>3 DEF DeleteUser
  <2>2. expired' \subseteq tokens'
    BY <1>1, <2>1 DEF TypeOK
  <2> QED
    BY <1>1, <2>1, <2>2, AnswerKeeps
<1> QED
  BY <1>2, <1>3

LEMMA DeleteTokenKeeps ==
  ASSUME IInv, NEW c \in Caller, NEW t \in Token, DeleteToken(c, t)
  PROVE  IInv'
<1>1. /\ TypeOK /\ t \in Object /\ t \notin users /\ t \notin keys
      /\ tokens' = tokens \ {t} /\ expired' = expired \ {t}
      /\ UNCHANGED <<used, users, account, owner, keys, entry, conn, trail>>
  BY AccountsAssumption DEF IInv, TypeOK, DeleteToken, Object
<1>2. CASE t \in tokens
  <2>1. Removed(c, t) /\ t \in Rows
    BY <1>2 DEF DeleteToken, Rows
  <2>2. Rows' \subseteq Rows \ {t} /\ tokens' \subseteq tokens /\ keys' \subseteq keys
    BY <1>1 DEF Rows
  <2>3. /\ call' \in [Caller -> Call]
        /\ \A d \in Caller : \A x, y \in call'[d].by : x = y
        /\ EmitIsDue' /\ TrailIsPast' /\ EventsAreTrue' /\ LateStaysLate' /\ GoneStaysGone'
    BY <1>1, <2>1, <2>2, RemovalKeeps
  <2>4. TypeOK'
    BY <1>1, <2>3 DEF TypeOK
  <2>5. CredentialIsOnes' /\ KeyIsOnes'
    BY <1>1, <2>3 DEF IInv, CredentialIsOnes, KeyIsOnes
  <2>6. NothingOutlivesAccount' /\ EachNamesOne'
    BY <1>1 DEF IInv, NothingOutlivesAccount, EachNamesOne
  <2> QED
    BY <2>3, <2>4, <2>5, <2>6 DEF IInv
<1>3. CASE t \notin tokens
  <2>1. Answer(c) /\ tokens' = tokens /\ expired' \subseteq tokens'
    BY <1>1, <1>3 DEF DeleteToken, TypeOK
  <2> QED
    BY <1>1, <2>1, AnswerKeeps
<1> QED
  BY <1>2, <1>3

LEMMA DeleteKeyKeeps ==
  ASSUME IInv, NEW c \in Caller, NEW k \in Key, DeleteKey(c, k)
  PROVE  IInv'
<1>1. /\ TypeOK /\ k \in Object /\ k \notin users /\ k \notin tokens
      /\ keys' = keys \ {k} /\ entry' = [entry EXCEPT ![k] = NoEntry]
      /\ UNCHANGED <<used, users, account, tokens, owner, expired, conn, trail>>
  BY AccountsAssumption DEF IInv, TypeOK, DeleteKey, Object
<1>2. NoEntry \in Entry /\ NoEntry.user = {}
  BY DEF NoEntry, Entry
<1>3. /\ entry' \in [Key -> Entry] /\ \A x \in keys' : entry'[x] = entry[x]
      /\ \A x \in Key : entry'[x] = entry[x] \/ entry'[x].user = {}
  BY <1>1, <1>2 DEF TypeOK
<1>4. /\ call' \in [Caller -> Call]
      /\ \A d \in Caller : \A x, y \in call'[d].by : x = y
      /\ EmitIsDue' /\ TrailIsPast' /\ EventsAreTrue' /\ LateStaysLate' /\ GoneStaysGone'
  <2>1. CASE k \in keys
    <3>1. Removed(c, k) /\ k \in Rows
      BY <2>1 DEF DeleteKey, Rows
    <3>2. Rows' \subseteq Rows \ {k} /\ tokens' \subseteq tokens /\ keys' \subseteq keys
      BY <1>1 DEF Rows
    <3> QED
      BY <1>1, <3>1, <3>2, RemovalKeeps
  <2>2. CASE k \notin keys
    <3>1. Answer(c)
      BY <2>2 DEF DeleteKey
    <3>2. Rows' \cap used \subseteq Rows /\ tokens' \cap used \subseteq tokens
          /\ keys' \cap used \subseteq keys /\ used \subseteq used'
      BY <1>1 DEF Rows
    <3> QED
      BY <1>1, <3>1, <3>2, AnsweredKeeps
  <2> QED
    BY <2>1, <2>2
<1>5. TypeOK'
  BY <1>1, <1>3, <1>4 DEF TypeOK
<1>6. CredentialIsOnes' /\ KeyIsOnes'
  BY <1>1, <1>3, <1>4 DEF IInv, CredentialIsOnes, KeyIsOnes
<1>7. NothingOutlivesAccount' /\ EachNamesOne'
  BY <1>1, <1>3 DEF IInv, NothingOutlivesAccount, EachNamesOne
<1> QED
  BY <1>4, <1>5, <1>6, <1>7 DEF IInv

-----------------------------------------------------------------------------
(* Steps that only move a request or a connection on.                      *)

\* The parts of the invariant that speak of neither.
LEMMA RowsKeep ==
  ASSUME IInv, UNCHANGED rows
  PROVE  /\ \A t \in Token : owner'[t] # {} => t \in used'
         /\ \A t \in Token : \A x, y \in owner'[t] : x = y
         /\ KeyIsOnes' /\ NothingOutlivesAccount' /\ EachNamesOne' /\ Rows' = Rows
BY DEF IInv, rows, CredentialIsOnes, KeyIsOnes, NothingOutlivesAccount, EachNamesOne, Rows

\* A request moves on, to anything but the report of a removal.
LEMMA MovedKeeps ==
  ASSUME IInv, NEW c \in Caller, call' \in [Caller -> Call], Others(c),
         call'[c].stage # "emit",
         \A x, y \in call'[c].by : x = y,
         call'[c].late = "yes" /\ call'[c].stage = "arrived" =>
           call'[c].token \subseteq used \ tokens,
         UNCHANGED <<rows, conn, trail>>
  PROVE  IInv'
<1>1. TypeOK'
  BY DEF IInv, TypeOK, rows
<1>2. CredentialIsOnes'
  BY RowsKeep DEF IInv, CredentialIsOnes, Others, rows
<1>3. \A d \in Caller : call'[d].stage = "emit" => d # c /\ call'[d] = call[d]
  BY DEF Others
<1>4. EmitIsDue' /\ TrailIsPast' /\ EventsAreTrue'
  BY <1>3, RowsKeep DEF IInv, EmitIsDue, TrailIsPast, EventsAreTrue, rows, Rows
<1>5. LateStaysLate' /\ GoneStaysGone'
  BY DEF IInv, LateStaysLate, GoneStaysGone, Others, rows
<1> QED
  BY <1>1, <1>2, <1>4, <1>5, RowsKeep DEF IInv, rows

LEMMA ArriveKeeps ==
  ASSUME IInv, NEW c \in Caller, NEW t \in Token, Arrive(c, t)
  PROVE  IInv'
<1> DEFINE late == IF t \in tokens THEN "no" ELSE "yes"
           r == [call[c] EXCEPT !.stage = "arrived", !.token = {t}, !.late = late]
<1>1. call \in [Caller -> Call] /\ call[c] \in Call
  BY DEF IInv, TypeOK
<1>2. /\ r \in Call /\ r.stage = "arrived" /\ r.token = {t} /\ r.late = late
      /\ r.by = call[c].by
  BY <1>1 DEF Call
<1>3. call' = [call EXCEPT ![c] = r] /\ UNCHANGED <<rows, conn, trail>> /\ owner[t] # {}
  BY <1>1 DEF Arrive
<1>4. t \in used
  BY <1>3 DEF IInv, CredentialIsOnes
<1>5. late = "yes" => t \notin tokens
  OBVIOUS
<1> HIDE DEF r, late
<1>6. call' \in [Caller -> Call] /\ Others(c) /\ call'[c] = r
  BY <1>1, <1>2, <1>3 DEF Others
<1>7. \A x, y \in call'[c].by : x = y
  BY <1>2, <1>6 DEF IInv, CredentialIsOnes
<1> QED
  BY <1>2, <1>3, <1>4, <1>5, <1>6, <1>7, MovedKeeps

LEMMA AuthenticateKeeps ==
  ASSUME IInv, NEW c \in Caller, NEW t \in Token, Authenticate(c, t)
  PROVE  IInv'
<1>1. call \in [Caller -> Call] /\ call[c] \in Call /\ owner[t] \in SUBSET User
  BY DEF IInv, TypeOK
<1>2. PICK r \in Call : /\ call' = [call EXCEPT ![c] = r]
                       /\ r.stage \in {"read", "write"} /\ r.by = owner[t]
  <2>1. \A verb \in Verbs : PathOf(verb) \subseteq SUBSET Object
    BY DEF PathOf, Object
  <2>2. PICK verb \in Verbs, o \in SUBSET Object :
          call' = [call EXCEPT ![c].stage = IF verb \in OfUser THEN "read" ELSE "write",
                               ![c].verb = verb, ![c].object = o,
                               ![c].token = {}, ![c].by = owner[t]]
    BY <2>1, Zenon DEF Authenticate
  <2> DEFINE stage == IF verb \in OfUser THEN "read" ELSE "write"
             r == [call[c] EXCEPT !.stage = stage, !.verb = verb, !.object = o,
                                  !.token = {}, !.by = owner[t]]
  <2>3. stage \in {"read", "write"}
    OBVIOUS
  <2>4. call' = [call EXCEPT ![c] = r]
    BY <1>1, <2>2
  <2> HIDE DEF stage
  <2>5. r \in Call /\ r.stage = stage /\ r.by = owner[t]
    BY <1>1, <2>3 DEF Call
  <2> HIDE DEF r
  <2> QED
    BY <2>3, <2>4, <2>5
<1>3. call' \in [Caller -> Call] /\ Others(c) /\ call'[c] = r
  BY <1>1, <1>2 DEF Others
<1>4. \A x, y \in call'[c].by : x = y
  BY <1>2, <1>3 DEF IInv, CredentialIsOnes
<1>5. UNCHANGED <<rows, conn, trail>>
  BY DEF Authenticate
<1> QED
  BY <1>2, <1>3, <1>4, <1>5, MovedKeeps

LEMMA FailKeeps ==
  ASSUME IInv, NEW c \in Caller, Answer(c), UNCHANGED <<rows, conn, trail>>
  PROVE  IInv'
<1>1. expired' \subseteq tokens'
  BY DEF IInv, TypeOK, rows
<1> QED
  BY <1>1, AnswerKeeps DEF rows

LEMMA GetUserKeeps ==
  ASSUME IInv, NEW c \in Caller, NEW u \in User, GetUser(c, u)
  PROVE  IInv'
<1> DEFINE r == [call[c] EXCEPT !.stage = "write"]
<1>1. call \in [Caller -> Call] /\ call[c] \in Call
  BY DEF IInv, TypeOK
<1>2. r \in Call /\ r.stage = "write" /\ r.by = call[c].by
  BY <1>1 DEF Call
<1>3. CASE u \in users
  <2>1. call' = [call EXCEPT ![c] = r] /\ UNCHANGED <<rows, conn, trail>>
    BY <1>1, <1>3 DEF GetUser
  <2> HIDE DEF r
  <2>2. call' \in [Caller -> Call] /\ Others(c) /\ call'[c] = r
    BY <1>1, <1>2, <2>1 DEF Others
  <2>3. \A x, y \in call'[c].by : x = y
    BY <1>2, <2>2 DEF IInv, CredentialIsOnes
  <2> QED
    BY <1>2, <2>1, <2>2, <2>3, MovedKeeps
<1>4. CASE u \notin users
  BY <1>4, FailKeeps DEF GetUser
<1> QED
  BY <1>3, <1>4

LEMMA EmitKeeps ==
  ASSUME IInv, NEW c \in Caller, Emit(c)
  PROVE  IInv'
<1>1. /\ call[c].stage = "emit" /\ trail' = trail \cup (call[c].object \X call[c].by)
      /\ Answer(c) /\ UNCHANGED <<rows, conn>>
  BY DEF Emit
<1>2. /\ call' \in [Caller -> Call] /\ Others(c)
      /\ call'[c].stage = "idle" /\ call'[c].by = {}
  BY <1>1, AnswerLeaves DEF IInv
<1>3. /\ call[c].object \subseteq used \ Rows
      /\ \A e \in trail : e[1] \notin call[c].object
      /\ \A d \in Caller : call[d].stage = "emit" /\ d # c =>
           call[c].object \cap call[d].object = {}
  BY <1>1 DEF IInv, EmitIsDue
<1>4. \A e \in trail' : e \in trail \/ (e[1] \in call[c].object /\ e[2] \in call[c].by)
  BY <1>1
<1>5. TypeOK'
  <2>1. call[c].object \subseteq Object /\ call[c].by \subseteq User
    BY DEF IInv, TypeOK, Call
  <2> QED
    BY <1>1, <1>2, <2>1 DEF IInv, TypeOK, rows
<1>6. CredentialIsOnes'
  BY <1>1, <1>2, RowsKeep DEF IInv, CredentialIsOnes, Others, rows
<1>7. TrailIsPast' /\ EventsAreTrue'
  <2>1. \A x, y \in call[c].by : x = y
    BY DEF IInv, CredentialIsOnes
  <2>2. \A e \in trail' : e[1] \in used
    BY <1>3, <1>4 DEF IInv, TrailIsPast
  <2>3. \A e \in trail' : e[1] \notin Rows
    BY <1>3, <1>4 DEF IInv, EventsAreTrue, Rows
  <2>4. \A d, e \in trail' : d[1] = e[1] => d[2] = e[2]
    BY <1>3, <1>4, <2>1 DEF IInv, EventsAreTrue
  <2> QED
    BY <1>1, <2>2, <2>3, <2>4 DEF TrailIsPast, EventsAreTrue, Rows, rows
<1>8. EmitIsDue'
  <2>1. \A d \in Caller : call'[d].stage = "emit" => d # c /\ call'[d] = call[d]
    BY <1>2 DEF Others
  <2>2. ASSUME NEW d \in Caller, call'[d].stage = "emit", NEW e \in trail'
        PROVE  e[1] \notin call'[d].object
    <3>1. d # c /\ call'[d] = call[d] /\ call[d].stage = "emit"
      BY <2>1, <2>2
    <3>2. \A x \in trail : x[1] \notin call[d].object
      BY <3>1 DEF IInv, EmitIsDue
    <3> QED
      BY <1>3, <1>4, <3>1, <3>2
  <2> QED
    BY <1>1, <2>1, <2>2, RowsKeep DEF IInv, EmitIsDue, rows
<1>9. LateStaysLate' /\ GoneStaysGone'
  BY <1>1, <1>2 DEF IInv, LateStaysLate, GoneStaysGone, Others, rows
<1> QED
  BY <1>1, <1>5, <1>6, <1>7, <1>8, <1>9, RowsKeep DEF IInv

\* A connection moves on: rows and requests stay as they are.
LEMMA ConnectionKeeps ==
  ASSUME IInv, NEW n \in Connection, NEW r \in Handshake,
         conn' = [conn EXCEPT ![n] = r], UNCHANGED <<rows, call, trail>>,
         r.gone \subseteq used \ keys, r.key = {} \/ r.gone = {},
         r.stage = "idle" => r.key = {}
  PROVE  IInv'
<1>1. conn \in [Connection -> Handshake]
  BY DEF IInv, TypeOK
<1>2. /\ conn' \in [Connection -> Handshake] /\ conn'[n] = r
      /\ \A m \in Connection \ {n} : conn'[m] = conn[m]
  BY <1>1
<1>3. TypeOK'
  BY <1>2 DEF IInv, TypeOK, rows
<1>4. CredentialIsOnes' /\ EmitIsDue' /\ TrailIsPast' /\ EventsAreTrue'
  BY RowsKeep DEF IInv, CredentialIsOnes, EmitIsDue, TrailIsPast, EventsAreTrue, rows
<1>5. LateStaysLate'
  BY DEF IInv, LateStaysLate, rows
<1>6. GoneStaysGone'
  <2>1. used' = used /\ keys' = keys
    BY DEF rows
  <2> SUFFICES ASSUME NEW m \in Connection
               PROVE  /\ conn'[m].gone \subseteq used \ keys
                      /\ conn'[m].key = {} \/ conn'[m].gone = {}
                      /\ conn'[m].stage = "idle" => conn'[m].key = {}
    BY <2>1 DEF GoneStaysGone
  <2>2. CASE m = n
    BY <1>2, <2>2
  <2>3. CASE m # n
    BY <1>2, <2>3 DEF IInv, GoneStaysGone
  <2> QED
    BY <2>2, <2>3
<1> QED
  BY <1>3, <1>4, <1>5, <1>6, RowsKeep DEF IInv

LEMMA ConnectKeeps ==
  ASSUME IInv, NEW n \in Connection, Connect(n)
  PROVE  IInv'
<1>1. conn \in [Connection -> Handshake] /\ conn[n] \in Handshake
      /\ keys \subseteq Key /\ entry \in [Key -> Entry]
  BY DEF IInv, TypeOK
<1>2. CASE Accept(n)
  <2> DEFINE g == (used \cap Key) \ keys
             r == [conn[n] EXCEPT !.stage = "arrived", !.gone = g]
  <2>1. conn' = [conn EXCEPT ![n] = r] /\ UNCHANGED <<rows, call, trail>>
    BY <1>1, <1>2 DEF Accept
  <2>2. r.key = {}
    BY <1>1, <1>2 DEF Accept, Handshake, IInv, GoneStaysGone
  <2>3. g \subseteq Key /\ g \subseteq used \ keys
    OBVIOUS
  <2> HIDE DEF g
  <2>4. r \in Handshake /\ r.gone = g
    BY <1>1, <2>3 DEF Handshake
  <2> HIDE DEF r
  <2> QED
    BY <2>1, <2>2, <2>3, <2>4, ConnectionKeeps
<1>3. CASE Disconnect(n)
  <2>1. NoConnection \in Handshake /\ NoConnection.gone = {} /\ NoConnection.key = {}
    BY DEF NoConnection, Handshake
  <2> QED
    BY <1>3, <2>1, ConnectionKeeps DEF Disconnect
<1>4. ASSUME NEW f \in Fingerprint, ByPublicKey(n, f)
      PROVE  IInv'
  <2>1. PICK k \in keys : conn' = [conn EXCEPT ![n].stage = "up", ![n].key = {k},
                                             ![n].user = entry[k].user, ![n].gone = {}]
    BY <1>4 DEF ByPublicKey
  <2> DEFINE r == [conn[n] EXCEPT !.stage = "up", !.key = {k},
                                  !.user = entry[k].user, !.gone = {}]
  <2>2. conn' = [conn EXCEPT ![n] = r]
    BY <1>1, <2>1
  <2>3. k \in Key /\ entry[k].user \subseteq User
    BY <1>1 DEF Entry
  <2>4. r \in Handshake /\ r.gone = {} /\ r.stage = "up"
    BY <1>1, <2>3 DEF Handshake
  <2>5. UNCHANGED <<rows, call, trail>>
    BY <1>4 DEF ByPublicKey
  <2> HIDE DEF r
  <2> QED
    BY <2>2, <2>4, <2>5, ConnectionKeeps
<1> QED
  BY <1>2, <1>3, <1>4 DEF Connect

LEMMA ExpireKeeps ==
  ASSUME IInv, NEW t \in Token, Expire(t)
  PROVE  IInv'
<1>1. /\ UNCHANGED <<used, users, account, tokens, owner, keys, entry, call, conn, trail>>
      /\ t \in tokens /\ expired' = expired \cup {t}
  BY DEF Expire
<1>2. TypeOK'
  BY <1>1 DEF IInv, TypeOK
<1>3. CredentialIsOnes' /\ KeyIsOnes' /\ NothingOutlivesAccount' /\ EachNamesOne'
  BY <1>1 DEF IInv, CredentialIsOnes, KeyIsOnes, NothingOutlivesAccount, EachNamesOne
<1>4. EmitIsDue' /\ TrailIsPast' /\ EventsAreTrue' /\ LateStaysLate' /\ GoneStaysGone'
  BY <1>1 DEF IInv, EmitIsDue, TrailIsPast, EventsAreTrue, LateStaysLate,
     GoneStaysGone, Rows
<1> QED
  BY <1>2, <1>3, <1>4 DEF IInv

-----------------------------------------------------------------------------
(* The theorems.                                                           *)

LEMMA HandleKeeps ==
  ASSUME IInv, NEW c \in Caller, Handle(c)
  PROVE  IInv'
<1>1. ASSUME NEW t \in Token, Arrive(c, t) PROVE IInv'
  BY <1>1, ArriveKeeps
<1>2. ASSUME NEW t \in Token, Authenticate(c, t) PROVE IInv'
  BY <1>2, AuthenticateKeeps
<1>3. ASSUME NEW t \in Token, DeleteToken(c, t) PROVE IInv'
  BY <1>3, DeleteTokenKeeps
<1>4. ASSUME NEW t \in Token, NEW u \in User, InsertToken(c, t, u) PROVE IInv'
  BY <1>4, InsertTokenKeeps
<1>5. ASSUME NEW u \in User, GetUser(c, u) PROVE IInv'
  BY <1>5, GetUserKeeps
<1>6. ASSUME NEW u \in User, DeleteUser(c, u) PROVE IInv'
  BY <1>6, DeleteUserKeeps
<1>7. ASSUME NEW u \in User, NEW n \in Name, NEW r \in GivenRole, InsertUser(c, u, n, r)
      PROVE  IInv'
  BY <1>7, InsertUserKeeps
<1>8. ASSUME NEW u \in User, NEW k \in Key, NEW f \in Fingerprint, NEW l \in Label,
             InsertKey(c, k, u, f, l)
      PROVE  IInv'
  BY <1>8, InsertKeyKeeps
<1>9. ASSUME NEW k \in Key, DeleteKey(c, k) PROVE IInv'
  BY <1>9, DeleteKeyKeeps
<1>10. CASE Emit(c)
  BY <1>10, EmitKeeps
<1>11. CASE Fail(c)
  BY <1>11, FailKeeps DEF Fail
<1> QED
  BY <1>1, <1>2, <1>3, <1>4, <1>5, <1>6, <1>7, <1>8, <1>9, <1>10, <1>11 DEF Handle

LEMMA NextKeeps == IInv /\ [Next]_vars => IInv'
<1> SUFFICES ASSUME IInv, [Next]_vars PROVE IInv'
  OBVIOUS
<1>1. CASE UNCHANGED vars
  BY <1>1 DEF vars, rows, IInv, TypeOK, CredentialIsOnes, KeyIsOnes, Rows,
     NothingOutlivesAccount, EachNamesOne, EmitIsDue, TrailIsPast, EventsAreTrue,
     LateStaysLate, GoneStaysGone
<1>2. CASE Next
  BY <1>2, HandleKeeps, ConnectKeeps, ExpireKeeps DEF Next
<1> QED
  BY <1>1, <1>2

\* The invariant holds in every reachable state.
THEOREM Invariance == Spec => []IInv
BY InitHolds, NextKeeps, PTL DEF Spec

\* Rows, requests, connections and events keep their types.
THEOREM TypeCorrect == Spec => []TypeOK
<1>1. IInv => TypeOK
  BY DEF IInv
<1> QED
  BY Invariance, <1>1, PTL

\* service.deleteUser leaves no token and no key behind, whatever is being issued or
\* added for the account meanwhile.
THEOREM CredentialsDie == Spec => []NothingOutlivesAccount
<1>1. IInv => NothingOutlivesAccount
  BY DEF IInv
<1> QED
  BY Invariance, <1>1, PTL

\* repository.insertKey and insertUser keep a key, and a name, one account's.
THEOREM KeysNameOne == Spec => []EachNamesOne
<1>1. IInv => EachNamesOne
  BY DEF IInv
<1> QED
  BY Invariance, <1>1, PTL

\* What Module.emit records as removed is gone for good, and one account did it.
THEOREM RemovalsAreTrue == Spec => []EventsAreTrue
<1>1. IInv => EventsAreTrue
  BY DEF IInv
<1> QED
  BY Invariance, <1>1, PTL

-----------------------------------------------------------------------------
(* A revoked credential opens nothing.                                     *)

\* A step leaves each of the other requests alone, and a request that arrives with
\* a token that is not among tokens either waits or is answered.
LEMMA ArrivedWaits ==
  ASSUME IInv, NEW c \in Caller, Handle(c),
         call[c].late = "yes", call[c].stage = "arrived"
  PROVE  call'[c].stage \in {"idle", "arrived"}
<1>1. call[c].token \subseteq used \ tokens /\ TypeOK
  BY DEF IInv, LateStaysLate
<1>2. ASSUME NEW t \in Token, Authenticate(c, t) PROVE FALSE
  BY <1>1, <1>2 DEF Authenticate, Authentic
<1>3. ASSUME Answer(c) PROVE call'[c].stage = "idle"
  BY <1>1, <1>3, AnswerLeaves
<1>4. Handle(c) => Answer(c) \/ \E t \in Token : Authenticate(c, t)
  BY DEF Handle, Arrive, DeleteToken, InsertToken, GetUser, DeleteUser, InsertUser,
     InsertKey, DeleteKey, Emit, Fail, At
<1> QED
  BY <1>2, <1>3, <1>4

LEMMA OthersWait ==
  ASSUME IInv, NEW c \in Caller, Handle(c)
  PROVE  Others(c) /\ conn' = conn
BY DEF Handle, Arrive, Authenticate, DeleteToken, InsertToken, GetUser, DeleteUser,
   InsertUser, InsertKey, DeleteKey, Emit, Fail, Answer, Removed, Others, IInv, TypeOK

LEMMA GoneKeyIsRefused ==
  ASSUME IInv, NEW n \in Connection, Connect(n)
  PROVE  \A m \in Connection : conn'[m].key \cap conn[m].gone = {}
<1>1. conn \in [Connection -> Handshake] /\ conn[n] \in Handshake
      /\ \A m \in Connection : conn[m].key \cap conn[m].gone = {}
      /\ conn[n].gone \cap keys = {}
  BY DEF IInv, TypeOK, GoneStaysGone
<1>2. \A m \in Connection \ {n} : conn'[m] = conn[m]
  BY <1>1 DEF Connect, Accept, Disconnect, ByPublicKey
<1>3. conn'[n].key \cap conn[n].gone = {}
  <2>1. CASE Accept(n)
    BY <1>1, <2>1 DEF Accept, Handshake
  <2>2. CASE Disconnect(n)
    BY <1>1, <2>2 DEF Disconnect, NoConnection
  <2>3. ASSUME NEW f \in Fingerprint, ByPublicKey(n, f)
        PROVE  conn'[n].key \cap conn[n].gone = {}
    BY <1>1, <2>3 DEF ByPublicKey, Handshake
  <2> QED
    BY <2>1, <2>2, <2>3 DEF Connect
<1> QED
  BY <1>1, <1>2, <1>3

LEMMA StepRefuses == IInv /\ [Next]_vars => [LateIsRefused]_vars
<1> SUFFICES ASSUME IInv, Next PROVE LateIsRefused
  OBVIOUS
<1>1. \A n \in Connection : conn[n].key \cap conn[n].gone = {}
  BY DEF IInv, GoneStaysGone
<1>2. ASSUME NEW c \in Caller, Handle(c) PROVE LateIsRefused
  <2>1. Others(c) /\ conn' = conn
    BY <1>2, OthersWait
  <2> QED
    BY <1>1, <1>2, <2>1, ArrivedWaits DEF LateIsRefused, Others
<1>3. ASSUME NEW n \in Connection, Connect(n) PROVE LateIsRefused
  <2>1. call' = call
    BY <1>3 DEF Connect, Accept, Disconnect, ByPublicKey
  <2> QED
    BY <1>3, <2>1, GoneKeyIsRefused DEF LateIsRefused
<1>4. ASSUME NEW t \in Token, Expire(t) PROVE LateIsRefused
  BY <1>1, <1>4 DEF Expire, LateIsRefused
<1> QED
  BY <1>2, <1>3, <1>4 DEF Next

\* service.authenticate and Server.authenticate look the credential up each time,
\* so no request and no connection gets in with one that went before it came.
THEOREM RevocationHolds == Spec => RevokedIsRefused
BY Invariance, StepRefuses, PTL DEF Spec, RevokedIsRefused
=============================================================================
