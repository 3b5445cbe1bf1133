------------------------------ MODULE Accounts ------------------------------
(***************************************************************************)
(* Accounts, their API tokens and their SSH keys, and who is let in with   *)
(* them: internal/platform/identity, the guard of internal/kernel/authz,   *)
(* and the handshake of internal/dataplane/sshd/server.go.                 *)
(*                                                                         *)
(* An API request is authenticated and has its role checked once, before   *)
(* its handler runs; the handler looks the account up that its path names, *)
(* and then writes in one statement or transaction.  All of this races the *)
(* requests of other administrators that revoke and delete.  A connection  *)
(* keeps the identity that its handshake found.                            *)
(*                                                                         *)
(* Listings, whoami and the console sign-in read and change nothing: a     *)
(* cookie carries the token itself, and a request with it is a request     *)
(* with that token.  Nothing in the code disables an account.  Of the      *)
(* events only those of removals are kept: the others name a fresh id, or  *)
(* change nothing.  A crash is the Fail of every call and the Disconnect   *)
(* of every connection.                                                    *)
(***************************************************************************)
EXTENDS Naturals, FiniteSets

CONSTANTS User, Token, Key, \* ids, random and never reused
          FirstUser, FirstToken, \* the account and the token of bootstrap
          Name,             \* names of accounts
          Label,            \* names of keys within an account
          Fingerprint,      \* of public keys
          GivenRole,        \* bound of the model: roles that accounts are given
          Caller,           \* API requests that are handled at the same time
          Connection,       \* SSH connections
          MaxEvents         \* bound of the model: events that are kept

ranks == [viewer |-> 1, operator |-> 2, admin |-> 3]
Roles == DOMAIN ranks

Covers(held, required) ==
  held \in Roles /\ required \in Roles /\ ranks[held] >= ranks[required]

ASSUME AccountsAssumption ==
  /\ GivenRole \subseteq {"viewer", "operator", "admin"}
  /\ MaxEvents \in Nat
  /\ FirstUser \in User /\ FirstToken \in Token
  /\ User \cap Token = {} /\ User \cap Key = {} /\ Token \cap Key = {}

VARIABLES
  used,    \* ids given out so far
  users,   \* rows of users
  account, \* the row of each
  tokens,  \* rows of tokens
  owner,   \* the account each token was issued to, also once it is revoked
  expired, \* those of tokens that have outlived their ttl
  keys,    \* rows of user_keys
  entry,   \* the row of each
  call,    \* the request each caller handles
  conn,    \* SSH connections
  trail    \* durable events of removals, <<what was removed, by whom>>

rows == <<used, users, account, tokens, owner, expired, keys, entry>>
vars == <<rows, call, conn, trail>>

-----------------------------------------------------------------------------
Object == User \cup Token \cup Key

\* Empty for an id without a row.
Account == [name : SUBSET Name, role : {""} \cup Roles]
Entry   == [user : SUBSET User, fingerprint : SUBSET Fingerprint,
            label : SUBSET Label]
NoAccount == [name |-> {}, role |-> ""]
NoEntry   == [user |-> {}, fingerprint |-> {}, label |-> {}]

Verbs == {"createUser", "deleteUser", "issueToken", "revokeToken", "addKey",
          "removeKey"}

\* The requests whose path names an account, which the service looks up first.
OfUser == {"deleteUser", "issueToken", "addKey"}
PathOf(verb) == IF verb \in OfUser THEN {{u} : u \in User} ELSE {{}}

\* object is the account that the path names, then what was removed; token is
\* the credential, and by its account once it has been authenticated.  late is
\* history: whether the token had been revoked when the request arrived.
Call == [stage : {"idle", "arrived", "read", "write", "emit"},
         verb : Verbs, token : SUBSET Token, by : SUBSET User,
         object : SUBSET Object, late : {"yes", "no"}]
Idle == [stage |-> "idle", verb |-> "createUser", token |-> {}, by |-> {},
         object |-> {}, late |-> "no"]

\* gone is history, until the key is looked up: the keys that had been removed
\* when the connection was made.
Handshake == [stage : {"idle", "arrived", "up"},
              user : SUBSET User, key : SUBSET Key, gone : SUBSET Key]
NoConnection == [stage |-> "idle", user |-> {}, key |-> {}, gone |-> {}]

TypeOK ==
  /\ used \subseteq Object /\ users \cup tokens \cup keys \subseteq used
  /\ users \subseteq User /\ account \in [User -> Account]
  /\ tokens \subseteq Token /\ owner \in [Token -> SUBSET User]
  /\ expired \subseteq tokens
  /\ keys \subseteq Key /\ entry \in [Key -> Entry]
  /\ call \in [Caller -> Call]
  /\ conn \in [Connection -> Handshake]
  /\ trail \subseteq Object \X User

\* The store as bootstrap leaves it: one administrator, and a token of its own.
Init ==
  /\ used = {FirstUser, FirstToken}
  /\ users = {FirstUser}
  /\ \E n \in Name : account = [u \in User |->
       IF u = FirstUser THEN [name |-> {n}, role |-> "admin"] ELSE NoAccount]
  /\ tokens = {FirstToken}
  /\ owner = [t \in Token |-> IF t = FirstToken THEN {FirstUser} ELSE {}]
  /\ expired = {}
  /\ keys = {} /\ entry = [k \in Key |-> NoEntry]
  /\ call = [c \in Caller |-> Idle]
  /\ conn = [n \in Connection |-> NoConnection]
  /\ trail = {}

-----------------------------------------------------------------------------
(* Authentication and the guard.                                            *)

At(c, stage, verb) == call[c].stage = stage /\ call[c].verb = verb

Answer(c) == call' = [call EXCEPT ![c] = Idle]

\* Whoever sends it, a request carries a token that was issued at some time.
Arrive(c, t) ==
  /\ call[c].stage = "idle" /\ owner[t] # {}
  /\ call' = [call EXCEPT ![c].stage = "arrived", ![c].token = {t},
                          ![c].late = IF t \in tokens THEN "no" ELSE "yes"]
  /\ UNCHANGED <<rows, conn, trail>>

\* Mutant: an identity that was found once is remembered.
AuthenticRemembered(t) == owner[t] \subseteq users /\ t \notin expired

\* tokenBySelector joins the token with its account.
Authentic(t) == t \in tokens /\ owner[t] \subseteq users /\ t \notin expired

\* Guard.Require("admin", ...): the row is read once, and the handler of
\* whatever was asked for runs with what it said.
Authenticate(c, t) ==
  /\ call[c].stage = "arrived" /\ call[c].token = {t}
  /\ Authentic(t) /\ \A u \in owner[t] : Covers(account[u].role, "admin")
  /\ \E verb \in Verbs : \E o \in PathOf(verb) :
       call' = [call EXCEPT ![c].stage = IF verb \in OfUser THEN "read" ELSE "write",
                            ![c].verb = verb, ![c].object = o,
                            ![c].token = {}, ![c].by = owner[t]]
  /\ UNCHANGED <<rows, conn, trail>>

\* service.getUser
GetUser(c, u) ==
  /\ call[c].stage = "read" /\ call[c].object = {u}
  /\ IF u \in users THEN call' = [call EXCEPT ![c].stage = "write"] ELSE Answer(c)
  /\ UNCHANGED <<rows, conn, trail>>

\* The guard denies the request, a statement is refused, a client has left, a
\* check of the request fails, or the event cannot be written, which is logged.
Fail(c) == call[c].stage # "idle" /\ Answer(c) /\ UNCHANGED <<rows, conn, trail>>

-----------------------------------------------------------------------------
(* The statements.                                                          *)

\* One is left to emit; the events of what was added name a fresh id.
Removed(c, o) == call' = [call EXCEPT ![c].stage = "emit", ![c].object = {o}]

\* insertUser looks for the name and inserts in one transaction.
InsertUser(c, u, n, r) ==
  /\ At(c, "write", "createUser")
  /\ u \notin used
  /\ IF \A x \in users : account[x].name # {n}
     THEN /\ used' = used \cup {u} /\ users' = users \cup {u}
          /\ account' = [account EXCEPT ![u] = [name |-> {n}, role |-> r]]
     ELSE UNCHANGED <<used, users, account>>
  /\ Answer(c)
  /\ UNCHANGED <<tokens, owner, expired, keys, entry, conn, trail>>

\* ON DELETE CASCADE takes its tokens and keys.
DeleteUser(c, u) ==
  /\ At(c, "write", "deleteUser") /\ call[c].object = {u}
  /\ IF u \in users
     THEN /\ users' = users \ {u}
          /\ account' = [account EXCEPT ![u] = NoAccount]
          /\ tokens' = {t \in tokens : owner[t] # {u}}
          /\ keys' = {k \in keys : entry[k].user # {u}}
          /\ entry' = [k \in Key |-> IF k \in keys' THEN entry[k] ELSE NoEntry]
          /\ Removed(c, u)
     ELSE Answer(c) /\ UNCHANGED <<users, account, tokens, keys, entry>>
  /\ expired' = expired \cap tokens'
  /\ UNCHANGED <<used, owner, conn, trail>>

\* Mutant: without foreign keys the account may be gone.
InsertTokenUnowned(c, t, u) ==
  /\ At(c, "write", "issueToken") /\ call[c].object = {u}
  /\ t \notin used
  /\ used' = used \cup {t} /\ tokens' = tokens \cup {t}
  /\ owner' = [owner EXCEPT ![t] = {u}]
  /\ Answer(c)
  /\ UNCHANGED <<users, account, expired, keys, entry, conn, trail>>

\* insertToken: the foreign key refuses an account that has gone since GetUser.
InsertToken(c, t, u) ==
  /\ At(c, "write", "issueToken") /\ call[c].object = {u}
  /\ t \notin used
  /\ IF u \in users
     THEN /\ used' = used \cup {t} /\ tokens' = tokens \cup {t}
          /\ owner' = [owner EXCEPT ![t] = {u}]
     ELSE UNCHANGED <<used, tokens, owner>>
  /\ Answer(c)
  /\ UNCHANGED <<users, account, expired, keys, entry, conn, trail>>

DeleteToken(c, t) ==
  /\ At(c, "write", "revokeToken")
  /\ tokens' = tokens \ {t}
  /\ expired' = expired \ {t}
  /\ IF t \in tokens THEN Removed(c, t) ELSE Answer(c)
  /\ UNCHANGED <<used, users, account, owner, keys, entry, conn, trail>>

\* Mutant: the fingerprint is looked for among the keys of the account.
InsertKeyPerUser(c, k, u, f, l) ==
  /\ At(c, "write", "addKey") /\ call[c].object = {u}
  /\ k \notin used
  /\ IF /\ u \in users
        /\ \A x \in keys : entry[x].user = {u} =>
             entry[x].fingerprint # {f} /\ entry[x].label # {l}
     THEN /\ used' = used \cup {k} /\ keys' = keys \cup {k}
          /\ entry' = [entry EXCEPT ![k] =
                         [user |-> {u}, fingerprint |-> {f}, label |-> {l}]]
     ELSE UNCHANGED <<used, keys, entry>>
  /\ Answer(c)
  /\ UNCHANGED <<users, account, tokens, owner, expired, conn, trail>>

\* insertKey looks for the fingerprint and the label and inserts, in one
\* transaction; the foreign key refuses an account that has gone.
InsertKey(c, k, u, f, l) ==
  /\ At(c, "write", "addKey") /\ call[c].object = {u}
  /\ k \notin used
  /\ IF /\ u \in users
        /\ \A x \in keys : entry[x].fingerprint # {f}
                           /\ (entry[x].user = {u} => entry[x].label # {l})
     THEN /\ used' = used \cup {k} /\ keys' = keys \cup {k}
          /\ entry' = [entry EXCEPT ![k] =
                         [user |-> {u}, fingerprint |-> {f}, label |-> {l}]]
     ELSE UNCHANGED <<used, keys, entry>>
  /\ Answer(c)
  /\ UNCHANGED <<users, account, tokens, owner, expired, conn, trail>>

\* Mutant: the number of rows that went is not looked at.
DeleteKeyAnyway(c, k) ==
  /\ At(c, "write", "removeKey")
  /\ k \in used
  /\ keys' = keys \ {k} /\ entry' = [entry EXCEPT ![k] = NoEntry]
  /\ Removed(c, k)
  /\ UNCHANGED <<used, users, account, tokens, owner, expired, conn, trail>>

DeleteKey(c, k) ==
  /\ At(c, "write", "removeKey")
  /\ keys' = keys \ {k} /\ entry' = [entry EXCEPT ![k] = NoEntry]
  /\ IF k \in keys THEN Removed(c, k) ELSE Answer(c)
  /\ UNCHANGED <<used, users, account, tokens, owner, expired, conn, trail>>

\* Module.emit: the event names the account of the request's context.
Emit(c) ==
  /\ call[c].stage = "emit" /\ Cardinality(trail) < MaxEvents
  /\ trail' = trail \cup (call[c].object \X call[c].by)
  /\ Answer(c)
  /\ UNCHANGED <<rows, conn>>

-----------------------------------------------------------------------------
(* SSH connections.                                                         *)

Accept(n) ==
  /\ conn[n].stage = "idle"
  /\ conn' = [conn EXCEPT ![n].stage = "arrived",
                          ![n].gone = (used \cap Key) \ keys]
  /\ UNCHANGED <<rows, call, trail>>

\* Server.authenticate, when the client offers a key: userByKeyFingerprint joins
\* the key with its account.  The client then proves that it holds the key, and
\* identityOf and every channel use what was found here.
ByPublicKey(n, f) ==
  /\ conn[n].stage = "arrived"
  /\ \E k \in keys : /\ entry[k].fingerprint = {f} /\ entry[k].user \subseteq users
                     /\ conn' = [conn EXCEPT ![n].stage = "up", ![n].key = {k},
                                             ![n].user = entry[k].user,
                                             ![n].gone = {}]
  /\ UNCHANGED <<rows, call, trail>>

\* The client leaves, cannot prove that it holds the key, or has none that is
\* registered.
Disconnect(n) ==
  /\ conn[n].stage # "idle"
  /\ conn' = [conn EXCEPT ![n] = NoConnection]
  /\ UNCHANGED <<rows, call, trail>>

-----------------------------------------------------------------------------
\* The token of bootstrap has no ttl.
Expire(t) ==
  /\ t \in tokens \ {FirstToken}
  /\ expired' = expired \cup {t}
  /\ UNCHANGED <<used, users, account, tokens, owner, keys, entry, call, conn, trail>>

Handle(c) ==
  \/ \E t \in Token :
       \/ Arrive(c, t) \/ Authenticate(c, t) \/ DeleteToken(c, t)
       \/ \E u \in User : InsertToken(c, t, u)
  \/ \E u \in User :
       \/ GetUser(c, u) \/ DeleteUser(c, u)
       \/ \E n \in Name, r \in GivenRole : InsertUser(c, u, n, r)
       \/ \E k \in Key, f \in Fingerprint, l \in Label : InsertKey(c, k, u, f, l)
  \/ \E k \in Key : DeleteKey(c, k)
  \/ Emit(c) \/ Fail(c)

Connect(n) ==
  \/ Accept(n) \/ Disconnect(n)
  \/ \E f \in Fingerprint : ByPublicKey(n, f)

Next ==
  \/ \E c \in Caller : Handle(c)
  \/ \E n \in Connection : Connect(n)
  \/ \E t \in Token : Expire(t)

Spec == Init /\ [][Next]_vars

-----------------------------------------------------------------------------
\* A deleted account keeps nothing that works: a token or a key that is being
\* added while its account is deleted is refused or goes with it.
NothingOutlivesAccount ==
  /\ \A t \in tokens : owner[t] # {} /\ owner[t] \subseteq users
  /\ \A k \in keys : entry[k].user # {} /\ entry[k].user \subseteq users

\* However additions race, a key resolves to one account, and an account to one
\* name: "a key must resolve to one identity".
EachNamesOne ==
  /\ \A j, k \in keys : entry[j].fingerprint = entry[k].fingerprint => j = k
  /\ \A u, v \in users : account[u].name = account[v].name => u = v

\* An event of a removal is true, and the removal is one account's: of two requests
\* that revoke, remove or delete one thing, only the one that did says so.
EventsAreTrue ==
  \A e \in trail :
    /\ e[1] \notin users \cup tokens \cup keys
    /\ \A d \in trail : d[1] = e[1] => d[2] = e[2]

\* "Effective on the next request": a request that arrives after its token has
\* been revoked, or gone with its account, gets no further than its credential,
\* and a connection made after a key was removed is not let in with it.
LateIsRefused ==
  /\ \A c \in Caller : call[c].late = "yes" /\ call[c].stage = "arrived" =>
       call'[c].stage \in {"idle", "arrived"}
  /\ \A n \in Connection : conn'[n].key \cap conn[n].gone = {}

RevokedIsRefused == [][LateIsRefused]_vars
=============================================================================
