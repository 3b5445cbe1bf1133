------------------------------ MODULE Handlers ------------------------------
(***************************************************************************)
(* What each handler of the HTTP API, and each use that the SSH sessions   *)
(* make of the store, does in which order: a program, the sequence of its  *)
(* operations.  A definition for a function of a repository, of a service  *)
(* and of a handler, each made of those that it calls.  What the           *)
(* statements read and write is in Access, Accounts, Approval and          *)
(* SessionLifecycle; here it matters when the one connection of the store  *)
(* is held, where a program may end early, and with which status.          *)
(*                                                                         *)
(*   take    wait for the connection    use   a statement or rows on it    *)
(*   free    give it back               commit  change the store, give it  *)
(*   check   anything else that may fail        back                       *)
(*   tell    record an event            answer  write a success            *)
(*                                                                         *)
(* codes are the statuses that the operation may end the program with, and *)
(* deny says whether a denial is recorded when it does.                    *)
(***************************************************************************)
EXTENDS Naturals, Sequences

CONSTANTS MaxRows,   \* bound of the model: rows of a list
          Attempts   \* bound of the model: selectorAttempts

ASSUME HandlersAssumption == MaxRows \in Nat /\ Attempts \in Nat \ {0}

Internal == 500
Op(do, codes) == <<[do |-> do, codes |-> codes, deny |-> FALSE]>>
Check(codes) == Op("check", codes)
Decode == Check({400})
Tell == Op("tell", {})
Answer(code) == Op("answer", {code})

Take == Op("take", {Internal})
Row == Take \o Op("free", {Internal})
Rows == Take \o Op("use", {Internal}) \o Op("free", {Internal})
Exec(codes) == Take \o Op("commit", codes \cup {Internal})
Transaction(codes) ==
  Take \o Op("use", codes \cup {Internal}) \o Op("use", {Internal}) \o Op("commit", {Internal})

\* p, n times over.
Repeat(p, n) == [i \in 1..(n * Len(p)) |-> p[((i - 1) % Len(p)) + 1]]
Denying(p) == [i \in DOMAIN p |-> [p[i] EXCEPT !.deny = TRUE]]

-----------------------------------------------------------------------------
(* Accounts, tokens and keys: package identity, and the guard.             *)

InsertUser == Transaction({409})
SelectUser == Row
SelectUsers == Rows
DeleteUserRow == Exec({404})
InsertToken == Exec({})
SelectorTaken == Row
SelectToken == Row
SelectTokens == Rows
DeleteTokenRow == Exec({404})
InsertKey == Transaction({409})
SelectKeys == Rows
DeleteKeyRow == Exec({404})
SelectUserByKey == Row

CreateUser == Check({400}) \o InsertUser
GetUser == Check({400}) \o SelectUser \o Check({404})
DeleteUser == GetUser \o DeleteUserRow
\* The last attempt may find its selector taken like the others.
MintUnusedSecret(n) ==
  Repeat(SelectorTaken, n) \o (IF n = Attempts THEN Check({Internal}) ELSE <<>>)
IssueToken(n) == GetUser \o Check({400}) \o MintUnusedSecret(n) \o InsertToken
ListTokens == GetUser \o SelectTokens
RevokeToken == Check({400}) \o DeleteTokenRow
AddKey == GetUser \o Check({400}) \o InsertKey
ListKeys == GetUser \o SelectKeys
RemoveKey == Check({400}) \o DeleteKeyRow
Authenticate == Check({401}) \o SelectToken \o Check({401})
ByPublicKey == Check({401}) \o SelectUserByKey \o Check({401})

Require(handler) == Denying(Authenticate \o Check({403})) \o handler

HandleCreateUser == Decode \o CreateUser \o Tell \o Answer(201)
HandleListUsers == SelectUsers \o Answer(200)
HandleGetUser == GetUser \o Answer(200)
HandleDeleteUser == DeleteUser \o Tell \o Answer(204)
RequestedTTL == Decode
HandleIssueToken(n) == RequestedTTL \o IssueToken(n) \o Tell \o Answer(201)
HandleListTokens == ListTokens \o Answer(200)
HandleRevokeToken == RevokeToken \o Tell \o Answer(204)
HandleAddKey == Decode \o AddKey \o Tell \o Answer(201)
HandleListKeys == ListKeys \o Answer(200)
HandleRemoveKey == RemoveKey \o Tell \o Answer(204)
OverProtectedTransport == Check({403})
HandleConsoleSignIn ==
  Decode \o Denying(OverProtectedTransport \o Authenticate) \o Tell \o Answer(200)
HandleConsoleSignOut == Answer(204)
HandleWhoAmI == Answer(200)

IdentityRoutes ==
  {Require(h) : h \in {HandleCreateUser, HandleListUsers, HandleGetUser, HandleDeleteUser,
                       HandleListTokens, HandleRevokeToken, HandleAddKey, HandleListKeys,
                       HandleRemoveKey, HandleWhoAmI}}
  \cup {Require(HandleIssueToken(n)) : n \in 1..Attempts}
  \cup {HandleConsoleSignIn, HandleConsoleSignOut}

-----------------------------------------------------------------------------
(* Targets: package target.                                                *)

InsertTarget == Transaction({409})
SelectPrincipals == Rows
SelectTarget == Row \o Check({404}) \o SelectPrincipals
SelectTargets(n) == Rows \o Repeat(SelectPrincipals, n)
DeleteTarget == Exec({404})

SelectTargetByName == Row \o Check({404}) \o SelectPrincipals
PinHostKey == Transaction({409, Internal})

RegisterTarget == Check({400}) \o InsertTarget
GetTarget == Check({400}) \o SelectTarget
ListTargets(n) == SelectTargets(n)
RemoveTarget == Check({400}) \o DeleteTarget
\* The id is checked once: the second get may only miss the row.
Trust == GetTarget \o Check({400}) \o PinHostKey \o SelectTarget
GetByName == Check({400}) \o SelectTargetByName

HandleRegisterTarget == Decode \o RegisterTarget \o Tell \o Answer(201)
HandleListTargets(n) == ListTargets(n) \o Answer(200)
HandleGetTarget == GetTarget \o Answer(200)
HandleDeleteTarget == RemoveTarget \o Tell \o Answer(204)
HandleTrust == Decode \o Trust \o Tell \o Answer(200)

TargetRoutes ==
  {Require(h) : h \in {HandleRegisterTarget, HandleGetTarget, HandleDeleteTarget, HandleTrust}}
  \cup {Require(HandleListTargets(n)) : n \in 0..MaxRows}

-----------------------------------------------------------------------------
(* Policies: package policy.                                               *)

InsertPolicy == Transaction({409})
SelectPolicyPrincipals == Rows
SelectPolicy == Row \o Check({404}) \o SelectPolicyPrincipals
SelectPolicies(n) == Rows \o Repeat(SelectPolicyPrincipals, n)
DeletePolicyRow == Exec({404})
Matching == Row

CheckPrincipals == Check({400}) \o GetTarget \o Check({400})
CreatePolicy == Check({400}) \o CheckPrincipals \o InsertPolicy
GetPolicy == Check({400}) \o SelectPolicy
RemovePolicy == GetPolicy \o DeletePolicyRow
Evaluate == Check({400}) \o Matching
Authorize == Evaluate \o Check({403})

HandleCreatePolicy == Decode \o CreatePolicy \o Tell \o Answer(201)
HandleListPolicies(n) == SelectPolicies(n) \o Answer(200)
HandleGetPolicy == GetPolicy \o Answer(200)
HandleDeletePolicy == RemovePolicy \o Tell \o Answer(204)
HandleEvaluate == Decode \o Evaluate \o Answer(200)

PolicyRoutes ==
  {Require(h) : h \in {HandleCreatePolicy, HandleGetPolicy, HandleDeletePolicy, HandleEvaluate}}
  \cup {Require(HandleListPolicies(n)) : n \in 0..MaxRows}

-----------------------------------------------------------------------------
(* Access requests: package approval.                                      *)

InsertRequest == Exec({})
SelectRequest == Row
SelectRequests == Rows
UpdateRequest == Exec({409})
ActiveGrant == Row

CreateRequest == Check({400}) \o Authorize \o InsertRequest
GetRequest == Check({400}) \o SelectRequest \o Check({404})
Decide == GetRequest \o Check({403, 409}) \o UpdateRequest
CancelRequest == GetRequest \o Check({403, 409}) \o UpdateRequest
Grant == Check({400}) \o ActiveGrant
HasGrant == Grant \o Check({403})

HandleRaise == Decode \o CreateRequest \o Tell \o Answer(201)
HandleListRequests == SelectRequests \o Answer(200)
HandleGetRequest == GetRequest \o Answer(200)
HandleDecide(decider) == decider \o Tell \o Answer(200)
HandleGrant == Decode \o Grant \o Answer(200)

ApprovalRoutes ==
  {Require(h) : h \in {HandleRaise, HandleListRequests, HandleGetRequest,
                       HandleDecide(Decide), HandleDecide(CancelRequest), HandleGrant}}

-----------------------------------------------------------------------------
(* Sessions, the trail and the node: packages session, trail and system.   *)

InsertSession == Exec({})
FinishSession == Exec({409})
SelectSession == Row
SelectSessions == Rows

GetSession == Check({400}) \o SelectSession \o Check({404})
\* The session is ended through the registry, which never fails.
Kill == GetSession \o Check({409, 503})
OpenSession == Check({400}) \o InsertSession
CloseSession == Check({400}) \o FinishSession

HandleListSessions == SelectSessions \o Answer(200)
HandleGetSession == GetSession \o Answer(200)
HandleKill == Kill \o Tell \o Answer(200)
HandleTail == Check({400, 503}) \o Answer(200)
HandleHealthz == Op("take", {503}) \o Op("free", {503}) \o Answer(200)
HandleVersion == Answer(200)

SessionRoutes ==
  {Require(h) : h \in {HandleListSessions, HandleGetSession, HandleKill, HandleTail,
                       HandleVersion}}
  \cup {HandleHealthz}

Routes == IdentityRoutes \cup TargetRoutes \cup PolicyRoutes \cup ApprovalRoutes
          \cup SessionRoutes

\* What an SSH connection and its sessions ask of the store.
Resolve == GetByName \o Check({403}) \o Authorize \o HasGrant
SessionUses == {ByPublicKey, Resolve, OpenSession, CloseSession}
=============================================================================
