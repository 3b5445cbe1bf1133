------------------------------- MODULE Access -------------------------------
(***************************************************************************)
(* What a session channel needs to resolve: a registered target that       *)
(* accepts the principal and has a pinned host key, a policy for it, and a *)
(* live grant (Server.resolve).  Each is a statement of its own, and so    *)
(* are the reads and writes of the operators and admins who meanwhile      *)
(* register, delete, pin and write policies: internal/platform/target and  *)
(* internal/platform/policy.                                               *)
(*                                                                         *)
(* The identity of a channel was fixed at the handshake of its connection. *)
(* Accounts are never given another role, so a user carries its role.  The *)
(* access requests behind a grant are the module Approval; here a grant    *)
(* begins and ends.                                                        *)
(***************************************************************************)
EXTENDS Naturals, FiniteSets

CONSTANTS User, Role, RoleOf, \* accounts, and the role of each
          Subject,            \* the accounts and roles that policies name
          Target,             \* target ids, random and never reused
          Name, Principal,    \* names of targets, accounts on them
          HostKey,            \* host keys of targets
          Channel,            \* session channels, each opened once
          Trusting, Writing,  \* requests to pin a host key, to write a policy
          Replacing,          \* the pin requests that may replace a key
          MaxGrants           \* bound of the model: live grants at one time

ASSUME AccessAssumption ==
  /\ RoleOf \in [User -> Role]
  /\ User \cap Role = {} /\ Subject \subseteq User \cup Role
  /\ Replacing \subseteq Trusting
  /\ MaxGrants \in Nat

VARIABLES
  used,      \* target ids given out so far
  targets,   \* rows of targets
  reg,       \* what each target was registered with; its row, while it has one
  pin,       \* host_key of each target, {} for NULL
  policies,  \* rows of policies, with their policy_principals
  grants,    \* live grants
  channel,   \* where each channel stands in resolve, and what it has read
  pinning,   \* where each POST /v1/targets/{id}/host-key stands
  writing,   \* where each POST /v1/policies stands
  trail      \* target.host_key_pinned events

inventory == <<used, targets, reg, pin>>
access    == <<policies, grants>>
vars      == <<inventory, access, channel, pinning, writing, trail>>

-----------------------------------------------------------------------------
Policy  == [subject : Subject, target : Target, principals : SUBSET Principal]
Grant   == [user : User, target : Target, principal : Principal]

Registration == [name : Name, accepts : (SUBSET Principal) \ {{}}]
Unregistered == [name |-> "", accepts |-> {}]

\* target and pin are what lookup has read; gone is history, the targets that
\* had been deleted when the channel opened.
Resolution ==
  [pc : {"idle", "lookup", "principals", "policy", "grant", "resolved", "refused"},
   user : SUBSET User, name : SUBSET Name, principal : SUBSET Principal,
   target : SUBSET Target, pin : SUBSET HostKey, gone : SUBSET Target]
NoChannel == [pc |-> "idle", user |-> {}, name |-> {}, principal |-> {},
              target |-> {}, pin |-> {}, gone |-> {}]

Pinning == [pc : {"idle", "pin", "get", "answered", "refused", "abandoned"},
            target : SUBSET Target, key : SUBSET HostKey]
NotPinning == [pc |-> "idle", target |-> {}, key |-> {}]

PolicyRequest == [pc : {"idle", "principals", "insert", "answered"},
                  policy : SUBSET Policy]
NotWriting == [pc |-> "idle", policy |-> {}]

TypeOK ==
  /\ used \subseteq Target /\ targets \subseteq used
  /\ reg \in [Target -> Registration \cup {Unregistered}]
  /\ pin \in [Target -> SUBSET HostKey]
  /\ policies \subseteq Policy /\ grants \subseteq Grant
  /\ channel \in [Channel -> Resolution]
  /\ pinning \in [Trusting -> Pinning] /\ writing \in [Writing -> PolicyRequest]
  /\ trail \subseteq Target \X HostKey

Init ==
  /\ used = {} /\ targets = {}
  /\ reg = [t \in Target |-> Unregistered]
  /\ pin = [t \in Target |-> {}]
  /\ policies = {} /\ grants = {}
  /\ channel = [c \in Channel |-> NoChannel]
  /\ pinning = [h \in Trusting |-> NotPinning]
  /\ writing = [h \in Writing |-> NotWriting]
  /\ trail = {}

-----------------------------------------------------------------------------
(* internal/platform/target                                                  *)

\* The principals of a target, as principalsOf finds them: a deleted target has
\* no rows left.
PrincipalsOf(t) == IF t \in targets THEN reg[t].accepts ELSE {}

\* Mutant: an id that no row holds any more is given out again.
RegisterReused(t, n, ps) ==
  /\ t \notin targets /\ ps # {}
  /\ \A x \in targets : reg[x].name # n
  /\ used' = used \cup {t} /\ targets' = targets \cup {t}
  /\ reg' = [reg EXCEPT ![t] = [name |-> n, accepts |-> ps]]
  /\ pin' = [pin EXCEPT ![t] = {}]
  /\ UNCHANGED <<access, channel, pinning, writing, trail>>

\* A new id under a name that no registered target has.
Register(t, n, ps) ==
  /\ t \notin used /\ ps # {}
  /\ \A x \in targets : reg[x].name # n
  /\ used' = used \cup {t} /\ targets' = targets \cup {t}
  /\ reg' = [reg EXCEPT ![t] = [name |-> n, accepts |-> ps]]
  /\ UNCHANGED <<pin, access, channel, pinning, writing, trail>>

\* The row and its principals go; policies and grants stay.
Remove(t) ==
  /\ t \in targets
  /\ targets' = targets \ {t}
  /\ UNCHANGED <<used, reg, pin, access, channel, pinning, writing, trail>>

\* trust: the target is looked up, and 404 answered if there is none ...
Trust(h, t, k) ==
  /\ pinning[h].pc = "idle" /\ t \in targets
  /\ pinning' = [pinning EXCEPT ![h] = [pc |-> "pin", target |-> {t}, key |-> {k}]]
  /\ UNCHANGED <<inventory, access, channel, writing, trail>>

\* Nothing was written.
Decline(h) == pinning' = [pinning EXCEPT ![h] = [NotPinning EXCEPT !.pc = "refused"]]

\* Mutant: a pin is replaced whether that was asked for or not.
PinAlways(h, t) ==
  /\ pinning[h].pc = "pin" /\ pinning[h].target = {t}
  /\ IF t \in targets
     THEN /\ pin' = [pin EXCEPT ![t] = pinning[h].key]
          /\ pinning' = [pinning EXCEPT ![h].pc = "get"]
     ELSE Decline(h) /\ UNCHANGED pin
  /\ UNCHANGED <<used, targets, reg, access, channel, writing, trail>>

\* ... pinHostKey reads and updates its row in one transaction, and refuses where
\* there is no row, or a pin that is to be kept ...
Pin(h, t) ==
  /\ pinning[h].pc = "pin" /\ pinning[h].target = {t}
  /\ IF t \in targets /\ (pin[t] = {} \/ h \in Replacing)
     THEN /\ pin' = [pin EXCEPT ![t] = pinning[h].key]
          /\ pinning' = [pinning EXCEPT ![h].pc = "get"]
     ELSE Decline(h) /\ UNCHANGED pin
  /\ UNCHANGED <<used, targets, reg, access, channel, writing, trail>>

\* Mutant: a pin that was replaced is not recorded.
AnswerTrustFirst(h, t) ==
  /\ pinning[h].pc = "get" /\ pinning[h].target = {t}
  /\ pinning' = [pinning EXCEPT ![h].pc = "answered"]
  /\ trail' = IF t \in targets /\ h \notin Replacing
              THEN trail \cup ({t} \X pin[t]) ELSE trail
  /\ UNCHANGED <<inventory, access, channel, writing>>

\* ... and the target is read again, for the answer and for the event, which
\* names the key that is pinned by now.
AnswerTrust(h, t) ==
  /\ pinning[h].pc = "get" /\ pinning[h].target = {t}
  /\ pinning' = [pinning EXCEPT ![h].pc = "answered"]
  /\ trail' = IF t \in targets THEN trail \cup ({t} \X pin[t]) ELSE trail
  /\ UNCHANGED <<inventory, access, channel, writing>>

\* The transaction fails, or the request is cancelled before it commits.
FailPin(h) ==
  /\ pinning[h].pc = "pin" /\ Decline(h)
  /\ UNCHANGED <<inventory, access, channel, writing, trail>>

\* The second read fails, or the request is cancelled or times out: the pin stays
\* and no event is recorded.
AbandonTrust(h, t) ==
  /\ pinning[h].pc = "get" /\ pinning[h].target = {t}
  /\ pinning' = [pinning EXCEPT ![h].pc = "abandoned"]
  /\ UNCHANGED <<inventory, access, channel, writing, trail>>

-----------------------------------------------------------------------------
(* internal/platform/policy                                                  *)

\* create asks for the principals of the target: its row first, 404 if there is
\* none ...
CreatePolicy(h, p) ==
  /\ writing[h].pc = "idle" /\ p.target \in targets /\ p.principals # {}
  /\ writing' = [writing EXCEPT ![h] = [pc |-> "principals", policy |-> {p}]]
  /\ UNCHANGED <<inventory, access, channel, pinning, trail>>

AnswerPolicy(h) == writing' = [writing EXCEPT ![h] = [pc |-> "answered", policy |-> {}]]

\* Mutant: one principal that the target accepts is enough.
CheckSomePrincipal(h, p) ==
  /\ writing[h].pc = "principals" /\ writing[h].policy = {p}
  /\ IF p.principals \cap PrincipalsOf(p.target) # {}
     THEN writing' = [writing EXCEPT ![h].pc = "insert"] ELSE AnswerPolicy(h)
  /\ UNCHANGED <<inventory, access, channel, pinning, trail>>

\* ... then its principals, which must hold all of the policy's ...
CheckPrincipals(h, p) ==
  /\ writing[h].pc = "principals" /\ writing[h].policy = {p}
  /\ IF p.principals \subseteq PrincipalsOf(p.target)
     THEN writing' = [writing EXCEPT ![h].pc = "insert"] ELSE AnswerPolicy(h)
  /\ UNCHANGED <<inventory, access, channel, pinning, trail>>

\* ... and inserts the row, which nothing ties to a row of targets.
InsertPolicy(h, p) ==
  /\ writing[h].pc = "insert" /\ writing[h].policy = {p}
  /\ AnswerPolicy(h)
  /\ policies' = policies \cup {p}
  /\ UNCHANGED <<inventory, grants, channel, pinning, trail>>

\* A read fails, the policy's name is taken, or the insert fails.
FailPolicy(h) ==
  /\ writing[h].pc \in {"principals", "insert"} /\ AnswerPolicy(h)
  /\ UNCHANGED <<inventory, access, channel, pinning, trail>>

DeletePolicy(p) ==
  /\ p \in policies
  /\ policies' = policies \ {p}
  /\ UNCHANGED <<inventory, grants, channel, pinning, writing, trail>>

\* repository.matching: a user's own policies and those of its role, matched
\* exactly and not by rank.
Allows(ps, u, t, a) ==
  \E p \in ps : p.target = t /\ a \in p.principals /\ p.subject \in {u, RoleOf[u]}

-----------------------------------------------------------------------------
(* A request is approved, and its grant runs out: see Approval.              *)

GrantBegins(g) ==
  /\ g \notin grants
  /\ Cardinality(grants) < MaxGrants
  /\ grants' = grants \cup {g}
  /\ UNCHANGED <<inventory, policies, channel, pinning, writing, trail>>

GrantEnds(g) ==
  /\ g \in grants
  /\ grants' = grants \ {g}
  /\ UNCHANGED <<inventory, policies, channel, pinning, writing, trail>>

-----------------------------------------------------------------------------
(* Server.resolve                                                            *)

Rest == <<inventory, access, pinning, writing, trail>>

\* A channel of a connection that was authenticated as u, for a@n.
OpenChannel(c, u, n, a) ==
  /\ channel[c].pc = "idle"
  /\ channel' = [channel EXCEPT ![c] =
       [pc |-> "lookup", user |-> {u}, name |-> {n}, principal |-> {a},
        target |-> {}, pin |-> {}, gone |-> used \ targets]]
  /\ UNCHANGED Rest

\* A refusal is written to the user and recorded, and the channel is closed.
Refuse(c) == channel' = [channel EXCEPT ![c] = [NoChannel EXCEPT !.pc = "refused"]]

\* targets.ByName, first the row ...
Lookup(c) ==
  /\ channel[c].pc = "lookup"
  /\ \/ \E t \in targets :
          /\ channel[c].name = {reg[t].name}
          /\ channel' = [channel EXCEPT ![c].pc = "principals", ![c].target = {t},
                                        ![c].pin = pin[t]]
     \/ /\ \A t \in targets : channel[c].name # {reg[t].name}
        /\ Refuse(c)
  /\ UNCHANGED Rest

\* Mutant: the principals are looked for under the name.
LookupPrincipalsNamed(c, t) ==
  /\ channel[c].pc = "principals" /\ channel[c].target = {t}
  /\ IF /\ \E x \in targets : {reg[x].name} = channel[c].name
                              /\ channel[c].principal \subseteq PrincipalsOf(x)
        /\ channel[c].pin # {}
     THEN channel' = [channel EXCEPT ![c].pc = "policy"] ELSE Refuse(c)
  /\ UNCHANGED Rest

\* ... and then its principals; the two checks that follow read nothing.
LookupPrincipals(c, t) ==
  /\ channel[c].pc = "principals" /\ channel[c].target = {t}
  /\ IF channel[c].principal \subseteq PrincipalsOf(t) /\ channel[c].pin # {}
     THEN channel' = [channel EXCEPT ![c].pc = "policy"] ELSE Refuse(c)
  /\ UNCHANGED Rest

Asks(c, t, u, a) ==
  channel[c].target = {t} /\ channel[c].user = {u} /\ channel[c].principal = {a}

\* policies.Authorize
Authorize(c, t, u, a) ==
  /\ channel[c].pc = "policy" /\ Asks(c, t, u, a)
  /\ IF Allows(policies, u, t, a)
     THEN channel' = [channel EXCEPT ![c].pc = "grant"] ELSE Refuse(c)
  /\ UNCHANGED Rest

\* grants.HasGrant
HasGrant(c, t, u, a) ==
  /\ channel[c].pc = "grant" /\ Asks(c, t, u, a)
  /\ IF [user |-> u, target |-> t, principal |-> a] \in grants
     THEN channel' = [channel EXCEPT ![c].pc = "resolved"] ELSE Refuse(c)
  /\ UNCHANGED Rest

\* A read fails; there is no retry.
FailRead(c) ==
  /\ channel[c].pc \notin {"idle", "resolved", "refused"} /\ Refuse(c)
  /\ UNCHANGED Rest

-----------------------------------------------------------------------------
Operators ==
  \/ \E t \in Target, n \in Name, ps \in SUBSET Principal : Register(t, n, ps)
  \/ \E t \in Target : Remove(t)
  \/ \E h \in Trusting, t \in Target :
       \/ \E k \in HostKey : Trust(h, t, k)
       \/ Pin(h, t) \/ AnswerTrust(h, t) \/ AbandonTrust(h, t)
  \/ \E h \in Trusting : FailPin(h)

Admins ==
  \/ \E h \in Writing, p \in Policy :
       CreatePolicy(h, p) \/ CheckPrincipals(h, p) \/ InsertPolicy(h, p)
  \/ \E h \in Writing : FailPolicy(h)
  \/ \E p \in Policy : DeletePolicy(p)
  \/ \E g \in Grant : GrantBegins(g) \/ GrantEnds(g)

Resolve(c) ==
  \/ \E u \in User, n \in Name, a \in Principal : OpenChannel(c, u, n, a)
  \/ Lookup(c) \/ FailRead(c)
  \/ \E t \in Target :
       \/ LookupPrincipals(c, t)
       \/ \E u \in User, a \in Principal : Authorize(c, t, u, a) \/ HasGrant(c, t, u, a)

Next == Operators \/ Admins \/ \E c \in Channel : Resolve(c)

Spec == Init /\ [][Next]_vars

-----------------------------------------------------------------------------
\* The requests that pinned a target, and the keys they pinned it to.
HavePinned(t) == {h \in Trusting : pinning[h].target = {t}
                                   /\ pinning[h].pc \in {"get", "answered", "abandoned"}}
EverPinned(t) == UNION {pinning[h].key : h \in HavePinned(t)}

\* A channel past lookup speaks of one registration, whatever was deleted and
\* registered again under that name meanwhile: its host key was pinned on the
\* target that is dialed, which bore the name and accepts the principal.
DestinationIsOne ==
  \A c \in Channel, t \in Target :
    channel[c].target = {t} =>
      /\ channel[c].name = {reg[t].name}
      /\ channel[c].pin \subseteq EverPinned(t)
      /\ channel[c].pc \in {"policy", "grant", "resolved"} =>
           channel[c].principal \subseteq reg[t].accepts /\ channel[c].pin # {}

\* A target that was deleted before a channel opened is not reached, whatever
\* policies and grants it has left behind.
DeletedIsUnreachable ==
  \A c \in Channel : channel[c].target \cap channel[c].gone = {}

\* A policy names no principal that its target refuses, though nothing ties it to
\* the target between the check and the insert, or later.
PolicyFitsTarget == \A p \in policies : p.principals \subseteq reg[p.target].accepts

\* A pin that is not in the trail is one whose request is still to answer, or
\* failed after it had pinned the target.
PinIsRecorded ==
  \A t \in targets :
    \/ {t} \X pin[t] \subseteq trail
    \/ \E h \in HavePinned(t) : pinning[h].pc # "answered"

\* A host key is replaced only by a request that asks for it, however many race.
Replaces(h, t) == h \in Replacing /\ pinning[h].pc = "pin" /\ pinning[h].target = {t}

PinChanges ==
  \A t \in Target : pin[t] # {} /\ pin'[t] # pin[t] => \E h \in Trusting : Replaces(h, t)

PinIsReplacedOnDemand == [][PinChanges]_vars
=============================================================================
