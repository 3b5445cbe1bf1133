--------------------------- MODULE AccessHistory ---------------------------
(***************************************************************************)
(* Access with a memory: what held at some moment since each channel       *)
(* opened.  It lets Access be compared with Warrant, which Gate implements *)
(* too: Gate looks a target up in one step, Access in the two statements   *)
(* that the code runs, and among the other requests on the inventory.      *)
(***************************************************************************)
EXTENDS Access

VARIABLE held \* history: see Warrant

\* "As this user, for this principal on the target of this name, which is this one,
\* and whose host key is this."
Claim == [user : User, name : Name, principal : Principal, target : Target, host : HostKey]
Ground == {"target", "pin", "principal", "policy", "grant"}

Holds ==
  [g \in Ground |-> {x \in Claim :
     \/ g = "target"    /\ x.target \in targets /\ reg[x.target].name = x.name
     \/ g = "pin"       /\ x.target \in targets /\ pin[x.target] = {x.host}
     \/ g = "principal" /\ x.principal \in PrincipalsOf(x.target)
     \/ g = "policy"    /\ Allows(policies, x.user, x.target, x.principal)
     \/ g = "grant"     /\ [user |-> x.user, target |-> x.target,
                            principal |-> x.principal] \in grants}]

Opened == {c \in Channel : channel[c].pc # "idle"}

\* History: what held since the channel opened.
Watch ==
  held' = [c \in Channel |-> [g \in Ground |->
             IF c \in Opened' THEN held[c][g] \cup Holds'[g] ELSE {}]]

HistoryInit == Init /\ held = [c \in Channel |-> [g \in Ground |-> {}]]

HistorySpec == HistoryInit /\ [][Next /\ Watch]_<<vars, held>>

\* The claim under which a channel runs that has resolved.
ClaimsOf(c) == {x \in Claim :
  /\ channel[c].pc = "resolved"
  /\ channel[c].user = {x.user} /\ channel[c].name = {x.name}
  /\ channel[c].principal = {x.principal}
  /\ channel[c].target = {x.target} /\ channel[c].pin = {x.host}}

\* The account of a channel was settled before it opened, so that every claim on it
\* is taken for identified.
Promise == INSTANCE Warrant WITH
  Connection <- Channel, ConnOf <- [c \in Channel |-> c],
  identified <- Claim, holds <- Holds, come <- Opened, opened <- Opened,
  met <- [c \in Channel |-> IF c \in Opened THEN Claim ELSE {}],
  admitted <- [c \in Channel |-> ClaimsOf(c)]

\* A channel resolves only to a target that bore the name, with the host key that was
\* pinned on it, that accepted the principal, and that a policy and a grant were for,
\* each at some moment since the channel opened, whatever is deleted, registered
\* again, pinned and revoked between the statements of resolve.
ResolvedIsWarranted == Promise!Spec

\* A channel that has resolved has a claim.
ResolvedHasClaim == \A c \in Channel :
  channel[c].pc = "resolved" => \E x \in Claim : ClaimsOf(c) = {x}
=============================================================================
