------------------------------ MODULE Warrant ------------------------------
(***************************************************************************)
(* What the front door promises, with none of its reads: a channel is let  *)
(* in under a claim, "with this key, as this user, on this target, whose   *)
(* host key is this", only if the key was the user's at some moment since  *)
(* the connection came, and each of the other grounds held at some moment  *)
(* since the channel opened.  The moments need not be the same.            *)
(* Gate is shown to implement this module.                                 *)
(***************************************************************************)
CONSTANTS Claim, Ground, Connection, Channel, ConnOf

VARIABLES identified,  \* the claims whose key is the user's, now
          holds,       \* the claims for which each ground holds, now
          come,        \* connections that have come
          opened,      \* channels that have been opened
          met,         \* the claims that were identified since a connection came
          held,        \* the claims each ground held for since a channel opened
          admitted     \* the claim under which each channel was let in, as a set

vars == <<identified, holds, come, opened, met, held, admitted>>

Init == /\ identified \subseteq Claim /\ holds \in [Ground -> SUBSET Claim]
        /\ come = {} /\ opened = {}
        /\ met = [k \in Connection |-> {}]
        /\ held = [c \in Channel |-> [g \in Ground |-> {}]]
        /\ admitted = [c \in Channel |-> {}]

\* The world is whatever it is in the next state, and is remembered.
Watch == /\ identified' \subseteq Claim /\ holds' \in [Ground -> SUBSET Claim]
         /\ come \subseteq come' /\ come' \subseteq Connection
         /\ opened \subseteq opened' /\ opened' \subseteq Channel
         /\ met' = [k \in Connection |->
                      IF k \in come' THEN met[k] \cup identified' ELSE {}]
         /\ held' = [c \in Channel |-> [g \in Ground |->
                      IF c \in opened' THEN held[c][g] \cup holds'[g] ELSE {}]]

Admit(c) == \E x \in met[ConnOf[c]] :
  /\ \A g \in Ground : x \in held[c][g]
  /\ admitted[c] = {}
  /\ admitted' = [admitted EXCEPT ![c] = {x}]

Next == Watch /\ (UNCHANGED admitted \/ \E c \in Channel : Admit(c))

Spec == Init /\ [][Next]_vars
=============================================================================
