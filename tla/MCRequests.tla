----------------------------- MODULE MCRequests -----------------------------
(***************************************************************************)
(* Instances of Requests for TLC.                                           *)
(***************************************************************************)
EXTENDS Requests

CONSTANTS r1, s1

AnyRoute == [r \in {r1} |-> Routes]
AnyUse == [s \in {s1} |-> SessionUses]
=============================================================================
