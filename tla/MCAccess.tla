----------------------------- MODULE MCAccess ------------------------------
(***************************************************************************)
(* Instances of Access for TLC.                                             *)
(***************************************************************************)
EXTENDS Access, TLC

CONSTANTS u1, operator

\* One account, and the role it has.
Users == {u1}
Roles == {operator}
Holds == [u \in Users |-> operator]

\* Ids, host keys and principals are interchangeable.
Interchangeable == Permutations(Target) \cup Permutations(HostKey)
                   \cup Permutations(Principal)
=============================================================================
