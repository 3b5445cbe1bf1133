----------------------------- MODULE MCApproval -----------------------------
(***************************************************************************)
(* Instances of Approval for TLC.  A second has two ticks, and the pending *)
(* window two seconds, so that a decision can be begun inside the window   *)
(* and written outside it, and a grant can end between two seconds.        *)
(***************************************************************************)
EXTENDS Approval, TLC

Symmetry == Permutations(Request) \cup Permutations(Caller)
=============================================================================
