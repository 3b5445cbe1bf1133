------------------------- MODULE MCSessionLifecycle -------------------------
(***************************************************************************)
(* Instances of SessionLifecycle for TLC: the faults each run allows.      *)
(***************************************************************************)
EXTENDS SessionLifecycle, TLC

Nothing    == {}
\* All but a row that cannot be closed, which then stays until the next start.
Closable   == FaultKind \ {"finish"}
\* What may go wrong while every audit event and row can still be written.
Recordable == {"target", "upload", "crash"}

Symmetry == Permutations(Session) \cup Permutations(Admin)
=============================================================================
