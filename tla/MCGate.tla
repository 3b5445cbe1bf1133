------------------------------- MODULE MCGate -------------------------------
(***************************************************************************)
(* Instances of Gate for TLC.                                               *)
(***************************************************************************)
EXTENDS Gate, TLC

CONSTANTS k1, c1, t1, t2

Channels == {c1}
Connections == {k1}
OnOne == [c \in Channels |-> k1]
Targets == {t1, t2}
\* Too far behind, behind by the skew, and ahead, in ticks.
Offsets == {-3, -2, 1}

Interchangeable == Permutations(User) \cup Permutations(HostKey)
=============================================================================
