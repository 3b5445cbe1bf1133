--------------------------- MODULE MCTrailReader ---------------------------
(***************************************************************************)
(* Instances of TrailReader for TLC.                                        *)
(***************************************************************************)
EXTENDS TrailReader

CONSTANTS short1, short2, middle, long

Events == {short1, short2, middle, long}
\* With a line cap of four, the long event is one cell too long for the scanner.
Sizes == [e \in Events |-> CASE e \in {short1, short2} -> 2
                             [] e = middle -> 3
                             [] e = long -> 5]
=============================================================================
