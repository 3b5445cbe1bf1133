----------------------------- MODULE MCStartup -----------------------------
(***************************************************************************)
(* Instances of Startup for TLC: the constants are given in the cfgs.       *)
(***************************************************************************)
EXTENDS Startup, TLC
=============================================================================
