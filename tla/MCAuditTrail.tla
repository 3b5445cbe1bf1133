---------------------------- MODULE MCAuditTrail ----------------------------
(***************************************************************************)
(* Instances of AuditTrail for TLC.                                        *)
(***************************************************************************)
EXTENDS AuditTrail, TLC

\* Everything that may go wrong.
AnyFault == FaultKind
=============================================================================
