----------------------------- MODULE MCAccounts -----------------------------
(***************************************************************************)
(* Instances of Accounts for TLC.                                          *)
(***************************************************************************)
EXTENDS Accounts, TLC

Interchangeable == Permutations(Name) \cup Permutations(Key) \cup Permutations(Caller)
=============================================================================
