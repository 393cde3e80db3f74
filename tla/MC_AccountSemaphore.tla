------------------------- MODULE MC_AccountSemaphore -------------------------
(***************************************************************************)
(* Instances of AccountSemaphore for TLC.  Nat, the range of the abstract  *)
(* cap, only occurs in membership tests.                                   *)
(***************************************************************************)
EXTENDS AccountSemaphore, TLC

ClientSymmetry == Permutations(Clients)
=============================================================================
