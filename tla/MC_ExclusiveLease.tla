-------------------------- MODULE MC_ExclusiveLease --------------------------
(* ExclusiveLease for TLC: everything but the rows' order is symmetric. *)
EXTENDS ExclusiveLease, TLC

LeaseSymmetry == Permutations(Owners) \cup Permutations(Connections) \cup Permutations(Calls)
=============================================================================
