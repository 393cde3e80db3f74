-------------------------- MODULE MC_ProviderBreaker --------------------------
(***************************************************************************)
(* Instances of ProviderBreaker for TLC: failures carry no kind here.      *)
(***************************************************************************)
EXTENDS ProviderBreaker, TLC

NoLimits == [k \in Kinds |-> 0]

RequestSymmetry == Permutations(Requests)
=============================================================================
