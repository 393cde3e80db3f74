------------------------- MODULE MC_AdmissionBypass -------------------------
(* AdmissionBypass for TLC: a weighted request against light ones of others.   *)
EXTENDS AdmissionBypass

CONSTANTS heavy, b, c, d, e

MCRequests == {heavy, b, c, d, e}
MCTenant == (heavy :> "A") @@ (b :> "B") @@ (c :> "C") @@ (d :> "D") @@ (e :> "E")
MCCost == (heavy :> 2) @@ (b :> 1) @@ (c :> 1) @@ (d :> 1) @@ (e :> 1)
=============================================================================
