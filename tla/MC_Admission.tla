---------------------------- MODULE MC_Admission ----------------------------
(* Admission for TLC: three tenants, one of them with two requests.            *)
EXTENDS Admission

CONSTANTS a1, a2, b, c

MCRequests == {a1, a2, b, c}
MCTenant == (a1 :> "A") @@ (a2 :> "A") @@ (b :> "B") @@ (c :> "C")
MCCost == (a1 :> 3) @@ (a2 :> 2) @@ (b :> 2) @@ (c :> 1)
=============================================================================
