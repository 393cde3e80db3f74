-------------------------- MODULE MC_TokenRefresh --------------------------
EXTENDS TokenRefresh, TLC

CONSTANTS r1, r2, c1, c2

(* Both requests on one account, or one on each; the accounts whose executor  *)
(* hides errors and shows them are told apart by Codex.                       *)
MCAccounts == (r1 :> {c2}) @@ (r2 :> {c1, c2})

============================================================================
