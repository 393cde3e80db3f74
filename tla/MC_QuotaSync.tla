---------------------------- MODULE MC_QuotaSync ----------------------------
(* QuotaSync for TLC: one request on the account the synchronisation reads.  *)
EXTENDS QuotaSync, TLC

CONSTANTS r1, c1, c2

MCAccounts == r1 :> {c1}

=============================================================================
