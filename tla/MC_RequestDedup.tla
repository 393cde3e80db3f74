--------------------------- MODULE MC_RequestDedup ---------------------------
(* Request deduplication for TLC: three requests with one prompt, one of them *)
(* with another `stop', and one request with a prompt of its own.             *)
EXTENDS RequestDedup, TLC

CONSTANTS p1, p2, p3, q1, a, b

MCRequests == {p1, p2, p3, q1}
MCAccounts == {a, b}
MCPrompt == [r \in MCRequests |-> IF r = q1 THEN "q" ELSE "p"]
MCRest == [r \in MCRequests |-> IF r = p3 THEN "stop" ELSE "none"]
=============================================================================
