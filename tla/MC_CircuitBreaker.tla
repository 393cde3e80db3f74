-------------------------- MODULE MC_CircuitBreaker --------------------------
(***************************************************************************)
(* Instances of CircuitBreaker for TLC.                                    *)
(***************************************************************************)
EXTENDS CircuitBreaker, TLC

CONSTANT RateLimit, Transient

\* A 429 hint cools down for one tick; transient failures take the escalation.
MCKindCooldown == (RateLimit :> 1) @@ (Transient :> -1)

\* No caller of the repository sets kindThresholds ...
NoKindLimits == (RateLimit :> 0) @@ (Transient :> 0)

\* ... but the constructor offers them: two rate limits open the breaker.
SomeKindLimits == (RateLimit :> 2) @@ (Transient :> 0)

MCOptions == {[failureThreshold |-> 2, halfOpenRequests |-> 1],
              [failureThreshold |-> 3, halfOpenRequests |-> 3]}

CallSymmetry == Permutations(Calls)
=============================================================================
