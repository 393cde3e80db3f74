---------------------------- MODULE BreakerRules ----------------------------
(***************************************************************************)
(* The rules of one CircuitBreaker object (src/shared/utils/               *)
(* circuitBreaker.ts) as operators on a record.  The modules that EXTEND   *)
(* this one give the record a place to live: CircuitBreaker (one breaker   *)
(* and its execute() calls) and ProviderBreaker (the chat pipeline around  *)
(* it).                                                                    *)
(*                                                                         *)
(* Abstractions of data, all exact for the comparisons the code makes:     *)
(*   - Date.now() - lastFailureTime is one number, sinceFailure, which     *)
(*     stops at LongAgo, no shorter than any cooldown.  lastFailureTime =  *)
(*     null is sinceFailure = LongAgo: the code treats both as elapsed.    *)
(*   - a counter stops at the largest value it is ever compared with       *)
(*     (MaxThreshold, MaxCycles, KindLimit).                               *)
(*   - transitionHistory, successCount and onStateChange are only reported.*)
(***************************************************************************)
EXTENDS Integers

CONSTANTS
    Kinds,                \* the failure kinds classifyError can return
    NoKind,               \* lastFailureKind = null, or an unclassified error
    NoRow,                \* no row of domain_circuit_breakers for this name
    FailureThreshold,     \* options of the constructor ...
    DegradationThreshold,
    HalfOpenRequests,
    KindLimit,            \* kindThresholds[kind].threshold; 0: no entry
    KindCooldown,         \* cooldownByKind[kind]; negative: no override
    ResetTimeout,
    EscalationCount,      \* backoffEscalationCount
    MaxMultiplier,        \* maxBackoffMultiplier
    LongAgo,              \* bound: an age no cooldown exceeds
    MaxThreshold,         \* bound: no failureThreshold is larger
    MaxCycles             \* bound: more open cycles lengthen no cooldown

ASSUME BreakerConstants ==
    /\ NoKind \notin Kinds
    /\ FailureThreshold \in 1..MaxThreshold
    /\ MaxThreshold \in Nat /\ MaxCycles \in Nat /\ LongAgo \in Nat
    /\ DegradationThreshold \in Nat
    /\ HalfOpenRequests \in Nat
    /\ KindLimit \in [Kinds -> Nat]
    /\ KindCooldown \in [Kinds -> Int]
    /\ ResetTimeout \in Nat

States == {"CLOSED", "DEGRADED", "OPEN", "HALF_OPEN"}

KindCounts == {f \in [Kinds -> Nat] : \A k \in Kinds : f[k] <= KindLimit[k]}

Breaker == [state : States, failureCount : 0..MaxThreshold,
            sinceFailure : 0..LongAgo, lastFailureKind : Kinds \cup {NoKind},
            kindFailureCounts : KindCounts, openCycleCount : 0..MaxCycles,
            halfOpenAllowed : Nat, failureThreshold : 1..MaxThreshold,
            degradationThreshold : Nat, halfOpenRequests : Nat]

Row == [state : States, failureCount : 0..MaxThreshold,
        sinceFailure : 0..LongAgo, lastFailureKind : Kinds \cup {NoKind},
        kindFailureCounts : KindCounts, openCycleCount : 0..MaxCycles]

ASSUME NoRowIsNoRow == NoRow \notin Row

Bump(n, cap) == IF n < cap THEN n + 1 ELSE cap

Later(b) == [b EXCEPT !.sinceFailure = Bump(@, LongAgo)]

-----------------------------------------------------------------------------
(* Construction and persistence *)

Fresh == [state |-> "CLOSED", failureCount |-> 0, sinceFailure |-> LongAgo,
          lastFailureKind |-> NoKind, kindFailureCounts |-> [k \in Kinds |-> 0],
          openCycleCount |-> 0, halfOpenAllowed |-> 0,
          failureThreshold |-> FailureThreshold,
          degradationThreshold |-> DegradationThreshold,
          halfOpenRequests |-> HalfOpenRequests]

\* The thresholds are written to the row too, but never read back.
RowOf(b) == [state |-> b.state, failureCount |-> b.failureCount,
             sinceFailure |-> b.sinceFailure,
             lastFailureKind |-> b.lastFailureKind,
             kindFailureCounts |-> b.kindFailureCounts,
             openCycleCount |-> b.openCycleCount]

\* Mutant: the constructor forgets the escalation of the outage.
Restored_NoCycles(r) ==
    IF r = NoRow THEN Fresh
    ELSE [Fresh EXCEPT
            !.state = r.state, !.failureCount = r.failureCount,
            !.sinceFailure = r.sinceFailure,
            !.halfOpenAllowed = IF r.state = "HALF_OPEN"
                                THEN HalfOpenRequests ELSE @]

\* A breaker constructed while the database holds row r.
Restored(r) ==
    IF r = NoRow THEN Fresh
    ELSE [Fresh EXCEPT
            !.state = r.state, !.failureCount = r.failureCount,
            !.sinceFailure = r.sinceFailure,
            !.lastFailureKind = r.lastFailureKind,
            !.kindFailureCounts = r.kindFailureCounts,
            !.openCycleCount = r.openCycleCount,
            !.halfOpenAllowed = IF r.state = "HALF_OPEN"
                                THEN HalfOpenRequests ELSE @]

-----------------------------------------------------------------------------
(* Cooldown and the lazy OPEN -> HALF_OPEN refresh *)

EffectiveResetTimeout(b) ==
    LET escalated == b.openCycleCount - EscalationCount
    IN  IF escalated <= 0 THEN ResetTimeout
        ELSE IF 2^escalated < MaxMultiplier THEN ResetTimeout * 2^escalated
        ELSE ResetTimeout * MaxMultiplier

EffectiveCooldown(b) ==
    IF b.lastFailureKind \in Kinds /\ KindCooldown[b.lastFailureKind] >= 0
    THEN KindCooldown[b.lastFailureKind]
    ELSE EffectiveResetTimeout(b)

\* Mutant: strictly longer than the cooldown.
ShouldAttemptReset_Strict(b) == b.sinceFailure > EffectiveCooldown(b)

ShouldAttemptReset(b) ==
    b.sinceFailure = LongAgo \/ b.sinceFailure >= EffectiveCooldown(b)

Refreshed(b) ==
    IF b.state = "OPEN" /\ ShouldAttemptReset(b)
    THEN [b EXCEPT !.state = "HALF_OPEN", !.halfOpenAllowed = b.halfOpenRequests]
    ELSE b

\* canExecute(), asked of a breaker that has just been refreshed.
CanExecute(b) ==
    \/ b.state \in {"CLOSED", "DEGRADED"}
    \/ b.state = "HALF_OPEN" /\ b.halfOpenAllowed > 0

\* Mutant: the probe does not use up its allowance.
Admitted_Free(b) == b

\* The part of execute() before fn() runs.
Admitted(b) ==
    IF b.state = "HALF_OPEN" THEN [b EXCEPT !.halfOpenAllowed = @ - 1] ELSE b

-----------------------------------------------------------------------------
(* Outcomes *)

\* Mutant: a success keeps the escalation.
Cleared_KeepsCycles(b) ==
    [b EXCEPT !.failureCount = 0, !.lastFailureKind = NoKind,
              !.kindFailureCounts = [k \in Kinds |-> 0]]

Cleared(b) == [b EXCEPT !.failureCount = 0, !.lastFailureKind = NoKind,
                        !.openCycleCount = 0,
                        !.kindFailureCounts = [k \in Kinds |-> 0]]

ResetBreaker(b) ==
    [Cleared(b) EXCEPT !.state = "CLOSED", !.sinceFailure = LongAgo]

\* Mutant: the decay is not stopped at zero.
OnSuccess_Negative(b) ==
    CASE b.state = "OPEN" -> ResetBreaker(b)
      [] b.state = "HALF_OPEN" -> [Cleared(b) EXCEPT !.state = "CLOSED"]
      [] OTHER -> [b EXCEPT !.failureCount = @ - 1]

OnSuccess(b) ==
    LET fewer == IF b.failureCount > 0 THEN b.failureCount - 1 ELSE 0
    IN  CASE b.state = "OPEN" -> ResetBreaker(b)
          [] b.state = "HALF_OPEN" -> [Cleared(b) EXCEPT !.state = "CLOSED"]
          [] OTHER -> [b EXCEPT
                !.failureCount = fewer,
                !.state = IF fewer <= b.degradationThreshold THEN "CLOSED" ELSE @]

\* The counters _onFailure updates before it looks at any threshold.
Counted(b, k) ==
    [b EXCEPT !.failureCount = Bump(@, MaxThreshold), !.sinceFailure = 0,
              !.lastFailureKind = k,
              !.kindFailureCounts =
                 [j \in Kinds |-> IF j = k THEN Bump(@[j], KindLimit[j]) ELSE @[j]]]

\* A per-kind threshold is reached: _onFailure opens and RETURNS, unpersisted.
TripsByKind(b, k) ==
    /\ k \in Kinds
    /\ KindLimit[k] > 0
    /\ Counted(b, k).kindFailureCounts[k] >= KindLimit[k]

\* Mutant: the threshold itself does not open the breaker.
OnFailure_OffByOne(b, k) ==
    LET n == Counted(b, k)
    IN  CASE TripsByKind(b, k) -> [n EXCEPT !.state = "OPEN"]
          [] ~TripsByKind(b, k) /\ b.state = "HALF_OPEN" ->
                [n EXCEPT !.state = "OPEN",
                          !.openCycleCount = Bump(@, MaxCycles)]
          [] ~TripsByKind(b, k) /\ b.state \in {"CLOSED", "DEGRADED"}
                /\ n.failureCount > b.failureThreshold ->
                [n EXCEPT !.state = "OPEN"]
          [] OTHER -> n

OnFailure(b, k) ==
    LET n == Counted(b, k)
    IN  CASE TripsByKind(b, k) -> [n EXCEPT !.state = "OPEN"]
          [] ~TripsByKind(b, k) /\ b.state = "HALF_OPEN" ->
                [n EXCEPT !.state = "OPEN",
                          !.openCycleCount = Bump(@, MaxCycles)]
          [] ~TripsByKind(b, k) /\ b.state \in {"CLOSED", "DEGRADED"}
                /\ n.failureCount >= b.failureThreshold ->
                [n EXCEPT !.state = "OPEN"]
          [] ~TripsByKind(b, k) /\ b.state = "CLOSED"
                /\ n.failureCount < b.failureThreshold
                /\ n.failureCount >= b.degradationThreshold ->
                [n EXCEPT !.state = "DEGRADED"]
          [] OTHER -> n

\* Mutant: a failure is written only when it changes the state.
RowAfterFailure_OnChange(b, k, r) ==
    IF OnFailure(b, k).state = b.state THEN r ELSE RowOf(OnFailure(b, k))

\* The row after _onFailure: the per-kind paths return before _persistToDb.
RowAfterFailure(b, k, r) ==
    IF TripsByKind(b, k) THEN r ELSE RowOf(OnFailure(b, k))

\* getCircuitBreaker(name, options) on an existing object.
Reconfigured(b, o) ==
    [b EXCEPT !.failureThreshold = o.failureThreshold,
              !.halfOpenRequests = o.halfOpenRequests,
              !.halfOpenAllowed =
                 IF b.state = "HALF_OPEN" /\ o.halfOpenRequests < @
                 THEN o.halfOpenRequests ELSE @]
=============================================================================
