---------------------------- MODULE CircuitBreaker ----------------------------
(***************************************************************************)
(* One CircuitBreaker object (src/shared/utils/circuitBreaker.ts), its row *)
(* of domain_circuit_breakers and the calls inside execute().              *)
(*                                                                         *)
(* execute() awaits fn() between its admission and its bookkeeping, so any *)
(* number of calls admitted in an earlier state of the breaker can report  *)
(* in a later one.  Everything between two awaits is one action: the       *)
(* program is one JavaScript thread and SQLite is written synchronously.   *)
(***************************************************************************)
EXTENDS BreakerRules, FiniteSets

CONSTANTS
    Calls,     \* execute() calls that can be in flight at once
    Options    \* option records getCircuitBreaker is later called with

ASSUME OptionsAreLegal ==
    Options \subseteq [failureThreshold : 1..MaxThreshold, halfOpenRequests : Nat]
ASSUME CallsFinite == IsFiniteSet(Calls)

VARIABLES
    cb,       \* the breaker object
    saved,    \* its row in the database, or NoRow
    calls,    \* per call: "idle", "running", or "probe" (see Probes)
    budget    \* history: the probe allowance this HALF_OPEN period began with

vars == <<cb, saved, calls, budget>>

\* Calls admitted in the HALF_OPEN period that is still going on.
Probes(cs) == {c \in Calls : cs[c] = "probe"}

\* When the breaker leaves HALF_OPEN its probes become ordinary late calls.
Retire(cs, b) ==
    IF b.state = "HALF_OPEN" THEN cs
    ELSE [c \in Calls |-> IF cs[c] = "probe" THEN "running" ELSE cs[c]]

\* What every operation that may refresh leaves in budget.
BudgetAfter(b) ==
    IF cb.state # "HALF_OPEN" /\ b.state = "HALF_OPEN"
    THEN b.halfOpenRequests ELSE budget

TypeOK ==
    /\ cb \in Breaker
    /\ saved \in Row \cup {NoRow}
    /\ calls \in [Calls -> {"idle", "running", "probe"}]
    /\ budget \in Nat

Init ==
    /\ cb = Fresh
    /\ saved = NoRow
    /\ calls = [c \in Calls |-> "idle"]
    /\ budget = 0

-----------------------------------------------------------------------------
(* execute() *)

\* execute() up to the await of fn().  A refusal (CircuitBreakerOpenError)
\* changes nothing but what the refresh changed: that is Refresh.
Execute(c) ==
    LET b == Refreshed(cb)
    IN  /\ calls[c] = "idle"
        /\ CanExecute(b)
        /\ cb' = Admitted(b)
        /\ saved' = IF b = cb THEN saved ELSE RowOf(b)
        /\ calls' = [calls EXCEPT ![c] = IF b.state = "HALF_OPEN"
                                         THEN "probe" ELSE "running"]
        /\ budget' = BudgetAfter(b)

FnResolves(c) ==
    /\ calls[c] # "idle"
    /\ cb' = OnSuccess(cb)
    /\ saved' = RowOf(cb')
    /\ calls' = Retire([calls EXCEPT ![c] = "idle"], cb')
    /\ UNCHANGED budget

\* fn() throws an error isFailure accepts; classifyError calls it kind k.
FnThrows(c, k) ==
    /\ calls[c] # "idle"
    /\ cb' = OnFailure(cb, k)
    /\ saved' = RowAfterFailure(cb, k, saved)
    /\ calls' = Retire([calls EXCEPT ![c] = "idle"], cb')
    /\ UNCHANGED budget

\* fn() throws an error isFailure rejects (isLocalStreamLifecycleError):
\* neither _onSuccess nor _onFailure runs.
FnThrowsLocal(c) ==
    /\ calls[c] # "idle"
    /\ calls' = [calls EXCEPT ![c] = "idle"]
    /\ UNCHANGED <<cb, saved, budget>>

-----------------------------------------------------------------------------
(* The other entry points *)

\* canExecute(), getStatus(), getRetryAfterMs() and a refused execute().
Refresh ==
    /\ cb' = Refreshed(cb)
    /\ saved' = IF cb' = cb THEN saved ELSE RowOf(cb')
    /\ budget' = BudgetAfter(cb')
    /\ UNCHANGED calls

Reset ==
    /\ cb' = ResetBreaker(cb)
    /\ saved' = RowOf(cb')
    /\ calls' = Retire(calls, cb')
    /\ UNCHANGED budget

Reconfigure(o) ==
    /\ cb' = Reconfigured(cb, o)
    /\ saved' = RowOf(cb')
    /\ UNCHANGED <<calls, budget>>

\* The process dies; the next one constructs the breaker from the row.
Restart ==
    /\ cb' = Restored(saved)
    /\ calls' = [c \in Calls |-> "idle"]
    /\ budget' = IF cb'.state = "HALF_OPEN" THEN HalfOpenRequests ELSE budget
    /\ UNCHANGED saved

Tick ==
    /\ cb' = Later(cb)
    /\ saved' = IF saved = NoRow THEN NoRow ELSE Later(saved)
    /\ UNCHANGED <<calls, budget>>

Returns(c) ==
    \/ FnResolves(c)
    \/ \E k \in Kinds \cup {NoKind} : FnThrows(c, k)
    \/ FnThrowsLocal(c)

Next ==
    \/ \E c \in Calls : Execute(c) \/ Returns(c)
    \/ Refresh
    \/ Reset
    \/ \E o \in Options : Reconfigure(o)
    \/ Restart
    \/ Tick

Spec == Init /\ [][Next]_vars

(***************************************************************************)
(* Fairness.  Time passes; the registry sweep calls getStatus() on every   *)
(* breaker every five minutes (and every request calls canExecute()), so   *)
(* Refresh keeps happening; a call returns because upstream requests have  *)
(* timeouts.  Nothing makes an operator reset or a restart happen.         *)
(***************************************************************************)
Fairness ==
    /\ WF_vars(Tick)
    /\ WF_vars(Refresh)
    /\ \A c \in Calls : WF_vars(Returns(c))

FairSpec == Spec /\ Fairness

-----------------------------------------------------------------------------
(* Properties *)

\* HALF_OPEN is a probe: the calls admitted since it began and the calls it
\* would still admit are together no more than the allowance it began with,
\* however admissions, late results, reconfiguration and restarts interleave.
ProbeBudget ==
    cb.state = "HALF_OPEN" =>
        Cardinality(Probes(calls)) + cb.halfOpenAllowed <= budget

\* Ordinary traffic is let through although the failures have reached the
\* breaker's own threshold.
ServesAtThreshold(b) ==
    b.state \in {"CLOSED", "DEGRADED"} /\ b.failureCount >= b.failureThreshold

\* A breaker that lets ordinary traffic through is below its own threshold: no
\* order of successes, failures, probes, resets and restarts steps over it.
\* The exception is a threshold that is lowered under the count, by
\* getCircuitBreaker's new options or by a restart that brings the
\* constructor's back (or, with per-kind thresholds, an older row): then the
\* next failure opens the breaker, until successes have brought the count down.
ServesBelowThreshold ==
    [][ServesAtThreshold(cb') =>
          \/ ServesAtThreshold(cb) /\ cb'.failureCount <= cb.failureCount
          \/ cb'.failureThreshold < cb.failureThreshold
          \/ Restart /\ RowOf(cb') # RowOf(cb)]_vars

\* Backoff escalation belongs to one outage: a breaker that serves traffic
\* starts its next outage with the base reset timeout, even if it crashed
\* and restored its row in the middle of the last one.
EscalationEndsWithOutage ==
    cb.state \in {"CLOSED", "DEGRADED"} => cb.openCycleCount = 0

\* A restart loses nothing: what the constructor would restore is what the
\* breaker is (the probe allowance apart, which is not stored).
RestartLosesNothing ==
    RowOf(Restored(saved)) = RowOf(cb)

\* Within an outage the escalation never shrinks: only closing the breaker
\* (a success or a manual reset) forgets failed probes, a restart does not.
EscalationIsKept ==
    [][cb'.openCycleCount < cb.openCycleCount => cb'.state = "CLOSED"]_vars

\* OPEN is a cooldown, not a trap: late failures may extend it, but only
\* calls admitted before it opened can, so it is left in the end.
OpenIsLeft == cb.state = "OPEN" ~> cb.state # "OPEN"

-----------------------------------------------------------------------------
(* Stated by the repository, not kept by the code (README.md, section 3) *)

\* An OPEN breaker survives a restart ("DB persistence via domainState.js").
OpenIsDurable ==
    cb.state = "OPEN" => saved # NoRow /\ saved.state = "OPEN"

\* "HALF_OPEN - reset timeout elapsed; probe request allowed"
\* (docs/architecture/RESILIENCE_GUIDE.md:35): a breaker in HALF_OPEN either
\* lets a probe through or is decided by the ones it let through.
HalfOpenIsDecided ==
    (cb.state = "HALF_OPEN" /\ cb.halfOpenAllowed = 0)
        ~> (cb.state # "HALF_OPEN" \/ cb.halfOpenAllowed > 0)
=============================================================================
