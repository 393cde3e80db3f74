---------------------------- MODULE ProviderBreaker ----------------------------
(***************************************************************************)
(* The provider circuit breaker as the chat pipeline uses it:              *)
(*   checkPipelineGates      src/src/sse/handlers/chatHelpers.ts           *)
(*   executeChatWithBreaker  src/src/sse/handlers/chatHelpers.ts           *)
(*   handleSingleModelChat   src/src/sse/handlers/chat.ts                  *)
(*   recordProviderFailure / recordProviderSuccess                         *)
(*                           src/open-sse/services/accountFallback.ts      *)
(*                                                                         *)
(* handleChatCore reports an upstream failure by RESOLVING with            *)
(* {success: false, status}; it does not throw.  breaker.execute(chatFn)   *)
(* therefore books a success for every answer, and the handler books the   *)
(* failure afterwards, in a later step: it awaits markAccountUnavailable,  *)
(* which cools the account down, and looks for another account first.      *)
(* What is booked is a provider-level status: 408, 500, 502, 503, 504.     *)
(*                                                                         *)
(* Which account is selected, and whether one is left, is free.            *)
(* Persistence and restarts are in CircuitBreaker.                         *)
(***************************************************************************)
EXTENDS BreakerRules, FiniteSets

CONSTANTS
    Requests,   \* chat requests for this provider that can be in flight
    Modes,      \* which modes of request the clients send
    MaxTries    \* bound: dispatches one request makes

\* "forced": the client names a connection; "pinned": a combo step does.
ASSUME ModesAssumption ==
    /\ Modes \subseteq {"single", "forced", "combo", "pinned"}
    /\ MaxTries \in Nat

VARIABLES
    cb,       \* the provider's breaker
    req,      \* per request: where it is, see below
    recent,   \* lastConnectionFailure still deduplicates combo failures
    streak,   \* history: failures booked since the last upstream success
    worst     \* history: what was reported to have failed so far

vars == <<cb, req, recent, streak, worst>>

\* "routed": picked by the combo router; "gated": looks for an account; "running": inside chatFn; "ok", "failed",
\* "refused" (by the breaker): the result is back in handleSingleModelChat;
\* "served", "answered": the response is back in the combo router.
Phases == {"idle", "routed", "gated", "running", "ok", "failed", "refused",
           "served", "answered"}

\* lastStatus of the request: of its own dispatches so far, the last one.
Statuses == {"none", "failed", "refused", "other"}

\* "unexplained": a combo was answered 503 for an outage of no known cause.
Reports == {"none", "unexplained", "proxy", "upstream"}

Request == [phase : Phases, mode : Modes, tries : 0..MaxTries, lastStatus : Statuses]

TypeOK ==
    /\ cb \in Breaker
    /\ req \in [Requests -> Request]
    /\ recent \in BOOLEAN
    /\ streak \in 0..FailureThreshold
    /\ worst \in Reports

Init ==
    /\ cb = Fresh
    /\ req \in [Requests -> {[phase |-> "idle", mode |-> m, tries |-> 0, lastStatus |-> "none"] :
                            m \in Modes}]
    /\ recent = FALSE
    /\ streak = 0
    /\ worst = "none"

Goto(r, p) == req' = [req EXCEPT ![r].phase = p]
Finish(r) ==
    req' = [req EXCEPT ![r].phase = "idle", ![r].tries = 0, ![r].lastStatus = "none"]

\* The credential loop goes on with another account, past the gate.
TryAnother(r, status) ==
    req' = [req EXCEPT ![r].phase = "gated", ![r].tries = @ + 1, ![r].lastStatus = status]

Forced(r) == req[r].mode \in {"forced", "pinned"}
Combo(r) == req[r].mode \in {"combo", "pinned"}

\* handleSingleModelChat returns an error: to the client, or to the combo
\* router, which may book it again.
Return(r) == IF Combo(r) THEN Goto(r, "answered") ELSE Finish(r)

\* breaker._onFailure()
Book == cb' = OnFailure(cb, NoKind) /\ streak' = Bump(streak, FailureThreshold)

-----------------------------------------------------------------------------
(* Admission *)

\* The combo router skips a target whose breaker is OPEN.
Route(r) ==
    /\ req[r].phase = "idle" /\ Combo(r)
    /\ cb' = Refreshed(cb)
    /\ cb'.state # "OPEN"
    /\ Goto(r, "routed")
    /\ UNCHANGED <<recent, streak, worst>>

\* checkPipelineGates: refused unless canExecute(); a request for a forced
\* connection passes anyway (ignoreCircuitBreaker).
Gate(r) ==
    /\ req[r].phase = IF Combo(r) THEN "routed" ELSE "idle"
    /\ cb' = Refreshed(cb)
    /\ IF CanExecute(cb') \/ Forced(r) THEN Goto(r, "gated") ELSE Return(r)
    /\ UNCHANGED <<recent, streak, worst>>

\* executeChatWithBreaker up to chatFn(): an account was selected and its
\* token perhaps refreshed since the gate, so the breaker is asked again.
\* CircuitBreakerOpenError becomes a result like any other: a 503.
Dispatch(r) ==
    /\ req[r].phase = "gated"
    /\ req[r].tries < MaxTries
    /\ IF Forced(r)
       THEN cb' = cb /\ Goto(r, "running")
       ELSE LET b == Refreshed(cb)
            IN  IF CanExecute(b)
                THEN cb' = Admitted(b) /\ Goto(r, "running")
                ELSE cb' = b /\ Goto(r, "refused")
    /\ UNCHANGED <<recent, streak, worst>>

-----------------------------------------------------------------------------
(* chatFn settles *)

\* What execute() books when chatFn resolves; a forced request bypasses it.
BookResolved(r) == cb' = IF Forced(r) THEN cb ELSE OnSuccess(cb)

UpstreamOk(r) ==
    /\ req[r].phase = "running"
    /\ BookResolved(r)
    /\ Goto(r, "ok")
    /\ streak' = 0
    /\ UNCHANGED <<recent, worst>>

UpstreamFails(r) ==
    /\ req[r].phase = "running"
    /\ BookResolved(r)
    /\ Goto(r, "failed")
    /\ worst' = "upstream"
    /\ UNCHANGED <<recent, streak>>

\* Mutant: an abort is booked as a failure of the provider.
Uncounted_Booked(r) ==
    /\ req[r].phase = "running"
    /\ Book
    /\ Finish(r)
    /\ UNCHANGED <<recent, worst>>

\* No provider-level status: the client went away (499), or a 4xx or 429,
\* after which another account may be tried.
Uncounted(r) ==
    /\ req[r].phase = "running"
    /\ BookResolved(r)
    /\ Finish(r) \/ TryAnother(r, "other")
    /\ UNCHANGED <<recent, streak, worst>>

\* The fast-fail probe of runWithProxyContext throws PROXY_UNREACHABLE through
\* execute(), which books a failure; executeChatWithBreaker makes it a 503.
ProxyUnreachable(r) ==
    /\ req[r].phase = "running"
    /\ IF Forced(r) THEN UNCHANGED <<cb, streak>> ELSE Book
    /\ Goto(r, "failed")
    /\ worst' = IF worst = "upstream" THEN worst ELSE "proxy"
    /\ UNCHANGED recent

-----------------------------------------------------------------------------
(* The handler records the result *)

RecordSuccess(r) ==
    /\ req[r].phase = "ok"
    /\ cb' = OnSuccess(cb)
    /\ IF Combo(r) THEN Goto(r, "served") ELSE Finish(r)
    /\ UNCHANGED <<recent, streak, worst>>

\* markAccountUnavailable cooled the account down and asked for another one.
FallBack(r) ==
    /\ req[r].phase \in {"failed", "refused"}
    /\ TryAnother(r, req[r].phase)
    /\ UNCHANGED <<cb, recent, streak, worst>>

\* No other account is asked for: shouldTripProviderBreakerForResult (after a
\* deadline of the gateway's own), or nothing (a stream that ended early).
RecordFailure(r) ==
    /\ req[r].phase = "failed"
    /\ \/ ~Combo(r) /\ Book
       \/ UNCHANGED <<cb, streak>>
    /\ Return(r)
    /\ UNCHANGED <<recent, worst>>

\* No account is selected.  If all are cooling down, the last status of this
\* request is booked, and if it has none, the last error of those accounts.
\* The answer carries that status, or 503 when none is known: a combo books it
\* again, also the unexplained one.  Or the client went away, or it is a 4xx.
NoAccount(r) ==
    /\ req[r].phase = "gated"
    /\ \/ /\ \/ req[r].lastStatus \in {"failed", "refused"}
             \/ req[r].lastStatus = "none" /\ worst \in {"proxy", "upstream"}
          /\ Book
          /\ Return(r)
          /\ UNCHANGED worst
       \/ /\ req[r].lastStatus # "other"
          /\ Return(r)
          /\ worst' = IF Combo(r) /\ worst = "none" THEN "unexplained" ELSE worst
          /\ UNCHANGED <<cb, streak>>
       \/ Finish(r) /\ UNCHANGED <<cb, streak, worst>>
    /\ UNCHANGED recent

-----------------------------------------------------------------------------
(* The combo router records the response *)

\* recordProviderSuccess: nothing while the breaker is OPEN.
RecordComboSuccess(r) ==
    LET b == Refreshed(cb)
    IN  /\ req[r].phase = "served"
        /\ IF b.state = "OPEN" THEN cb' = b /\ UNCHANGED recent
           ELSE cb' = OnSuccess(b) /\ recent' = FALSE
        /\ Finish(r)
        /\ UNCHANGED <<streak, worst>>

\* recordProviderFailure: not called if the next target is of the same
\* provider; deduplicated per connection; skipped while the breaker lets
\* nothing through.
RecordComboFailure(r) ==
    LET b == Refreshed(cb)
    IN  /\ req[r].phase = "answered"
        /\ \/ UNCHANGED <<cb, recent, streak>>
           \/ /\ ~recent
              /\ recent' = TRUE
              /\ IF CanExecute(b)
                 THEN /\ cb' = Refreshed(OnFailure(b, NoKind))
                      /\ streak' = Bump(streak, FailureThreshold)
                 ELSE cb' = b /\ UNCHANGED streak
        /\ Finish(r)
        /\ UNCHANGED worst

Tick ==
    /\ cb' = Later(cb)
    /\ recent' = FALSE
    /\ UNCHANGED <<req, streak, worst>>

Settles(r) ==
    UpstreamOk(r) \/ UpstreamFails(r) \/ Uncounted(r) \/ ProxyUnreachable(r)

Records(r) ==
    \/ RecordSuccess(r) \/ FallBack(r) \/ RecordFailure(r)
    \/ RecordComboSuccess(r) \/ RecordComboFailure(r)

Next ==
    \/ \E r \in Requests :
          Route(r) \/ Gate(r) \/ Dispatch(r) \/ NoAccount(r) \/ Settles(r) \/ Records(r)
    \/ Tick

Spec == Init /\ [][Next]_vars

(***************************************************************************)
(* Fairness.  Time passes; upstream requests have timeouts, so a request   *)
(* in flight settles and its handler goes on; clients keep asking.         *)
(***************************************************************************)
FairSpec ==
    /\ Spec
    /\ WF_vars(Tick)
    /\ \A r \in Requests : WF_vars(Route(r) \/ Gate(r)) /\ WF_vars(Dispatch(r) \/ NoAccount(r))
                           /\ WF_vars(Settles(r)) /\ WF_vars(Records(r))

-----------------------------------------------------------------------------
(* Properties *)

\* "any error while the client drops the connection must not count as a
\* provider failure" (isLocalStreamLifecycleError, circuitBreaker.ts): as long
\* as no upstream and no proxy has failed, and no combo was answered with an
\* unexplained 503, no mix of aborts, client errors, fallbacks and successes,
\* of direct, forced and combo requests trips or even degrades the breaker.
AbortsNeverTrip ==
    worst = "none" => cb.state = "CLOSED" /\ cb.failureCount = 0

\* accountFallback.ts:1029-1032, "failures during cooldown were ignored to
\* avoid indefinite lockout": requests in flight when the breaker opens may
\* push the end of its cooldown back, but it is left.
OpenIsLeft == cb.state = "OPEN" ~> cb.state # "OPEN"

-----------------------------------------------------------------------------
(* Stated by the repository, not kept by the code (README.md, section 3) *)

\* "failureThreshold controls when it opens and is skipped"
\* (RESILIENCE_GUIDE.md:45): when FailureThreshold failures were booked in a
\* row and no upstream answer succeeded, traffic is not served.
OutageOpens ==
    streak = FailureThreshold => cb.state \in {"OPEN", "HALF_OPEN"}

\* "Probe failed: OPEN with cycle count escalation" (circuitBreaker.ts:414):
\* a probe the upstream fails never closes the breaker.
FailedProbeKeepsClosedAway ==
    [][\A r \in Requests :
         UpstreamFails(r) /\ cb.state = "HALF_OPEN" => cb'.state # "CLOSED"]_vars

\* "do not reset cooldown even if one request slipped through (dispatched
\* before the open).  The cooldown resets when the breaker reaches HALF_OPEN
\* and the probe succeeds" (accountFallback.ts:1109): an OPEN breaker is never
\* closed directly.
OnlyProbesClose ==
    [][cb.state = "OPEN" => cb'.state # "CLOSED"]_vars

\* "resetTimeout escalates on repeated open->probe->open cycles"
\* (circuitBreaker.ts:6): a request that was sent to nobody does not reopen a
\* HALF_OPEN breaker.
UnsentNeverReopens ==
    [][\A r \in Requests :
         NoAccount(r) /\ req[r].lastStatus = "none" /\ cb.state = "HALF_OPEN"
             => cb'.state # "OPEN"]_vars

\* "Probing: limited requests allowed to test recovery" (circuitBreaker.ts:16):
\* a request refused because the probe is still under way does not decide it.
RefusedNeverReopens ==
    [][\A r \in Requests :
         NoAccount(r) /\ req[r].lastStatus = "refused" /\ cb.state = "HALF_OPEN"
             => cb'.state # "OPEN"]_vars

\* "Network-layer errors [...] never reached the provider - the provider may
\* be healthy" (chatPredicates.ts:32): a dead proxy alone never opens the
\* provider's breaker.
ProxyNeverTrips ==
    worst # "upstream" => cb.state # "OPEN"
=============================================================================
