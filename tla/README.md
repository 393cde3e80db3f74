# Verification of OmniRoute's routing core

OmniRoute is a gateway in front of many AI providers. A chat request is routed
to a provider and to one of several *connections* (accounts) of it, waits for a
concurrency slot of that account, is sent upstream, and its outcome is fed back
into health state that decides about later requests. This directory holds TLA+
specifications of the parts where that feedback is concurrent, the TLC models
that check them, and TLAPS proofs of what matters most about them.

Paths below are relative to the repository.

## 1. Inventory

### The parts that are modelled

**Circuit breaker** (`src/shared/utils/circuitBreaker.ts`). One object per
provider: a state (CLOSED, DEGRADED, OPEN, HALF_OPEN), failure counters, also
per failure kind, the time of the last failure, the escalation
`openCycleCount`, the probe allowance `halfOpenAllowed`, and one row in
`domain_circuit_breakers`. Operations: `execute(fn)`, which awaits `fn` between
admission and bookkeeping; `canExecute`, `getStatus`, `getRetryAfterMs`, which
lazily turn OPEN into HALF_OPEN; `reset`; `getCircuitBreaker(name, options)`,
which reconfigures; construction from the row.
*Hard:* results arrive in a later state than the one that admitted the call;
crash and restart; two-sided counters. *Correct when:* probes stay within their
allowance, a breaker that serves stays below its own threshold unless that is
lowered under the count, escalation belongs to one outage and survives a restart in it, OPEN ends.

**Provider breaker in the chat pipeline** (`src/sse/handlers/chat.ts`,
`chatHelpers.ts`, `chatPredicates.ts`, `open-sse/services/accountFallback.ts`,
`combo.ts`). The same object, called from seven places: the combo router's skip,
the pipeline gate, `execute`, the handler's booking of a success, of a failure,
of "no account is left", and the combo router's own booking with a
deduplication window. `handleChatCore` reports an upstream failure by
*resolving* with `{success: false}`. *Hard:* one request books up to four times,
in steps with awaits between. *Correct when:* what is booked is what happened.

**Account semaphore** (`open-sse/services/accountSemaphore.ts`). Per account
key: `running`, `maxConcurrency`, a FIFO queue, `blockedUntil`, a clean-up
timer. Operations: `acquire` (the cap comes with the call), the release
function, queue timeout and abort, `markBlocked` and its timer,
`isAccountSemaphoreFull`, `reset`/`resetAll`, deferred clean-up. *Hard:* timers
that are never cancelled, lazily cleared state, release functions that outlive
their gate. *Correct when:* no waiter and no slot is lost, the cap holds, the
queue is served in order and in the end.

**Exclusive connection leases** (`src/lib/db/exclusiveConnectionLeases.ts`,
`src/sse/services/exclusiveConnectionLeasePolicy.ts`, `auth.ts`,
`src/app/api/v1/session-leases/route.ts`, the fence in
`open-sse/handlers/chatCore.ts`). A durable table of leases, with an owner, a
key, a connection, a generation, a state and an expiry. Operations: acquire,
renew, release, transition, invalidate, lazy expiry, fence. *Hard:* a connection
is chosen, the quota preflight is awaited, the connection is claimed, the
request waits again and is fenced; then the executor refreshes its token, sends,
and sends again without another fence (`open-sse/executors/base.ts`); other calls,
expiry and restarts fall between. *Correct when:* a request passes the fence only
on a connection its owner holds alone (that it is also *sent* only there the code
does not keep, section 3), generations never come back, a repeated release is
recognised, a vanished client blocks nothing for ever.

**OAuth token refresh** (`open-sse/services/tokenRefresh.ts`,
`refreshSerializer.ts`, `tokenRefresh/`, the callers in `executors/base.ts`,
`handlers/chatCore.ts`, `src/lib/tokenHealthCheck.ts`,
`src/lib/usage/providerLimits.ts`). State: the row of a connection, a mutex per
connection that shares one refresh among its callers, the rotation map of
recently consumed tokens, and one *lane* per rotation group in which refreshes
queue. Operations: `getAccessToken` (join or open a refresh, ask map and row),
`serializeRefresh`, the compare-and-swap guard, `refreshWithRetry`, the sweep of
the health check, deactivation of an account whose token is rejected. *Hard:*
the provider consumes a token before anybody stores its successor, presenting
it again revokes the account, and each caller works on a snapshot of the row.
*Correct when:* refreshes of a group do not overlap, a rotated token reaches the
row, only dead accounts are disabled, nobody waits for ever.

**Batch processor** (`open-sse/services/batchProcessor.ts`,
`src/lib/db/batches.ts`, the routes under `src/app/api/v1/batches`). Tables of
batches and of item checkpoints; a poll every 10 s that recovers, starts,
cancels and expires; a worker per running batch. *Hard:* crash between an item's
dispatch and its recorded answer, cancellation and deletion under a running
worker, failing writes. *Correct when:* nothing is sent twice, answers and
verdicts stay, a completed batch accounts for every item, every batch ends.

**Admission control** (`open-sse/services/admission`). A budget of running cost,
a queue with a bucket per tenant and a rotating cursor, a feedback window.
Operations: acquire, release, expiry and abort, dispatch, pressure, window tick,
shutdown. *Hard:* who is looked at next after each removal, wake-ups, a limit
that collapses below every request. *Correct when:* nobody waits who could run,
a reservation is respected, starvation is bounded, an idle system recovers.

**Request deduplication** (`open-sse/services/requestDedup.ts`, used by
`executeProviderRequest` in `chatCore.ts`). A map from the hash of a prompt to the
promise of a running call, bounded, with a timer per call. A request that finds its
hash in the map follows the call of another one, which runs on that one's account;
both then handle the answer. *Hard:* an entry may leave the map by its call's end,
its timer or eviction, while successors of the same hash come and go. *Correct
when:* nobody joins a call that is over, a prompt has a second call only after a
timer or an eviction, followers are never orphaned, what a follower gets is what
it asked for, and what it books is about the account that was called.

### How they interact

    combo router --Route--> gate --> select account / claim lease --> semaphore
         ^                   |                                            |
         |       breaker.execute ( fence --> executor --> upstream ) <----+
         |                   |
         +---- books --- handler books, cools the account down, falls back

The breaker is shared by all requests of a provider and by all three bookers.
The semaphore's release belongs to the response stream. The lease table is the
only one of these states that is shared through the database; the breaker's row
is only read by a constructor. Admission comes before all of it: a request is
admitted, then routed. Selection and executors ask for a token refresh before the
fence or after a 401; the health check and the quota synchronisation refresh the
same rows from outside. The batch processor is a client: each of its items is one
request through the whole picture, and it keeps its own books in the database.

### The rest

`PROJECT.json` lists every component with its reason. In short: rate
limiters, connection cooldown and model lockout, combo
fallback, quota sharing and OAuth occupancy have state worth a model and are not
modelled yet (section 7). Translators, executors, dashboard, CLI, Electron, MCP and A2A
adapters are I/O and data conversion around that core and stay out.

## 2. Modules

| module | models | state | notes |
| --- | --- | --- | --- |
| `BreakerRules` | the methods of `CircuitBreaker` as operators on a record | none | shared by the next two |
| `CircuitBreaker` | one breaker, its row, its `execute` calls | `cb`, `saved`, `calls`, `budget` (history) | restart, reset, reconfiguration |
| `ProviderBreaker` | the breaker within the chat pipeline and the combo router | `cb`, `req`, `recent`, `streak` and `worst` (history) | one phase per await |
| `ConcurrencyLimiter` | abstract: what a limiter promises | `inside`, `waiting`, `cap` | |
| `AccountSemaphore` | the semaphore of one key | `gate`, `timers`, `at` | refines `ConcurrencyLimiter` |
| `LeaseRegistry` | abstract: what exclusive leases promise | `held`, `granted`, `passed` | |
| `ExclusiveLease` | table, selection, claim, fence, lifecycle endpoint | `rows`, `call` | refines `LeaseRegistry` |
| `TokenRefresh` | mutex, rotation map, lane, guard and callers for one rotation group, with the provider | `row`, `issued`, `family`, `revoked`, `rotated`, `job`, `lane`, `request`, `sweep`, `lost` (history) | network errors, time-outs, new logins, restart |
| `QuotaSync` | the quota synchronisation composed with `TokenRefresh` | the above and `sync` | shares the lane |
| `BatchProcessor` | poll, workers and routes on the two tables | `row`, `checkpoint`, `input`, `age`, `worker`, `sent` and `overrun` (history) | crash, failed writes |
| `Admission` | controller, fair queue and adaptation in mode enforce | `limit`, `window`, `active`, `queue`, `late`, `down` | the dispatch loop is a recursive function |
| `AdmissionBypass` | `Admission` with who overtook whom | the above and `bypassed` (history) | |
| `RequestDedup` | the map of shared calls, with the account fallback around it | `inflight`, `lapsed`, `evicted`, `request`, `unusable`, `guilty` (history) | requests that may be shared only |
| `MC_*` | instances for TLC: model values, symmetry | | |
| `*_proofs` | theorems and proofs | | one module per component |

Everything between two awaits is one action, since the program is one
JavaScript thread and SQLite is called synchronously. Some details of the
correspondence:

* `CircuitBreaker`: `Execute` is `execute` up to the await, `FnResolves`,
  `FnThrows`, `FnThrowsLocal` what follows it; `Refresh` is every entry point
  that refreshes, a refused `execute` included. Every action also writes the row
  exactly where the code calls `_persistToDb`, and leaves it where it returns
  before.
* `Date.now() - lastFailureTime` is one number that stops at `LongAgo`; counters
  stop at the largest value they are compared with. Both are exact for the
  comparisons made.
* `ProviderBreaker`: the phases of a request are the awaits of
  `handleSingleModelChat`. `mode` is what the client asked for: "single", a
  "forced" connection (which ignores the breaker), a "combo" step, or a combo
  step "pinned" to a connection. `Uncounted` covers 499, 4xx and 429 results.
* `AccountSemaphore`: time counts the 50 ms by which the timer of `markBlocked`
  trails the cooldown, so that the instant between the two exists.
  `at[c] = "stray"` is a holder whose gate a reset deleted.
* `ExclusiveLease`: a row keeps the time left to `expires_at`; an ended row keeps
  neither time nor connection, which every query asks of ACTIVE rows only (a repeated
  release echoes them in its answer). `Select` is
  `getProviderCredentials` with the lease policy, `Claim` is `commitLease` with
  the transaction it calls, `Fence` the last look at the table, `Send` the fetch of
  the executor, which comes awaits later, and `Resend` its own attempts (repaired
  bodies, 429, the next URL), before which nobody asks the fence again. `Answer` is
  the outcomes after which a request ends, is fenced again or selects again. In the
  abstract registry a request is `passed` on under a lease in force; it does not
  promise that the lease lasts until the fetch.

* `TokenRefresh`: tokens are numbered in the order the provider issues them; an
  access token is its age ("fresh", "due" inside the lead time, "ending" inside
  60 s). `job[c]` is the entry of `connectionRefreshMutex` with the place its
  promise has reached, `lane` the chain of `groupTail`. `Finish` is everything
  from `recordRotation` to what each waiting caller does with the shared result;
  it is one step because nothing between asks the network. `Overwrites` is the
  moment at which an answer of the rotation map is stored over a newer token; it
  and the other ways to lose a rotation set the history variable `lost`. The
  provider is
  modelled as the code expects it: it rotates on each use and revokes the family
  when a consumed token of the same login comes back.
* `BatchProcessor`: `Poll` is `processPendingBatches` with `cleanupExpiredBatches`,
  synchronous up to the timers; the steps of a worker are the awaits of
  `processBatchItems`, and those of `finalizeBatch` are separate only because a
  crash or a failing write can fall between them (`Closing` keeps the routes
  out). `sent` counts a dispatch together with its retries.
* `Admission`: each handler ends with the dispatch the code calls. `acquire` and
  `release` may report a pressure, which the window keeps even if the request is
  refused (`Reports`). Latency and
  utilisation are replaced by what a window may conclude from them; arrival
  times are positions in `line`, so two arrivals in one millisecond are ordered;
  in the code two reserved heads with the same time go in the order of the rotation
  (`queue.ts:91`).
  `MAX_UNFITTABLE_SKIPS` is 2, as in the code. The buckets of `FairCostQueue` are
  kept as one `line` in order of arrival, together with the `order` of the tenants
  that wait and the `cursor`, counted from 0 as in the code: the bucket of a
  tenant is its requests in `line`. `Dispatch` counts the turns of the `while`
  loop; each takes an entry away, so it needs no more turns than entries.

* `RequestDedup`: a call is named by its leader; everything from the look-up to the
  await is one step, and so is the settling with the `finally` block. What a call
  does inside (refresh after a 401, its retries, the semaphore) belongs to the call.
  `Throws` is an outcome no other account would mend, such as the abort of the
  leader's client; `Rejects` is one that sends each sharer to its next account,
  and an account stays unusable once a failure is booked on it.

Operators marked "Mutant" in the modules are plausible bugs: each property is
violated when the definition is replaced by the mutant named in `PROJECT.json`.

## 3. Runs

Runs that pass. `TypeOK` is a property of the runs of the breaker, the semaphore and
admission; for the other modules it is proved (section 5) and needs no run.

| run | instance | question |
| --- | --- | --- |
| `breaker` | 3 calls, threshold 3, 2 probes, 2 reconfigurations, escalation to the multiplier's cap | probe allowance, the breaker's own threshold, escalation, restart; OPEN ends |
| `provider_breaker` | 2 requests, direct and combo, 2 dispatches each | aborts and client errors never count; OPEN ends under the pipeline's bookkeeping |
| `semaphore` | 4 clients, caps 1 and 2, queue of 2, cooldowns up to 2, the router's probe | refinement, no lost waiter, exact counter |
| `semaphore_reset` | 4 clients, cap 1, resets, no probe | no leaked slot, idle gates are attended, waiters are served |
| `lease` | 2 owners, 2 connections, 2 overlapping calls, 3 rows | refinement up to the fence, uniqueness, generations |
| `refresh` | 2 accounts of one group (one of an executor that hides errors, one shown to the health check), 2 requests, 3 tokens per account and 4 together, 2 attempts | serial refreshes, tokens come home but for four named losses, no healthy account disabled, waiting ends |
| `batch` | a batch of 2 items and one of 1, one slot, 1 crash, 1 failing write | no replay, one worker, completeness, cancellation, verdicts, answers, every batch ends |
| `admission` | 4 requests of 3 tenants with costs 1 to 3, limit 1 to 4, queue of 3 requests and cost 6 | no missed wake-up, reservations in the order of arrival, recovery of the limit |
| `lease_keys` | 1 owner, 2 keys, 2 connections, 2 overlapping calls, 2 rows | another key touches nothing; expiry frees what a vanished session held |
| `dedup` | 4 requests, three with one prompt, 2 accounts, a map of one entry | listed calls run, one call per prompt, followers attached, every request ends |

*Why the bounds are enough.* Breaker: 3 calls let two probes overlap a call
admitted before the outage; `ResetTimeout` 1, cap 3 and `MaxCycles` 3 reach base,
escalated and capped cooldowns; `LongAgo` is the longest of them. Pipeline: a
breaker is opened by requests that come one after another, two requests give
every order of a late answer and a probe, and `MaxTries` 2 makes one fall back
once. Semaphore: 4 clients fill both slots and the queue beyond its end, so that
a drain admits two, and the cap can be lowered below what runs; two cooldown
lengths overlap in both orders. Leases: 2 owners on 2 connections meet as holder
and intruder; 3 rows give one owner two generations and a transition between
them; 2 rows let a lease change hands between two keys. `MaxRows`, `MaxTries`,
`MaxCooldown`, `LongAgo`, `MaxThreshold` and `MaxCycles` are the only bounds;
each is named where it is declared. Refresh: two requests on one account, or one
on each, meet as starter and joiner, as neighbours in the lane, and with the
health check; the third token of an account is the one after a new login; two
attempts let a retry meet the refresh that timed out. Batch: with one slot the
second batch waits, expires or is cancelled unstarted; two items let one be
settled and one in hand when the crash comes; one crash and one fault fall on
every step. Admission: three tenants make removals before, at and behind the
cursor; the requests of cost 3 and 2 can both be passed over twice by the light
one, so that two reservations compete; the second request of a tenant waits behind
its first. Both caps of the queue can be reached. Deduplication: with room for one entry each
new prompt evicts; three requests of one prompt are a leader, its successor after
the timer, and a follower of either. Deadlock is checked in the runs of
components that never stop; the runs `refresh`, `batch` and `admission`, and the
violation runs built on them, switch it off because their systems may rest: all
requests done and no token left to issue, all batches deleted, the controller
shut down.

*What the premises leave out.* `provider_breaker` has no requests for forced
connections, with which `OpenIsLeft` fails; `AbortsNeverTrip` is proved with
them. `semaphore_reset` has one cap: when callers of one key pass different
caps, a newcomer with the larger one can overtake a waiter again and again.
`refresh` assumes of its environment what the code takes for granted and cannot
enforce. `Calm`: a 401 is about a superseded or ending access token, a new access
token does not reach its lead time while a refresh is under way, and the user
does not log in between a POST and its stored answer. Refreshes and logins may
follow each other as closely as they like, also within the 60 s in which the
rotation map answers with an earlier rotation. `RotationsComeHome` names the four
ways in which a rotation is lost all the same (`lost`): the answer never arrives,
the process dies before the row is written, the compare-and-swap guard skips the
write and no caller waits for the result any more, or a stale request stores an
answer of the rotation map over a newer token (`chatCore.ts:3769`). The first two
no code can prevent; the last is `RowNeverReverts` below. In
`dedup` the map has room for one entry, so that the half of `ListedIsRunning` about
two entries of one prompt holds by itself there; the theorem covers every size.
The row and the breaker agree (`RestartLosesNothing`) without per-kind
thresholds, which no caller sets.

*Disagreements.* Two runs are expected to find a violation: each checks one
sentence of the repository that the code does not keep. `PROJECT.json` quotes the
sentence and the lines.

* `provider_outage`: a provider that fails all requests is not opened, since
  `execute` books each resolved failure as a success before the handler books
  the failure.
* `refresh_nested`: the quota synchronisation runs the executor's refresh inside
  the lane; the executor's own POST queues behind it in the same lane, and the
  lane stops for good. The model has the account whose row the synchronisation
  reads, another one, and a request.

The modules state more of the repository's sentences that TLC refutes. Ten have a
configuration of their own (`tlc -config X.cfg MC_M`):

* `RequestDedup_blame.cfg`, `OthersKeepServing`: a follower handles the rejection
  of its leader's account as one of its own connection (`chatCore.ts:3984`), which
  was never called: two identical requests at once on two accounts lose both to
  one bad key ("skip one bad key while other connections for the same provider
  keep serving", `docs/architecture/RESILIENCE_GUIDE.md:57`).
* `RequestDedup_hash.cfg`, `OnlyIdenticalShare`: the hash reads a list of fields;
  what is not on it (`stop`, `seed`, `n`, reasoning options) is taken from whoever
  came first, although only "stream, user, metadata" are said to be left out
  (`requestDedup.ts:126`).
* `AdmissionBypass.cfg`, `BypassIsBounded`: `takeAt` leaves the cursor where an
  emptied bucket was (`queue.ts:134`). While one light request of another tenant
  always waits behind the one that is taken, the cursor never comes back to a heavy
  request of an earlier bucket, which is not even counted as passed over, although
  after two of these capacity is to be reserved for it "instead of indefinitely
  admitting smaller work from other tenants" (`queue.ts:7-8`).
* `CircuitBreaker_probe.cfg`, `HalfOpenIsDecided`: a probe that ends in a local
  stream error is not given back, and HALF_OPEN refuses everything from then on
  ("reset timeout elapsed; probe request allowed",
  `docs/architecture/RESILIENCE_GUIDE.md:35`).
* `ProviderBreaker_late.cfg`, `OnlyProbesClose`: a success dispatched before the
  outage closes an OPEN breaker (`accountFallback.ts:1109-1112` says that one
  request that slipped through does not reset the cooldown).
* `ProviderBreaker_proxy.cfg`, `ProxyNeverTrips`: a dead proxy opens the breaker
  of a provider not reached (`chatPredicates.ts:32-33`).
* `AccountSemaphore_stuck.cfg`, `WaitersAreServed`: a probe clears the block
  without draining the queue, and the timer then does nothing: waiters stay
  although the account is idle (`accountSemaphore.ts:5-6`).
* `ExclusiveLease_late.cfg`, `SendIsExclusive`: a request passes the fence, its
  executor awaits a proactive refresh (`executors/base.ts:692-778`) before the
  fetch (`base.ts:1414`) or delays a retry (`base.ts:1550-1604`), and the lease
  expires meanwhile. Another owner is granted the connection, and the request is
  then sent on it ("different owners never share a managed connection",
  `tests/unit/chat-managed-lease-routing.test.ts:196`).
* `ExclusiveLease_binding.cfg`, `EligibleBindingIsKept`: occupancy balancing moves
  a session off its own connection (`RESILIENCE_GUIDE.md:121-123`).
* `TokenRefresh_revert.cfg`, `RowNeverReverts`: a refresh turns token 1 into 2,
  the user logs in again (3), and a stale request presents 1 after a 401. The
  rotation map answers 2, the compare-and-swap guard skips the write, and the
  fallback `if (!persistFnRan)` then stores 2 over 3, against the comment of
  `chatCore.ts:3735-3738`.

For the others no configuration is kept; each can be reproduced with the
constants given here:

* `FailedProbeKeepsClosedAway` (constants of `provider_outage`): a probe the
  upstream fails closes the breaker, for the same reason as `provider_outage`.
* `OpenIsLeft` of `ProviderBreaker` with `Modes = {"forced"}` and `FairSpec`:
  unguarded failures of requests that bypass the breaker restart its cooldown.
* `UnsentNeverReopens` (one "single" request) and `RefusedNeverReopens` (two): a
  request for which no account is left books an old error, or the refusal by the
  breaker itself, and reopens it in HALF_OPEN.
* `OpenIsDurable` with `KindLimit <- SomeKindLimits`: a per-kind trip is not
  persisted. No caller of the repository sets such thresholds.
* `AdmitsWithinCap` with `Resets = TRUE`: the release of a slot of a deleted gate
  is taken for one of the new gate, which then admits beyond its cap.
* `NoOvertaking`: between the end of a cooldown and its timer a newcomer passes
  the queue.
* `OnlyAcquireGrants`: an inference request whose lease ended while it was being
  routed acquires a new lease, which no client knows and the fence rejects.

## 4. Fairness

Fairness is stated only where the code's scheduling gives it.

* Time passes (`Tick`), and a timer that is due fires (`BlockTimer`,
  `CleanupTimer`).
* A call that is out returns: upstream requests have timeouts
  (`Returns`, `Settles`), and the handler that awaits it goes on (`Records`).
* The breaker is asked again and again: the registry sweep calls `getStatus` on
  every breaker (`Refresh`); in `ProviderBreaker`, clients keep asking (`Gate`,
  `Route`).
* A holder of a slot releases it, at the end of its stream.
* A refresh goes on: its POST ends with an answer or an error, the settle gap, the
  backoff are timers (`RefreshStep`, `Retry`). Neither that an attempt times out
  nor that a rotation entry is forgotten is required.
* The poll of the batch processor is an interval timer and a worker one chain of
  promises; a dispatch retries a bounded number of times (`Poll`, `Work`).
* A request that selected an account goes on, and a shared call ends: executors
  have deadlines for the start and the body of an answer.
* The feedback window of admission is a timer that arms itself again (`Tick`).

Nothing makes a batch be cancelled, a queued request of admission reach its
deadline, a client renew or release, an operator reset, or a waiter give up.
Two liveness properties have a premise: that providers stop answering with quota
errors (`WaitersAreServed`), and that no lease of the connection is granted or
extended any more (`VanishedSessionFrees`).

## 5. Proofs

Eight modules of proofs, checked by TLAPS with no assumption beyond the named
ASSUMEs of the constants. `PROJECT.json` lists the theorems.

* **Breaker** (`CircuitBreaker_proofs`, with lemmas on `BreakerRules`). Types;
  `ServesBelowThreshold`, `EscalationEndsWithOutage`, `EscalationIsKept`,
  `ProbeBudget`. `ServesBelowThreshold` is an action property: a serving breaker
  comes to stand at its own threshold only when new options or a restart lower that
  threshold, or a restart restores an older row. None is inductive alone, because a
  restart replaces the object by its row: the invariant carries the same facts about
  `saved`. `ProbeBudget`
  counts a set that `Execute` extends by one while the allowance shrinks by one;
  it needs the type of the allowance and the cardinality lemmas.
  `RestartLosesNothing` follows from `RowIsBreaker`, that the row (or the
  constructed breaker, while there is no row) holds what the object holds; the
  theorem assumes no per-kind thresholds, because the row stores no counts per
  kind.
* **Provider breaker** (`ProviderBreaker_proofs`). Types, and `AbortsNeverTrip`
  for all modes of request. The strengthening `CalmInv` says that while nothing
  has failed no request is in a phase or carries a last status that could be
  booked as a failure.
* **Semaphore** (`AccountSemaphore_proofs`). `LineInv`: the queue holds the
  pending clients once each, shown through the operators `Drained`, `Woken` and
  `RemoveAt` by index arithmetic. `SlotInv`: the counter never exceeds the
  holders, and equals them while nobody resets. `AttendInv`: an idle gate has a
  timer at or after its block, or an empty queue and a clean-up. The theorem
  about `IdleGateIsAttended` assumes `~Probes`, and the configuration
  `AccountSemaphore_stuck.cfg` shows why; the one about `RunningCountsHolders`
  assumes `~Resets`, since the release of a slot of a deleted gate decrements the
  counter of its successor. Under the same assumption `ImplementsLimiter` is
  proved step by step: an `Acquire`, `Release` or `GivesUp` is the step of
  `ConcurrencyLimiter` of that name, together with the waiters it lets in
  (`DrainLetsIn`); the end of a block lets in; a block, a clean-up and time only
  change what the limiter does not see, or its cap.
* **Leases** (`ExclusiveLease_proofs`). `RowsInv` joins the typing of the table,
  uniqueness (`IndexesOf`), the order of generations (`OrderOf`), that an active
  row is its owner's newest (`NewestOf`) and the bound of generations
  (`BoundedOf`). Each transaction is a composition of `Expired`, `Ended`, `Insert`;
  one lemma per operation shows that it preserves the conjuncts. `IndexesHold`,
  `GenerationsEnd`, `ReleaseIsIdempotent`, `FenceIsExclusive` and
  `ForeignKeyIsInert` (an owner's live lease is its only one, so a call under
  another key finds itself stale, wherever it stands) follow for
  any number of owners, keys, connections and calls. `ReleaseIsIdempotent` and
  `FenceIsExclusive` are proved only; no run repeats them.
  `ImplementsRegistry` maps an active row with time left to a lease in force
  (`Leases`), all rows to the generations granted (`Granted`) and the calls in
  phases "fenced" and "sent" to what was passed on (`Passed`). A claim that inserts a row is a
  `Grant`, because `NextGeneration` is above all rows of the owner, or a `Move`,
  because the row it vacates was the only one with that lease (`VacatedSeen`); a
  `Fence` that succeeds is a `Pass` under a lease in force; `Send` and `Resend` show
  the registry nothing, which is why it cannot promise more; release,
  invalidation and the tick that uses up a lease's time are an `End`. `expire`,
  which comes later than the instant it is about, shows the registry nothing
  (`ExpiredSeen`); a choice, a preflight and a renewal do not either.
* **Refresh** (`TokenRefresh_proofs`). Types and `OneRefreshPerGroup`. Mutual
  exclusion is not inductive by itself: `HolderIsHead` says that a connection at
  the provider or in its settle gap is the head of the lane. Every action only
  appends to the lane or, for the holder, takes its head away.
  `HealthyStaysActive` and `RotationsComeHome` assume `Calm`.
  The argument is per connection: no token anywhere is ahead of the provider's
  (`Known`); a rotation returns the successor of the token presented (`Numbered`);
  a refresh under way presents the live token, or the row's token is dead or was
  renewed meanwhile (`Blameless`), so an error about it disables nothing healthy;
  and the live token is in the row or in the answer on its way to it, unless it
  was lost (`Home`): an older answer of the rotation map that would be stored over
  it is exactly what `Overwrites` records. Steps of other
  connections change none of this, because whoever started a refresh is a request
  of the same connection (`Starters`).
* **Batch** (`BatchProcessor_proofs`). `NothingIsReplayed`, `AnswersAreKept`,
  `VerdictsStand`, `CancelStopsSending`, `OneWorkerPerBatch`, `CompletedIsWhole`
  and types, for any
  batches, sizes, crashes and failing writes. The invariant `IInv` joins three
  facts per batch: `RunsStarted` (a running worker's batch has a status the poll
  does not start), `InHand` (a delayed item is unsent, an awaited one is marked
  processing) and `SentOnce` (an item was sent at most once, and not at all while
  its checkpoint says so). `CancelStopsSending` adds `StopsAfter`: a worker that
  overran its cancellation waits for that one answer or stops. The limit on
  workers (`Limited`) counts: the chosen batches below the last chosen one,
  together with the running workers, are fewer than the limit. For
  `CompletedIsWhole`, `WholeInv` relates the log of a worker to the checkpoints
  line by line (`Written`) and the final counts of a row to that log (`Totals`).
* **Deduplication** (`RequestDedup_proofs`). All four safety properties, for any
  requests, accounts, hashes and limit. The invariant adds to them `LeadersAreListed`:
  a running call is in the map unless its timer fired or it was evicted. The list
  keeps its shape under `RemoveAt`, `Tail` and `Append`, shown by index lemmas.
* **Admission** (`Admission_proofs`). Types, `NobodyIsStranded` and
  `ReservationsHold`, for any requests, tenants, costs, limits and caps. `IInv`
  adds to the types what TLC confirmed first: only the head of a bucket has been
  passed over (`SkipsFit`), and nobody waits after shutdown. The first makes a
  request that was passed over twice the reason why `Aged` is not empty, on which
  a reservation rests; without the second a queue would be stranded, since
  dispatch returns at once after shutdown. Three groups of lemmas carry it. The
  sum `CostOf` is the number of units of cost, one pair per unit, so it is
  monotone and additive (`CostFacts`) although its recursion picks elements by
  CHOOSE. Each way an entry enters or leaves (`JoinedFacts`, `TakenFacts`,
  `RemovedFacts`, `PassedFacts`) keeps the rotation equal to the tenants that
  wait and the cursor within it. The loop is one invariant over its turns
  (`Reaches`): while somebody waits who reserved when it began, only those who
  reserved too and came before it (`Ahead`) have been handed out, since the oldest
  aged head is ahead of all others who reserve (`OldestIsAhead`) and no turn
  changes the order of the line (`OrderKept`); nobody was passed over again; after n
  turns nothing is due or n entries are gone (`LoopFacts`), so at its end nothing
  is due. That a recursive function exists on 0..n for every n is shown by a
  least counterexample (`Upwards`, `LoopExists`), and `DispatchIsDetermined`, that
  the loop has one outcome, shows that no handler is blocked by it.

## 6. What is only model-checked

Liveness under fairness and ENABLED are out of the prover's reach; so is
induction over data. `OpenIsLeft`, `WaitersAreServed` and `VanishedSessionFrees`
are therefore checked by TLC only, and so are `RefreshWaitEnds`, `BatchesEnd`,
`IdleRecovers` and `RequestsEnd`. Every safety property of a passing run is a
theorem. What `AdmissionBypass` refutes, and the other findings, are
counterexamples of TLC and need no proof.

Known limits: `AbortsNeverTrip` says nothing after a combo was answered with an
unexplained 503, the answer for a pool whose accounts are inactive and cooling
down, which the router books; no document promises otherwise, so it is a hazard
and not a finding. The breaker's registry can evict an object that callers still
hold. The refresh model leaves out the block of `refreshWithRetry` after five failures of a
provider, the back-off of the health check, calls without a connection id,
Copilot sub-tokens, and executors that refresh without `getAccessToken`: kiro
(`executors/kiro.ts:1028`) takes neither mutex nor lane from a request. In the
batch model only the worker meets failing writes. It shows, and no property
forbids, that a crash between `createFile` and `completeBatch` leaves a result
file nobody names, that a batch without items interrupted while finalizing fails,
that a recovered batch whose input file is gone fails although it has answers,
that progress counts go back after a recovery, and that a failing write turns a
cancelled batch into a failed one. The admission model has no virtual lanes: they
are off by default, and a lane gets one entry per round whatever room there is.
A queued request whose cost exceeds a limit that shrank later waits for its
deadline or the limit's recovery. The lease model leaves eligibility free, so it
says nothing of which connection ought to be eligible.

## 7. Plan

Done: `BreakerRules`, `CircuitBreaker`, `ProviderBreaker`; `ConcurrencyLimiter`,
`AccountSemaphore`; `LeaseRegistry`, `ExclusiveLease`; `TokenRefresh` with `QuotaSync`;
`BatchProcessor`; `Admission` with `AdmissionBypass`; `RequestDedup`.

Next, in order of importance:

1. `BreakerRegistry` (`circuitBreaker.ts:511-620`): eviction and sweep against
   holders of the object, composed with `CircuitBreaker`.
2. `ProviderRate` (`slidingWindowLimiter.ts`, `providerDefaultRateLimit.ts`):
   window limit against what waits behind it. (`rollingRpmGate.ts` has no caller.)
3. `OAuthOccupancy` (`oauthSessionOccupancy.ts`), composed with `ExclusiveLease`.
4. `ConnectionCooldown` (`accountFallback.ts`, `providerCooldownTracker.ts`):
   backoff, deduplication, expiry.
5. `ComboFallback`, `QuotaShare`.

Theorems worth proving next: an abstract map of shared calls, with a step
simulation as for `ConcurrencyLimiter` and `LeaseRegistry`; a bound on how often a
request of `Admission` can be overtaken once the cursor defect that `AdmissionBypass` shows is repaired.

## 8. Not modelled

`PROJECT.json` gives the reason for each component. By far most of the repository
is data: translation between the formats of some two hundred providers, their
executors, dashboard pages, command line and packaging. These have no state of
their own that concurrent steps could disturb, and no model of them would say
more than their code. The parts with such state that are still missing are those
of section 7.
