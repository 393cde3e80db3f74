--------------------------- MODULE AccountSemaphore ---------------------------
(***************************************************************************)
(* The per-account concurrency limiter of the gateway,                     *)
(* src/open-sse/services/accountSemaphore.ts, for one semaphore key (gates *)
(* of different keys share nothing).                                       *)
(*                                                                         *)
(* chatCore acquires a slot before it calls the upstream, holds it for the *)
(* life of the response stream, and blocks the key for a cooldown after a  *)
(* quota answer; the combo router asks whether the key is full; an         *)
(* administrator may reset all keys.  The module is synchronous code run   *)
(* by one event loop: every exported function and every timer callback is  *)
(* one step.                                                               *)
(*                                                                         *)
(* Time counts units of the 50 ms by which the unblocking timer trails the *)
(* cooldown.  Calls with no cap are not limited and not modelled.          *)
(***************************************************************************)
EXTENDS Integers, FiniteSets, Sequences, SequencesExt

CONSTANTS
    Clients,       \* callers of acquire
    Caps,          \* values of maxConcurrency the callers pass
    QueueSize,     \* maxQueueSize
    MaxCooldown,   \* bound: longest cooldown passed to markBlocked
    Probes,        \* TRUE: the router calls isAccountSemaphoreFull
    Resets,        \* TRUE: the administrator resets the semaphores
    NoGate         \* stands for a key with no entry in `gates'

ASSUME ConstantsAssumption ==
    /\ IsFiniteSet(Clients)
    /\ Caps \subseteq Nat \ {0}
    /\ QueueSize \in Nat \ {0}
    /\ MaxCooldown \in Nat \ {0}
    /\ Probes \in BOOLEAN
    /\ Resets \in BOOLEAN

VARIABLES
    gate,     \* the key's entry in `gates', or NoGate
    timers,   \* markBlocked's pending timers: the time left to each
    at        \* where each client is

vars == <<gate, timers, at>>

\* "stray": holds a slot of a gate that reset has since deleted.
\* "done": holds a release function it has already called.
Places == {"idle", "queued", "holding", "stray", "done"}

\* blockedUntil: None, or the time left until it, 0 when it has passed.
None == -1

Gates == [running : Nat, max : Nat \ {0}, queue : Seq(Clients),
          blocked : {None} \cup 0..MaxCooldown, cleanup : BOOLEAN]

ASSUME NoGateAssumption == NoGate \notin Gates

TypeOK ==
    /\ gate \in Gates \cup {NoGate}
    /\ gate # NoGate => Len(gate.queue) <= QueueSize
    /\ timers \subseteq 0..(MaxCooldown + 1)
    /\ at \in [Clients -> Places]

Init ==
    /\ gate = NoGate
    /\ timers = {}
    /\ at = [c \in Clients |-> "idle"]

Created(cap) ==
    [running |-> 0, max |-> cap, queue |-> <<>>, blocked |-> None, cleanup |-> FALSE]

\* ensureGate: the last caller's cap is the gate's cap.
Ensured(cap) == IF gate = NoGate THEN Created(cap) ELSE [gate EXCEPT !.max = cap]

\* Mutant: the slot test lets one call too many in.
HasSlot_OffByOne(g) == g.running <= g.max /\ g.blocked <= 0

\* gate.running < gate.maxConcurrency && !isBlocked(gate)
HasSlot(g) == g.running < g.max /\ g.blocked <= 0

\* Mutant: one waiter more than the queue may hold.
QueueFull_OffByOne(g) == Len(g.queue) > QueueSize

QueueFull(g) == Len(g.queue) >= QueueSize

Idle(g) == g.running = 0 /\ g.queue = <<>>

\* How many waiters drainQueue lets in.
Admits(g) ==
    IF ~HasSlot(g) THEN 0
    ELSE IF Len(g.queue) < g.max - g.running THEN Len(g.queue) ELSE g.max - g.running

\* Mutant: drainQueue pops the newest waiters.
Drained_Newest(g) ==
    LET n == Admits(g)
        d == [g EXCEPT !.running = @ + n,
                       !.queue   = SubSeq(@, 1, Len(@) - n),
                       !.blocked = IF n > 0 THEN None ELSE @]
    IN  [d EXCEPT !.cleanup = @ \/ Idle(d)]

\* drainQueue; asking isBlocked forgets a cooldown that has passed.
Drained(g) ==
    LET n == Admits(g)
        d == [g EXCEPT !.running = @ + n,
                       !.queue   = SubSeq(@, n + 1, Len(@)),
                       !.blocked = IF n > 0 THEN None ELSE @]
    IN  [d EXCEPT !.cleanup = @ \/ Idle(d)]

\* Where the clients are once drainQueue(g) has resolved its waiters.
Woken(g, where) ==
    [c \in Clients |->
        IF \E i \in 1..Admits(g) : g.queue[i] = c THEN "holding" ELSE where[c]]

-----------------------------------------------------------------------------
(* Callers *)

Acquire(c) ==
    /\ at[c] \in {"idle", "done"}
    /\ \E cap \in Caps :
         LET g == [Ensured(cap) EXCEPT !.cleanup = FALSE]
         IN  \/ /\ HasSlot(g)
                /\ gate' = [g EXCEPT !.running = @ + 1, !.blocked = None]
                /\ at' = [at EXCEPT ![c] = "holding"]
             \/ /\ ~HasSlot(g)
                /\ ~QueueFull(g)
                /\ gate' = [g EXCEPT !.queue = Append(@, c)]
                /\ at' = [at EXCEPT ![c] = "queued"]
             \/ /\ ~HasSlot(g)                       \* SEMAPHORE_QUEUE_FULL
                /\ QueueFull(g)
                /\ gate' = g
                /\ UNCHANGED at
    /\ UNCHANGED timers

\* Mutant: a release that hands its slot over does not give it back first.
Freed_Kept == [gate EXCEPT !.running =
                  IF gate.queue = <<>> /\ @ > 0 THEN @ - 1 ELSE @]

\* The gate after the release of one slot, whoever releases it.
Freed == [gate EXCEPT !.running = IF @ > 0 THEN @ - 1 ELSE 0]

\* Mutant: a second call of the release function frees a second slot.
Release_Twice(c) ==
    /\ at[c] \in {"holding", "stray", "done"}
    /\ LET spent == [at EXCEPT ![c] = "done"]
       IN  IF gate = NoGate
           THEN at' = spent /\ UNCHANGED gate
           ELSE IF gate.queue # <<>>
           THEN gate' = Drained(Freed) /\ at' = Woken(Freed, spent)
           ELSE gate' = [Freed EXCEPT !.cleanup = TRUE] /\ at' = spent
    /\ UNCHANGED timers

\* Mutant: a release frees its slot and wakes nobody.
Release_NoDrain(c) ==
    /\ at[c] \in {"holding", "stray", "done"}
    /\ LET spent == [at EXCEPT ![c] = "done"]
       IN  IF at[c] = "done" \/ gate = NoGate
           THEN at' = spent /\ UNCHANGED gate
           ELSE gate' = [Freed EXCEPT !.cleanup = TRUE] /\ at' = spent
    /\ UNCHANGED timers

\* The release function: bound to the key, idempotent, so that callers may
\* call it again in finally blocks.
Release(c) ==
    /\ at[c] \in {"holding", "stray", "done"}
    /\ LET spent == [at EXCEPT ![c] = "done"]
       IN  IF at[c] = "done" \/ gate = NoGate
           THEN at' = spent /\ UNCHANGED gate
           ELSE IF gate.queue # <<>>
           THEN gate' = Drained(Freed) /\ at' = Woken(Freed, spent)
           ELSE gate' = [Freed EXCEPT !.cleanup = TRUE] /\ at' = spent
    /\ UNCHANGED timers

\* The queue timeout, or the caller's abort signal.
GivesUp(c) ==
    /\ at[c] = "queued"
    /\ \E i \in DOMAIN gate.queue :
         /\ gate.queue[i] = c
         /\ LET g == [gate EXCEPT !.queue = RemoveAt(@, i)]
            IN  gate' = [g EXCEPT !.cleanup = @ \/ Idle(g)]
    /\ at' = [at EXCEPT ![c] = "idle"]
    /\ UNCHANGED timers

\* isAccountSemaphoreFull: the answer changes nothing, but asking isBlocked
\* forgets a cooldown that has passed.
ProbeFull ==
    /\ Probes
    /\ gate # NoGate
    /\ \E cap \in Caps : gate.running < cap
    /\ gate.blocked = 0
    /\ gate' = [gate EXCEPT !.blocked = None]
    /\ UNCHANGED <<timers, at>>

-----------------------------------------------------------------------------
(* Cooldowns, timers, reset *)

\* markBlocked with a cooldown.
Block(d) ==
    /\ LET g == IF gate = NoGate THEN Created(1) ELSE gate
       IN  gate' = [g EXCEPT !.cleanup = FALSE, !.blocked = d]
    /\ timers' = timers \cup {d + 1}
    /\ UNCHANGED at

\* markBlocked with none: the key is unblocked.
Unblock ==
    /\ gate # NoGate
    /\ LET g == [gate EXCEPT !.blocked = None]
       IN  gate' = Drained(g) /\ at' = Woken(g, at)
    /\ UNCHANGED timers

\* Mutant: the callback lifts the block without draining the queue.
BlockTimer_NoDrain ==
    /\ 0 \in timers
    /\ timers' = timers \ {0}
    /\ IF gate # NoGate /\ gate.blocked = 0
       THEN gate' = [gate EXCEPT !.blocked = None]
       ELSE UNCHANGED gate
    /\ UNCHANGED at

\* The callback of markBlocked's timer.
BlockTimer ==
    /\ 0 \in timers
    /\ timers' = timers \ {0}
    /\ IF gate # NoGate /\ gate.blocked = 0
       THEN LET g == [gate EXCEPT !.blocked = None]
            IN  gate' = Drained(g) /\ at' = Woken(g, at)
       ELSE UNCHANGED <<gate, at>>

\* The callback of scheduleCleanup's timer: cleanupGateIfIdle.
CleanupTimer ==
    /\ gate # NoGate
    /\ gate.cleanup
    /\ gate' = IF Idle(gate) /\ gate.blocked <= 0 THEN NoGate
               ELSE [gate EXCEPT !.cleanup = FALSE]
    /\ UNCHANGED <<timers, at>>

\* reset, called by resetAll: waiters are rejected, holders are not told.
Reset ==
    /\ Resets
    /\ gate # NoGate
    /\ gate' = NoGate
    /\ at' = [c \in Clients |-> CASE at[c] = "queued"  -> "idle"
                                  [] at[c] = "holding" -> "stray"
                                  [] OTHER             -> at[c]]
    /\ UNCHANGED timers

Sooner(t) == IF t > 0 THEN t - 1 ELSE t

Tick ==
    /\ timers' = {Sooner(t) : t \in timers}
    /\ gate' = IF gate = NoGate THEN gate ELSE [gate EXCEPT !.blocked = Sooner(@)]
    /\ UNCHANGED at

Next ==
    \/ \E c \in Clients : Acquire(c) \/ Release(c) \/ GivesUp(c)
    \/ \E d \in 1..MaxCooldown : Block(d)
    \/ Unblock
    \/ ProbeFull
    \/ BlockTimer
    \/ CleanupTimer
    \/ Reset
    \/ Tick

Spec == Init /\ [][Next]_vars

(***************************************************************************)
(* Fairness.  A holder releases (a stream ends or is cancelled), time      *)
(* passes and due timers fire.  Nothing makes a caller give up: liveness   *)
(* is about waiters that are served, not about those that time out.        *)
(***************************************************************************)
FairSpec ==
    /\ Spec
    /\ \A c \in Clients : WF_vars(Release(c))
    /\ WF_vars(Tick) /\ WF_vars(BlockTimer) /\ WF_vars(CleanupTimer)

-----------------------------------------------------------------------------
(* Properties *)

Holding == {c \in Clients : at[c] = "holding"}
Queue == IF gate = NoGate THEN <<>> ELSE gate.queue

\* No waiter is lost or queued twice: the queue holds exactly the callers
\* whose promise is pending, once each, through drains, timeouts, aborts,
\* cleanups and resets.
QueueIsTheWaiters ==
    /\ ToSet(Queue) = {c \in Clients : at[c] = "queued"}
    /\ Cardinality(ToSet(Queue)) = Len(Queue)

\* The counter never drifts from the calls it counts (idempotent release,
\* cleanup only of idle gates) as long as nobody resets the gate.
RunningCountsHolders ==
    Cardinality(Holding) = IF gate = NoGate THEN 0 ELSE gate.running

\* No slot leaks: whatever is reset, each running call the gate counts has a
\* holder that will release it, so an account is never full for good.
NoSlotLeaks ==
    gate # NoGate => gate.running <= Cardinality(Holding)

\* A gate nobody runs on is looked after: a pending timer will lift its
\* block and drain its queue, or its queue is empty and it will be dropped.
IdleGateIsAttended ==
    (gate # NoGate /\ gate.running = 0) =>
        \/ gate.blocked # None /\ \E t \in timers : t >= gate.blocked
        \/ gate.queue = <<>> /\ gate.cleanup

\* accountSemaphore.ts:4-6, "concurrency limiter [...] Requests beyond the
\* configured concurrency cap wait in a FIFO queue until a slot opens": the
\* gate implements the abstract limiter, stray holders left out.
Limiter == INSTANCE ConcurrencyLimiter
    WITH inside  <- Holding,
         waiting <- Queue,
         cap     <- IF gate = NoGate THEN 0 ELSE gate.max

ImplementsLimiter == Limiter!Spec

\* accountSemaphore.ts:5-6, "until a slot opens, the gate is unblocked, or
\* the queue timeout expires": once the provider stops answering with quota
\* errors, a waiter is let in without waiting for its timeout.
WaitersAreServed ==
    (<>[][\A d \in 1..MaxCooldown : ~Block(d)]_vars)
        => \A c \in Clients : at[c] = "queued" ~> at[c] # "queued"

-----------------------------------------------------------------------------
(* Stated by the repository, not kept by the code (README.md, section 3) *)

\* accountSemaphore.ts:4-5, the concurrency cap: a call is let in only while
\* fewer than the cap hold a slot of the same gate.
AdmitsWithinCap ==
    [][\A c \in Clients :
         at[c] # "holding" /\ at'[c] = "holding"
             => Cardinality(Holding') <= gate'.max]_vars

\* accountSemaphore.ts:5, "wait in a FIFO queue": no call is let in past
\* calls that already wait.
NoOvertaking ==
    [][\A c \in Clients :
         at[c] \in {"idle", "done"} /\ at'[c] = "holding" => Queue = <<>>]_vars
=============================================================================
