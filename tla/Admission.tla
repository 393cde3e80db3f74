----------------------------- MODULE Admission -----------------------------
(***************************************************************************)
(* Adaptive admission in mode enforce: the controller, its fair queue and    *)
(* its adaptation (open-sse/services/admission).  A request has a cost; the  *)
(* costs of the running ones stay within a limit that pressure shrinks and   *)
(* feedback windows adjust.  What does not fit waits in the shared queue,    *)
(* one bucket per tenant, until capacity, its deadline or its abort.  Every  *)
(* handler is synchronous.  Arrival times are the positions in the line, so   *)
(* that no two are equal; latency and utilization are abstracted to what a    *)
(* window may conclude.                                                      *)
(***************************************************************************)
EXTENDS Naturals, FiniteSets, Sequences, SequencesExt, FiniteSetsExt

CONSTANTS
    Requests,
    Tenant, Cost,            \* of each request
    MinLimit, InitialLimit, MaxLimit,
    Step,                    \* min(increaseStep, maxIncreasePerWindow)
    MaxQueueCount, MaxQueueCost

ASSUME LimitsAssumption ==
    /\ {MinLimit, InitialLimit, MaxLimit, Step} \subseteq Nat \ {0} /\ MinLimit <= MaxLimit
    /\ {MaxQueueCount, MaxQueueCost} \subseteq Nat \ {0}
ASSUME RequestsAssumption == IsFiniteSet(Requests) /\ Cost \in [Requests -> Nat \ {0}]

VARIABLES
    limit,      \* adaptation.currentLimit
    window,     \* the open feedback window
    active,     \* requests that hold a lease
    queue,      \* FairCostQueue
    late,       \* waiting requests whose deadline is over, before their timer runs
    down        \* shutDown

vars == <<limit, window, active, queue, late, down>>

MAX_UNFITTABLE_SKIPS == 2

CostOf(S) == MapThenSumSet(LAMBDA r : Cost[r], S)
Clamp(n) == IF n < MinLimit THEN MinLimit ELSE IF n > MaxLimit THEN MaxLimit ELSE n
RecoveryCeiling == Clamp(InitialLimit)

-----------------------------------------------------------------------------
(* FairCostQueue: the tenants with waiting requests in the order of the        *)
(* rotation, the cursor, counted from 0, and the requests in the order of      *)
(* their arrival, which is also the order within the bucket of a tenant.       *)

EmptyQueue == [order |-> <<>>, cursor |-> 0, line |-> <<>>, skip |-> [r \in Requests |-> 0]]

Waiting == ToSet(queue.line)

(* The place in the line of the first entry of bucket k, and that entry.      *)
InBucket(q, k, i) == Tenant[q.line[i]] = q.order[k]
Arrival(q, k) ==
    CHOOSE i \in DOMAIN q.line : InBucket(q, k, i) /\ \A j \in 1..(i - 1) : ~InBucket(q, k, j)
BucketHead(q, k) == q.line[Arrival(q, k)]

CanAccept(q, r) ==
    Len(q.line) < MaxQueueCount /\ Cost[r] <= MaxQueueCost - CostOf(ToSet(q.line))

Joined(q, r) ==
    [q EXCEPT !.line = Append(@, r),
              !.order = IF Tenant[r] \in ToSet(@) THEN @ ELSE Append(@, Tenant[r])]

(* Without the entry i of bucket k, which goes with its last entry.           *)
Without(q, k, i) ==
    [q EXCEPT !.line = RemoveAt(@, i), !.skip[q.line[i]] = 0,
              !.order = IF \E j \in DOMAIN q.line \ {i} : InBucket(q, k, j)
                         THEN @ ELSE RemoveAt(@, k)]

(* takeAt: the successor of bucket k, which has index k - 1, is next.         *)
Taken(q, k) ==
    LET rest == Without(q, k, Arrival(q, k))
        n    == Len(rest.order)
    IN  [rest EXCEPT !.cursor = IF n = 0 THEN 0 ELSE IF n = Len(q.order) THEN k % n
                                ELSE (k - 1) % n]

\* Mutant: the cursor is only reset when the queue is empty.
Removed_CursorKept(q, k, i) ==
    LET rest == Without(q, k, i) IN
    [rest EXCEPT !.cursor = IF rest.order = <<>> THEN 0 ELSE @]

(* removeById, in the middle of a rotation.                                   *)
Removed(q, k, i) ==
    LET rest == Without(q, k, i)
        n    == Len(rest.order)
    IN  [rest EXCEPT !.cursor = IF n = Len(q.order) THEN @
                                ELSE IF n = 0 THEN 0
                                ELSE IF k <= @ THEN @ - 1
                                ELSE IF @ >= n THEN 0 ELSE @]

Turn(q, k) == (k - 1 + Len(q.order) - q.cursor) % Len(q.order)

Aged(q) == {k \in DOMAIN q.order : q.skip[BucketHead(q, k)] >= MAX_UNFITTABLE_SKIPS}

\* Mutant: the youngest aged head reserves the capacity.
Due_Youngest(q, room) ==
    LET Fitting == {k \in DOMAIN q.order : Cost[BucketHead(q, k)] <= room}
        Reserved == Aged(q)
    IN
    IF Reserved # {}
    THEN {k \in Reserved \cap Fitting : \A j \in Reserved : Arrival(q, k) >= Arrival(q, j)}
    ELSE {k \in Fitting : \A j \in Fitting : Turn(q, k) <= Turn(q, j)}

(* The bucket dequeue(room) takes from, none or one: the oldest aged head     *)
(* reserves the capacity, otherwise the first head that fits has its turn.    *)
Due(q, room) ==
    LET Fitting == {k \in DOMAIN q.order : Cost[BucketHead(q, k)] <= room}
        Reserved == Aged(q)
    IN
    IF Reserved # {}
    THEN {k \in Reserved \cap Fitting : \A j \in Reserved : Arrival(q, k) <= Arrival(q, j)}
    ELSE {k \in Fitting : \A j \in Fitting : Turn(q, k) <= Turn(q, j)}

(* Heads that are passed over because they do not fit grow older.             *)
Passed(q, k) ==
    LET over == {BucketHead(q, j) : j \in {i \in DOMAIN q.order : Turn(q, i) < Turn(q, k)}} IN
    IF Aged(q) # {} THEN q
    ELSE [q EXCEPT !.skip = [r \in Requests |-> IF r \in over THEN @[r] + 1 ELSE @[r]]]

-----------------------------------------------------------------------------
(* dispatch: the waiting requests that are due, one after the other.  One     *)
(* whose deadline is over is refused when its turn comes.                     *)

\* d is what dispatch works on: the queue and the leases.
DueNow(d, lim) ==
    IF CostOf(d.running) >= lim THEN {} ELSE Due(d.queue, lim - CostOf(d.running))

HandedOut(d, lim) ==
    {[queue |-> Taken(Passed(d.queue, k), k),
      running |-> d.running \cup ({BucketHead(d.queue, k)} \ late)] : k \in DueNow(d, lim)}

(* The outcome of the loop, which ends when nothing is due: every turn takes  *)
(* an entry out of the line, so that it has no more turns than entries.       *)
Dispatch(d, lim) ==
    LET loop[n \in 0..Len(d.queue.line)] ==
            IF n = 0 THEN {d}
            ELSE UNION {IF DueNow(e, lim) = {} THEN {e} ELSE HandedOut(e, lim) : e \in loop[n - 1]}
    IN  IF down THEN {d} ELSE loop[Len(d.queue.line)]

(* What every handler ends with: dispatch from queue q with the leases of     *)
(* running under the limit lim; w is the window so far.                       *)
Dispatched(q, running, lim, w) ==
    \E d \in Dispatch([queue |-> q, running |-> running], lim) :
        /\ limit' = lim
        /\ queue' = d.queue
        /\ active' = d.running
        /\ late' = late \cap ToSet(d.queue.line)
        /\ window' = [w EXCEPT !.loaded = @ \/ d.running # {}]
        /\ UNCHANGED down

-----------------------------------------------------------------------------
(* acquire and release.  Both may report a pressure (none is "normal"), which  *)
(* the window keeps even if the request is refused: over the limit and not     *)
(* solo, or with a full queue.  After shutdown acquire does nothing.           *)

Severity == [normal |-> 0, high |-> 1, critical |-> 2]

(* setPressure.                                                              *)
Observed(w, p) == [w EXCEPT !.pressure = IF Severity[p] > Severity[@] THEN p ELSE @]

Reports(w) == {Observed(w, p) : p \in DOMAIN Severity}

Outcomes == {"success", "upstream_error", "timeout", "local_reject", "cancelled"}

NewWindow == [pressure |-> "normal", frozen |-> FALSE, consumed |-> FALSE,
              completed |-> FALSE, loaded |-> FALSE]

Init ==
    /\ limit = Clamp(InitialLimit)
    /\ window = NewWindow
    /\ active = {} /\ queue = EmptyQueue /\ late = {}
    /\ down = FALSE

(* shouldAdmitSolo: over the limit, but within the ceiling and alone.         *)
Solo(r, w) ==
    /\ Cost[r] > limit /\ Cost[r] <= MaxLimit
    /\ active = {} /\ queue.line = <<>> /\ w.pressure = "normal"

Direct(r) == Cost[r] <= limit /\ queue.line = <<>> /\ CostOf(active) + Cost[r] <= limit

Joins(r) == Cost[r] <= limit /\ ~Direct(r) /\ CanAccept(queue, r)

Acquire(r) ==
    /\ ~down /\ r \notin active \cup Waiting
    /\ \E w \in Reports(window) :
        \/ /\ Solo(r, w) \/ Direct(r)
           /\ active' = active \cup {r}
           /\ window' = [w EXCEPT !.loaded = TRUE]
           /\ UNCHANGED <<limit, queue, late, down>>
        \/ Joins(r) /\ Dispatched(Joined(queue, r), active, limit, w)
        \/ /\ ~(Solo(r, w) \/ Direct(r) \/ Joins(r))
           /\ window' = w
           /\ UNCHANGED <<limit, active, queue, late, down>>

(* noteOutcome.                                                              *)
Noted(w, outcome) ==
    [w EXCEPT !.completed = TRUE, !.frozen = @ \/ outcome \in {"upstream_error", "timeout"}]

(* releaseLease, with the outcome of the request; released only once.         *)
Release(r) ==
    /\ r \in active
    /\ \E w \in {Noted(v, outcome) : v \in Reports(window), outcome \in Outcomes} :
        Dispatched(queue, active \ {r}, limit, w)

(* The deadline of a waiting request passes.                                  *)
Deadline(r) ==
    /\ r \in Waiting \ late
    /\ late' = late \cup {r}
    /\ UNCHANGED <<limit, window, active, queue, down>>

\* Mutant: an entry that expires leaves without a dispatch.
Leave_Quiet(r) ==
    \E i \in DOMAIN queue.line, k \in DOMAIN queue.order :
        /\ queue.line[i] = r /\ InBucket(queue, k, i)
        /\ queue' = Removed(queue, k, i) /\ late' = late \ {r}
        /\ UNCHANGED <<limit, window, active, down>>

(* expireEntry, by the timer of the deadline or by the abort of the request.  *)
Leave(r) ==
    \E i \in DOMAIN queue.line, k \in DOMAIN queue.order :
        /\ queue.line[i] = r /\ InBucket(queue, k, i)
        /\ Dispatched(Removed(queue, k, i), active, limit, window)

-----------------------------------------------------------------------------
(* Adaptation.                                                               *)

Decreased(n) == (n * 4) \div 5             \* decreaseFactor 0.8
CriticallyDecreased(n) == n \div 2         \* criticalDecreaseFactor 0.5

(* observePressure: a critical observation shrinks the limit at once, but     *)
(* only once in a window.                                                     *)
ObservePressure(p) ==
    LET raised == Observed(window, p) IN
    IF p = "critical" /\ ~window.consumed
    THEN Dispatched(queue, active,
            IF CriticallyDecreased(limit) < MinLimit THEN MinLimit ELSE CriticallyDecreased(limit),
            [raised EXCEPT !.consumed = TRUE])
    ELSE window' = raised /\ UNCHANGED <<limit, active, queue, late, down>>

(* closeAdaptationWindow.  A window that nobody used has a low utilization;   *)
(* a steep latency gradient needs a request that completed.                   *)
Utilizations == IF window.loaded THEN {"low", "middle", "high"} ELSE {"low"}
Gradients == IF window.completed THEN {"flat", "steep"} ELSE {"flat"}

Adjusted(utilization, gradient) ==
    IF window.pressure = "critical"
    THEN IF window.consumed THEN limit ELSE CriticallyDecreased(limit)
    ELSE IF window.pressure = "high" \/ gradient = "steep" THEN Decreased(limit)
    ELSE IF ~window.frozen /\ utilization = "high" /\ window.completed THEN limit + Step
    ELSE limit

\* Mutant: only a window that completed a request raises the limit.
Recovers_Completed(utilization) ==
    /\ utilization = "low" /\ window.pressure # "critical"
    /\ ~window.frozen /\ window.completed /\ limit < RecoveryCeiling

(* applyIdleRecovery.                                                        *)
Recovers(utilization) ==
    /\ utilization = "low" /\ window.pressure # "critical"
    /\ ~window.frozen /\ ~window.completed /\ limit < RecoveryCeiling

NextLimit(utilization, gradient) ==
    LET next == Adjusted(utilization, gradient) IN
    Clamp(IF ~Recovers(utilization) THEN next
          ELSE IF next + Step < RecoveryCeiling THEN next + Step ELSE RecoveryCeiling)

Tick ==
    /\ ~down
    /\ \E lim \in {NextLimit(utilization, gradient) :
                      utilization \in Utilizations, gradient \in Gradients} :
        Dispatched(queue, active, lim, [NewWindow EXCEPT !.loaded = active # {}])

Shutdown ==
    /\ ~down /\ down' = TRUE
    /\ queue' = EmptyQueue /\ late' = {}
    /\ UNCHANGED <<limit, window, active>>

-----------------------------------------------------------------------------
Next ==
    \/ \E r \in Requests : Acquire(r) \/ Release(r) \/ Deadline(r) \/ Leave(r)
    \/ \E p \in DOMAIN Severity : ObservePressure(p)
    \/ Tick
    \/ Shutdown

(* The feedback window is a timer that arms itself again.                     *)
Spec == Init /\ [][Next]_vars /\ WF_vars(Tick)

-----------------------------------------------------------------------------
(* Every variable has its type; the queue keeps within its caps, its rotation *)
(* is the tenants that wait, and its cursor is a position of the rotation.    *)
TypeOK ==
    /\ limit \in MinLimit..MaxLimit
    /\ window \in [pressure : DOMAIN Severity, frozen : BOOLEAN, consumed : BOOLEAN,
                   completed : BOOLEAN, loaded : BOOLEAN]
    /\ active \subseteq Requests /\ Waiting \cap active = {}
    /\ late \subseteq Waiting /\ down \in BOOLEAN
    /\ queue.line \in Seq(Requests) /\ IsInjective(queue.line)
    /\ Len(queue.line) <= MaxQueueCount /\ CostOf(Waiting) <= MaxQueueCost
    /\ IsInjective(queue.order) /\ ToSet(queue.order) = {Tenant[r] : r \in Waiting}
    /\ queue.cursor \in Nat /\ (queue.cursor = 0 \/ queue.cursor < Len(queue.order))
    /\ queue.skip \in [Requests -> 0..MAX_UNFITTABLE_SKIPS]

(* "a now-fitting successor is not stranded until unrelated activity"          *)
(* (controller.ts:578): whatever frees capacity or reorders the queue, no      *)
(* request is left waiting that the queue would hand out.                     *)
NobodyIsStranded == DueNow([queue |-> queue, running |-> active], limit) = {}

(* Those who were passed over as often as the limit, and those of them who     *)
(* came before r.                                                             *)
Reserving(q) == {s \in ToSet(q.line) : q.skip[s] >= MAX_UNFITTABLE_SKIPS}

Before(q, s, r) ==
    \E i, j \in DOMAIN q.line : i < j /\ q.line[i] = s /\ q.line[j] = r

Ahead(q, r) == {s \in Reserving(q) : Before(q, s, r)}

(* "prevents direct arrivals from indefinitely jumping an older reserved       *)
(* weighted request" (controller.ts:311): once a request was passed over       *)
(* MAX_UNFITTABLE_SKIPS times, and as long as it waits, nobody is admitted but *)
(* older ones in the same situation.                                          *)
ReservationsHold ==
    [][\A r \in Reserving(queue) \cap Waiting' : active' \ active \subseteq Ahead(queue, r)]_vars

(* "a latency-gradient decrease must not permanently lock the aggregate        *)
(* budget below serviceable requests" (adaptation.ts:149): an idle system      *)
(* under normal pressure gets its initial budget back.                        *)
IdleRecovers ==
    []<>(down \/ active # {} \/ window.pressure # "normal" \/ limit >= RecoveryCeiling)

=============================================================================
