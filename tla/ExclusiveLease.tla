---------------------------- MODULE ExclusiveLease ----------------------------
(***************************************************************************)
(* Exclusive connection leases of managed sessions:                        *)
(*   the table and its transactions                                        *)
(*              src/src/lib/db/exclusiveConnectionLeases.ts                *)
(*   selection  src/src/sse/services/exclusiveConnectionLeasePolicy.ts,    *)
(*              getProviderCredentialsWithQuotaPreflight in                *)
(*              src/src/sse/services/auth.ts                               *)
(*   lifecycle  src/src/app/api/v1/session-leases/route.ts                 *)
(*   the fence  assertManagedLeaseFence in                                 *)
(*              src/open-sse/handlers/chatCore.ts                          *)
(*   what follows it  BaseExecutor.execute in src/open-sse/executors/base.ts *)
(*                                                                         *)
(* Every database call is one synchronous transaction.  A call of the      *)
(* chat or of the lifecycle endpoint is not: it awaits between choosing a  *)
(* connection, claiming it, the fence and the fetch, and other calls run.  *)
(*                                                                         *)
(* Time counts units of the TTL.  A row keeps the time left to its         *)
(* expires_at, 0 from then on; of an ended row, whose time and connection  *)
(* decide nothing any more, the model keeps neither.  Which connections    *)
(* are eligible (health, quota, model) is free.                            *)
(***************************************************************************)
EXTENDS Integers, FiniteSets, Sequences, FiniteSetsExt

CONSTANTS
    Owners,        \* lease owner ids
    Keys,          \* authenticated managed API keys
    Connections,   \* connections the keys may use
    Calls,         \* endpoint calls that can be under way
    Ttl,           \* lifetime of a lease that is not renewed
    OAuth,         \* TRUE: the connections are OAuth accounts
    MaxRows        \* bound: rows ever inserted

ASSUME ConstantsAssumption ==
    /\ Ttl \in Nat \ {0}
    /\ MaxRows \in Nat
    /\ OAuth \in BOOLEAN

VARIABLES
    rows,      \* exclusive_connection_leases, in the order of id
    call       \* per call: what it asks for and how far it is

vars == <<rows, call>>

None == "none"      \* no connection chosen, or that of an ended row

Row == [owner : Owners, key : Keys, connection : Connections \cup {None},
        generation : Nat \ {0},
        state : {"ACTIVE", "RELEASED", "EXPIRED", "INVALIDATED"}, left : 0..Ttl]

Idle == [phase |-> "idle"]

\* "selecting"; "chosen": a connection is chosen, not yet claimed; "claimed";
\* "fenced": handed to the executor; "sent": the executor has called fetch.
\* `tried': excludedConnectionIds.
Call == [phase : {"selecting", "chosen", "claimed", "fenced", "sent"},
         mode : {"acquire", "request"}, owner : Owners, key : Keys,
         generation : Nat, connection : Connections \cup {None},
         tried : SUBSET Connections]

TypeOK ==
    /\ rows \in Seq(Row)
    /\ Len(rows) <= MaxRows
    /\ call \in [Calls -> Call \cup {Idle}]

Init ==
    /\ rows = <<>>
    /\ call = [r \in Calls |-> Idle]

-----------------------------------------------------------------------------
(* The table *)

Ended(row, how) == [row EXCEPT !.state = how, !.left = 0, !.connection = None]

\* Mutant: a lease outlives the instant of its expiry.
Expired_Late(t) ==
    [i \in DOMAIN t |->
        IF t[i].state = "ACTIVE" /\ t[i].left < 0 THEN Ended(t[i], "EXPIRED") ELSE t[i]]

\* expire, the first statement of every transaction.
Expired(t) ==
    [i \in DOMAIN t |->
        IF t[i].state = "ACTIVE" /\ t[i].left <= 0 THEN Ended(t[i], "EXPIRED") ELSE t[i]]

\* The rows, one at most, that active(column, value) finds.
OfOwner(t, o) == {i \in DOMAIN t : t[i].state = "ACTIVE" /\ t[i].owner = o}
OfConnection(t, c) == {i \in DOMAIN t : t[i].state = "ACTIVE" /\ t[i].connection = c}

\* Mutant: of several rows of a generation the oldest is read.
Historical_Oldest(t, o, g) ==
    {i \in DOMAIN t : /\ t[i].owner = o /\ t[i].generation = g
                      /\ \A j \in 1..(i - 1) : t[j].owner # o \/ t[j].generation # g}

\* historical: the newest row of the owner's generation.
Historical(t, o, g) ==
    {i \in DOMAIN t : /\ t[i].owner = o /\ t[i].generation = g
                      /\ \A j \in (i + 1)..Len(t) : t[j].owner # o \/ t[j].generation # g}

Generations(t, o) == {t[i].generation : i \in {j \in DOMAIN t : t[j].owner = o}}

\* Mutant: only the leases still active are counted.
NextGeneration_Active(t, o) == Max({0} \cup {t[i].generation : i \in OfOwner(t, o)}) + 1

NextGeneration(t, o) == Max({0} \cup Generations(t, o)) + 1

Insert(t, o, k, c, g) ==
    Append(t, [owner |-> o, key |-> k, connection |-> c, generation |-> g,
               state |-> "ACTIVE", left |-> Ttl])

Vacated(t, i) == [t EXCEPT ![i] = Ended(@, "INVALIDATED")]

\* Mutant: the UPDATE does not compare the key.
Named_AnyKey(t, o, k, g) == {i \in OfOwner(t, o) : t[i].generation = g /\ t[i].left > 0}

\* The row that an UPDATE by owner, generation and key changes.
Named(t, o, k, g) ==
    {i \in OfOwner(t, o) : t[i].generation = g /\ t[i].key = k /\ t[i].left > 0}

-----------------------------------------------------------------------------
(* Lifecycle endpoint: renew and release *)

Renew(o, k, g) ==
    LET t == Expired(rows)
    IN  /\ rows' = [i \in DOMAIN t |->
                       IF i \in Named(t, o, k, g) THEN [t[i] EXCEPT !.left = Ttl] ELSE t[i]]
        /\ UNCHANGED call

Release(o, k, g) ==
    LET t == Expired(rows)
    IN  /\ rows' = [i \in DOMAIN t |->
                       IF i \in Named(t, o, k, g) THEN Ended(t[i], "RELEASED") ELSE t[i]]
        /\ UNCHANGED call

\* The answer to a release that comes again: the row was released before.
AcceptsRelease(o, k, g) ==
    \E i \in Historical(rows, o, g) : rows[i].state = "RELEASED" /\ rows[i].key = k

\* A read by some other request: reconcileExpiredExclusiveConnectionLeases.
Reconcile ==
    /\ rows' = Expired(rows)
    /\ UNCHANGED call

-----------------------------------------------------------------------------
(* Selection *)

\* A call of the lifecycle endpoint (acquire) or of the chat endpoint; a chat
\* request presents a generation some client of the owner was given.
Begin(r) ==
    /\ call[r] = Idle
    /\ \E mode \in {"acquire", "request"}, o \in Owners, k \in Keys :
         \E g \in IF mode = "acquire" THEN {1} ELSE Generations(rows, o) :
            call' = [call EXCEPT ![r] =
                [phase |-> "selecting", mode |-> mode, owner |-> o, key |-> k,
                 generation |-> g, connection |-> None, tried |-> {}]]
    /\ UNCHANGED rows

Finish(r) == call' = [call EXCEPT ![r] = Idle]

\* Sessions of other requests that occupy OAuth account c; a request without
\* a session id is a session of its own.
Foreign(r, c) ==
    {x \in Calls \ {r} : /\ call[x] # Idle
                         /\ call[x].mode = "request" /\ call[x].connection = c}

\* A session's own connection is chosen if it is a candidate.  Then a request
\* for an OAuth account moves to the candidate the fewest sessions occupy.
Picks(r, m, binding, candidates) ==
    LET first == IF binding \cap candidates # {} THEN binding \cap candidates ELSE candidates
        Occupied(c) == Cardinality(Foreign(r, c))
        Peers(c) == {d \in candidates : Occupied(d) < Occupied(c)}
    IN  IF ~OAuth \/ m # "request" THEN first
        ELSE {c \in first : Peers(c) = {}}
             \cup {d \in candidates : /\ \E c \in first : d \in Peers(c)
                                      /\ \A e \in candidates : Occupied(d) <= Occupied(e)}

\* invalidateManagedConnectionLease
Invalidated(t, q) ==
    [i \in DOMAIN t |-> IF q.mode = "request" /\ i \in Named(t, q.owner, q.key, q.generation)
                        THEN Ended(t[i], "INVALIDATED") ELSE t[i]]

\* getProviderCredentials: the connections in `eligible' passed every other
\* policy; applyExclusiveConnectionLeasePolicy filters and orders them.
Select(r, eligible) ==
    LET q == call[r]
        t == Expired(rows)
        own == OfOwner(t, q.owner)
        refused == \/ q.mode = "request" /\ own = {}                \* leaseRequired
                   \/ \E i \in own : \/ t[i].key # q.key            \* leaseFenceStale
                                     \/ q.mode = "request" /\ t[i].generation # q.generation
        candidates == {c \in eligible : OfConnection(t, c) \subseteq own}
        binding == {t[i].connection : i \in own}
    IN  /\ call[r] # Idle /\ q.phase = "selecting"
        /\ \/ /\ eligible = {}                       \* no credentials, or all cooling down
              /\ rows' = Invalidated(t, q)
              /\ Finish(r)
           \/ /\ eligible # {} /\ refused
              /\ rows' = t
              /\ Finish(r)
           \/ /\ eligible # {} /\ ~refused /\ candidates = {}       \* waitingForCapacity
              /\ rows' = Invalidated(t, q)
              /\ Finish(r)
           \/ /\ eligible # {} /\ ~refused
              /\ rows' = t
              /\ \E c \in Picks(r, q.mode, binding, candidates) :
                    call' = [call EXCEPT ![r].phase = "chosen", ![r].connection = c]

\* Choose again, without the connection chosen before.
Again(r) ==
    call' = [call EXCEPT ![r].phase = "selecting", ![r].connection = None,
                         ![r].tried = @ \cup {call[r].connection}]

\* The quota preflight, awaited between choice and claim, blocks the account.
PreflightBlocks(r) ==
    /\ call[r] # Idle /\ call[r].phase = "chosen"
    /\ Again(r)
    /\ UNCHANGED rows

\* CLAIMED: the acquire action answers, a request goes on to its dispatch.
Claimed(r) ==
    IF call[r].mode = "acquire" THEN Finish(r)
    ELSE call' = [call EXCEPT ![r].phase = "claimed"]

\* Mutant: a lease is moved without asking who holds the new connection.
Claim_Blindly(r) ==
    LET q == call[r]
        t == Expired(rows)
        own == OfOwner(t, q.owner)
    IN  /\ call[r] # Idle /\ q.phase = "chosen"
        /\ \/ /\ own = {} /\ Len(t) < MaxRows
              /\ rows' = Insert(t, q.owner, q.key, q.connection, NextGeneration(t, q.owner))
              /\ Claimed(r)
           \/ \E i \in own :
                 /\ Len(t) < MaxRows
                 /\ rows' = Insert(Vacated(t, i), q.owner, q.key, q.connection, t[i].generation)
                 /\ Claimed(r)

\* commitLease: what the owner holds now is read again, then changed with
\* acquireExclusiveConnectionLease or transitionExclusiveConnectionLease.
Claim(r) ==
    LET q == call[r]
        t == Expired(rows)
        own == OfOwner(t, q.owner)
        free == OfConnection(t, q.connection) = {}
        stale(i) == \/ t[i].key # q.key
                    \/ q.mode = "request" /\ t[i].generation # q.generation
    IN  /\ call[r] # Idle /\ q.phase = "chosen"
        /\ \/ /\ own = {} /\ free /\ Len(t) < MaxRows                 \* ACQUIRED
              /\ rows' = Insert(t, q.owner, q.key, q.connection, NextGeneration(t, q.owner))
              /\ Claimed(r)
           \/ /\ own # {} /\ \E i \in own : stale(i)                  \* STALE
              /\ rows' = t
              /\ Finish(r)
           \/ \E i \in own :                                          \* REUSED
                 /\ ~stale(i) /\ t[i].connection = q.connection
                 /\ rows' = t
                 /\ Claimed(r)
           \/ \E i \in own :                                          \* TRANSITIONED
                 /\ ~stale(i) /\ free /\ Len(t) < MaxRows
                 /\ rows' = Insert(Vacated(t, i), q.owner, q.key, q.connection, t[i].generation)
                 /\ Claimed(r)
           \/ /\ ~free                                                \* CONNECTION_BUSY
              /\ \A i \in own : ~stale(i) /\ t[i].connection # q.connection
              /\ rows' = t
              /\ Again(r)

-----------------------------------------------------------------------------
(* Dispatch *)

\* Mutant: the fence compares the generation but not the connection.
Fenced_AnyConnection(t, q) ==
    \E i \in OfOwner(t, q.owner) : t[i].generation = q.generation /\ t[i].key = q.key

\* assertExclusiveConnectionLeaseFence answers VALID
Fenced(t, q) ==
    \E i \in OfOwner(t, q.owner) : /\ t[i].generation = q.generation /\ t[i].key = q.key
                                   /\ t[i].connection = q.connection

\* assertManagedLeaseFence: the request waited for a semaphore or for a
\* rate-limit slot; the fence decides whether the executor gets it.
Fence(r) ==
    /\ call[r] # Idle /\ call[r].phase = "claimed"
    /\ rows' = Expired(rows)
    /\ IF Fenced(rows', call[r])
       THEN call' = [call EXCEPT ![r].phase = "fenced"]
       ELSE Finish(r)

\* The executor's fetch.  It awaited a proactive token refresh, the signature
\* of the body or a burst gate since the fence, which is not asked again.
Send(r) ==
    /\ call[r] # Idle /\ call[r].phase = "fenced"
    /\ call' = [call EXCEPT ![r].phase = "sent"]
    /\ UNCHANGED rows

\* The executor itself tries again: with a repaired body after a 400, after a
\* delay (429, content filter), or with the next URL.
Resend(r) ==
    /\ call[r] # Idle /\ call[r].phase = "sent"
    /\ call' = [call EXCEPT ![r].phase = "fenced"]
    /\ UNCHANGED rows

\* The executor returns, or throws before or after its fetch.  That is final;
\* or another attempt follows on the same connection (token refresh, stream
\* recovery) or, after a failure, on another one.
Answer(r) ==
    /\ call[r] # Idle /\ call[r].phase \in {"fenced", "sent"}
    /\ \/ Finish(r)
       \/ call' = [call EXCEPT ![r].phase = "claimed"]
       \/ Again(r)
    /\ UNCHANGED rows

-----------------------------------------------------------------------------

\* The process dies and starts again: the table is durable, calls are not.
Restart ==
    /\ call' = [r \in Calls |-> Idle]
    /\ UNCHANGED rows

Tick ==
    /\ rows' = [i \in DOMAIN rows |->
                   IF rows[i].state = "ACTIVE" /\ rows[i].left > 0
                   THEN [rows[i] EXCEPT !.left = @ - 1] ELSE rows[i]]
    /\ UNCHANGED call

Next ==
    \/ \E o \in Owners, k \in Keys : \E g \in Generations(rows, o) :
          Renew(o, k, g) \/ Release(o, k, g)
    \/ Reconcile
    \/ \E r \in Calls : \/ Begin(r)
                        \/ /\ call[r] # Idle
                           /\ \E e \in SUBSET (Connections \ call[r].tried) : Select(r, e)
                        \/ PreflightBlocks(r) \/ Claim(r)
                        \/ Fence(r) \/ Send(r) \/ Resend(r) \/ Answer(r)
    \/ Restart
    \/ Tick

Spec == Init /\ [][Next]_vars

\* Time passes; nothing obliges a client to renew, release or call.
FairSpec == Spec /\ WF_vars(Tick)

-----------------------------------------------------------------------------
(* Properties *)

\* RESILIENCE_GUIDE.md:116, "enforces global active-owner and
\* active-connection uniqueness": the checks of the transactions alone keep
\* the two unique indexes of migration 157, whatever was chosen long before
\* it is claimed; the constraint error acquire and transition catch never
\* happens.
IndexesHold ==
    \A i, j \in DOMAIN rows :
        rows[i].state = "ACTIVE" /\ rows[j].state = "ACTIVE" /\ i # j
            => rows[i].owner # rows[j].owner /\ rows[i].connection # rows[j].connection

\* "generation remains monotonic after release and invalidation"
\* (exclusive-connection-leases.test.ts:315): a generation that was released
\* or expired is over; only a transition goes on with the same one.
GenerationsEnd ==
    \A i, j \in DOMAIN rows :
        i < j /\ rows[i].owner = rows[j].owner
            => \/ rows[i].generation < rows[j].generation
               \/ rows[i].generation = rows[j].generation /\ rows[i].state = "INVALIDATED"

\* "release is idempotent" (exclusive-connection-leases.test.ts:92): a release
\* once acknowledged is acknowledged again, whatever its owner acquires and
\* transitions before and after.
ReleaseIsIdempotent ==
    \A i \in DOMAIN rows :
        rows[i].state = "RELEASED"
            => AcceptsRelease(rows[i].owner, rows[i].key, rows[i].generation)

\* "rejects a stale generation before provider dispatch"
\* (RESILIENCE_GUIDE.md:117): a request that waited since it claimed its
\* connection does not pass the fence while another owner holds it.  What
\* happens between the fence and the fetch is SendIsExclusive, below.
FenceIsExclusive ==
    [][\A r \in Calls :
         Fence(r) /\ call'[r] # Idle =>
             \A i \in OfConnection(rows', call[r].connection) :
                 rows'[i].owner = call[r].owner]_vars

\* API_REFERENCE.md:123, "Replaying owner and generation with another key
\* fails": no call changes a live lease of another key, or passes the fence
\* under it, even if the lease changed hands after the call was let through.
ForeignKeyIsInert ==
    [][\A r \in Calls, i \in DOMAIN rows :
         /\ call[r] # Idle /\ call'[r] # call[r]
         /\ rows[i].state = "ACTIVE" /\ rows[i].left > 0
         /\ rows[i].owner = call[r].owner /\ rows[i].key # call[r].key
       => rows'[i] = rows[i] /\ ~(Fence(r) /\ call'[r] # Idle)]_vars

-----------------------------------------------------------------------------
(* What the abstract registry sees: a row that is still ACTIVE after its time *)
(* holds nothing any more.                                                    *)

Lease(x) == [owner |-> x.owner, key |-> x.key, connection |-> x.connection,
             generation |-> x.generation]

Leases(t) == {Lease(t[i]) : i \in {j \in DOMAIN t : t[j].state = "ACTIVE" /\ t[j].left > 0}}

Granted(t) == {<<t[i].owner, t[i].generation>> : i \in DOMAIN t}

\* Requests in the hands of an executor, each with the lease it passed under.
Passed(q) ==
    {<<r, Lease(q[r])>> : r \in {x \in Calls : q[x] # Idle /\ q[x].phase \in {"fenced", "sent"}}}

Registry == INSTANCE LeaseRegistry
    WITH held <- Leases(rows), granted <- Granted(rows), passed <- Passed(call)

\* RESILIENCE_GUIDE.md:116-117, "enforces global active-owner and
\* active-connection uniqueness, and rejects a stale generation before provider
\* dispatch", for everything that can happen between a choice, its claim and its
\* fence: each step of the table and of the calls is a step of the registry.  The
\* registry promises that a request reaches an executor under the lease it names
\* while that is in force; not that it still is when the executor sends.
ImplementsRegistry == Registry!Spec

Held(c) == OfConnection(Expired(rows), c) # {}

\* "until bounded TTL recovery" (exclusive-connection-leases.test.ts:264): once
\* no lease of a connection is granted or extended any more, the connection of
\* the session that vanished is free again, though nobody sweeps the table.
VanishedSessionFrees ==
    \A c \in Connections :
        (<>[][\A i \in DOMAIN rows' :
                 rows'[i].connection = c =>
                     i \in DOMAIN rows /\ rows'[i].left <= rows[i].left]_rows)
            => (Held(c) ~> ~Held(c))

-----------------------------------------------------------------------------
(* Stated by the repository, not kept by the code (README.md, section 3) *)

\* "different owners never share a managed connection"
\* (chat-managed-lease-routing.test.ts:196): nothing is sent on a connection that
\* another owner holds, however long the executor took since the fence.
SendIsExclusive ==
    [][\A r \in Calls : Send(r) =>
         \A i \in OfConnection(Expired(rows), call[r].connection) :
             rows[i].owner = call[r].owner]_vars

\* RESILIENCE_GUIDE.md:126, "The lifecycle is POST /api/v1/session-leases with
\* JSON actions acquire, renew, and release": an inference request may move or
\* lose its owner's lease, but only the acquire action starts a generation.
OnlyAcquireGrants ==
    [][\A r \in Calls : call[r] # Idle /\ call[r].mode = "request" /\ Claim(r)
         => \A o \in Owners : NextGeneration(rows', o) = NextGeneration(rows, o)]_vars

\* RESILIENCE_GUIDE.md:121-123, "a model change retains the binding while the
\* connection remains ordinarily eligible": a selection to which the
\* session's own connection is eligible chooses it.
EligibleBindingIsKept ==
    [][\A r \in Calls : \A e \in SUBSET Connections : \A i \in DOMAIN rows :
         /\ Select(r, e) /\ call'[r] # Idle /\ rows'[i].state = "ACTIVE"
         /\ rows[i].owner = call[r].owner /\ rows[i].connection \in e
       => call'[r].connection = rows[i].connection]_vars
=============================================================================
