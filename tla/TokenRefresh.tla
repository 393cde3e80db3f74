---------------------------- MODULE TokenRefresh ----------------------------
(***************************************************************************)
(* OAuth token refresh for the connections of one rotation group: the       *)
(* per-connection mutex, rotation map and staleness check of getAccessToken *)
(* (open-sse/services/tokenRefresh.ts), the lane of serializeRefresh         *)
(* (refreshSerializer.ts), the compare-and-swap guard, and the callers that  *)
(* share them: requests that refresh before they are sent or after a 401     *)
(* (executors/base.ts, handlers/chatCore.ts) and the health check            *)
(* (src/lib/tokenHealthCheck.ts).  Refresh tokens are numbered per           *)
(* connection in the order the provider issues them; the access token        *)
(* rotates with its refresh token and only its age is kept.                  *)
(***************************************************************************)
EXTENDS Naturals, Sequences

CONSTANTS
    Connections,  \* the accounts that share one lane
    Codex,        \* those whose executor turns an error result into null
    Skipped,      \* those the operator keeps out of the health check
    Requests,     \* requests in flight
    Accounts,     \* the accounts the selection may give to each of them
    Sweeper,      \* the health check, as the starter of a refresh
    MaxToken,     \* bound: tokens a provider issues per connection
    MaxPair,      \* bound: tokens it issues to any two connections together
    MaxTries,     \* attempts of refreshWithRetry (3 in the code)
    Calm          \* TRUE: the environment gives a refresh the time it needs
                  \* (see CalmReject, CalmAge, CalmLogin)

ASSUME ConnectionsAssumption ==
    /\ Codex \subseteq Connections /\ Skipped \subseteq Connections
    /\ Accounts \in [Requests -> SUBSET Connections]
ASSUME SweeperAssumption == Sweeper \notin Requests
ASSUME BoundsAssumption == MaxToken \in Nat \ {0} /\ MaxPair \in Nat /\ MaxTries \in Nat \ {0} /\ Calm \in BOOLEAN

VARIABLES
    row,      \* provider_connections: [token, age, active] per connection
    issued,   \* provider: the newest refresh token, the only one it accepts
    family,   \* provider: first token of the current login
    revoked,  \* provider: the family was revoked for a reuse
    rotated,  \* keys of tokenRotationMap: token k maps to k + 1
    job,      \* connectionRefreshMutex: the refresh under way per connection
    lane,     \* groupTail: the connections chained on it, the holder first
    request,  \* requests: their credentials object and where they wait
    sweep,    \* token a health check presented and waits for, NoToken if none
    lost      \* history: no writer will bring home the newest token, or an
              \* older answer of the rotation map took its place in the row

provider == <<issued, family, revoked>>
process == <<rotated, job, lane, request, sweep>>
vars == <<row, issued, family, revoked, rotated, job, lane, request, sweep, lost>>

NoToken  == 0
Rejected == MaxToken + 1        \* the result of an unrecoverable error
Tokens   == 1..MaxToken

Entry(stage, token, expected, by, source, result) ==
    [stage |-> stage, token |-> token, expected |-> expected,
     by |-> by, source |-> source, result |-> result]

Idle == Entry("idle", NoToken, NoToken, Sweeper, "provider", NoToken)

NewRequest(c) == [stage |-> "idle", conn |-> c, creds |-> NoToken,
                  attempted |-> NoToken, tries |-> 0]

Done(req) == [NewRequest(req.conn) EXCEPT !.stage = "done"]

Waiting == {"proactive", "reactive"}

Init ==
    /\ row = [c \in Connections |-> [token |-> 1, age |-> "fresh", active |-> TRUE]]
    /\ issued = [c \in Connections |-> 1]
    /\ family = [c \in Connections |-> 1]
    /\ revoked = [c \in Connections |-> FALSE]
    /\ rotated = [c \in Connections |-> {}]
    /\ job = [c \in Connections |-> Idle]
    /\ lane = <<>>
    /\ request \in {[r \in Requests |-> NewRequest(conn[r])] :
                        conn \in {f \in [Requests -> Connections] :
                                     \A r \in Requests : f[r] \in Accounts[r]}}
    /\ sweep = [c \in Connections |-> NoToken]
    /\ lost = [c \in Connections |-> FALSE]

-----------------------------------------------------------------------------
(* What Calm assumes: 401s are about expired or superseded access tokens; a   *)
(* new access token does not come near its expiry while a refresh is under    *)
(* way; the user does not log in again between a POST and its stored answer.  *)
CalmReject(r) == Calm => LET stored == row[request[r].conn] IN
                             stored.token # request[r].creds \/ stored.age = "ending"
CalmAge(c)    == Calm => (row[c].age = "fresh" => job[c].stage = "idle")
CalmLogin(c)  == Calm => job[c].stage \in {"idle", "queued"}

-----------------------------------------------------------------------------
\* Mutant: neither the rotation map nor the row is asked.
Opened_Trusting(c, t, expected, x) == Entry("queued", t, expected, x, "provider", NoToken)

(* getAccessToken: join the refresh under way, or open one.  A rotation map   *)
(* hit or a newer, still valid token of the row answers without the provider. *)
Opened(c, t, expected, x) ==
    LET stored == row[c].token
        newer  == stored \notin {NoToken, t}
    IN  IF t \in rotated[c]
        THEN Entry("returned", t, expected, x, "map", t + 1)
        ELSE IF newer /\ row[c].age # "ending"
        THEN Entry("returned", t, expected, x, "row", stored)
        ELSE Entry("queued", IF newer THEN stored ELSE t, expected, x, "provider", NoToken)

GetAccessToken(c, t, expected, x) ==
    IF job[c].stage # "idle" THEN UNCHANGED <<job, lane>>
    ELSE /\ job' = [job EXCEPT ![c] = Opened(c, t, expected, x)]
         /\ lane' = IF job'[c].stage = "queued" THEN Append(lane, c) ELSE lane

(* Opening a refresh with the row's newer token also puts it into the         *)
(* credentials object of the request.                                         *)
Presented(c, t, expected, x) ==
    IF job[c].stage # "idle" THEN t ELSE Opened(c, t, expected, x).token

(* A request loads the row of an active account.  Inside the lead time it     *)
(* refreshes first, without a compare-and-swap guard (base.ts).               *)
Begin(r) ==
    LET c == request[r].conn IN
    /\ request[r].stage = "idle" /\ row[c].active /\ row[c].token # NoToken
    /\ IF row[c].age = "fresh"
       THEN /\ request' = [request EXCEPT ![r].stage = "sent", ![r].creds = row[c].token]
            /\ UNCHANGED <<job, lane>>
       ELSE /\ request' = [request EXCEPT ![r].stage = "proactive",
                                          ![r].creds = row[c].token]
            /\ GetAccessToken(c, row[c].token, NoToken, r)
    /\ UNCHANGED <<row, provider, rotated, sweep, lost>>

(* A request that is served stays "sent"; a 401 or 403 starts a refresh that  *)
(* remembers the token it presents as its compare-and-swap version.           *)
Unauthorized(r) ==
    LET c == request[r].conn
        t == request[r].creds
    IN
    /\ request[r].stage = "sent" /\ CalmReject(r)
    /\ request' = [request EXCEPT ![r].stage = "reactive", ![r].attempted = t,
                                  ![r].creds = Presented(c, t, t, r)]
    /\ GetAccessToken(c, t, t, r)
    /\ UNCHANGED <<row, provider, rotated, sweep, lost>>

(* refreshWithRetry: an attempt that outlasts 30 s counts as a failed one,    *)
(* while its refresh goes on; the next attempt presents the credentials       *)
(* object as it is then.                                                      *)
NextTry(req) ==
    IF req.tries + 1 < MaxTries
    THEN [req EXCEPT !.tries = @ + 1, !.stage = "backoff"] ELSE Done(req)

TimeOut(r) ==
    /\ request[r].stage = "reactive"
    /\ request' = [request EXCEPT ![r] = NextTry(@)]
    /\ UNCHANGED <<row, provider, rotated, job, lane, sweep, lost>>

Retry(r) ==
    LET c == request[r].conn
        t == request[r].creds
        e == request[r].attempted
    IN
    /\ request[r].stage = "backoff"
    /\ request' = [request EXCEPT ![r].stage = "reactive", ![r].creds = Presented(c, t, e, r)]
    /\ GetAccessToken(c, t, e, r)
    /\ UNCHANGED <<row, provider, rotated, sweep, lost>>

(* checkConnection of the sweep: an active account about to expire.           *)
Sweep(c) ==
    /\ c \notin Skipped /\ sweep[c] = NoToken
    /\ row[c].active /\ row[c].age # "fresh" /\ row[c].token # NoToken
    /\ sweep' = [sweep EXCEPT ![c] = row[c].token]
    /\ GetAccessToken(c, row[c].token, NoToken, Sweeper)
    /\ UNCHANGED <<row, provider, rotated, request, lost>>

-----------------------------------------------------------------------------
(* serializeRefresh and the provider behind it.                               *)

\* Mutant: a refresh does not wait for the one before it in the lane.
Post_Unserialized(c) ==
    /\ job[c].stage = "queued"
    /\ job' = [job EXCEPT ![c].stage = "network"]
    /\ UNCHANGED <<row, provider, rotated, lane, request, sweep, lost>>

Post(c) ==
    /\ job[c].stage = "queued" /\ lane # <<>> /\ Head(lane) = c
    /\ job' = [job EXCEPT ![c].stage = "network"]
    /\ UNCHANGED <<row, provider, rotated, lane, request, sweep, lost>>

(* The lane is released at once when nobody queued behind, otherwise after    *)
(* the settle gap; either way before the result is recorded or stored.        *)
Release(c, result) ==
    IF Len(lane) > 1
    THEN /\ job' = [job EXCEPT ![c].stage = "settling", ![c].result = result]
         /\ UNCHANGED lane
    ELSE /\ job' = [job EXCEPT ![c].stage = "returned", ![c].result = result]
         /\ lane' = Tail(lane)

(* The provider rotates the token it accepts.  A consumed token of the same   *)
(* login revokes the family, one of an earlier login is only refused.         *)
MayIssue(c) ==
    issued[c] < MaxToken /\ \A d \in Connections \ {c} : issued[c] + issued[d] < MaxPair

Accepts(c) == ~revoked[c] /\ job[c].token = issued[c]

Rotate(c) ==
    /\ job[c].stage = "network" /\ Accepts(c) /\ MayIssue(c)
    /\ issued' = [issued EXCEPT ![c] = @ + 1]
    /\ Release(c, job[c].token + 1)
    /\ UNCHANGED <<row, family, revoked, rotated, request, sweep, lost>>

Refuse(c) ==
    /\ job[c].stage = "network" /\ ~Accepts(c)
    /\ revoked' = [revoked EXCEPT ![c] = @ \/ job[c].token >= family[c]]
    /\ Release(c, Rejected)
    /\ UNCHANGED <<row, issued, family, rotated, request, sweep, lost>>

(* A network error, before the provider saw the token or after it rotated it. *)
Unheard(c) ==
    \/ UNCHANGED <<issued, lost>>
    \/ /\ Accepts(c) /\ MayIssue(c)
       /\ issued' = [issued EXCEPT ![c] = @ + 1]
       /\ lost' = [lost EXCEPT ![c] = TRUE]

NetworkError(c) ==
    /\ job[c].stage = "network"
    /\ Unheard(c)
    /\ Release(c, NoToken)
    /\ UNCHANGED <<row, family, revoked, rotated, request, sweep>>

\* Mutant: the lane is not released after the settle gap.
SettleGap_Held(c) ==
    /\ job[c].stage = "settling"
    /\ job' = [job EXCEPT ![c].stage = "returned"]
    /\ UNCHANGED <<row, provider, rotated, lane, request, sweep, lost>>

SettleGap(c) ==
    /\ job[c].stage = "settling"
    /\ job' = [job EXCEPT ![c].stage = "returned"]
    /\ lane' = Tail(lane)
    /\ UNCHANGED <<row, provider, rotated, request, sweep, lost>>

-----------------------------------------------------------------------------
(* The end of a refresh: recordRotation, the starter's onPersist behind the   *)
(* compare-and-swap guard, then what each caller that waits does with the     *)
(* shared result.                                                             *)

Waiters(c) == {r \in Requests : request[r].conn = c /\ request[r].stage \in Waiting}

(* casGuardShouldSkipPersist: the row holds another token than the one the    *)
(* starter presented.                                                         *)
CasSkips(c) ==
    /\ job[c].expected # NoToken
    /\ row[c].token \notin {NoToken, job[c].expected}

(* A caller whose own onPersist did not run stores the result itself.         *)
FallbackWrites(c) ==
    \/ \E r \in Waiters(c) : r # job[c].by \/ CasSkips(c)
    \/ sweep[c] # NoToken /\ job[c].by # Sweeper

Stores(c) == ~CasSkips(c) \/ FallbackWrites(c)

(* The rotation map answered an older token than the row's, and its answer is *)
(* stored all the same.                                                       *)
Overwrites(c) == job[c].source = "map" /\ Stores(c) /\ row[c].token > job[c].result

\* Mutant: a request disables the account without a look at its row.
RequestDisables_Unchecked(c) ==
    c \notin Codex /\ \E r \in Waiters(c) : request[r].stage = "reactive"

(* Reactive path: an unrecoverable error disables the account unless the row  *)
(* already holds another token than the one presented.                        *)
RequestDisables(c) ==
    /\ c \notin Codex
    /\ \E r \in Waiters(c) :
        /\ request[r].stage = "reactive"
        /\ row[c].token \in {NoToken, request[r].attempted}

(* Health check: unless the row changed or its access token is still valid.   *)
SweepDisables(c) ==
    /\ sweep[c] # NoToken
    /\ row[c].token = sweep[c]
    /\ row[c].age # "fresh"

(* What a waiting request does next with the result of the refresh.           *)
AfterRefresh(req, c, result) ==
    CASE req.stage = "proactive" ->
            [req EXCEPT !.stage = "sent",
                        !.creds = IF result \in Tokens THEN result ELSE @]
      [] req.stage = "reactive" ->
            IF result = NoToken \/ (result = Rejected /\ c \in Codex)
            THEN NextTry(req) ELSE Done(req)

(* What becomes of the row: the new tokens, or an account out of service.     *)
RowAfter(c, result) ==
    IF result \in Tokens /\ Stores(c)
    THEN [token |-> result, active |-> row[c].active,
          age |-> IF job[c].source = "row" THEN row[c].age ELSE "fresh"]
    ELSE IF result = Rejected /\ SweepDisables(c)
    THEN [row[c] EXCEPT !.token = NoToken, !.active = FALSE]
    ELSE IF result = Rejected /\ RequestDisables(c)
    THEN [row[c] EXCEPT !.active = FALSE]
    ELSE row[c]

Finish(c) ==
    LET result   == job[c].result
        success  == result \in Tokens
        starter  == job[c].by
        rotation == success /\ job[c].source = "provider"
    IN
    /\ job[c].stage = "returned"
    /\ job' = [job EXCEPT ![c] = Idle]
    /\ rotated' = IF rotation
                  THEN [rotated EXCEPT ![c] = @ \cup {job[c].token}] ELSE rotated
    /\ row' = [row EXCEPT ![c] = RowAfter(c, result)]
    /\ request' = [r \in Requests |->
           IF r \in Waiters(c) THEN AfterRefresh(request[r], c, result)
           ELSE IF r = starter /\ request[r].stage = "backoff" /\ success /\ ~CasSkips(c)
           THEN [request[r] EXCEPT !.creds = result]
           ELSE request[r]]
    /\ sweep' = [sweep EXCEPT ![c] = NoToken]
    /\ lost' = [lost EXCEPT ![c] = @ \/ (rotation /\ ~Stores(c)) \/ Overwrites(c)]
    /\ UNCHANGED <<provider, lane>>

-----------------------------------------------------------------------------
(* Time, the user, and the process.                                           *)

Age(c) ==
    /\ row[c].age # "ending" /\ CalmAge(c)
    /\ row' = [row EXCEPT ![c].age = IF @ = "fresh" THEN "due" ELSE "ending"]
    /\ UNCHANGED <<provider, process, lost>>

(* cleanupRotationMap: the oldest entry passes its 60 s.                      *)
Forget(c) ==
    \E k \in rotated[c] :
        /\ \A j \in rotated[c] : k <= j
        /\ rotated' = [rotated EXCEPT ![c] = @ \ {k}]
        /\ UNCHANGED <<row, provider, job, lane, request, sweep, lost>>

(* The user authorises the account again: a new family, stored in the row.    *)
Relogin(c) ==
    LET next == issued[c] + 1 IN
    /\ CalmLogin(c)
    /\ MayIssue(c)
    /\ issued' = [issued EXCEPT ![c] = next]
    /\ family' = [family EXCEPT ![c] = next]
    /\ revoked' = [revoked EXCEPT ![c] = FALSE]
    /\ row' = [row EXCEPT ![c] = [token |-> next, age |-> "fresh", active |-> TRUE]]
    /\ lost' = [lost EXCEPT ![c] = FALSE]
    /\ UNCHANGED process

(* Only the row outlives the process.  A refresh the provider answered and    *)
(* nobody stored is lost, one it was working on may be.                       *)
Restart ==
    LET answered == {c \in Connections : job[c].source = "provider" /\ job[c].result \in Tokens}
    IN  \E unheard \in SUBSET {c \in Connections :
                job[c].stage = "network" /\ Accepts(c) /\ MayIssue(c)} :
    /\ issued' = [c \in Connections |-> IF c \in unheard THEN issued[c] + 1 ELSE issued[c]]
    /\ lost' = [c \in Connections |-> lost[c] \/ c \in unheard \cup answered]
    /\ rotated' = [c \in Connections |-> {}]
    /\ job' = [c \in Connections |-> Idle]
    /\ lane' = <<>>
    /\ request' = [r \in Requests |-> NewRequest(request[r].conn)]
    /\ sweep' = [c \in Connections |-> NoToken]
    /\ UNCHANGED <<row, family, revoked>>

-----------------------------------------------------------------------------
RefreshStep(c) ==
    Post(c) \/ Rotate(c) \/ Refuse(c) \/ NetworkError(c) \/ SettleGap(c) \/ Finish(c)

RequestStep(r) ==
    Begin(r) \/ Unauthorized(r) \/ TimeOut(r) \/ Retry(r)

Next ==
    \/ \E r \in Requests : RequestStep(r)
    \/ \E c \in Connections :
        RefreshStep(c) \/ Sweep(c) \/ Age(c) \/ Forget(c) \/ Relogin(c)
    \/ Restart

(* A POST ends, by an answer or an error; the settle gap and the backoff are  *)
(* timers; the rest are promise continuations.                                *)
Fairness ==
    /\ \A c \in Connections : WF_vars(RefreshStep(c))
    /\ \A r \in Requests : WF_vars(Retry(r))

Spec == Init /\ [][Next]_vars /\ Fairness

-----------------------------------------------------------------------------
RowType ==
    [token : 0..MaxToken, age : {"fresh", "due", "ending"}, active : BOOLEAN]

JobType ==
    [stage : {"idle", "queued", "network", "settling", "returned"},
     token : 0..MaxToken, expected : 0..MaxToken, by : Requests \cup {Sweeper},
     source : {"provider", "map", "row"}, result : 0..(MaxToken + 1)]

RequestType ==
    [stage : {"idle", "sent", "proactive", "reactive", "backoff", "done"},
     conn : Connections, creds : 0..MaxToken, attempted : 0..MaxToken,
     tries : 0..MaxTries]

(* Every variable has its type: the row never holds the error of a refresh,   *)
(* and the lane only connections of the group.                                *)
TypeOK ==
    /\ row \in [Connections -> RowType]
    /\ issued \in [Connections -> Tokens]
    /\ family \in [Connections -> Tokens]
    /\ revoked \in [Connections -> BOOLEAN]
    /\ rotated \in [Connections -> SUBSET (0..MaxToken)]
    /\ job \in [Connections -> JobType]
    /\ lane \in Seq(Connections)
    /\ request \in [Requests -> RequestType]
    /\ sweep \in [Connections -> 0..MaxToken]
    /\ lost \in [Connections -> BOOLEAN]

(* "two siblings never POST to /oauth/token concurrently": at most one        *)
(* connection of the group is at the provider, and no other one starts while  *)
(* it waits out the settle gap.                                               *)
OneRefreshPerGroup ==
    \A c, d \in Connections :
        job[c].stage \in {"network", "settling"} /\ job[d].stage \in {"network", "settling"}
            => c = d

(* Every rotation comes home: the token the provider accepts is in the row or *)
(* in the hands of the refresh that will store it, and no consumed token of   *)
(* the login was presented again.  It is lost in four ways only: a crash, a   *)
(* dead connection, a result whose persist the compare-and-swap guard skips   *)
(* and that no caller still waits for, and an answer of the rotation map      *)
(* stored over a newer token (see RowNeverReverts).  Assumes Calm.            *)
RotationsComeHome ==
    \A c \in Connections : ~lost[c] =>
        /\ ~revoked[c]
        /\ \/ row[c].token = issued[c]
           \/ /\ job[c].stage \in {"settling", "returned"}
              /\ job[c].result = issued[c]

(* An account is disabled only when the token in its row is dead: a failed    *)
(* refresh with an older token never takes a healthy account out of service.  *)
HealthyStaysActive ==
    [][\A c \in Connections : row[c].active /\ ~row'[c].active
          => revoked[c] \/ row[c].token # issued[c]]_vars

(* A request that waits for a refresh goes on, with or without new tokens.    *)
Waits(r) == request[r].stage \in Waiting \cup {"backoff"}

RefreshWaitEnds == \A r \in Requests : []<>~Waits(r)

-----------------------------------------------------------------------------
(* Stated by the repository, not kept by the code.                            *)

(* The compare-and-swap guard of #4038: a stored token is never overwritten   *)
(* by an older one.                                                           *)
RowNeverReverts ==
    [][\A c \in Connections :
          row'[c].token # NoToken => row'[c].token >= row[c].token]_vars

=============================================================================
