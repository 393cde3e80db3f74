------------------------- MODULE TokenRefresh_proofs -------------------------
(***************************************************************************)
(* Theorems about TokenRefresh: its types, that the lane admits one refresh *)
(* of the group at a time, and, in the environment the code takes for       *)
(* granted, that rotations come home and healthy accounts stay active.      *)
(***************************************************************************)
EXTENDS TokenRefresh, TLAPS

(* Whoever is at the provider or waits out the settle gap heads the lane.     *)
HolderIsHead ==
    \A c \in Connections :
        job[c].stage \in {"network", "settling"} => lane # <<>> /\ Head(lane) = c

IInv == TypeOK /\ HolderIsHead

-----------------------------------------------------------------------------
(* A refresh is opened with a token of the connection and is not at the       *)
(* provider yet.                                                              *)
LEMMA OpenedType ==
    ASSUME TypeOK, NEW c \in Connections, NEW t \in 0..MaxToken,
           NEW e \in 0..MaxToken, NEW x \in Requests \cup {Sweeper}
    PROVE  /\ Opened(c, t, e, x) \in JobType
           /\ Opened(c, t, e, x).stage \in {"queued", "returned"}
           /\ Presented(c, t, e, x) \in 0..MaxToken
<1>1. row[c].token \in 0..MaxToken
  BY DEF TypeOK, RowType
<1>2. MaxToken \in Nat
  BY BoundsAssumption
<1>3. /\ t + 1 \in 0..(MaxToken + 1) /\ row[c].token \in 0..(MaxToken + 1)
      /\ NoToken \in 0..(MaxToken + 1)
  BY <1>1, <1>2 DEF NoToken
<1>4. CASE t \in rotated[c]
  BY <1>3, <1>4 DEF Opened, Entry, Presented, JobType
<1>5. CASE t \notin rotated[c] /\ row[c].token \notin {NoToken, t} /\ row[c].age # "ending"
  BY <1>3, <1>5 DEF Opened, Entry, Presented, JobType
<1>6. CASE t \notin rotated[c] /\ ~(row[c].token \notin {NoToken, t} /\ row[c].age # "ending")
  BY <1>1, <1>3, <1>6 DEF Opened, Entry, Presented, JobType
<1> QED
  BY <1>4, <1>5, <1>6

(* getAccessToken keeps the types and moves nobody to or from the provider.   *)
LEMMA GetAccessTokenKeeps ==
    ASSUME IInv, NEW c \in Connections, NEW t \in 0..MaxToken,
           NEW e \in 0..MaxToken, NEW x \in Requests \cup {Sweeper},
           GetAccessToken(c, t, e, x)
    PROVE  /\ job' \in [Connections -> JobType]
           /\ lane' \in Seq(Connections)
           /\ HolderIsHead'
<1>1. job \in [Connections -> JobType] /\ lane \in Seq(Connections)
  BY DEF IInv, TypeOK
<1>2. CASE job[c].stage # "idle"
  <2>1. job' = job /\ lane' = lane
    BY <1>2 DEF GetAccessToken
  <2> QED
    BY <1>1, <2>1 DEF IInv, HolderIsHead
<1>3. CASE job[c].stage = "idle"
  <2>1. /\ job' = [job EXCEPT ![c] = Opened(c, t, e, x)]
        /\ lane' \in {lane, Append(lane, c)}
    BY <1>3 DEF GetAccessToken
  <2>2. /\ Opened(c, t, e, x) \in JobType
        /\ Opened(c, t, e, x).stage \in {"queued", "returned"}
    BY OpenedType DEF IInv
  <2>3. ASSUME lane # <<>> PROVE lane' # <<>> /\ Head(lane') = Head(lane)
    BY <1>1, <2>1, <2>3
  <2>4. HolderIsHead'
    <3> SUFFICES ASSUME NEW d \in Connections, job'[d].stage \in {"network", "settling"}
                 PROVE  lane' # <<>> /\ Head(lane') = d
      BY DEF HolderIsHead
    <3>1. d # c
      BY <1>1, <2>1, <2>2
    <3>2. job[d].stage \in {"network", "settling"}
      BY <1>1, <2>1, <3>1
    <3> QED
      BY <2>3, <3>2 DEF IInv, HolderIsHead
  <2>5. job' \in [Connections -> JobType] /\ lane' \in Seq(Connections)
    BY <1>1, <2>1, <2>2
  <2> QED
    BY <2>4, <2>5
<1> QED
  BY <1>2, <1>3

-----------------------------------------------------------------------------
(* The types hold at the start, and the lane is empty.                        *)
LEMMA InitIInv == Init => IInv
<1> SUFFICES ASSUME Init PROVE IInv
  OBVIOUS
<1>1. 1 \in Tokens /\ 1 \in 0..MaxToken /\ 0 \in 0..MaxToken /\ 0 \in 0..(MaxToken + 1)
  BY BoundsAssumption DEF Tokens
<1>2. 0 \in 0..MaxTries
  BY BoundsAssumption
<1>3. Idle \in JobType /\ Idle.stage = "idle"
  BY <1>1 DEF Idle, Entry, JobType, NoToken
<1>4. \A c \in Connections : NewRequest(c) \in RequestType
  BY <1>1, <1>2 DEF NewRequest, RequestType, NoToken
<1>5. request \in [Requests -> RequestType]
  BY <1>4 DEF Init
<1>6. row \in [Connections -> RowType]
  BY <1>1 DEF Init, RowType
<1>7. HolderIsHead
  BY <1>3 DEF Init, HolderIsHead
<1> QED
  BY <1>1, <1>3, <1>5, <1>6, <1>7 DEF Init, IInv, TypeOK, NoToken

(* The steps of a request.                                                    *)
LEMMA BeginKeeps == ASSUME IInv, NEW r \in Requests, Begin(r) PROVE IInv'
<1> DEFINE c == request[r].conn
<1>1. c \in Connections /\ request \in [Requests -> RequestType]
  BY DEF IInv, TypeOK, RequestType
<1>2. row[c].token \in 0..MaxToken /\ NoToken \in 0..MaxToken
  BY <1>1, BoundsAssumption DEF IInv, TypeOK, RowType, NoToken
<1>3. request' \in [Requests -> RequestType]
  BY <1>1, <1>2 DEF Begin, RequestType
<1>4. /\ job' \in [Connections -> JobType]
      /\ lane' \in Seq(Connections)
      /\ HolderIsHead'
  <2>1. CASE UNCHANGED <<job, lane>>
    BY <2>1 DEF IInv, TypeOK, HolderIsHead
  <2>2. CASE GetAccessToken(c, row[c].token, NoToken, r)
    BY <1>1, <1>2, <2>2, GetAccessTokenKeeps
  <2> QED
    BY <2>1, <2>2 DEF Begin
<1> QED
  BY <1>3, <1>4 DEF Begin, IInv, TypeOK, provider

LEMMA UnauthorizedKeeps == ASSUME IInv, NEW r \in Requests, Unauthorized(r) PROVE IInv'
<1> DEFINE c == request[r].conn
           t == request[r].creds
<1>1. c \in Connections /\ t \in 0..MaxToken /\ request \in [Requests -> RequestType]
  BY DEF IInv, TypeOK, RequestType
<1>2. GetAccessToken(c, t, t, r)
  BY DEF Unauthorized
<1>3. Presented(c, t, t, r) \in 0..MaxToken
  BY <1>1, OpenedType DEF IInv
<1>4. request' \in [Requests -> RequestType]
  <2> DEFINE p == Presented(c, t, t, r)
             q == [request[r] EXCEPT !.stage = "reactive", !.attempted = t, !.creds = p]
  <2>1. request[r] \in RequestType
    BY <1>1
  <2>2. q \in RequestType
    BY <1>1, <1>3, <2>1 DEF RequestType
  <2>3. request' = [request EXCEPT ![r] = q]
    BY DEF Unauthorized
  <2> QED
    BY <1>1, <2>2, <2>3
<1>5. /\ job' \in [Connections -> JobType]
      /\ lane' \in Seq(Connections)
      /\ HolderIsHead'
  BY <1>1, <1>2, GetAccessTokenKeeps
<1> QED
  BY <1>4, <1>5 DEF Unauthorized, IInv, TypeOK, provider

(* A request that tries again, or gives up, keeps its type.                   *)
LEMMA NextTryType ==
    ASSUME NEW q \in RequestType PROVE NextTry(q) \in RequestType /\ Done(q) \in RequestType
<1>1. 0 \in 0..MaxToken /\ 0 \in 0..MaxTries
  BY BoundsAssumption
<1>2. Done(q) \in RequestType
  BY <1>1 DEF Done, NewRequest, RequestType, NoToken
<1>3. ASSUME q.tries + 1 < MaxTries PROVE q.tries + 1 \in 0..MaxTries
  BY <1>3, BoundsAssumption DEF RequestType
<1> QED
  BY <1>2, <1>3 DEF NextTry, RequestType

LEMMA TimeOutKeeps == ASSUME IInv, NEW r \in Requests, TimeOut(r) PROVE IInv'
<1>1. request' \in [Requests -> RequestType]
  BY NextTryType DEF TimeOut, IInv, TypeOK
<1> QED
  BY <1>1 DEF TimeOut, IInv, TypeOK, HolderIsHead, provider

LEMMA RetryKeeps == ASSUME IInv, NEW r \in Requests, Retry(r) PROVE IInv'
<1> DEFINE c == request[r].conn
           t == request[r].creds
           e == request[r].attempted
<1>1. /\ c \in Connections /\ t \in 0..MaxToken /\ e \in 0..MaxToken
      /\ request \in [Requests -> RequestType]
  BY DEF IInv, TypeOK, RequestType
<1>2. GetAccessToken(c, t, e, r)
  BY DEF Retry
<1>3. Presented(c, t, e, r) \in 0..MaxToken
  BY <1>1, OpenedType DEF IInv
<1>4. request' \in [Requests -> RequestType]
  <2> DEFINE p == Presented(c, t, e, r)
             q == [request[r] EXCEPT !.stage = "reactive", !.creds = p]
  <2>1. request[r] \in RequestType
    BY <1>1
  <2>2. q \in RequestType
    BY <1>1, <1>3, <2>1 DEF RequestType
  <2>3. request' = [request EXCEPT ![r] = q]
    BY DEF Retry
  <2> QED
    BY <1>1, <2>2, <2>3
<1>5. /\ job' \in [Connections -> JobType]
      /\ lane' \in Seq(Connections)
      /\ HolderIsHead'
  BY <1>1, <1>2, GetAccessTokenKeeps
<1> QED
  BY <1>4, <1>5 DEF Retry, IInv, TypeOK, provider

(* The health check opens or joins a refresh.                                 *)
LEMMA SweepKeeps == ASSUME IInv, NEW c \in Connections, Sweep(c) PROVE IInv'
<1>1. row[c].token \in 0..MaxToken /\ NoToken \in 0..MaxToken
  BY BoundsAssumption DEF IInv, TypeOK, RowType, NoToken
<1>2. GetAccessToken(c, row[c].token, NoToken, Sweeper)
  BY DEF Sweep
<1>3. /\ job' \in [Connections -> JobType]
      /\ lane' \in Seq(Connections)
      /\ HolderIsHead'
  BY <1>1, <1>2, GetAccessTokenKeeps
<1> QED
  BY <1>1, <1>3 DEF Sweep, IInv, TypeOK, provider

(* A refresh that moves on keeps its type.                                     *)
LEMMA JobMoves ==
    ASSUME NEW j \in JobType, NEW x \in 0..(MaxToken + 1),
           NEW s \in {"idle", "queued", "network", "settling", "returned"}
    PROVE  /\ [j EXCEPT !.stage = s] \in JobType
           /\ [j EXCEPT !.stage = s, !.result = x] \in JobType
BY DEF JobType

(* Only the head of the lane goes to the provider.                            *)
LEMMA PostKeeps == ASSUME IInv, NEW c \in Connections, Post(c) PROVE IInv'
<1>1. job' \in [Connections -> JobType]
  <2>1. job' = [job EXCEPT ![c] = [job[c] EXCEPT !.stage = "network"]]
    BY DEF Post
  <2>2. job[c] \in JobType /\ 0 \in 0..(MaxToken + 1)
    BY BoundsAssumption DEF IInv, TypeOK
  <2>3. [job[c] EXCEPT !.stage = "network"] \in JobType
    BY <2>2, JobMoves
  <2> QED
    BY <2>1, <2>3 DEF IInv, TypeOK
<1>2. HolderIsHead'
  BY DEF Post, IInv, TypeOK, HolderIsHead, JobType
<1> QED
  BY <1>1, <1>2 DEF Post, IInv, TypeOK, provider

(* Whoever leaves the lane was its only holder.                               *)
LEMMA LeavingKeeps ==
    ASSUME IInv, NEW c \in Connections, job[c].stage \in {"network", "settling"},
           job' \in [Connections -> JobType], job'[c].stage = "returned",
           \A d \in Connections : d # c => job'[d] = job[d], lane' = Tail(lane)
    PROVE  lane' \in Seq(Connections) /\ HolderIsHead'
<1>1. lane \in Seq(Connections) /\ lane # <<>> /\ Head(lane) = c
  BY DEF IInv, TypeOK, HolderIsHead
<1>2. \A d \in Connections : job'[d].stage \notin {"network", "settling"}
  <2> SUFFICES ASSUME NEW d \in Connections, job'[d].stage \in {"network", "settling"}
               PROVE  FALSE
    OBVIOUS
  <2>1. d # c
    OBVIOUS
  <2>2. job[d].stage \in {"network", "settling"}
    BY <2>1
  <2> QED
    BY <1>1, <2>1, <2>2 DEF IInv, HolderIsHead
<1> QED
  <2>1. lane' \in Seq(Connections)
    BY <1>1
  <2> QED
    BY <1>2, <2>1 DEF HolderIsHead

LEMMA ReleaseKeeps ==
    ASSUME IInv, NEW c \in Connections, NEW x \in 0..(MaxToken + 1),
           job[c].stage = "network", Release(c, x)
    PROVE  /\ job' \in [Connections -> JobType]
           /\ lane' \in Seq(Connections)
           /\ HolderIsHead'
<1>1. job \in [Connections -> JobType] /\ lane \in Seq(Connections)
  BY DEF IInv, TypeOK
<1>2. CASE Len(lane) > 1
  <2>1. job' = [job EXCEPT ![c].stage = "settling", ![c].result = x] /\ lane' = lane
    BY <1>2 DEF Release
  <2>2. job' \in [Connections -> JobType]
    <3>1. job' = [job EXCEPT ![c] = [job[c] EXCEPT !.stage = "settling", !.result = x]]
      BY <1>1, <2>1
    <3>2. [job[c] EXCEPT !.stage = "settling", !.result = x] \in JobType
      BY <1>1, JobMoves
    <3> QED
      BY <1>1, <3>1, <3>2
  <2>3. HolderIsHead'
    <3> SUFFICES ASSUME NEW d \in Connections, job'[d].stage \in {"network", "settling"}
                 PROVE  lane # <<>> /\ Head(lane) = d
      BY <2>1 DEF HolderIsHead
    <3>1. job[d].stage \in {"network", "settling"}
      BY <1>1, <2>1 DEF JobType
    <3> QED
      BY <3>1 DEF IInv, HolderIsHead
  <2> QED
    BY <1>1, <2>1, <2>2, <2>3
<1>3. CASE ~(Len(lane) > 1)
  <2>1. job' = [job EXCEPT ![c].stage = "returned", ![c].result = x] /\ lane' = Tail(lane)
    BY <1>3 DEF Release
  <2>2. job' \in [Connections -> JobType]
    <3>1. job' = [job EXCEPT ![c] = [job[c] EXCEPT !.stage = "returned", !.result = x]]
      BY <1>1, <2>1
    <3>2. [job[c] EXCEPT !.stage = "returned", !.result = x] \in JobType
      BY <1>1, JobMoves
    <3> QED
      BY <1>1, <3>1, <3>2
  <2>3. job'[c].stage = "returned" /\ \A d \in Connections : d # c => job'[d] = job[d]
    BY <1>1, <2>1 DEF JobType
  <2> QED
    BY <2>1, <2>2, <2>3, LeavingKeeps
<1> QED
  BY <1>2, <1>3

LEMMA RotateKeeps == ASSUME IInv, NEW c \in Connections, Rotate(c) PROVE IInv'
<1>1. MaxToken \in Nat /\ issued[c] \in Tokens /\ issued[c] < MaxToken
  BY BoundsAssumption DEF Rotate, MayIssue, IInv, TypeOK
<1>2. job[c].token + 1 \in 0..(MaxToken + 1) /\ issued[c] + 1 \in Tokens
  BY <1>1 DEF Rotate, Accepts, Tokens
<1>3. /\ job' \in [Connections -> JobType]
      /\ lane' \in Seq(Connections)
      /\ HolderIsHead'
  BY <1>2, ReleaseKeeps DEF Rotate
<1>4. issued' \in [Connections -> Tokens]
  BY <1>2 DEF Rotate, IInv, TypeOK
<1> QED
  BY <1>3, <1>4 DEF Rotate, IInv, TypeOK

LEMMA RefuseKeeps == ASSUME IInv, NEW c \in Connections, Refuse(c) PROVE IInv'
<1>1. Rejected \in 0..(MaxToken + 1)
  BY BoundsAssumption DEF Rejected
<1>2. /\ job' \in [Connections -> JobType]
      /\ lane' \in Seq(Connections)
      /\ HolderIsHead'
  BY <1>1, ReleaseKeeps DEF Refuse
<1>3. revoked' \in [Connections -> BOOLEAN]
  <2>1. (revoked[c] \/ job[c].token >= family[c]) \in BOOLEAN
    OBVIOUS
  <2> QED
    BY <2>1 DEF Refuse, IInv, TypeOK
<1> QED
  BY <1>2, <1>3 DEF Refuse, IInv, TypeOK

LEMMA NetworkErrorKeeps == ASSUME IInv, NEW c \in Connections, NetworkError(c) PROVE IInv'
<1>1. NoToken \in 0..(MaxToken + 1)
  BY BoundsAssumption DEF NoToken
<1>2. /\ job' \in [Connections -> JobType]
      /\ lane' \in Seq(Connections)
      /\ HolderIsHead'
  BY <1>1, ReleaseKeeps DEF NetworkError
<1>3. issued' \in [Connections -> Tokens] /\ lost' \in [Connections -> BOOLEAN]
  <2>1. CASE UNCHANGED <<issued, lost>>
    BY <2>1 DEF IInv, TypeOK
  <2>2. CASE /\ MayIssue(c)
             /\ issued' = [issued EXCEPT ![c] = @ + 1]
             /\ lost' = [lost EXCEPT ![c] = TRUE]
    <3>1. issued[c] + 1 \in Tokens
      BY <2>2, BoundsAssumption DEF MayIssue, Tokens, IInv, TypeOK
    <3> QED
      BY <2>2, <3>1 DEF IInv, TypeOK
  <2> QED
    BY <2>1, <2>2 DEF NetworkError, Unheard
<1> QED
  BY <1>2, <1>3 DEF NetworkError, IInv, TypeOK

LEMMA SettleGapKeeps == ASSUME IInv, NEW c \in Connections, SettleGap(c) PROVE IInv'
<1>1. job' \in [Connections -> JobType]
  <2>1. job \in [Connections -> JobType]
    BY DEF IInv, TypeOK
  <2>2. job[c] \in JobType
    BY <2>1
  <2>3. [job[c] EXCEPT !.stage = "returned"] \in JobType
    BY <2>2 DEF JobType
  <2>4. job' = [job EXCEPT ![c] = [job[c] EXCEPT !.stage = "returned"]]
    BY DEF SettleGap
  <2> QED
    BY <2>1, <2>3, <2>4
<1>2. job'[c].stage = "returned" /\ \A d \in Connections : d # c => job'[d] = job[d]
  BY DEF SettleGap, IInv, TypeOK, JobType
<1>3. lane' \in Seq(Connections) /\ HolderIsHead'
  BY <1>1, <1>2, LeavingKeeps DEF SettleGap
<1> QED
  BY <1>1, <1>3 DEF SettleGap, IInv, TypeOK, provider

(* What a waiting request does with the result keeps its type.                *)
LEMMA AfterRefreshType ==
    ASSUME NEW q \in RequestType, q.stage \in Waiting, NEW c, NEW x
    PROVE  AfterRefresh(q, c, x) \in RequestType
<1>1. CASE q.stage = "proactive"
  <2>1. x \in Tokens => x \in 0..MaxToken
    BY DEF Tokens
  <2>2. AfterRefresh(q, c, x) = [q EXCEPT !.stage = "sent",
                                          !.creds = IF x \in Tokens THEN x ELSE @]
    BY <1>1 DEF AfterRefresh
  <2> QED
    BY <2>1, <2>2 DEF RequestType
<1>2. CASE q.stage = "reactive"
  <2>1. AfterRefresh(q, c, x) \in {NextTry(q), Done(q)}
    BY <1>2 DEF AfterRefresh
  <2> QED
    BY <2>1, NextTryType
<1> QED
  BY <1>1, <1>2 DEF Waiting

(* A row that a refresh stored into, disabled or left alone keeps its type.   *)
LEMMA RowAfterType ==
    ASSUME TypeOK, NEW c \in Connections, NEW x PROVE RowAfter(c, x) \in RowType
<1>1. row[c] \in RowType /\ NoToken \in 0..MaxToken
  BY BoundsAssumption DEF TypeOK, NoToken
<1>2. x \in Tokens => x \in 0..MaxToken
  BY DEF Tokens
<1> QED
  BY <1>1, <1>2 DEF RowAfter, RowType

LEMMA FinishKeeps == ASSUME IInv, NEW c \in Connections, Finish(c) PROVE IInv'
<1> DEFINE x == job[c].result
<1>1. /\ job \in [Connections -> JobType] /\ row[c] \in RowType
      /\ request \in [Requests -> RequestType]
  BY DEF IInv, TypeOK
<1>2. job' \in [Connections -> JobType] /\ HolderIsHead'
  <2>1. NoToken \in 0..MaxToken /\ NoToken \in 0..(MaxToken + 1)
    BY BoundsAssumption DEF NoToken
  <2>2. Idle \in JobType /\ Idle.stage = "idle"
    BY <2>1 DEF Idle, Entry, JobType
  <2>3. job' = [job EXCEPT ![c] = Idle] /\ lane' = lane
    BY DEF Finish
  <2>4. HolderIsHead'
    BY <1>1, <2>2, <2>3 DEF IInv, HolderIsHead
  <2> QED
    BY <1>1, <2>2, <2>3, <2>4
<1>3. rotated' \in [Connections -> SUBSET (0..MaxToken)]
  <2>1. CASE rotated' = rotated
    BY <2>1 DEF IInv, TypeOK
  <2>2. CASE /\ x \in Tokens /\ job[c].source = "provider"
             /\ rotated' = [rotated EXCEPT ![c] = @ \cup {job[c].token}]
    <3>1. job[c].token \in 0..MaxToken
      BY <1>1 DEF JobType
    <3> QED
      BY <2>2, <3>1 DEF IInv, TypeOK
  <2> QED
    BY <2>1, <2>2 DEF Finish
<1>4. row' \in [Connections -> RowType]
  <2>1. RowAfter(c, x) \in RowType
    BY RowAfterType DEF IInv
  <2> QED
    BY <2>1 DEF Finish, IInv, TypeOK
<1>5. request' \in [Requests -> RequestType]
  <2> SUFFICES ASSUME NEW r \in Requests PROVE request'[r] \in RequestType
    BY DEF Finish
  <2>1. request[r] \in RequestType
    BY <1>1
  <2>2. CASE r \in Waiters(c)
    BY <2>1, <2>2, AfterRefreshType DEF Finish, Waiters
  <2>3. CASE r \notin Waiters(c) /\ x \in Tokens
    <3>1. x \in 0..MaxToken
      BY <2>3 DEF Tokens
    <3>2. [request[r] EXCEPT !.creds = x] \in RequestType
      BY <2>1, <3>1 DEF RequestType
    <3>3. request'[r] \in {request[r], [request[r] EXCEPT !.creds = x]}
      BY <2>3 DEF Finish
    <3> QED
      BY <2>1, <3>2, <3>3
  <2>4. CASE r \notin Waiters(c) /\ x \notin Tokens
    BY <2>1, <2>4 DEF Finish
  <2> QED
    BY <2>2, <2>3, <2>4
<1>6. sweep' \in [Connections -> 0..MaxToken]
  BY BoundsAssumption DEF Finish, IInv, TypeOK, NoToken
<1>7. lost' \in [Connections -> BOOLEAN]
  BY DEF Finish, IInv, TypeOK
<1> QED
  BY <1>2, <1>3, <1>4, <1>5, <1>6, <1>7 DEF Finish, IInv, TypeOK, provider

LEMMA AgeKeeps == ASSUME IInv, NEW c \in Connections, Age(c) PROVE IInv'
<1>1. row' \in [Connections -> RowType]
  <2>1. PICK a \in {"fresh", "due", "ending"} : row' = [row EXCEPT ![c] = [row[c] EXCEPT !.age = a]]
    BY DEF Age, IInv, TypeOK, RowType
  <2>2. [row[c] EXCEPT !.age = a] \in RowType
    <3>1. row[c] \in RowType
      BY DEF IInv, TypeOK
    <3> QED
      BY <3>1 DEF RowType
  <2> QED
    BY <2>1, <2>2 DEF IInv, TypeOK
<1> QED
  BY <1>1 DEF Age, IInv, TypeOK, HolderIsHead, provider, process

LEMMA ForgetKeeps == ASSUME IInv, NEW c \in Connections, Forget(c) PROVE IInv'
BY DEF Forget, IInv, TypeOK, HolderIsHead, provider

LEMMA ReloginKeeps == ASSUME IInv, NEW c \in Connections, Relogin(c) PROVE IInv'
<1>1. issued[c] + 1 \in Tokens
  BY BoundsAssumption DEF Relogin, MayIssue, Tokens, IInv, TypeOK
<1>2. [token |-> issued[c] + 1, age |-> "fresh", active |-> TRUE] \in RowType
  BY <1>1 DEF RowType, Tokens
<1> QED
  BY <1>1, <1>2 DEF Relogin, IInv, TypeOK, HolderIsHead, process

LEMMA RestartKeeps == ASSUME IInv, Restart PROVE IInv'
<1> DEFINE answered == {c \in Connections : job[c].source = "provider" /\ job[c].result \in Tokens}
<1>1. PICK unheard \in SUBSET {c \in Connections :
              job[c].stage = "network" /\ Accepts(c) /\ MayIssue(c)} :
        /\ issued' = [c \in Connections |-> IF c \in unheard THEN issued[c] + 1 ELSE issued[c]]
        /\ lost' = [c \in Connections |-> lost[c] \/ c \in unheard \cup answered]
        /\ rotated' = [c \in Connections |-> {}]
        /\ job' = [c \in Connections |-> Idle]
        /\ lane' = <<>>
        /\ request' = [r \in Requests |-> NewRequest(request[r].conn)]
        /\ sweep' = [c \in Connections |-> NoToken]
        /\ UNCHANGED <<row, family, revoked>>
  BY DEF Restart
<1>2. 0 \in 0..MaxToken /\ 0 \in 0..(MaxToken + 1) /\ 0 \in 0..MaxTries
  BY BoundsAssumption
<1>3. issued' \in [Connections -> Tokens]
  BY <1>1, BoundsAssumption DEF MayIssue, Tokens, IInv, TypeOK
<1>4. Idle \in JobType /\ Idle.stage = "idle"
  BY <1>2 DEF Idle, Entry, JobType, NoToken
<1>5. request' \in [Requests -> RequestType]
  BY <1>1, <1>2 DEF NewRequest, RequestType, NoToken, IInv, TypeOK
<1>6. HolderIsHead'
  BY <1>1, <1>4 DEF HolderIsHead
<1>7. lost' \in [Connections -> BOOLEAN] /\ lane' \in Seq(Connections)
  BY <1>1 DEF IInv, TypeOK
<1> QED
  BY <1>1, <1>2, <1>3, <1>4, <1>5, <1>6, <1>7 DEF IInv, TypeOK, NoToken

-----------------------------------------------------------------------------
(* The invariant is inductive.                                                *)
LEMMA NextIInv == IInv /\ [Next]_vars => IInv'
<1> SUFFICES ASSUME IInv, [Next]_vars PROVE IInv'
  OBVIOUS
<1>1. ASSUME NEW r \in Requests, RequestStep(r) PROVE IInv'
  BY <1>1, BeginKeeps, UnauthorizedKeeps, TimeOutKeeps, RetryKeeps DEF RequestStep
<1>2. ASSUME NEW c \in Connections, RefreshStep(c) PROVE IInv'
  BY <1>2, PostKeeps, RotateKeeps, RefuseKeeps, NetworkErrorKeeps, SettleGapKeeps,
     FinishKeeps DEF RefreshStep
<1>3. ASSUME NEW c \in Connections, Sweep(c) \/ Age(c) \/ Forget(c) \/ Relogin(c)
      PROVE  IInv'
  BY <1>3, SweepKeeps, AgeKeeps, ForgetKeeps, ReloginKeeps
<1>4. CASE Restart
  BY <1>4, RestartKeeps
<1>5. CASE UNCHANGED vars
  BY <1>5 DEF vars, IInv, TypeOK, HolderIsHead
<1> QED
  BY <1>1, <1>2, <1>3, <1>4, <1>5 DEF Next

(* Every variable keeps its type, for any number of accounts and requests,    *)
(* with or without the assumptions on the environment.                        *)
THEOREM RefreshTypes == Spec => []TypeOK
<1>1. IInv => TypeOK
  BY DEF IInv
<1> QED
  BY InitIInv, NextIInv, <1>1, PTL DEF Spec

(* serializeRefresh: at most one connection of the group is at the provider,  *)
(* and none starts during the settle gap of another.                          *)
THEOREM RefreshesAreSerial == Spec => []OneRefreshPerGroup
<1>1. IInv => OneRefreshPerGroup
  <2> SUFFICES ASSUME IInv, NEW c \in Connections, NEW d \in Connections,
                      job[c].stage \in {"network", "settling"},
                      job[d].stage \in {"network", "settling"}
               PROVE  c = d
    BY DEF OneRefreshPerGroup
  <2> QED
    BY DEF IInv, HolderIsHead
<1> QED
  BY InitIInv, NextIInv, <1>1, PTL DEF Spec

-----------------------------------------------------------------------------
(* The tokens of each connection, as numbers.                                 *)

(* No token is ahead of the provider.                                         *)
Known(c) ==
    /\ row[c].token <= issued[c] /\ family[c] <= issued[c]
    /\ job[c].token <= issued[c]
    /\ job[c].result <= issued[c] \/ job[c].result = Rejected
    /\ \A k \in rotated[c] : k < issued[c]
    /\ \A r \in Requests : request[r].conn = c =>
         request[r].creds <= issued[c] /\ request[r].attempted <= issued[c]

InFlight(c) == job[c].stage \in {"queued", "network"}
Answered(c) == job[c].stage \in {"settling", "returned"}

(* Nothing is answered before the provider was asked.                         *)
Unanswered(c) ==
    InFlight(c) => job[c].source = "provider" /\ job[c].result = NoToken

(* The provider answers a token with the next one.                            *)
Numbered(c) ==
    Answered(c) /\ job[c].source = "provider" /\ job[c].result \in Tokens
        => job[c].result = job[c].token + 1

(* The row was renewed and nobody may blame its token.                        *)
Renewed(c) ==
    /\ row[c].age = "fresh"
    /\ \A r \in Requests : request[r].conn = c /\ request[r].stage \in {"reactive", "backoff"}
         => request[r].attempted # row[c].token

(* An error is about a token that is not the one in the row, or is dead.      *)
Blameless(c) ==
    /\ InFlight(c) => job[c].token = issued[c] \/ row[c].token # issued[c] \/ Renewed(c)
    /\ Answered(c) /\ job[c].result = Rejected
         => revoked[c] \/ row[c].token # issued[c] \/ Renewed(c)

(* Unless the newest token is lost, the row has it or a refresh brings it,    *)
(* and no refresh presents a consumed token of the login.  Only the rotation  *)
(* map answers with an older one.                                             *)
Home(c) ==
    ~lost[c] =>
       /\ ~revoked[c]
       /\ \/ row[c].token = issued[c]
          \/ Answered(c) /\ job[c].result = issued[c] /\ job[c].source = "provider"
       /\ InFlight(c) => job[c].token = issued[c] \/ job[c].token < family[c]
       /\ Answered(c) => job[c].source = "map" \/ job[c].result \in {issued[c], NoToken, Rejected}

TokenInv(c) == Known(c) /\ Unanswered(c) /\ Numbered(c) /\ Blameless(c)

(* The numbers and sets a connection is made of.                              *)
LEMMA Numbers ==
    ASSUME IInv, NEW c \in Connections
    PROVE  /\ row[c].token \in 0..MaxToken /\ row[c].age \in {"fresh", "due", "ending"}
           /\ issued[c] \in 1..MaxToken /\ family[c] \in 1..MaxToken
           /\ revoked[c] \in BOOLEAN /\ lost[c] \in BOOLEAN
           /\ rotated[c] \subseteq 0..MaxToken
           /\ job[c].token \in 0..MaxToken /\ job[c].result \in 0..(MaxToken + 1)
           /\ job[c].stage \in {"idle", "queued", "network", "settling", "returned"}
           /\ job[c].source \in {"provider", "map", "row"}
           /\ MaxToken \in Nat /\ NoToken = 0 /\ Rejected = MaxToken + 1
           /\ Tokens = 1..MaxToken
<1>1. row[c] \in RowType /\ job[c] \in JobType
  BY DEF IInv, TypeOK
<1>2. /\ row[c].token \in 0..MaxToken /\ row[c].age \in {"fresh", "due", "ending"}
      /\ job[c].token \in 0..MaxToken /\ job[c].result \in 0..(MaxToken + 1)
      /\ job[c].stage \in {"idle", "queued", "network", "settling", "returned"}
      /\ job[c].source \in {"provider", "map", "row"}
  BY <1>1 DEF RowType, JobType
<1> QED
  BY <1>2, BoundsAssumption DEF IInv, TypeOK, Tokens, NoToken, Rejected

LEMMA RequestNumbers ==
    ASSUME IInv, NEW r \in Requests
    PROVE  /\ request[r].conn \in Connections
           /\ request[r].creds \in 0..MaxToken /\ request[r].attempted \in 0..MaxToken
           /\ request \in [Requests -> RequestType]
<1>1. request[r] \in RequestType
  BY DEF IInv, TypeOK
<1> QED
  BY <1>1 DEF RequestType, IInv, TypeOK

(* What a step leaves alone of a connection keeps its part.                   *)
LEMMA TokenFrame ==
    ASSUME NEW c \in Connections, TokenInv(c),
           row'[c] = row[c], job'[c] = job[c], issued'[c] = issued[c],
           family'[c] = family[c], revoked'[c] = revoked[c], rotated'[c] \subseteq rotated[c],
           \A r \in Requests : request'[r].conn = c => request'[r] = request[r]
    PROVE  TokenInv(c)'
<1>1. Known(c)'
  BY DEF TokenInv, Known
<1>2. Unanswered(c)' /\ Numbered(c)'
  BY DEF TokenInv, Unanswered, Numbered, InFlight, Answered
<1>3. Renewed(c) => Renewed(c)'
  BY DEF Renewed
<1>4. Blameless(c)'
  BY <1>3 DEF TokenInv, Blameless, InFlight, Answered
<1> QED
  BY <1>1, <1>2, <1>4 DEF TokenInv

LEMMA HomeFrame ==
    ASSUME NEW c \in Connections, Home(c),
           row'[c].token = row[c].token, job'[c] = job[c], issued'[c] = issued[c],
           family'[c] = family[c], revoked'[c] = revoked[c], lost'[c] = lost[c]
    PROVE  Home(c)'
  BY DEF Home, InFlight, Answered

-----------------------------------------------------------------------------
(* Opening a refresh: it presents the token of the row, or the row has none,  *)
(* or it is answered with what the row or the rotation map holds.             *)
LEMMA OpenedFacts ==
    ASSUME IInv, NEW c \in Connections, Known(c),
           NEW t \in 0..MaxToken, t <= issued[c], NEW e, NEW x
    PROVE  LET o == Opened(c, t, e, x) IN
           /\ o.stage \in {"queued", "returned"}
           /\ o.token <= issued[c] /\ o.result <= issued[c] /\ o.result # Rejected
           /\ o.stage = "queued" => o.source = "provider" /\ o.result = NoToken
           /\ o.stage = "queued" => o.token = issued[c] \/ row[c].token # issued[c]
           /\ o.stage = "returned" =>
                /\ o.source # "provider"
                /\ o.source = "map" \/ o.result = row[c].token
<1>1. /\ row[c].token \in 0..MaxToken /\ issued[c] \in 1..MaxToken /\ MaxToken \in Nat
      /\ rotated[c] \subseteq 0..MaxToken /\ NoToken = 0 /\ Rejected = MaxToken + 1
  BY Numbers
<1>2. row[c].token <= issued[c] /\ \A k \in rotated[c] : k < issued[c]
  BY DEF Known
<1>3. CASE t \in rotated[c]
  <2>1. Opened(c, t, e, x) = Entry("returned", t, e, x, "map", t + 1)
    BY <1>3 DEF Opened
  <2>2. t + 1 <= issued[c] /\ t + 1 # Rejected
    BY <1>1, <1>2, <1>3
  <2> QED
    BY <1>3, <2>1, <2>2 DEF Entry
<1>4. CASE t \notin rotated[c] /\ row[c].token \notin {NoToken, t} /\ row[c].age # "ending"
  <2>1. Opened(c, t, e, x) = Entry("returned", t, e, x, "row", row[c].token)
    BY <1>4 DEF Opened
  <2>2. row[c].token # Rejected
    BY <1>1
  <2> QED
    BY <1>2, <2>1, <2>2 DEF Entry
<1>5. CASE t \notin rotated[c] /\ ~(row[c].token \notin {NoToken, t} /\ row[c].age # "ending")
  <2> DEFINE u == IF row[c].token \notin {NoToken, t} THEN row[c].token ELSE t
  <2>1. Opened(c, t, e, x) = Entry("queued", u, e, x, "provider", NoToken)
    BY <1>5 DEF Opened
  <2>2. u <= issued[c] /\ (u = issued[c] \/ row[c].token # issued[c])
    BY <1>1, <1>2
  <2>3. NoToken <= issued[c] /\ NoToken # Rejected
    BY <1>1
  <2> QED
    BY <2>1, <2>2, <2>3 DEF Entry
<1> QED
  BY <1>3, <1>4, <1>5

LEMMA PresentedFacts ==
    ASSUME IInv, NEW c \in Connections, Known(c),
           NEW t \in 0..MaxToken, t <= issued[c], NEW e, NEW x
    PROVE  Presented(c, t, e, x) <= issued[c]
BY OpenedFacts DEF Presented

(* getAccessToken, whatever the requests do that share the result.            *)
LEMMA GetTokenInv ==
    ASSUME IInv, NEW c \in Connections, TokenInv(c),
           NEW t \in 0..MaxToken, t <= issued[c], NEW e, NEW x,
           GetAccessToken(c, t, e, x), UNCHANGED <<row, provider, rotated>>,
           \A r \in Requests : request'[r].conn = c =>
               request'[r].creds <= issued[c] /\ request'[r].attempted <= issued[c],
           Renewed(c) => Renewed(c)'
    PROVE  TokenInv(c)'
<1>1. UNCHANGED <<issued, family, revoked>> /\ job \in [Connections -> JobType]
  BY DEF provider, IInv, TypeOK
<1>2. CASE job[c].stage # "idle"
  <2>1. job' = job
    BY <1>2 DEF GetAccessToken
  <2>2. Known(c)' /\ Unanswered(c)' /\ Numbered(c)' /\ Blameless(c)'
    BY <1>1, <2>1 DEF TokenInv, Known, Unanswered, Numbered, Blameless, InFlight, Answered
  <2> QED
    BY <2>2 DEF TokenInv
<1>3. CASE job[c].stage = "idle"
  <2>1. job'[c] = Opened(c, t, e, x)
    BY <1>1, <1>3 DEF GetAccessToken
  <2>2. Known(c)
    BY DEF TokenInv
  <2> DEFINE o == Opened(c, t, e, x)
  <2>3. /\ o.stage \in {"queued", "returned"}
        /\ o.token <= issued[c] /\ o.result <= issued[c] /\ o.result # Rejected
        /\ o.stage = "queued" => o.source = "provider" /\ o.result = NoToken
        /\ o.stage = "queued" => o.token = issued[c] \/ row[c].token # issued[c]
        /\ o.stage = "returned" => o.source # "provider"
    BY <2>2, OpenedFacts
  <2> HIDE DEF o
  <2>4. job'[c] = o
    BY <2>1 DEF o
  <2>5. Known(c)' /\ Unanswered(c)' /\ Numbered(c)' /\ Blameless(c)'
    BY <1>1, <2>2, <2>3, <2>4
    DEF Known, Unanswered, Numbered, Blameless, InFlight, Answered
  <2> QED
    BY <2>5 DEF TokenInv
<1> QED
  BY <1>2, <1>3

LEMMA GetHome ==
    ASSUME IInv, NEW c \in Connections, TokenInv(c), Home(c),
           NEW t \in 0..MaxToken, t <= issued[c], NEW e, NEW x,
           GetAccessToken(c, t, e, x), UNCHANGED <<row, provider, rotated, lost>>
    PROVE  Home(c)'
<1>1. UNCHANGED <<issued, family, revoked>> /\ job \in [Connections -> JobType]
  BY DEF provider, IInv, TypeOK
<1>2. CASE job[c].stage # "idle"
  <2>1. job' = job
    BY <1>2 DEF GetAccessToken
  <2> QED
    BY <1>1, <2>1, HomeFrame
<1>3. CASE job[c].stage = "idle"
  <2> DEFINE o == Opened(c, t, e, x)
  <2>1. job'[c] = o
    BY <1>1, <1>3 DEF GetAccessToken
  <2>2. Known(c)
    BY DEF TokenInv
  <2>3. /\ o.stage \in {"queued", "returned"}
        /\ o.stage = "queued" => o.source = "provider" /\ o.result = NoToken
        /\ o.stage = "queued" => o.token = issued[c] \/ row[c].token # issued[c]
        /\ o.stage = "returned" =>
             /\ o.source # "provider"
             /\ o.source = "map" \/ o.result = row[c].token
    BY <2>2, OpenedFacts
  <2> HIDE DEF o
  <2>4. ASSUME ~lost[c] PROVE ~revoked[c] /\ row[c].token = issued[c]
    BY <1>3, <2>4 DEF Home, Answered
  <2> QED
    BY <1>1, <2>1, <2>3, <2>4 DEF Home, InFlight, Answered
<1> QED
  BY <1>2, <1>3

-----------------------------------------------------------------------------
(* The steps of a request.  Its own connection:                               *)

LEMMA RequestFields ==
    ASSUME NEW q \in RequestType, NEW s, NEW x, NEW a
    PROVE  /\ LET p == [q EXCEPT !.stage = s, !.creds = x] IN
                /\ p.conn = q.conn /\ p.stage = s /\ p.creds = x /\ p.attempted = q.attempted
           /\ LET p == [q EXCEPT !.stage = s, !.attempted = a, !.creds = x] IN
                /\ p.conn = q.conn /\ p.stage = s /\ p.creds = x /\ p.attempted = a
           /\ LET p == NextTry(q) IN
                /\ p.conn = q.conn
                /\ \/ p.creds = q.creds /\ p.attempted = q.attempted /\ p.stage = "backoff"
                   \/ p.creds = NoToken /\ p.attempted = NoToken /\ p.stage = "done"
<1>1. DOMAIN q = {"stage", "conn", "creds", "attempted", "tries"}
  BY DEF RequestType
<1> QED
  BY <1>1 DEF NextTry, Done, NewRequest

LEMMA RequestTokens ==
    ASSUME IInv, Calm, NEW r \in Requests, RequestStep(r),
           NEW c \in Connections, c = request[r].conn, TokenInv(c)
    PROVE  TokenInv(c)'
<1> DEFINE t == request[r].creds
           e == request[r].attempted
<1>1. /\ t \in 0..MaxToken /\ e \in 0..MaxToken
      /\ request \in [Requests -> RequestType] /\ request[r] \in RequestType
  BY RequestNumbers
<1>2. /\ Known(c) /\ row[c].token \in 0..MaxToken /\ issued[c] \in 1..MaxToken
      /\ MaxToken \in Nat /\ NoToken = 0
  BY <1>1, Numbers DEF TokenInv
<1>3. t <= issued[c] /\ e <= issued[c] /\ row[c].token <= issued[c]
  BY <1>2 DEF Known
<1>4. UNCHANGED <<row, provider, rotated>>
  BY DEF RequestStep, Begin, Unauthorized, TimeOut, Retry
<1>5. ASSUME NEW q, request' = [request EXCEPT ![r] = q], q.conn = c,
             q.creds <= issued[c], q.attempted <= issued[c],
             q.stage \in {"reactive", "backoff"} /\ row[c].age = "fresh" =>
                 \/ q.attempted # row[c].token
                 \/ request[r].stage \in {"reactive", "backoff"} /\ q.attempted = e
      PROVE  /\ \A s \in Requests : request'[s].conn = c =>
                   request'[s].creds <= issued[c] /\ request'[s].attempted <= issued[c]
             /\ Renewed(c) => row'[c].age = "fresh"
                   /\ \A s \in Requests : request'[s].conn = c
                        /\ request'[s].stage \in {"reactive", "backoff"}
                            => request'[s].attempted # row'[c].token
  <2>1. ASSUME NEW s \in Requests, s # r PROVE request'[s] = request[s]
    BY <1>1, <1>5, <2>1
  <2>2. request'[r] = q
    BY <1>1, <1>5
  <2>3. ASSUME NEW s \in Requests, request'[s].conn = c
        PROVE  request'[s].creds <= issued[c] /\ request'[s].attempted <= issued[c]
    BY <1>2, <1>5, <2>1, <2>2, <2>3 DEF Known
  <2>4. ASSUME Renewed(c), NEW s \in Requests, request'[s].conn = c,
               request'[s].stage \in {"reactive", "backoff"}
        PROVE  request'[s].attempted # row'[c].token
    BY <1>4, <1>5, <2>1, <2>2, <2>4 DEF Renewed
  <2> QED
    BY <1>4, <2>3, <2>4 DEF Renewed
<1>6. CASE Begin(r)
  <2>1. PICK s \in {"sent", "proactive"} :
          /\ request' = [request EXCEPT ![r].stage = s, ![r].creds = row[c].token]
          /\ \/ UNCHANGED <<job, lane>>
             \/ GetAccessToken(c, row[c].token, NoToken, r)
    BY <1>6 DEF Begin
  <2> DEFINE q == [request[r] EXCEPT !.stage = s, !.creds = row[c].token]
  <2>2. request' = [request EXCEPT ![r] = q]
    BY <1>1, <2>1
  <2>3. q.conn = c /\ q.creds = row[c].token /\ q.attempted = e /\ q.stage = s
    BY <1>1, RequestFields
  <2>4. s \notin {"reactive", "backoff"}
    OBVIOUS
  <2> HIDE DEF q
  <2>5. /\ \A x \in Requests : request'[x].conn = c =>
             request'[x].creds <= issued[c] /\ request'[x].attempted <= issued[c]
        /\ Renewed(c) => Renewed(c)'
    BY <1>3, <1>5, <2>2, <2>3, <2>4 DEF Renewed
  <2>6. CASE UNCHANGED <<job, lane>>
    BY <1>4, <2>5, <2>6 DEF TokenInv, Known, Unanswered, Numbered, Blameless, InFlight,
       Answered, provider
  <2>7. CASE GetAccessToken(c, row[c].token, NoToken, r)
    BY <1>1, <1>2, <1>3, <1>4, <2>5, <2>7, GetTokenInv
  <2> QED
    BY <2>1, <2>6, <2>7
<1>7. CASE Unauthorized(r)
  <2> DEFINE p == Presented(c, t, t, r)
             q == [request[r] EXCEPT !.stage = "reactive", !.attempted = t, !.creds = p]
  <2>1. request' = [request EXCEPT ![r] = q] /\ GetAccessToken(c, t, t, r)
    BY <1>1, <1>7 DEF Unauthorized
  <2>2. p <= issued[c]
    BY <1>1, <1>2, <1>3, PresentedFacts
  <2> HIDE DEF p
  <2>3. q.conn = c /\ q.creds = p /\ q.attempted = t /\ q.stage = "reactive"
    BY <1>1, RequestFields
  <2>4. row[c].age = "fresh" => t # row[c].token
    BY <1>7 DEF Unauthorized, CalmReject
  <2> HIDE DEF q
  <2>5. /\ \A x \in Requests : request'[x].conn = c =>
             request'[x].creds <= issued[c] /\ request'[x].attempted <= issued[c]
        /\ Renewed(c) => Renewed(c)'
    BY <1>3, <1>5, <2>1, <2>2, <2>3, <2>4 DEF Renewed
  <2> QED
    BY <1>1, <1>2, <1>3, <1>4, <2>1, <2>5, GetTokenInv
<1>8. CASE Retry(r)
  <2> DEFINE p == Presented(c, t, e, r)
             q == [request[r] EXCEPT !.stage = "reactive", !.creds = p]
  <2>1. /\ request' = [request EXCEPT ![r] = q] /\ GetAccessToken(c, t, e, r)
        /\ request[r].stage = "backoff"
    BY <1>1, <1>8 DEF Retry
  <2>2. p <= issued[c]
    BY <1>1, <1>2, <1>3, PresentedFacts
  <2> HIDE DEF p
  <2>3. q.conn = c /\ q.creds = p /\ q.attempted = e /\ q.stage = "reactive"
    BY <1>1, RequestFields
  <2> HIDE DEF q
  <2>4. /\ \A x \in Requests : request'[x].conn = c =>
             request'[x].creds <= issued[c] /\ request'[x].attempted <= issued[c]
        /\ Renewed(c) => Renewed(c)'
    BY <1>3, <1>5, <2>1, <2>2, <2>3 DEF Renewed
  <2> QED
    BY <1>1, <1>2, <1>3, <1>4, <2>1, <2>4, GetTokenInv
<1>9. CASE TimeOut(r)
  <2> DEFINE q == NextTry(request[r])
  <2>1. request' = [request EXCEPT ![r] = q] /\ request[r].stage = "reactive" /\ job' = job
    BY <1>1, <1>9 DEF TimeOut
  <2>2. \/ q.conn = c /\ q.creds = t /\ q.attempted = e
        \/ q.conn = c /\ q.creds = NoToken /\ q.attempted = NoToken /\ q.stage = "done"
    BY <1>1, RequestFields
  <2> HIDE DEF q
  <2>4. q.conn = c /\ q.creds <= issued[c] /\ q.attempted <= issued[c]
    BY <1>2, <1>3, <2>2
  <2>5. q.stage \in {"reactive", "backoff"} /\ row[c].age = "fresh" =>
             \/ q.attempted # row[c].token
             \/ request[r].stage \in {"reactive", "backoff"} /\ q.attempted = e
    BY <2>1, <2>2
  <2>3. /\ \A x \in Requests : request'[x].conn = c =>
             request'[x].creds <= issued[c] /\ request'[x].attempted <= issued[c]
        /\ Renewed(c) => Renewed(c)'
    BY <1>5, <2>1, <2>4, <2>5 DEF Renewed
  <2> QED
    BY <1>4, <2>1, <2>3 DEF TokenInv, Known, Unanswered, Numbered, Blameless, InFlight,
       Answered, provider
<1> QED
  BY <1>6, <1>7, <1>8, <1>9 DEF RequestStep

LEMMA RequestHomes ==
    ASSUME IInv, NEW r \in Requests, RequestStep(r),
           NEW c \in Connections, c = request[r].conn, TokenInv(c), Home(c)
    PROVE  Home(c)'
<1> DEFINE t == request[r].creds
<1>1. t \in 0..MaxToken /\ row[c].token \in 0..MaxToken
  BY RequestNumbers, Numbers
<1>2. t <= issued[c] /\ row[c].token <= issued[c]
  BY DEF TokenInv, Known
<1>3. UNCHANGED <<row, provider, rotated, lost>>
  BY DEF RequestStep, Begin, Unauthorized, TimeOut, Retry
<1>4. CASE UNCHANGED job
  BY <1>1, <1>3, <1>4, HomeFrame DEF provider
<1>5. CASE \E u \in {t, row[c].token}, e \in {NoToken, t, request[r].attempted} :
              GetAccessToken(c, u, e, r)
  BY <1>1, <1>2, <1>3, <1>5, GetHome
<1> QED
  BY <1>4, <1>5 DEF RequestStep, Begin, Unauthorized, TimeOut, Retry

(* No request moves to another account, and only one takes a step.            *)
LEMMA RequestConn ==
    ASSUME IInv, NEW r \in Requests, RequestStep(r), NEW s \in Requests
    PROVE  /\ request'[s].conn = request[s].conn
           /\ s # r => request'[s] = request[s]
<1>1. request \in [Requests -> RequestType] /\ request[r] \in RequestType
  BY RequestNumbers
<1>2. s # r => request'[s] = request[s]
  BY <1>1 DEF RequestStep, Begin, Unauthorized, TimeOut, Retry
<1>3. request'[r].conn = request[r].conn
  <2>1. CASE Begin(r)
    <3>1. PICK x, u :
            request' = [request EXCEPT ![r].stage = x, ![r].creds = u]
      BY <2>1 DEF Begin
    <3> QED
      BY <1>1, <3>1 DEF RequestType
  <2>2. CASE Unauthorized(r)
    BY <1>1, <2>2 DEF Unauthorized, RequestType
  <2>3. CASE Retry(r)
    BY <1>1, <2>3 DEF Retry, RequestType
  <2>4. CASE TimeOut(r)
    <3>1. request'[r] = NextTry(request[r])
      BY <1>1, <2>4 DEF TimeOut
    <3> QED
      BY <1>1, <3>1, RequestFields
  <2> QED
    BY <2>1, <2>2, <2>3, <2>4 DEF RequestStep
<1> QED
  BY <1>2, <1>3

(* The other connections do not notice a step of a request.                   *)
LEMMA RequestOthers ==
    ASSUME IInv, NEW r \in Requests, RequestStep(r), NEW c \in Connections, c = request[r].conn,
           NEW d \in Connections, d # c
    PROVE  /\ TokenInv(d) => TokenInv(d)'
           /\ Home(d) => Home(d)'
<1>1. job \in [Connections -> JobType]
  BY DEF IInv, TypeOK
<1>2. UNCHANGED <<row, provider, rotated, lost>>
  BY DEF RequestStep, Begin, Unauthorized, TimeOut, Retry
<1>3. job'[d] = job[d]
  BY <1>1 DEF RequestStep, Begin, Unauthorized, TimeOut, Retry, GetAccessToken
<1>4. \A s \in Requests : request'[s].conn = d => request'[s] = request[s]
  BY RequestConn
<1> QED
  BY <1>2, <1>3, <1>4, TokenFrame, HomeFrame DEF provider

-----------------------------------------------------------------------------
(* The steps of a refresh.  What a step does to the other connections:        *)

LEMMA Untouched ==
    ASSUME NEW c \in Connections, NEW d \in Connections, d # c,
           row'[d] = row[d], job'[d] = job[d], issued'[d] = issued[d],
           family'[d] = family[d], revoked'[d] = revoked[d], rotated'[d] = rotated[d],
           lost'[d] = lost[d],
           \A r \in Requests : request'[r].conn = d => request'[r] = request[r]
    PROVE  /\ TokenInv(d) => TokenInv(d)'
           /\ Home(d) => Home(d)'
BY TokenFrame, HomeFrame

LEMMA SweepTokens ==
    ASSUME IInv, NEW c \in Connections, Sweep(c), TokenInv(c)
    PROVE  TokenInv(c)' /\ (Home(c) => Home(c)')
<1>1. row[c].token \in 0..MaxToken /\ row[c].token <= issued[c]
  BY Numbers DEF TokenInv, Known
<1>2. /\ UNCHANGED <<row, provider, rotated, request, lost>>
      /\ GetAccessToken(c, row[c].token, NoToken, Sweeper)
  BY DEF Sweep
<1>3. /\ \A r \in Requests : request'[r].conn = c =>
            request'[r].creds <= issued[c] /\ request'[r].attempted <= issued[c]
      /\ Renewed(c) => Renewed(c)'
  BY <1>2 DEF TokenInv, Known, Renewed
<1>4. TokenInv(c)'
  BY <1>1, <1>2, <1>3, GetTokenInv
<1>5. Home(c) => Home(c)'
  BY <1>1, <1>2, GetHome
<1> QED
  BY <1>4, <1>5

LEMMA PostTokens ==
    ASSUME IInv, NEW c \in Connections, Post(c), TokenInv(c)
    PROVE  TokenInv(c)' /\ (Home(c) => Home(c)')
<1>1. job \in [Connections -> JobType] /\ job[c] \in JobType
  BY DEF IInv, TypeOK
<1>2. /\ job'[c].stage = "network" /\ job[c].stage = "queued"
      /\ job'[c].token = job[c].token /\ job'[c].source = job[c].source
      /\ job'[c].result = job[c].result
  BY <1>1 DEF Post, JobType
<1>3. UNCHANGED <<row, issued, family, revoked, rotated, request, lost>>
  BY DEF Post, provider
<1>4. Known(c)' /\ Unanswered(c)' /\ Numbered(c)' /\ Blameless(c)'
  <2>1. Known(c)' /\ Unanswered(c)' /\ Numbered(c)'
    BY <1>2, <1>3 DEF TokenInv, Known, Unanswered, Numbered, InFlight, Answered
  <2>2. Renewed(c) => Renewed(c)'
    BY <1>3 DEF Renewed
  <2>3. Blameless(c)'
    BY <1>2, <1>3, <2>2 DEF TokenInv, Blameless, InFlight, Answered
  <2> QED
    BY <2>1, <2>3
<1>5. ASSUME Home(c) PROVE Home(c)'
  BY <1>2, <1>3, <1>5 DEF Home, InFlight, Answered
<1> QED
  BY <1>4, <1>5 DEF TokenInv

(* The end of a POST, whatever the lane does with it.                         *)
LEMMA ReleaseFields ==
    ASSUME IInv, NEW c \in Connections, NEW result, Release(c, result)
    PROVE  /\ job'[c].stage \in {"settling", "returned"}
           /\ job'[c].token = job[c].token /\ job'[c].source = job[c].source
           /\ job'[c].result = result
           /\ \A d \in Connections \ {c} : job'[d] = job[d]
<1>1. job \in [Connections -> JobType] /\ job[c] \in JobType
  BY DEF IInv, TypeOK
<1>2. PICK s \in {"settling", "returned"} :
        job' = [job EXCEPT ![c].stage = s, ![c].result = result]
  BY DEF Release
<1> QED
  BY <1>1, <1>2 DEF JobType

LEMMA RotateTokens ==
    ASSUME IInv, NEW c \in Connections, Rotate(c), TokenInv(c)
    PROVE  TokenInv(c)' /\ (Home(c) => Home(c)')
<1>1. /\ job'[c].stage \in {"settling", "returned"}
      /\ job'[c].token = job[c].token /\ job'[c].source = job[c].source
      /\ job'[c].result = job[c].token + 1
  BY ReleaseFields DEF Rotate
<1>2. /\ job[c].stage = "network" /\ job[c].token = issued[c] /\ ~revoked[c]
      /\ issued[c] < MaxToken
      /\ UNCHANGED <<row, family, revoked, rotated, request, lost>>
  BY DEF Rotate, Accepts, MayIssue
<1>3. issued'[c] = issued[c] + 1
  BY DEF Rotate, IInv, TypeOK
<1>4. job[c].source = "provider"
  BY <1>2 DEF TokenInv, Unanswered, InFlight
<1>5. /\ issued[c] \in Nat /\ MaxToken \in Nat /\ row[c].token \in Nat /\ family[c] \in Nat
      /\ rotated[c] \subseteq Nat
      /\ Rejected = MaxToken + 1
      /\ \A r \in Requests : request[r].creds \in Nat /\ request[r].attempted \in Nat
  BY Numbers, RequestNumbers
<1>6. Known(c)'
  <2>1. /\ row[c].token <= issued[c] /\ family[c] <= issued[c]
        /\ \A k \in rotated[c] : k < issued[c]
        /\ \A r \in Requests : request[r].conn = c =>
             request[r].creds <= issued[c] /\ request[r].attempted <= issued[c]
    BY DEF TokenInv, Known
  <2>2. /\ row'[c].token <= issued'[c] /\ family'[c] <= issued'[c]
        /\ job'[c].token <= issued'[c] /\ job'[c].result <= issued'[c]
    BY <1>1, <1>2, <1>3, <1>5, <2>1
  <2>3. \A k \in rotated'[c] : k < issued'[c]
    BY <1>2, <1>3, <1>5, <2>1
  <2>4. \A r \in Requests : request'[r].conn = c =>
             request'[r].creds <= issued'[c] /\ request'[r].attempted <= issued'[c]
    BY <1>2, <1>3, <1>5, <2>1
  <2> QED
    BY <2>2, <2>3, <2>4 DEF Known
<1>7. Unanswered(c)' /\ Numbered(c)' /\ Blameless(c)'
  BY <1>1, <1>2, <1>5 DEF Unanswered, Numbered, Blameless, InFlight, Answered
<1>8. Home(c)'
  BY <1>1, <1>2, <1>3, <1>4 DEF Home, InFlight, Answered
<1> QED
  BY <1>6, <1>7, <1>8 DEF TokenInv

LEMMA RefuseTokens ==
    ASSUME IInv, NEW c \in Connections, Refuse(c), TokenInv(c)
    PROVE  TokenInv(c)' /\ (Home(c) => Home(c)')
<1>1. /\ job'[c].stage \in {"settling", "returned"}
      /\ job'[c].token = job[c].token /\ job'[c].source = job[c].source
      /\ job'[c].result = Rejected
  BY ReleaseFields DEF Refuse
<1>2. /\ job[c].stage = "network" /\ (revoked[c] \/ job[c].token # issued[c])
      /\ UNCHANGED <<row, issued, family, rotated, request, lost>>
  BY DEF Refuse, Accepts
<1>3. revoked'[c] = (revoked[c] \/ job[c].token >= family[c])
  BY DEF Refuse, IInv, TypeOK
<1>4. MaxToken \in Nat /\ Rejected = MaxToken + 1 /\ Tokens = 1..MaxToken /\ NoToken = 0
      /\ job[c].token \in Nat /\ family[c] \in Nat
  BY Numbers
<1>5. Known(c)'
  BY <1>1, <1>2 DEF TokenInv, Known
<1>6. Unanswered(c)' /\ Numbered(c)'
  BY <1>1, <1>4 DEF Unanswered, Numbered, InFlight, Answered
<1>7. Blameless(c)'
  <2>1. revoked[c] \/ row[c].token # issued[c] \/ Renewed(c)
    BY <1>2 DEF TokenInv, Blameless, InFlight
  <2>2. Renewed(c) => Renewed(c)'
    BY <1>2 DEF Renewed
  <2> QED
    BY <1>1, <1>2, <1>3, <2>1, <2>2 DEF Blameless, InFlight, Answered
<1>8. ASSUME Home(c) PROVE Home(c)'
  <2>2. ASSUME ~lost[c]
        PROVE  ~revoked[c] /\ row[c].token = issued[c] /\ job[c].token < family[c]
    BY <1>2, <1>8, <2>2 DEF Home, InFlight, Answered
  <2>3. ASSUME ~lost[c] PROVE ~revoked'[c]
    <3>1. ~(job[c].token >= family[c])
      BY <1>4, <2>2, <2>3
    <3> QED
      BY <1>3, <2>2, <2>3, <3>1, Zenon
  <2> QED
    BY <1>1, <1>2, <2>2, <2>3 DEF Home, InFlight, Answered
<1> QED
  BY <1>5, <1>6, <1>7, <1>8 DEF TokenInv

LEMMA NetworkErrorTokens ==
    ASSUME IInv, NEW c \in Connections, NetworkError(c), TokenInv(c)
    PROVE  TokenInv(c)' /\ (Home(c) => Home(c)')
<1>1. /\ job'[c].stage \in {"settling", "returned"}
      /\ job'[c].token = job[c].token /\ job'[c].source = job[c].source
      /\ job'[c].result = NoToken
  BY ReleaseFields DEF NetworkError
<1>2. /\ job[c].stage = "network"
      /\ UNCHANGED <<row, family, revoked, rotated, request>>
  BY DEF NetworkError
<1>3. /\ MaxToken \in Nat /\ Rejected = MaxToken + 1 /\ Tokens = 1..MaxToken /\ NoToken = 0
      /\ issued[c] \in Nat /\ row[c].token \in Nat /\ family[c] \in Nat /\ job[c].token \in Nat
      /\ rotated[c] \subseteq Nat
      /\ \A r \in Requests : request[r].creds \in Nat /\ request[r].attempted \in Nat
  BY Numbers, RequestNumbers
<1>4. \/ issued'[c] = issued[c] /\ lost'[c] = lost[c]
      \/ issued'[c] = issued[c] + 1 /\ lost'[c] = TRUE
  BY DEF NetworkError, Unheard, IInv, TypeOK
<1>5. Known(c)'
  <2>1. /\ row[c].token <= issued[c] /\ family[c] <= issued[c] /\ job[c].token <= issued[c]
        /\ \A k \in rotated[c] : k < issued[c]
        /\ \A r \in Requests : request[r].conn = c =>
             request[r].creds <= issued[c] /\ request[r].attempted <= issued[c]
    BY DEF TokenInv, Known
  <2>2. issued'[c] \in Nat /\ issued[c] <= issued'[c]
    BY <1>3, <1>4
  <2>3. /\ row'[c].token <= issued'[c] /\ family'[c] <= issued'[c]
        /\ job'[c].token <= issued'[c] /\ job'[c].result <= issued'[c]
    BY <1>1, <1>2, <1>3, <2>1, <2>2
  <2>4. \A k \in rotated'[c] : k < issued'[c]
    BY <1>2, <1>3, <2>1, <2>2
  <2>5. \A r \in Requests : request'[r].conn = c =>
             request'[r].creds <= issued'[c] /\ request'[r].attempted <= issued'[c]
    BY <1>2, <1>3, <2>1, <2>2
  <2> QED
    BY <2>3, <2>4, <2>5 DEF Known
<1>6. Unanswered(c)' /\ Numbered(c)' /\ Blameless(c)'
  BY <1>1, <1>3 DEF Unanswered, Numbered, Blameless, InFlight, Answered
<1>7. ASSUME Home(c) PROVE Home(c)'
  <2>1. ~lost[c] => ~revoked[c] /\ row[c].token = issued[c]
    BY <1>2, <1>7 DEF Home, Answered
  <2> QED
    BY <1>1, <1>2, <1>4, <2>1 DEF Home, InFlight, Answered
<1> QED
  BY <1>5, <1>6, <1>7 DEF TokenInv

LEMMA SettleGapTokens ==
    ASSUME IInv, NEW c \in Connections, SettleGap(c), TokenInv(c)
    PROVE  TokenInv(c)' /\ (Home(c) => Home(c)')
<1>1. job \in [Connections -> JobType] /\ job[c] \in JobType
  BY DEF IInv, TypeOK
<1>2. /\ job'[c].stage = "returned" /\ job[c].stage = "settling"
      /\ job'[c].token = job[c].token /\ job'[c].source = job[c].source
      /\ job'[c].result = job[c].result
  BY <1>1 DEF SettleGap, JobType
<1>3. UNCHANGED <<row, issued, family, revoked, rotated, request, lost>>
  BY DEF SettleGap, provider
<1>4. Known(c)' /\ Unanswered(c)' /\ Numbered(c)'
  BY <1>2, <1>3 DEF TokenInv, Known, Unanswered, Numbered, InFlight, Answered
<1>5. Renewed(c) => Renewed(c)'
  BY <1>3 DEF Renewed
<1>6. Blameless(c)'
  BY <1>2, <1>3, <1>5 DEF TokenInv, Blameless, InFlight, Answered
<1>7. ASSUME Home(c) PROVE Home(c)'
  BY <1>2, <1>3, <1>7 DEF Home, InFlight, Answered
<1> QED
  BY <1>4, <1>6, <1>7 DEF TokenInv

-----------------------------------------------------------------------------
(* The end of a refresh.                                                      *)

(* Whoever started a refresh is a request of that connection, or the sweep.   *)
Starters == \A c \in Connections : job[c].by \in Requests => request[job[c].by].conn = c

(* What Finish does to the requests.                                          *)
LEMMA FinishRequests ==
    ASSUME IInv, Starters, NEW c \in Connections, Finish(c), NEW r \in Requests
    PROVE  /\ request'[r].conn = request[r].conn
           /\ request[r].conn # c => request'[r] = request[r]
           /\ \/ request'[r].creds \in {request[r].creds, NoToken}
              \/ job[c].result \in Tokens /\ request'[r].creds = job[c].result
           /\ request'[r].attempted \in {request[r].attempted, NoToken}
<1> DEFINE x == job[c].result
<1>1. request[r] \in RequestType
  BY RequestNumbers
<1>2. CASE r \in Waiters(c)
  <2>1. request'[r] = AfterRefresh(request[r], c, x) /\ request[r].conn = c
    BY <1>2 DEF Finish, Waiters
  <2>2. CASE request[r].stage = "proactive"
    <3>1. request'[r] = [request[r] EXCEPT !.stage = "sent",
                                   !.creds = IF x \in Tokens THEN x ELSE @]
      BY <2>1, <2>2 DEF AfterRefresh
    <3> QED
      BY <1>1, <2>1, <3>1 DEF RequestType
  <2>3. CASE request[r].stage = "reactive"
    <3>1. request'[r] \in {NextTry(request[r]), Done(request[r])}
      BY <2>1, <2>3 DEF AfterRefresh
    <3>2. CASE request'[r] = NextTry(request[r])
      BY <1>1, <2>1, <3>2, RequestFields
    <3>3. CASE request'[r] = Done(request[r])
      BY <1>1, <2>1, <3>3 DEF Done, NewRequest
    <3> QED
      BY <3>1, <3>2, <3>3
  <2> QED
    BY <1>2, <2>2, <2>3 DEF Waiters, Waiting
<1>3. CASE /\ r \notin Waiters(c)
           /\ r = job[c].by /\ request[r].stage = "backoff" /\ x \in Tokens /\ ~CasSkips(c)
  <2>1. request'[r] = [request[r] EXCEPT !.creds = x]
    BY <1>3 DEF Finish
  <2>2. request[r].conn = c
    BY <1>3 DEF Starters
  <2> QED
    BY <1>1, <1>3, <2>1, <2>2 DEF RequestType
<1>4. CASE /\ r \notin Waiters(c)
           /\ ~(r = job[c].by /\ request[r].stage = "backoff" /\ x \in Tokens /\ ~CasSkips(c))
  <2>1. request'[r] = request[r]
    BY <1>4 DEF Finish
  <2> QED
    BY <2>1
<1> QED
  BY <1>2, <1>3, <1>4

(* What Finish stores: the result, an account out of service, or nothing.     *)
LEMMA RowAfterCases ==
    ASSUME IInv, NEW c \in Connections, NEW x
    PROVE  \/ /\ x \in Tokens /\ Stores(c)
              /\ RowAfter(c, x).token = x /\ RowAfter(c, x).active = row[c].active
           \/ /\ x \in Tokens /\ ~Stores(c) /\ RowAfter(c, x) = row[c]
           \/ /\ x = Rejected /\ SweepDisables(c) /\ RowAfter(c, x).token = NoToken
           \/ /\ x = Rejected /\ RequestDisables(c) /\ RowAfter(c, x).token = row[c].token
           \/ /\ x \notin Tokens /\ RowAfter(c, x) = row[c]
<1>1. row[c] \in RowType /\ Rejected \notin Tokens
  BY BoundsAssumption DEF IInv, TypeOK, Rejected, Tokens
<1>2. CASE x \in Tokens /\ Stores(c)
  BY <1>2 DEF RowAfter
<1>3. CASE x \in Tokens /\ ~Stores(c)
  BY <1>1, <1>3 DEF RowAfter
<1>4. CASE x = Rejected /\ SweepDisables(c)
  BY <1>1, <1>4 DEF RowAfter, RowType
<1>5. CASE x = Rejected /\ ~SweepDisables(c) /\ RequestDisables(c)
  BY <1>1, <1>5 DEF RowAfter, RowType
<1>6. CASE x \notin Tokens /\ ~(x = Rejected /\ (SweepDisables(c) \/ RequestDisables(c)))
  BY <1>6 DEF RowAfter
<1> QED
  BY <1>2, <1>3, <1>4, <1>5, <1>6

(* A renewed row is not disabled.                                             *)
LEMMA BlamelessStays ==
    ASSUME IInv, NEW c \in Connections, TokenInv(c), Finish(c),
           job[c].result = Rejected, SweepDisables(c) \/ RequestDisables(c)
    PROVE  revoked[c] \/ row[c].token # issued[c]
<1>1. issued[c] # NoToken
  BY Numbers
<1>2. revoked[c] \/ row[c].token # issued[c] \/ Renewed(c)
  BY DEF TokenInv, Blameless, Answered, Finish
<1>3. CASE SweepDisables(c)
  BY <1>2, <1>3 DEF SweepDisables, Renewed
<1>4. CASE RequestDisables(c)
  <2>1. PICK r \in Waiters(c) : /\ request[r].stage = "reactive"
                                /\ row[c].token \in {NoToken, request[r].attempted}
    BY <1>4 DEF RequestDisables
  <2>2. r \in Requests /\ request[r].conn = c
    BY DEF Waiters
  <2> QED
    BY <1>1, <1>2, <2>1, <2>2 DEF Renewed
<1> QED
  BY <1>3, <1>4

LEMMA FinishTokens ==
    ASSUME IInv, Starters, NEW c \in Connections, Finish(c), TokenInv(c)
    PROVE  TokenInv(c)'
<1> DEFINE x == job[c].result
<1>1. /\ job[c].stage = "returned" /\ job'[c] = Idle /\ row'[c] = RowAfter(c, x)
      /\ UNCHANGED <<issued, family, revoked>>
  BY DEF Finish, provider, IInv, TypeOK
<1>2. /\ issued[c] \in 1..MaxToken /\ MaxToken \in Nat /\ NoToken = 0
      /\ Rejected = MaxToken + 1 /\ Tokens = 1..MaxToken
      /\ job[c].token \in Nat
  BY Numbers
<1>3. x \in Tokens => x <= issued[c]
  BY <1>2 DEF TokenInv, Known
<1>4. row'[c].token <= issued'[c]
  <2>1. RowAfter(c, x).token \in {row[c].token, NoToken}
           \/ (x \in Tokens /\ RowAfter(c, x).token = x)
    BY RowAfterCases
  <2> QED
    BY <1>1, <1>2, <1>3, <2>1 DEF TokenInv, Known
<1>5. \A k \in rotated'[c] : k < issued'[c]
  <2>1. CASE rotated' = rotated
    BY <1>1, <2>1 DEF TokenInv, Known
  <2>2. CASE /\ x \in Tokens /\ job[c].source = "provider"
             /\ rotated' = [rotated EXCEPT ![c] = @ \cup {job[c].token}]
    <3>1. x = job[c].token + 1
      BY <1>1, <2>2 DEF TokenInv, Numbered, Answered
    <3>2. job[c].token < issued[c]
      BY <1>2, <1>3, <2>2, <3>1
    <3>3. rotated'[c] = rotated[c] \cup {job[c].token}
      BY <2>2 DEF IInv, TypeOK
    <3> QED
      BY <1>1, <3>2, <3>3 DEF TokenInv, Known
  <2> QED
    BY <2>1, <2>2 DEF Finish
<1>6. ASSUME NEW r \in Requests, request'[r].conn = c
      PROVE  request'[r].creds <= issued'[c] /\ request'[r].attempted <= issued'[c]
  <2>1. /\ request[r].conn = c
        /\ request'[r].creds \in {request[r].creds, NoToken}
             \/ (x \in Tokens /\ request'[r].creds = x)
        /\ request'[r].attempted \in {request[r].attempted, NoToken}
    BY <1>6, FinishRequests
  <2>2. request[r].creds <= issued[c] /\ request[r].attempted <= issued[c]
    BY <2>1 DEF TokenInv, Known
  <2> QED
    BY <1>1, <1>2, <1>3, <2>1, <2>2
<1>7. job'[c].stage = "idle" /\ job'[c].token = 0 /\ job'[c].result = 0
  BY <1>1 DEF Idle, Entry, NoToken
<1>8. Known(c)'
  BY <1>1, <1>2, <1>4, <1>5, <1>6, <1>7 DEF Known, TokenInv
<1>9. Unanswered(c)' /\ Numbered(c)' /\ Blameless(c)'
  BY <1>7 DEF Unanswered, Numbered, Blameless, InFlight, Answered
<1> QED
  BY <1>8, <1>9 DEF TokenInv

LEMMA FinishHomes ==
    ASSUME IInv, NEW c \in Connections, Finish(c), TokenInv(c), Home(c)
    PROVE  Home(c)'
<1> DEFINE x == job[c].result
<1>1. /\ job[c].stage = "returned" /\ job'[c] = Idle /\ row'[c] = RowAfter(c, x)
      /\ UNCHANGED <<issued, family, revoked>>
  BY DEF Finish, provider, IInv, TypeOK
<1>2. /\ issued[c] \in 1..MaxToken /\ MaxToken \in Nat /\ NoToken = 0
      /\ Rejected = MaxToken + 1 /\ Tokens = 1..MaxToken
      /\ row[c].token \in Nat /\ x \in Nat
  BY Numbers
<1>3. lost'[c] = (lost[c] \/ (x \in Tokens /\ job[c].source = "provider" /\ ~Stores(c))
                    \/ Overwrites(c))
  BY DEF Finish, IInv, TypeOK
<1>4. job'[c].stage = "idle"
  BY <1>1 DEF Idle, Entry
<1>5. ASSUME ~lost'[c]
      PROVE  /\ ~lost[c] /\ ~revoked[c] /\ ~Overwrites(c)
             /\ job[c].source = "map" \/ x \in {issued[c], NoToken, Rejected}
             /\ x \in Tokens /\ job[c].source = "provider" => Stores(c)
             /\ row[c].token = issued[c]
                  \/ (x = issued[c] /\ job[c].source = "provider")
  <2>1. /\ ~lost[c] /\ ~Overwrites(c)
        /\ x \in Tokens /\ job[c].source = "provider" => Stores(c)
    BY <1>3, <1>5
  <2> QED
    BY <1>1, <2>1 DEF Home, Answered
<1>6. ASSUME ~lost'[c] PROVE row'[c].token = issued[c]
  <2>1. CASE x \in Tokens /\ Stores(c)
    <3>1. x <= issued[c]
      BY <1>2, <2>1 DEF TokenInv, Known
    <3>2. CASE job[c].source = "map"
      <4>1. row[c].token = issued[c] /\ ~(row[c].token > x)
        BY <1>5, <1>6, <2>1, <3>2 DEF Overwrites
      <4> QED
        BY <1>1, <1>2, <2>1, <3>1, <4>1, RowAfterCases
    <3>3. CASE job[c].source # "map"
      <4>1. x = issued[c]
        BY <1>2, <1>5, <1>6, <2>1, <3>3
      <4> QED
        BY <1>1, <2>1, <4>1 DEF RowAfter
    <3> QED
      BY <3>2, <3>3
  <2>2. CASE x \in Tokens /\ ~Stores(c)
    <3>1. row[c].token = issued[c]
      BY <1>5, <1>6, <2>2
    <3>2. RowAfter(c, x) = row[c]
      BY <1>2, <2>2 DEF RowAfter
    <3> QED
      BY <1>1, <3>1, <3>2
  <2>3. CASE x \notin Tokens
    <3>1. row[c].token = issued[c] /\ ~revoked[c]
      BY <1>2, <1>5, <1>6, <2>3
    <3>2. ~(x = Rejected /\ (SweepDisables(c) \/ RequestDisables(c)))
      BY <3>1, BlamelessStays
    <3>3. RowAfter(c, x) = row[c]
      BY <2>3, <3>2, RowAfterCases
    <3> QED
      BY <1>1, <3>1, <3>3
  <2> QED
    BY <2>1, <2>2, <2>3
<1> QED
  BY <1>1, <1>4, <1>5, <1>6 DEF Home, InFlight, Answered

(* A step of one refresh does not show in the other connections.              *)
LEMMA RefreshOthers ==
    ASSUME IInv, Starters, NEW c \in Connections,
           RefreshStep(c) \/ Sweep(c) \/ Age(c) \/ Forget(c) \/ Relogin(c),
           NEW d \in Connections, d # c
    PROVE  /\ TokenInv(d) => TokenInv(d)'
           /\ Home(d) => Home(d)'
<1>1. /\ row'[d] = row[d] /\ issued'[d] = issued[d]
      /\ family'[d] = family[d] /\ revoked'[d] = revoked[d] /\ rotated'[d] = rotated[d]
      /\ lost'[d] = lost[d]
  <2>1. CASE Post(c) \/ Rotate(c) \/ Refuse(c) \/ NetworkError(c) \/ SettleGap(c)
    BY <2>1 DEF Post, Rotate, Refuse, NetworkError, Unheard, SettleGap, provider, IInv, TypeOK
  <2>2. CASE Finish(c)
    BY <2>2 DEF Finish, provider, IInv, TypeOK
  <2>3. CASE Sweep(c) \/ Age(c) \/ Forget(c) \/ Relogin(c)
    BY <2>3 DEF Sweep, Age, Forget, Relogin, provider, process, IInv, TypeOK
  <2> QED
    BY <2>1, <2>2, <2>3 DEF RefreshStep
<1>2. job'[d] = job[d]
  <2>1. job \in [Connections -> JobType]
    BY DEF IInv, TypeOK
  <2>2. CASE Post(c) \/ SettleGap(c) \/ Finish(c) \/ Sweep(c)
    BY <2>1, <2>2 DEF Post, SettleGap, Finish, Sweep, GetAccessToken
  <2>3. CASE Rotate(c) \/ Refuse(c) \/ NetworkError(c)
    BY <2>1, <2>3 DEF Rotate, Refuse, NetworkError, Release
  <2>4. CASE Age(c) \/ Forget(c) \/ Relogin(c)
    BY <2>4 DEF Age, Forget, Relogin, process
  <2> QED
    BY <2>2, <2>3, <2>4 DEF RefreshStep
<1>3. \A r \in Requests : request'[r].conn = d => request'[r] = request[r]
  <2>1. CASE Finish(c)
    BY <2>1, FinishRequests
  <2>2. CASE request' = request
    BY <2>2
  <2> QED
    BY <2>1, <2>2 DEF RefreshStep, Post, Rotate, Refuse, NetworkError, SettleGap, Sweep, Age,
       Forget, Relogin, process
<1> QED
  BY <1>1, <1>2, <1>3, Untouched

-----------------------------------------------------------------------------
(* Time, the user, and the process.                                           *)

LEMMA AgeTokens ==
    ASSUME IInv, Calm, NEW c \in Connections, Age(c), TokenInv(c)
    PROVE  TokenInv(c)' /\ (Home(c) => Home(c)')
<1>1. row \in [Connections -> RowType] /\ row[c] \in RowType
  BY DEF IInv, TypeOK
<1>2. UNCHANGED <<issued, family, revoked, rotated, job, request, lost>>
  BY DEF Age, provider, process
<1>3. row'[c].token = row[c].token
  BY <1>1 DEF Age, RowType
<1>4. Known(c)' /\ Unanswered(c)' /\ Numbered(c)'
  BY <1>2, <1>3 DEF TokenInv, Known, Unanswered, Numbered, InFlight, Answered
<1>5. (~InFlight(c) /\ ~Answered(c)) \/ row[c].age # "fresh"
  BY DEF Age, CalmAge, InFlight, Answered
<1>6. Blameless(c)'
  <2>1. row[c].age # "fresh" => ~Renewed(c)
    BY DEF Renewed
  <2> QED
    BY <1>2, <1>3, <1>5, <2>1 DEF TokenInv, Blameless, InFlight, Answered
<1>7. Home(c) => Home(c)'
  BY <1>2, <1>3, HomeFrame
<1> QED
  BY <1>4, <1>6, <1>7 DEF TokenInv

LEMMA ForgetTokens ==
    ASSUME IInv, NEW c \in Connections, Forget(c), TokenInv(c)
    PROVE  TokenInv(c)' /\ (Home(c) => Home(c)')
<1>1. UNCHANGED <<row, issued, family, revoked, job, request, lost>>
  BY DEF Forget, provider
<1>2. rotated'[c] \subseteq rotated[c]
  BY DEF Forget, IInv, TypeOK
<1> QED
  BY <1>1, <1>2, TokenFrame, HomeFrame

LEMMA ReloginTokens ==
    ASSUME IInv, Calm, NEW c \in Connections, Relogin(c), TokenInv(c)
    PROVE  TokenInv(c)' /\ (Home(c) => Home(c)')
<1> DEFINE next == issued[c] + 1
<1>1. /\ issued[c] \in Nat /\ MaxToken \in Nat /\ Rejected = MaxToken + 1
      /\ job[c].token \in Nat /\ job[c].result \in Nat /\ rotated[c] \subseteq Nat
      /\ \A r \in Requests : request[r].creds \in Nat /\ request[r].attempted \in Nat
  BY Numbers, RequestNumbers
<1>2. /\ issued'[c] = next /\ family'[c] = next /\ revoked'[c] = FALSE /\ lost'[c] = FALSE
      /\ row'[c] = [token |-> next, age |-> "fresh", active |-> TRUE]
      /\ UNCHANGED <<rotated, job, request>>
  BY DEF Relogin, process, IInv, TypeOK
<1>3. job[c].stage \in {"idle", "queued"}
  BY DEF Relogin, CalmLogin
<1>4. Known(c)'
  <2>1. job'[c].token <= issued'[c] /\ (job'[c].result <= issued'[c] \/ job'[c].result = Rejected)
    BY <1>1, <1>2 DEF TokenInv, Known
  <2>2. \A k \in rotated'[c] : k < issued'[c]
    BY <1>1, <1>2 DEF TokenInv, Known
  <2>3. \A r \in Requests : request'[r].conn = c =>
             request'[r].creds <= issued'[c] /\ request'[r].attempted <= issued'[c]
    BY <1>1, <1>2 DEF TokenInv, Known
  <2>4. row'[c].token <= issued'[c] /\ family'[c] <= issued'[c]
    BY <1>1, <1>2
  <2> QED
    BY <2>1, <2>2, <2>3, <2>4 DEF Known
<1>5. Unanswered(c)' /\ Numbered(c)'
  BY <1>2, <1>3 DEF TokenInv, Unanswered, Numbered, InFlight, Answered
<1>6. Renewed(c)'
  <2>1. row'[c].age = "fresh" /\ row'[c].token = next
    BY <1>2
  <2>2. ASSUME NEW r \in Requests, request'[r].conn = c PROVE request'[r].attempted # next
    <3>1. request'[r] = request[r]
      BY <1>2
    <3>2. request[r].attempted <= issued[c]
      BY <2>2, <3>1 DEF TokenInv, Known
    <3> QED
      BY <1>1, <3>1, <3>2
  <2> QED
    BY <2>1, <2>2 DEF Renewed
<1>7. Blameless(c)'
  BY <1>6 DEF Blameless
<1>8. Home(c)'
  <2>3. InFlight(c)' => job'[c].token < family'[c]
    BY <1>1, <1>2 DEF TokenInv, Known
  <2>4. ~Answered(c)'
    BY <1>2, <1>3 DEF Answered
  <2> QED
    BY <1>2, <2>3, <2>4 DEF Home
<1> QED
  BY <1>4, <1>5, <1>7, <1>8 DEF TokenInv

(* A restart leaves the row; what the provider rotated unheard is lost.       *)
LEMMA RestartTokens ==
    ASSUME IInv, Restart, NEW c \in Connections, TokenInv(c)
    PROVE  TokenInv(c)' /\ (Home(c) => Home(c)')
<1>1. PICK unheard \in SUBSET Connections :
        /\ issued' = [d \in Connections |-> IF d \in unheard THEN issued[d] + 1 ELSE issued[d]]
        /\ lost' = [d \in Connections |-> lost[d] \/ d \in unheard \cup
              {b \in Connections : job[b].source = "provider" /\ job[b].result \in Tokens}]
  BY DEF Restart
<1>2. /\ issued[c] \in 1..MaxToken /\ MaxToken \in Nat /\ Tokens = 1..MaxToken /\ NoToken = 0
      /\ row[c].token \in Nat /\ family[c] \in Nat
  BY Numbers
<1>3. /\ job'[c] = Idle /\ rotated'[c] = {} /\ UNCHANGED <<row, family, revoked>>
      /\ \A r \in Requests : request'[r] = NewRequest(request[r].conn)
  BY DEF Restart
<1>4. /\ issued'[c] \in Nat /\ issued[c] <= issued'[c]
      /\ ~lost'[c] => issued'[c] = issued[c]
      /\ ~lost'[c] => ~lost[c] /\ ~(job[c].source = "provider" /\ job[c].result \in Tokens)
  <2>1. lost'[c] = (lost[c] \/ c \in unheard
                     \/ (job[c].source = "provider" /\ job[c].result \in Tokens))
    BY <1>1, Zenon
  <2>2. issued'[c] = IF c \in unheard THEN issued[c] + 1 ELSE issued[c]
    BY <1>1
  <2>3. /\ ~lost'[c] => c \notin unheard
        /\ ~lost'[c] => ~lost[c] /\ ~(job[c].source = "provider" /\ job[c].result \in Tokens)
    BY <2>1, Zenon
  <2> QED
    BY <1>2, <2>2, <2>3
<1>5. job'[c].stage = "idle" /\ job'[c].token = 0 /\ job'[c].result = 0
  BY <1>3 DEF Idle, Entry, NoToken
<1>6. Known(c)'
  <2>1. \A r \in Requests : request'[r].creds = 0 /\ request'[r].attempted = 0
    <3>1. \A b : NewRequest(b).creds = 0 /\ NewRequest(b).attempted = 0
      BY DEF NewRequest, NoToken
    <3> QED
      BY <1>3, <3>1
  <2>2. row'[c].token <= issued'[c] /\ family'[c] <= issued'[c]
    BY <1>2, <1>3, <1>4 DEF TokenInv, Known
  <2> QED
    BY <1>3, <1>4, <1>5, <2>1, <2>2 DEF Known
<1>7. Unanswered(c)' /\ Numbered(c)' /\ Blameless(c)'
  BY <1>5 DEF Unanswered, Numbered, Blameless, InFlight, Answered
<1>8. ASSUME Home(c) PROVE Home(c)'
  <2>1. ASSUME ~lost'[c] PROVE ~revoked[c] /\ row[c].token = issued[c]
    BY <1>2, <1>4, <1>8, <2>1 DEF Home
  <2> QED
    BY <1>3, <1>4, <1>5, <2>1 DEF Home, InFlight, Answered
<1> QED
  BY <1>6, <1>7, <1>8 DEF TokenInv

-----------------------------------------------------------------------------
(* Every step keeps the parts of every connection.                            *)

LEMMA OpenedBy ==
    ASSUME IInv, NEW c \in Connections, NEW t, NEW e, NEW x, GetAccessToken(c, t, e, x),
           NEW d \in Connections
    PROVE  /\ job'[c].by \in {job[c].by, x}
           /\ d # c => job'[d] = job[d]
<1>1. job \in [Connections -> JobType]
  BY DEF IInv, TypeOK
<1>2. Opened(c, t, e, x).by = x
  BY DEF Opened, Entry
<1> QED
  BY <1>1, <1>2 DEF GetAccessToken

LEMMA StartersKeep == ASSUME IInv, Starters, [Next]_vars PROVE Starters'
<1>1. job \in [Connections -> JobType]
  BY DEF IInv, TypeOK
<1>2. Idle.by \notin Requests
  BY SweeperAssumption DEF Idle, Entry
<1>3. ASSUME NEW r \in Requests, RequestStep(r) PROVE Starters'
  <2> DEFINE c == request[r].conn
  <2>1. c \in Connections
    BY RequestNumbers
  <2>2. \A d \in Connections : job'[d].by \in {job[d].by} \/ (d = c /\ job'[d].by = r)
    <3>1. CASE job' = job
      BY <3>1
    <3>2. CASE \E t, e : GetAccessToken(c, t, e, r)
      BY <2>1, <3>2, OpenedBy
    <3> QED
      BY <1>3, <3>1, <3>2 DEF RequestStep, Begin, Unauthorized, TimeOut, Retry
  <2>3. \A s \in Requests : request'[s].conn = request[s].conn
    BY <1>3, RequestConn
  <2> QED
    BY <2>2, <2>3 DEF Starters
<1>4. ASSUME NEW c \in Connections, Finish(c) PROVE Starters'
  <2>1. \A d \in Connections : job'[d] = job[d] \/ job'[d] = Idle
    BY <1>1, <1>4 DEF Finish
  <2>2. \A s \in Requests : request'[s].conn = request[s].conn
    BY <1>4, FinishRequests
  <2> QED
    BY <1>2, <2>1, <2>2 DEF Starters
<1>5. ASSUME NEW c \in Connections,
             Post(c) \/ Rotate(c) \/ Refuse(c) \/ NetworkError(c) \/ SettleGap(c)
      PROVE  Starters'
  <2>1. \A d \in Connections : job'[d].by = job[d].by
    <3>1. CASE \E s \in {"network", "returned", "settling"} :
                 job' = [job EXCEPT ![c].stage = s]
      BY <1>1, <3>1 DEF JobType
    <3>2. CASE \E s, x :
                 job' = [job EXCEPT ![c].stage = s, ![c].result = x]
      BY <1>1, <3>2 DEF JobType
    <3> QED
      BY <1>5, <3>1, <3>2 DEF Post, Rotate, Refuse, NetworkError, SettleGap, Release
  <2>2. request' = request
    BY <1>5 DEF Post, Rotate, Refuse, NetworkError, SettleGap
  <2> QED
    BY <2>1, <2>2 DEF Starters
<1>6. ASSUME NEW c \in Connections, Sweep(c) PROVE Starters'
  <2>1. \A d \in Connections : job'[d].by \in {job[d].by, Sweeper}
    BY <1>6, OpenedBy DEF Sweep
  <2> QED
    BY <1>6, <2>1, SweeperAssumption DEF Starters, Sweep
<1>7. ASSUME NEW c \in Connections, Age(c) \/ Forget(c) \/ Relogin(c) PROVE Starters'
  BY <1>7 DEF Starters, Age, Forget, Relogin, process
<1>8. CASE Restart
  <2>1. \A d \in Connections : job'[d] = Idle
    BY <1>8 DEF Restart
  <2> QED
    BY <1>2, <2>1 DEF Starters
<1>9. CASE UNCHANGED vars
  BY <1>9 DEF vars, Starters
<1> QED
  BY <1>3, <1>4, <1>5, <1>6, <1>7, <1>8, <1>9 DEF Next, RefreshStep

LEMMA InitTokens == Init => Starters /\ \A c \in Connections : TokenInv(c) /\ Home(c)
<1> SUFFICES ASSUME Init PROVE Starters /\ \A c \in Connections : TokenInv(c) /\ Home(c)
  OBVIOUS
<1>1. /\ Idle.stage = "idle" /\ Idle.token = 0 /\ Idle.result = 0
      /\ Idle.by \notin Requests
  BY SweeperAssumption DEF Idle, Entry, NoToken
<1>2. \A b : NewRequest(b).creds = 0 /\ NewRequest(b).attempted = 0
  BY DEF NewRequest, NoToken
<1>3. \A r \in Requests : request[r].creds = 0 /\ request[r].attempted = 0
  BY <1>2 DEF Init
<1> SUFFICES ASSUME NEW c \in Connections PROVE TokenInv(c) /\ Home(c)
  BY <1>1 DEF Init, Starters
<1>4. /\ row[c].token = 1 /\ issued[c] = 1 /\ family[c] = 1 /\ revoked[c] = FALSE
      /\ rotated[c] = {} /\ job[c] = Idle
  BY DEF Init
<1>5. Known(c)
  BY <1>1, <1>3, <1>4 DEF Known
<1>6. Unanswered(c) /\ Numbered(c) /\ Blameless(c)
  BY <1>1, <1>4 DEF Unanswered, Numbered, Blameless, InFlight, Answered
<1>7. Home(c)
  BY <1>1, <1>3, <1>4 DEF Home, InFlight, Answered, Init
<1> QED
  BY <1>5, <1>6, <1>7 DEF TokenInv

TokensInv == IInv /\ Starters /\ \A c \in Connections : TokenInv(c)
HomesInv  == TokensInv /\ \A c \in Connections : Home(c)

LEMMA NextTokens == ASSUME Calm PROVE TokensInv /\ [Next]_vars => TokensInv'
<1> SUFFICES ASSUME TokensInv, [Next]_vars, NEW d \in Connections PROVE TokenInv(d)'
  BY NextIInv, StartersKeep DEF TokensInv
<1>1. IInv /\ Starters /\ TokenInv(d)
  BY DEF TokensInv
<1>2. ASSUME NEW r \in Requests, RequestStep(r) PROVE TokenInv(d)'
  <2>1. request[r].conn \in Connections
    BY <1>1, RequestNumbers
  <2> QED
    BY <1>1, <1>2, <2>1, RequestTokens, RequestOthers
<1>3. ASSUME NEW c \in Connections,
             RefreshStep(c) \/ Sweep(c) \/ Age(c) \/ Forget(c) \/ Relogin(c)
      PROVE  TokenInv(d)'
  <2>1. CASE c = d
    BY <1>1, <1>3, <2>1, PostTokens, RotateTokens, RefuseTokens, NetworkErrorTokens,
       SettleGapTokens, FinishTokens, SweepTokens, AgeTokens, ForgetTokens, ReloginTokens
    DEF RefreshStep
  <2>2. CASE c # d
    BY <1>1, <1>3, <2>2, RefreshOthers
  <2> QED
    BY <2>1, <2>2
<1>4. CASE Restart
  BY <1>1, <1>4, RestartTokens
<1>5. CASE UNCHANGED vars
  BY <1>1, <1>5, TokenFrame DEF vars
<1> QED
  BY <1>2, <1>3, <1>4, <1>5 DEF Next

LEMMA NextHomes == ASSUME Calm PROVE HomesInv /\ [Next]_vars => HomesInv'
<1> SUFFICES ASSUME HomesInv, [Next]_vars, NEW d \in Connections PROVE Home(d)'
  BY NextTokens DEF HomesInv
<1>1. IInv /\ Starters /\ TokenInv(d) /\ Home(d)
  BY DEF HomesInv, TokensInv
<1>2. ASSUME NEW r \in Requests, RequestStep(r) PROVE Home(d)'
  <2>1. request[r].conn \in Connections
    BY <1>1, RequestNumbers
  <2> QED
    BY <1>1, <1>2, <2>1, RequestHomes, RequestOthers
<1>3. ASSUME NEW c \in Connections,
             RefreshStep(c) \/ Sweep(c) \/ Age(c) \/ Forget(c) \/ Relogin(c)
      PROVE  Home(d)'
  <2>1. CASE c = d
    BY <1>1, <1>3, <2>1, PostTokens, RotateTokens, RefuseTokens, NetworkErrorTokens,
       SettleGapTokens, FinishHomes, SweepTokens, AgeTokens, ForgetTokens, ReloginTokens
    DEF RefreshStep
  <2>2. CASE c # d
    BY <1>1, <1>3, <2>2, RefreshOthers
  <2> QED
    BY <2>1, <2>2
<1>4. CASE Restart
  BY <1>1, <1>4, RestartTokens
<1>5. CASE UNCHANGED vars
  BY <1>1, <1>5, HomeFrame DEF vars
<1> QED
  BY <1>2, <1>3, <1>4, <1>5 DEF Next

(* Calm environment: a refresh that fails with an older token never takes a   *)
(* healthy account out of service, for any number of accounts and requests.   *)
THEOREM HealthyStays == ASSUME Calm PROVE Spec => HealthyStaysActive
<1>1. Init => TokensInv
  BY InitIInv, InitTokens DEF TokensInv
<1>2. TokensInv /\ [Next]_vars => TokensInv'
  BY NextTokens
<1>3. TokensInv /\ [Next]_vars =>
        [\A c \in Connections : row[c].active /\ ~row'[c].active
            => revoked[c] \/ row[c].token # issued[c]]_vars
  <2> SUFFICES ASSUME TokensInv, Next, NEW c \in Connections, row[c].active, ~row'[c].active
               PROVE  revoked[c] \/ row[c].token # issued[c]
    OBVIOUS
  <2>1. row \in [Connections -> RowType] /\ row[c] \in RowType
    BY DEF TokensInv, IInv, TypeOK
  <2>2. row' # row
    OBVIOUS
  <2>3. PICK b \in Connections : Finish(b) \/ Age(b) \/ Relogin(b)
    BY <2>2 DEF Next, RequestStep, RefreshStep, Begin, Unauthorized, TimeOut, Retry, Post,
       Rotate, Refuse, NetworkError, SettleGap, Sweep, Forget, Restart
  <2>4. CASE Age(b)
    <3>1. PICK a : row' = [row EXCEPT ![b].age = a]
      BY <2>4 DEF Age
    <3> QED
      BY <2>1, <3>1 DEF RowType
  <2>5. CASE Relogin(b)
    BY <2>1, <2>5 DEF Relogin
  <2>6. CASE Finish(b)
    <3>1. b = c /\ row'[c] = RowAfter(c, job[c].result)
      BY <2>1, <2>6 DEF Finish
    <3>2. job[c].result = Rejected /\ (SweepDisables(c) \/ RequestDisables(c))
      BY <3>1 DEF RowAfter
    <3> QED
      BY <2>6, <3>1, <3>2, BlamelessStays DEF TokensInv
  <2> QED
    BY <2>3, <2>4, <2>5, <2>6
<1> QED
  BY <1>1, <1>2, <1>3, PTL DEF Spec, HealthyStaysActive

(* Calm environment: every rotation comes home unless it is lost in one of    *)
(* the four ways RotationsComeHome names, for any number of accounts and      *)
(* requests and however close refreshes and logins follow each other.         *)
THEOREM RotationsReturn == ASSUME Calm PROVE Spec => []RotationsComeHome
<1>1. Init => HomesInv
  BY InitIInv, InitTokens DEF HomesInv, TokensInv
<1>2. HomesInv /\ [Next]_vars => HomesInv'
  BY NextHomes
<1>3. HomesInv => RotationsComeHome
  BY DEF HomesInv, Home, Answered, RotationsComeHome
<1> QED
  BY <1>1, <1>2, <1>3, PTL DEF Spec

=============================================================================
