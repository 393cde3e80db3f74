------------------------ MODULE ProviderBreaker_proofs ------------------------
(***************************************************************************)
(* Proofs about ProviderBreaker for every number of requests, every        *)
(* threshold and every number of accounts a request may try.               *)
(***************************************************************************)
EXTENDS ProviderBreaker, TLAPS

\* A request that waits for a result has a dispatch left to account for.
TriesFit ==
    \A r \in Requests :
        req[r].phase \in {"running", "ok", "failed", "refused"} => req[r].tries < MaxTries

TypeInv == TypeOK /\ TriesFit

-----------------------------------------------------------------------------
(* How a request moves on *)

\* Goto changes the phase of one request.
LEMMA GotoFacts ==
  ASSUME req \in [Requests -> Request], NEW r \in Requests, NEW p \in Phases, Goto(r, p)
  PROVE  /\ req' \in [Requests -> Request]
         /\ req'[r].phase = p /\ req'[r].tries = req[r].tries
         /\ req'[r].mode = req[r].mode /\ req'[r].lastStatus = req[r].lastStatus
         /\ \A s \in Requests \ {r} : req'[s] = req[s]
  BY DEF Goto, Request

\* Finish forgets what the request has tried.
LEMMA FinishFacts ==
  ASSUME req \in [Requests -> Request], NEW r \in Requests, Finish(r)
  PROVE  /\ req' \in [Requests -> Request]
         /\ req'[r].phase = "idle" /\ req'[r].lastStatus = "none"
         /\ req'[r].mode = req[r].mode
         /\ \A s \in Requests \ {r} : req'[s] = req[s]
<1>1. 0 \in 0..MaxTries
  BY ModesAssumption
<1>2. "idle" \in Phases /\ "none" \in Statuses
  BY DEF Phases, Statuses
<1> QED
  BY <1>1, <1>2 DEF Finish, Request

\* TryAnother counts the try and remembers its status.
LEMMA TryAnotherFacts ==
  ASSUME req \in [Requests -> Request], NEW r \in Requests, NEW t \in Statuses,
         req[r].tries < MaxTries, TryAnother(r, t)
  PROVE  /\ req' \in [Requests -> Request]
         /\ req'[r].phase = "gated" /\ req'[r].lastStatus = t
         /\ req'[r].mode = req[r].mode
         /\ \A s \in Requests \ {r} : req'[s] = req[s]
<1>1. req[r].tries + 1 \in 0..MaxTries
  BY ModesAssumption DEF Request
<1>2. "gated" \in Phases
  BY DEF Phases
<1> QED
  BY <1>1, <1>2 DEF TryAnother, Request

\* Return is Goto or Finish.
LEMMA ReturnFacts ==
  ASSUME req \in [Requests -> Request], NEW r \in Requests, Return(r)
  PROVE  /\ req' \in [Requests -> Request]
         /\ req'[r].phase \in {"idle", "answered"}
         /\ ~Combo(r) => req'[r].phase = "idle" /\ req'[r].lastStatus = "none"
         /\ req'[r].mode = req[r].mode
         /\ \A s \in Requests \ {r} : req'[s] = req[s]
<1>1. "answered" \in Phases
  BY DEF Phases
<1> QED
  BY <1>1, GotoFacts, FinishFacts DEF Return

\* A success, a refresh, an admitted call and the passing of time keep the
\* breaker well formed.
LEMMA CallTypes ==
  ASSUME NEW b \in Breaker
  PROVE  /\ OnSuccess(b) \in Breaker /\ Refreshed(b) \in Breaker /\ Later(b) \in Breaker
         /\ CanExecute(b) => Admitted(b) \in Breaker
<1>1. Refreshed(b) \in Breaker /\ (CanExecute(b) => Admitted(b) \in Breaker)
  <2>1. Refreshed(b) \in Breaker
    BY DEF Refreshed, Breaker, States
  <2>2. CanExecute(b) => Admitted(b) \in Breaker
    BY DEF CanExecute, Admitted, Breaker
  <2> QED
    BY <2>1, <2>2
<1>2. Later(b) \in Breaker
  BY BreakerConstants DEF Later, Bump, Breaker
<1>3. [j \in Kinds |-> 0] \in KindCounts
  BY BreakerConstants DEF KindCounts
<1>4. 0 \in 0..MaxThreshold /\ 0 \in 0..MaxCycles /\ LongAgo \in 0..LongAgo
  BY BreakerConstants
<1>5. Cleared(b) \in Breaker
  BY <1>3, <1>4 DEF Cleared, Breaker
<1>6. /\ ResetBreaker(b) \in Breaker
      /\ [Cleared(b) EXCEPT !.state = "CLOSED"] \in Breaker
  BY <1>4, <1>5 DEF ResetBreaker, Breaker, States
<1>7. CASE b.state \notin {"OPEN", "HALF_OPEN"}
  <2> DEFINE fewer == IF b.failureCount > 0 THEN b.failureCount - 1 ELSE 0
             to == IF fewer <= b.degradationThreshold THEN "CLOSED" ELSE b.state
  <2>1. OnSuccess(b) = [b EXCEPT !.failureCount = fewer, !.state = to]
    BY <1>7 DEF OnSuccess
  <2>2. fewer \in 0..MaxThreshold /\ to \in States
    BY BreakerConstants DEF Breaker, States
  <2> HIDE DEF fewer, to
  <2>3. OnSuccess(b) \in Breaker
    BY <2>1, <2>2 DEF Breaker
  <2> QED
    BY <1>1, <1>2, <2>3
<1>8. CASE b.state \in {"OPEN", "HALF_OPEN"}
  BY <1>1, <1>2, <1>6, <1>8 DEF OnSuccess
<1> QED
  BY <1>7, <1>8

\* So does a failure, of whatever kind.
LEMMA FailureType ==
  ASSUME NEW b \in Breaker, NEW k \in Kinds \cup {NoKind}
  PROVE  OnFailure(b, k) \in Breaker
<1> DEFINE n      == Counted(b, k)
           counts == [j \in Kinds |-> IF j = k THEN Bump(b.kindFailureCounts[j], KindLimit[j])
                                      ELSE b.kindFailureCounts[j]]
<1>1. b.kindFailureCounts \in KindCounts /\ KindLimit \in [Kinds -> Nat]
  BY BreakerConstants DEF Breaker
<1>2. counts \in KindCounts
  <2> HIDE DEF counts
  <2>1. \A g \in KindCounts : \A j \in Kinds : g[j] \in Nat /\ g[j] <= KindLimit[j]
    BY DEF KindCounts
  <2>2. \A j \in Kinds : /\ b.kindFailureCounts[j] \in Nat /\ KindLimit[j] \in Nat
                         /\ b.kindFailureCounts[j] <= KindLimit[j]
    BY <1>1, <2>1
  <2>3. counts = [j \in Kinds |-> IF j = k THEN Bump(b.kindFailureCounts[j], KindLimit[j])
                                  ELSE b.kindFailureCounts[j]]
    BY DEF counts
  <2>4. \A j \in Kinds : counts[j] \in Nat /\ counts[j] <= KindLimit[j]
    <3> SUFFICES ASSUME NEW j \in Kinds PROVE counts[j] \in Nat /\ counts[j] <= KindLimit[j]
      OBVIOUS
    <3>1. counts[j] = IF j = k THEN Bump(b.kindFailureCounts[j], KindLimit[j])
                      ELSE b.kindFailureCounts[j]
      BY <2>3
    <3> QED
      BY <2>2, <3>1 DEF Bump
  <2>5. counts \in [Kinds -> Nat]
    BY <2>3, <2>4
  <2> QED
    BY <2>4, <2>5 DEF KindCounts
<1>3. Bump(b.failureCount, MaxThreshold) \in 0..MaxThreshold /\ 0 \in 0..LongAgo
  BY BreakerConstants DEF Breaker, Bump
<1>4. n = [b EXCEPT !.failureCount = Bump(@, MaxThreshold), !.sinceFailure = 0,
                    !.lastFailureKind = k, !.kindFailureCounts = counts]
  BY DEF Counted
<1> HIDE DEF counts
<1>5. n \in Breaker
  BY <1>2, <1>3, <1>4 DEF Breaker
<1>6. OnFailure(b, k) \in {n, [n EXCEPT !.state = "OPEN"], [n EXCEPT !.state = "DEGRADED"],
                           [n EXCEPT !.state = "OPEN",
                                     !.openCycleCount = Bump(n.openCycleCount, MaxCycles)]}
  BY DEF OnFailure
<1> HIDE DEF n
<1>7. Bump(n.openCycleCount, MaxCycles) \in 0..MaxCycles
  BY <1>5, BreakerConstants DEF Breaker, Bump
<1> QED
  BY <1>5, <1>6, <1>7 DEF Breaker, States

\* _onFailure keeps the breaker and the history well formed.
LEMMA BookFacts ==
  ASSUME TypeOK, Book
  PROVE  cb' \in Breaker /\ streak' \in 0..FailureThreshold
<1>1. OnFailure(cb, NoKind) \in Breaker
  BY FailureType DEF TypeOK
<1>2. Bump(streak, FailureThreshold) \in 0..FailureThreshold
  BY BreakerConstants DEF TypeOK, Bump
<1> QED
  BY <1>1, <1>2 DEF Book

-----------------------------------------------------------------------------
(* Type correctness *)

LEMMA InitType == Init => TypeInv
<1> SUFFICES ASSUME Init PROVE TypeInv
  OBVIOUS
<1>0. 0 \in 0..FailureThreshold
  BY BreakerConstants
<1>f. Fresh \in Breaker
  BY BreakerConstants DEF Fresh, Breaker, States, KindCounts
<1>1. cb \in Breaker /\ recent \in BOOLEAN /\ streak \in 0..FailureThreshold
  BY <1>0, <1>f DEF Init
<1>2. worst \in Reports
  BY DEF Init, Reports
<1> DEFINE Initial == {[phase |-> "idle", mode |-> m, tries |-> 0, lastStatus |-> "none"] :
                          m \in Modes}
<1>3. Initial \subseteq Request
  BY ModesAssumption DEF Request, Phases, Statuses
<1>4. \A q \in Initial : q.phase = "idle"
  OBVIOUS
<1>5. req \in [Requests -> Initial]
  BY DEF Init
<1> HIDE DEF Initial
<1>6. req \in [Requests -> Request] /\ \A r \in Requests : req[r].phase = "idle"
  BY <1>3, <1>4, <1>5
<1> QED
  BY <1>1, <1>2, <1>6 DEF TypeInv, TypeOK, TriesFit

\* It is enough that the request that moves still fits.
LEMMA FitsStep ==
  ASSUME TypeInv, NEW r \in Requests,
         \A s \in Requests \ {r} : req'[s] = req[s],
         req'[r].phase \in {"running", "ok", "failed", "refused"} => req'[r].tries < MaxTries
  PROVE  TriesFit'
  BY DEF TypeInv, TriesFit

LEMMA StepType == TypeInv /\ [Next]_vars => TypeInv'
<1> SUFFICES ASSUME TypeInv, [Next]_vars PROVE TypeInv'
  OBVIOUS
<1> USE DEF TypeInv
<1>t. /\ cb \in Breaker /\ req \in [Requests -> Request]
      /\ recent \in BOOLEAN /\ streak \in 0..FailureThreshold
      /\ worst \in Reports
  BY DEF TypeOK
<1>z. 0 \in 0..FailureThreshold
  BY BreakerConstants
<1>p. /\ {"idle", "routed", "gated", "running", "ok", "failed", "refused", "served",
          "answered"} \subseteq Phases
      /\ {"failed", "refused", "other"} \subseteq Statuses
  BY DEF Phases, Statuses
<1>b. /\ Refreshed(cb) \in Breaker /\ OnSuccess(cb) \in Breaker /\ Later(cb) \in Breaker
      /\ OnSuccess(Refreshed(cb)) \in Breaker
      /\ Refreshed(OnFailure(Refreshed(cb), NoKind)) \in Breaker
      /\ CanExecute(Refreshed(cb)) => Admitted(Refreshed(cb)) \in Breaker
  BY <1>t, CallTypes, FailureType
<1>1. ASSUME NEW r \in Requests, Route(r)
      PROVE  TypeInv'
  <2>1. Goto(r, "routed") /\ cb' \in Breaker /\ UNCHANGED <<recent, streak, worst>>
    BY <1>1, <1>b DEF Route
  <2> QED
    BY <1>t, <1>p, <2>1, GotoFacts, FitsStep DEF TypeOK
<1>2. ASSUME NEW r \in Requests, Gate(r)
      PROVE  TypeInv'
  <2>1. cb' \in Breaker /\ UNCHANGED <<recent, streak, worst>>
        /\ (Goto(r, "gated") \/ Return(r))
    BY <1>2, <1>b DEF Gate
  <2> QED
    BY <1>t, <1>p, <2>1, GotoFacts, ReturnFacts, FitsStep DEF TypeOK
<1>3. ASSUME NEW r \in Requests, Dispatch(r)
      PROVE  TypeInv'
  <2>1. cb' \in Breaker /\ UNCHANGED <<recent, streak, worst>>
        /\ (Goto(r, "running") \/ Goto(r, "refused")) /\ req[r].tries < MaxTries
    BY <1>3, <1>b, <1>t DEF Dispatch
  <2> QED
    BY <1>t, <1>p, <2>1, GotoFacts, FitsStep DEF TypeOK
<1>4. ASSUME NEW r \in Requests, Settles(r)
      PROVE  TypeInv'
  <2>1. req[r].tries < MaxTries
    BY <1>4 DEF TriesFit, Settles, UpstreamOk, UpstreamFails, Uncounted, ProxyUnreachable
  <2>2. CASE UpstreamOk(r)
    <3>1. cb' \in Breaker /\ streak' = 0 /\ UNCHANGED <<recent, worst>> /\ Goto(r, "ok")
      BY <2>2, <1>b, <1>t DEF UpstreamOk, BookResolved
    <3> QED
      BY <1>t, <1>z, <1>p, <2>1, <3>1, GotoFacts, FitsStep DEF TypeOK
  <2>3. CASE UpstreamFails(r)
    <3>1. cb' \in Breaker /\ worst' = "upstream" /\ UNCHANGED <<recent, streak>>
          /\ Goto(r, "failed")
      BY <2>3, <1>b, <1>t DEF UpstreamFails, BookResolved
    <3> QED
      BY <1>t, <1>p, <2>1, <3>1, GotoFacts, FitsStep DEF TypeOK, Reports
  <2>4. CASE Uncounted(r)
    <3>1. cb' \in Breaker /\ UNCHANGED <<recent, streak, worst>>
          /\ (Finish(r) \/ TryAnother(r, "other"))
      BY <2>4, <1>b, <1>t DEF Uncounted, BookResolved
    <3> QED
      BY <1>t, <1>p, <2>1, <3>1, FinishFacts, TryAnotherFacts, FitsStep DEF TypeOK
  <2>5. CASE ProxyUnreachable(r)
    <3>1. cb' \in Breaker /\ streak' \in 0..FailureThreshold
      BY <2>5, <1>t, BookFacts DEF ProxyUnreachable
    <3>2. worst' \in Reports /\ UNCHANGED recent /\ Goto(r, "failed")
      BY <2>5, <1>t DEF ProxyUnreachable, Reports
    <3> QED
      BY <1>t, <1>p, <2>1, <3>1, <3>2, GotoFacts, FitsStep DEF TypeOK
  <2> QED
    BY <1>4, <2>2, <2>3, <2>4, <2>5 DEF Settles
<1>5. ASSUME NEW r \in Requests, RecordSuccess(r)
      PROVE  TypeInv'
  <2>1. cb' \in Breaker /\ UNCHANGED <<recent, streak, worst>>
        /\ (Goto(r, "served") \/ Finish(r))
    BY <1>5, <1>b DEF RecordSuccess
  <2> QED
    BY <1>t, <1>p, <2>1, GotoFacts, FinishFacts, FitsStep DEF TypeOK
<1>6. ASSUME NEW r \in Requests, FallBack(r)
      PROVE  TypeInv'
  <2>1. /\ req[r].phase \in {"failed", "refused"} /\ TryAnother(r, req[r].phase)
        /\ UNCHANGED <<cb, recent, streak, worst>>
    BY <1>6 DEF FallBack
  <2>2. req[r].tries < MaxTries
    BY <2>1 DEF TriesFit
  <2> QED
    BY <1>t, <1>p, <2>1, <2>2, TryAnotherFacts, FitsStep DEF TypeOK
<1>7. ASSUME NEW r \in Requests, RecordFailure(r) \/ NoAccount(r)
      PROVE  TypeInv'
  <2>1. cb' \in Breaker /\ streak' \in 0..FailureThreshold /\ UNCHANGED recent
    BY <1>7, <1>t, BookFacts DEF RecordFailure, NoAccount
  <2>2. Return(r) \/ Finish(r)
    BY <1>7 DEF RecordFailure, NoAccount
  <2>3. worst' \in Reports
    BY <1>7, <1>t DEF RecordFailure, NoAccount, Reports
  <2> QED
    BY <1>t, <2>1, <2>2, <2>3, ReturnFacts, FinishFacts, FitsStep DEF TypeOK
<1>8. ASSUME NEW r \in Requests, RecordComboSuccess(r)
      PROVE  TypeInv'
  <2>1. cb' \in Breaker /\ recent' \in BOOLEAN /\ UNCHANGED <<streak, worst>> /\ Finish(r)
    BY <1>8, <1>b, <1>t DEF RecordComboSuccess
  <2> QED
    BY <1>t, <2>1, FinishFacts, FitsStep DEF TypeOK
<1>9. ASSUME NEW r \in Requests, RecordComboFailure(r)
      PROVE  TypeInv'
  <2>1. Bump(streak, FailureThreshold) \in 0..FailureThreshold
    BY <1>t, BreakerConstants DEF Bump
  <2>2. cb' \in Breaker /\ recent' \in BOOLEAN /\ streak' \in 0..FailureThreshold
        /\ UNCHANGED worst /\ Finish(r)
    BY <1>9, <1>b, <1>t, <2>1 DEF RecordComboFailure
  <2> QED
    BY <1>t, <2>2, FinishFacts, FitsStep DEF TypeOK
<1>10. CASE Tick
  BY <1>10, <1>t, <1>b DEF Tick, TypeOK, TriesFit
<1>11. CASE UNCHANGED vars
  BY <1>11 DEF vars, TypeOK, TriesFit
<1> QED
  BY <1>1, <1>2, <1>3, <1>4, <1>5, <1>6, <1>7, <1>8, <1>9, <1>10, <1>11 DEF Next, Records

LEMMA TypeAlways == Spec => []TypeInv
  BY InitType, StepType, PTL DEF Spec

\* The state of the breaker and of the chat requests stays well formed, and
\* no request dispatches more often than it may.
THEOREM TypeCorrect == Spec => []TypeOK
<1>1. TypeInv => TypeOK
  BY DEF TypeInv
<1> QED
  BY <1>1, TypeAlways, PTL

-----------------------------------------------------------------------------
(* Aborts and client errors never trip the breaker *)

\* While nothing has failed the breaker is untouched and no request knows of
\* a failure or of a refusal, so that none can book one.
Calm ==
    worst = "none" =>
        /\ cb.state = "CLOSED" /\ cb.failureCount = 0
        /\ \A r \in Requests : /\ req[r].phase \notin {"failed", "refused", "answered"}
                               /\ req[r].lastStatus \notin {"failed", "refused"}

CalmInv == TypeInv /\ Calm

\* An untouched breaker lets everything through and successes leave it so.
LEMMA UntouchedFacts ==
  ASSUME NEW b \in Breaker, b.state = "CLOSED", b.failureCount = 0
  PROVE  /\ Refreshed(b) = b /\ CanExecute(b) /\ Admitted(b) = b
         /\ OnSuccess(b).state = "CLOSED" /\ OnSuccess(b).failureCount = 0
         /\ Later(b).state = "CLOSED" /\ Later(b).failureCount = 0
<1>1. Refreshed(b) = b /\ CanExecute(b) /\ Admitted(b) = b
  BY DEF Refreshed, CanExecute, Admitted
<1> DEFINE to == IF 0 <= b.degradationThreshold THEN "CLOSED" ELSE b.state
<1>2. to = "CLOSED"
  OBVIOUS
<1>3. ~(b.failureCount > 0)
  OBVIOUS
<1>4. OnSuccess(b) = [b EXCEPT !.failureCount = 0, !.state = to]
  BY <1>3 DEF OnSuccess
<1> HIDE DEF to
<1>5. OnSuccess(b).state = "CLOSED" /\ OnSuccess(b).failureCount = 0
  BY <1>2, <1>4 DEF Breaker
<1>6. Later(b).state = "CLOSED" /\ Later(b).failureCount = 0
  BY DEF Later, Breaker
<1> QED
  BY <1>1, <1>5, <1>6

\* Calm is kept when one request moves on and learns of no failure.
LEMMA CalmStep ==
  ASSUME Calm, NEW r \in Requests, worst' = worst,
         worst = "none" => /\ cb'.state = "CLOSED" /\ cb'.failureCount = 0
                           /\ req'[r].phase \notin {"failed", "refused", "answered"}
                           /\ req'[r].lastStatus \notin {"failed", "refused"},
         \A s \in Requests \ {r} : req'[s] = req[s]
  PROVE  Calm'
  BY DEF Calm

LEMMA CalmInit == Init => CalmInv
<1> SUFFICES ASSUME Init PROVE Calm
  BY InitType DEF CalmInv
<1>1. cb.state = "CLOSED" /\ cb.failureCount = 0
  BY DEF Init, Fresh
<1>2. \A r \in Requests : req[r].phase = "idle" /\ req[r].lastStatus = "none"
  BY DEF Init
<1> QED
  BY <1>1, <1>2 DEF Calm

LEMMA CalmNext == CalmInv /\ [Next]_vars => CalmInv'
<1> SUFFICES ASSUME CalmInv, [Next]_vars PROVE Calm'
  BY StepType DEF CalmInv
<1> USE DEF CalmInv
<1>t. cb \in Breaker /\ req \in [Requests -> Request]
  BY DEF TypeInv, TypeOK
<1>q. ASSUME worst = "none"
      PROVE  /\ cb.state = "CLOSED" /\ cb.failureCount = 0
             /\ Refreshed(cb) = cb /\ CanExecute(cb) /\ Admitted(cb) = cb
             /\ OnSuccess(cb).state = "CLOSED" /\ OnSuccess(cb).failureCount = 0
             /\ Later(cb).state = "CLOSED" /\ Later(cb).failureCount = 0
             /\ \A r \in Requests : /\ req[r].phase \notin {"failed", "refused", "answered"}
                                    /\ req[r].lastStatus \notin {"failed", "refused"}
  BY <1>t, <1>q, UntouchedFacts DEF Calm
<1>p. {"routed", "gated", "running", "ok", "served"} \subseteq Phases /\ "other" \in Statuses
  BY DEF Phases, Statuses
<1>1. ASSUME NEW r \in Requests, Route(r) \/ Gate(r)
      PROVE  Calm'
  <2>1. UNCHANGED worst
    BY <1>1 DEF Route, Gate
  <2>2. ASSUME worst = "none" PROVE cb' = cb /\ (Goto(r, "routed") \/ Goto(r, "gated"))
    BY <1>1, <1>q, <2>2 DEF Route, Gate
  <2>3. Goto(r, "routed") \/ Goto(r, "gated") \/ worst # "none"
    BY <2>2
  <2> QED
    BY <1>t, <1>q, <1>p, <2>1, <2>2, <2>3, GotoFacts, CalmStep DEF Calm
<1>2. ASSUME NEW r \in Requests, RecordComboSuccess(r) \/ RecordComboFailure(r)
      PROVE  Calm'
  <2>1. /\ UNCHANGED worst /\ Finish(r)
        /\ RecordComboFailure(r) => worst # "none"
        /\ RecordComboSuccess(r) => cb' = OnSuccess(Refreshed(cb)) \/ cb' = Refreshed(cb)
    BY <1>2, <1>q DEF RecordComboSuccess, RecordComboFailure
  <2> QED
    BY <1>2, <1>t, <1>q, <2>1, FinishFacts, CalmStep
<1>3. ASSUME NEW r \in Requests, Dispatch(r)
      PROVE  Calm'
  <2>1. UNCHANGED worst
    BY <1>3 DEF Dispatch
  <2>2. ASSUME worst = "none" PROVE cb' = cb /\ Goto(r, "running")
    BY <1>3, <1>q, <2>2 DEF Dispatch
  <2>3. Goto(r, "running") \/ worst # "none"
    BY <2>2
  <2> QED
    BY <1>t, <1>q, <1>p, <2>1, <2>2, <2>3, GotoFacts, CalmStep DEF Calm
<1>4. ASSUME NEW r \in Requests, Settles(r)
      PROVE  Calm'
  <2>1. CASE UpstreamOk(r)
    <3>1. UNCHANGED worst /\ (cb' = cb \/ cb' = OnSuccess(cb)) /\ Goto(r, "ok")
      BY <2>1 DEF UpstreamOk, BookResolved
    <3> QED
      BY <1>t, <1>q, <1>p, <3>1, GotoFacts, CalmStep
  <2>2. CASE UpstreamFails(r) \/ ProxyUnreachable(r)
    BY <2>2 DEF UpstreamFails, ProxyUnreachable, Calm
  <2>3. CASE Uncounted(r)
    <3>1. UNCHANGED worst /\ (cb' = cb \/ cb' = OnSuccess(cb))
          /\ (Finish(r) \/ TryAnother(r, "other"))
      BY <2>3 DEF Uncounted, BookResolved
    <3>2. req[r].tries < MaxTries
      BY <2>3 DEF Uncounted, TypeInv, TriesFit
    <3> QED
      BY <1>t, <1>q, <1>p, <3>1, <3>2, FinishFacts, TryAnotherFacts, CalmStep
  <2> QED
    BY <1>4, <2>1, <2>2, <2>3 DEF Settles
<1>5. ASSUME NEW r \in Requests, RecordSuccess(r)
      PROVE  Calm'
  <2>1. UNCHANGED worst /\ cb' = OnSuccess(cb) /\ (Goto(r, "served") \/ Finish(r))
    BY <1>5 DEF RecordSuccess
  <2> QED
    BY <1>t, <1>q, <1>p, <2>1, GotoFacts, FinishFacts, CalmStep
<1>6. ASSUME NEW r \in Requests, FallBack(r) \/ RecordFailure(r)
      PROVE  Calm'
  BY <1>6, <1>q DEF FallBack, RecordFailure, Calm
<1>7. ASSUME NEW r \in Requests, NoAccount(r)
      PROVE  Calm'
  <2>1. CASE worst' # "none"
    BY <2>1 DEF Calm
  <2>2. CASE worst' = "none"
    <3>1. UNCHANGED worst /\ cb' = cb /\ Finish(r)
      BY <1>7, <1>q, <2>2 DEF NoAccount, Return
    <3> QED
      BY <1>t, <1>q, <3>1, FinishFacts, CalmStep
  <2> QED
    BY <2>1, <2>2
<1>8. CASE Tick
  BY <1>8, <1>q DEF Tick, Calm
<1>9. CASE UNCHANGED vars
  BY <1>9 DEF vars, Calm
<1> QED
  BY <1>1, <1>2, <1>3, <1>4, <1>5, <1>6, <1>7, <1>8, <1>9 DEF Next, Records

\* Whatever requests, aborts, client errors, quota answers and fallbacks there
\* are, direct, forced or within combos: as long as neither an upstream nor a
\* proxy has failed, nor a combo was told of an outage of unknown cause, nobody
\* books a failure of the provider.
THEOREM AbortsNeverTripHolds == Spec => []AbortsNeverTrip
<1>1. CalmInv => AbortsNeverTrip
  BY DEF CalmInv, Calm, AbortsNeverTrip
<1> QED
  BY <1>1, CalmInit, CalmNext, PTL DEF Spec
=============================================================================
