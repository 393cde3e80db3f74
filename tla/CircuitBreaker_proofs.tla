------------------------ MODULE CircuitBreaker_proofs ------------------------
(***************************************************************************)
(* Proofs about CircuitBreaker for every number of calls, every threshold, *)
(* allowance and cooldown; first what the rules of one breaker return.     *)
(***************************************************************************)
EXTENDS CircuitBreaker, FiniteSetTheorems, TLAPS

\* A breaker or a row that serves traffic is below its threshold and has no
\* escalation left over.
Sound(b) ==
    b.state \in {"CLOSED", "DEGRADED"} =>
        b.failureCount < MaxThreshold /\ b.openCycleCount = 0

-----------------------------------------------------------------------------
(* The rules keep the types and soundness *)

\* The numeric part of the assumption on the constants.
LEMMA Numbers ==
  /\ MaxThreshold \in Nat /\ MaxThreshold > 0
  /\ MaxCycles \in Nat /\ LongAgo \in Nat
  BY BreakerConstants

\* The constructor's breaker is well formed and sound (constructor).
LEMMA FreshFacts == Fresh \in Breaker /\ Sound(Fresh)
  BY BreakerConstants
     DEF Fresh, Breaker, States, KindCounts, Sound

\* What _persistToDb writes is a well formed row, as sound as the breaker.
LEMMA RowOfFacts ==
  ASSUME NEW b \in Breaker
  PROVE  /\ RowOf(b) \in Row
         /\ Sound(b) => Sound(RowOf(b))
         /\ RowOf(b).openCycleCount = b.openCycleCount
  BY DEF RowOf, Row, Breaker, Sound

\* What _restoreFromDb builds is well formed, and sound if the row is.
LEMMA RestoredFacts ==
  ASSUME NEW r \in Row \cup {NoRow}
  PROVE  /\ Restored(r) \in Breaker
         /\ (r # NoRow => Sound(r)) => Sound(Restored(r))
         /\ r # NoRow => Restored(r).openCycleCount = r.openCycleCount
         /\ r = NoRow => Restored(r) = Fresh
         /\ Restored(r).state = "HALF_OPEN" =>
                Restored(r).halfOpenAllowed = HalfOpenRequests
<1>1. CASE r = NoRow
  BY <1>1, FreshFacts DEF Restored, Fresh
<1>2. CASE r # NoRow
  <2>1. r \in Row
    BY <1>2
  <2>2. Restored(r) =
          [state |-> r.state, failureCount |-> r.failureCount,
           sinceFailure |-> r.sinceFailure,
           lastFailureKind |-> r.lastFailureKind,
           kindFailureCounts |-> r.kindFailureCounts,
           openCycleCount |-> r.openCycleCount,
           halfOpenAllowed |-> IF r.state = "HALF_OPEN"
                               THEN HalfOpenRequests ELSE 0,
           failureThreshold |-> FailureThreshold,
           degradationThreshold |-> DegradationThreshold,
           halfOpenRequests |-> HalfOpenRequests]
    BY <1>2 DEF Restored, Fresh
  <2> QED
    BY <1>2, <2>1, <2>2, BreakerConstants DEF Breaker, Row, Sound
<1> QED
  BY <1>1, <1>2

\* The lazy refresh only turns OPEN into HALF_OPEN with a full allowance.
LEMMA RefreshedFacts ==
  ASSUME NEW b \in Breaker
  PROVE  LET r == Refreshed(b)
         IN  /\ r \in Breaker
             /\ Sound(b) => Sound(r)
             /\ r.openCycleCount = b.openCycleCount
             /\ r # b => /\ b.state = "OPEN" /\ r.state = "HALF_OPEN"
                         /\ r.halfOpenAllowed = r.halfOpenRequests
             /\ b.state = "HALF_OPEN" => r = b
  BY DEF Refreshed, Breaker, States, Sound

\* Admission spends allowance in HALF_OPEN and changes nothing else.
LEMMA AdmittedFacts ==
  ASSUME NEW b \in Breaker, CanExecute(b)
  PROVE  LET a == Admitted(b)
         IN  /\ a \in Breaker
             /\ a.state = b.state
             /\ Sound(b) => Sound(a)
             /\ RowOf(a) = RowOf(b)
             /\ a.openCycleCount = b.openCycleCount
             /\ b.state = "HALF_OPEN" =>
                  a.halfOpenAllowed = b.halfOpenAllowed - 1
  BY DEF Admitted, CanExecute, Breaker, Sound, RowOf

\* Time changes the age of the last failure only.
LEMMA LaterFacts ==
  /\ \A b \in Breaker : /\ Later(b) \in Breaker
                        /\ Sound(b) => Sound(Later(b))
                        /\ Later(b).state = b.state
                        /\ Later(b).openCycleCount = b.openCycleCount
                        /\ Later(b).halfOpenAllowed = b.halfOpenAllowed
  /\ \A r \in Row : /\ Later(r) \in Row
                    /\ Sound(r) => Sound(Later(r))
                    /\ Later(r).openCycleCount = r.openCycleCount
  BY BreakerConstants DEF Later, Bump, Breaker, Row, Sound

\* What a recovery clears.
LEMMA ClearedFacts ==
  ASSUME NEW b \in Breaker
  PROVE  /\ Cleared(b) \in Breaker
         /\ Cleared(b).failureCount = 0
         /\ Cleared(b).openCycleCount = 0
<1>1. [j \in Kinds |-> 0] \in KindCounts
  BY BreakerConstants DEF KindCounts
<1>2. 0 \in 0..MaxThreshold /\ 0 \in 0..MaxCycles
  BY Numbers
<1> QED
  BY <1>1, <1>2 DEF Cleared, Breaker

\* reset() gives a sound CLOSED breaker without escalation.
LEMMA ResetFacts ==
  ASSUME NEW b \in Breaker
  PROVE  LET r == ResetBreaker(b)
         IN  r \in Breaker /\ Sound(r) /\ r.state = "CLOSED"
<1> DEFINE c == Cleared(b)
<1>1. c \in Breaker /\ c.failureCount = 0 /\ c.openCycleCount = 0
  BY ClearedFacts
<1>2. ResetBreaker(b) = [c EXCEPT !.state = "CLOSED", !.sinceFailure = LongAgo]
  BY DEF ResetBreaker
<1>3. LongAgo \in 0..LongAgo /\ 0 < MaxThreshold
  BY Numbers
<1> HIDE DEF c
<1>4. ResetBreaker(b) \in Breaker /\ ResetBreaker(b).state = "CLOSED"
  BY <1>1, <1>2, <1>3 DEF Breaker, States
<1>5. /\ ResetBreaker(b).failureCount = 0
      /\ ResetBreaker(b).openCycleCount = 0
  BY <1>1, <1>2 DEF Breaker
<1> QED
  BY <1>3, <1>4, <1>5 DEF Sound

\* _onSuccess keeps soundness and either closes the breaker or keeps its
\* escalation.
LEMMA OnSuccessFacts ==
  ASSUME NEW b \in Breaker
  PROVE  LET s == OnSuccess(b)
         IN  /\ s \in Breaker
             /\ Sound(b) => Sound(s)
             /\ s.state # "HALF_OPEN" /\ s.state # "OPEN"
             /\ s.openCycleCount # b.openCycleCount => s.state = "CLOSED"
<1>1. CASE b.state = "OPEN"
  <2>1. OnSuccess(b) = ResetBreaker(b)
    BY <1>1 DEF OnSuccess
  <2> QED
    BY <2>1, ResetFacts
<1>2. CASE b.state = "HALF_OPEN"
  <2> DEFINE c == Cleared(b)
  <2>1. c \in Breaker /\ c.failureCount = 0 /\ c.openCycleCount = 0
    BY ClearedFacts
  <2>2. OnSuccess(b) = [c EXCEPT !.state = "CLOSED"]
    BY <1>2 DEF OnSuccess
  <2>3. 0 < MaxThreshold
    BY Numbers
  <2> HIDE DEF c
  <2>4. /\ OnSuccess(b) \in Breaker
        /\ OnSuccess(b).state = "CLOSED"
        /\ OnSuccess(b).failureCount = 0
        /\ OnSuccess(b).openCycleCount = 0
    BY <2>1, <2>2 DEF Breaker, States
  <2> QED
    BY <2>3, <2>4 DEF Sound
<1>3. CASE b.state \in {"CLOSED", "DEGRADED"}
  <2> DEFINE fewer == IF b.failureCount > 0 THEN b.failureCount - 1 ELSE 0
             to == IF fewer <= b.degradationThreshold THEN "CLOSED" ELSE b.state
  <2>1. b.failureCount \in 0..MaxThreshold
    BY DEF Breaker
  <2>2. fewer \in 0..MaxThreshold /\ fewer <= b.failureCount
    BY <2>1, Numbers
  <2>3. OnSuccess(b) = [b EXCEPT !.failureCount = fewer, !.state = to]
    BY <1>3 DEF OnSuccess
  <2>4. to \in {"CLOSED", "DEGRADED"}
    BY <1>3
  <2> HIDE DEF fewer, to
  <2>5. /\ OnSuccess(b) \in Breaker
        /\ OnSuccess(b).state = to
        /\ OnSuccess(b).failureCount = fewer
        /\ OnSuccess(b).openCycleCount = b.openCycleCount
    BY <2>2, <2>3, <2>4 DEF Breaker, States
  <2> QED
    BY <1>3, <2>1, <2>2, <2>4, <2>5, Numbers DEF Sound
<1> QED
  BY <1>1, <1>2, <1>3 DEF Breaker, States

\* The counters of _onFailure stay in their ranges; nothing else moves.
LEMMA CountedFacts ==
  ASSUME NEW b \in Breaker, NEW k \in Kinds \cup {NoKind}
  PROVE  LET n == Counted(b, k)
         IN  /\ n \in Breaker
             /\ n.state = b.state
             /\ n.openCycleCount = b.openCycleCount
<1> DEFINE count  == Bump(b.failureCount, MaxThreshold)
           counts == [j \in Kinds |-> IF j = k
                                      THEN Bump(b.kindFailureCounts[j], KindLimit[j])
                                      ELSE b.kindFailureCounts[j]]
<1>1. b.failureCount \in 0..MaxThreshold /\ b.kindFailureCounts \in KindCounts
  BY DEF Breaker
<1>2. count \in 0..MaxThreshold /\ 0 \in 0..LongAgo
  BY <1>1, Numbers DEF Bump
<1>3. counts \in KindCounts
  <2>1. \A j \in Kinds : b.kindFailureCounts[j] \in Nat
                         /\ b.kindFailureCounts[j] <= KindLimit[j]
                         /\ KindLimit[j] \in Nat
    <3>1. KindLimit \in [Kinds -> Nat]
      BY BreakerConstants
    <3> DEFINE g == b.kindFailureCounts
    <3>2. g \in KindCounts
      BY <1>1
    <3> HIDE DEF g
    <3>3. g \in [Kinds -> Nat] /\ \A j \in Kinds : g[j] <= KindLimit[j]
      BY <3>2, Zenon DEF KindCounts
    <3>4. \A j \in Kinds : g[j] \in Nat /\ g[j] <= KindLimit[j]
                           /\ KindLimit[j] \in Nat
      BY <3>1, <3>3
    <3> QED
      BY <3>4 DEF g
  <2>2. \A j \in Kinds : counts[j] \in Nat /\ counts[j] <= KindLimit[j]
    <3> SUFFICES ASSUME NEW j \in Kinds
                 PROVE  counts[j] \in Nat /\ counts[j] <= KindLimit[j]
      OBVIOUS
    <3>1. counts[j] = IF j = k THEN Bump(b.kindFailureCounts[j], KindLimit[j])
                      ELSE b.kindFailureCounts[j]
      OBVIOUS
    <3> HIDE DEF counts
    <3> QED
      BY <2>1, <3>1 DEF Bump
  <2>3. counts \in [Kinds -> Nat]
    BY <2>2
  <2> QED
    BY <2>2, <2>3 DEF KindCounts
<1>4. Counted(b, k) = [b EXCEPT !.failureCount = count, !.sinceFailure = 0,
                                !.lastFailureKind = k, !.kindFailureCounts = counts]
  BY DEF Counted
<1> HIDE DEF count, counts
<1>5. k \in Kinds \cup {NoKind}
  OBVIOUS
<1>6. Counted(b, k) \in Breaker
  BY <1>2, <1>3, <1>4, <1>5 DEF Breaker
<1>7. /\ Counted(b, k).state = b.state
      /\ Counted(b, k).openCycleCount = b.openCycleCount
  BY <1>4 DEF Breaker
<1> QED
  BY <1>6, <1>7

\* _onFailure keeps soundness; escalation never shrinks, and a failure that
\* changes the escalation is one that is written to the row.
LEMMA OnFailureFacts ==
  ASSUME NEW b \in Breaker, NEW k \in Kinds \cup {NoKind}
  PROVE  LET f == OnFailure(b, k)
         IN  /\ f \in Breaker
             /\ Sound(b) => Sound(f)
             /\ f.state # "HALF_OPEN"
             /\ f.openCycleCount >= b.openCycleCount
             /\ f.openCycleCount # b.openCycleCount => ~TripsByKind(b, k)
<1> DEFINE n == Counted(b, k)
           f == OnFailure(b, k)
<1>1. /\ n \in Breaker
      /\ n.state = b.state
      /\ n.openCycleCount = b.openCycleCount
  BY CountedFacts
<1>2. /\ b.openCycleCount \in 0..MaxCycles /\ b.openCycleCount \in Int
      /\ b.failureThreshold \in 1..MaxThreshold
      /\ n.failureCount \in 0..MaxThreshold
  BY <1>1, Numbers DEF Breaker
<1>3. ASSUME f = [n EXCEPT !.state = "OPEN"]
      PROVE  /\ f \in Breaker /\ f.state = "OPEN"
             /\ f.openCycleCount = b.openCycleCount
  <2> HIDE DEF n, f
  <2> QED
    BY <1>1, <1>3 DEF Breaker, States
<1>4. CASE TripsByKind(b, k)
  <2>1. f = [n EXCEPT !.state = "OPEN"]
    BY <1>4 DEF OnFailure
  <2> QED
    BY <1>2, <1>3, <2>1 DEF Sound
<1>5. CASE ~TripsByKind(b, k) /\ b.state = "HALF_OPEN"
  <2> DEFINE more == Bump(n.openCycleCount, MaxCycles)
  <2>1. more \in 0..MaxCycles /\ more >= b.openCycleCount
    BY <1>1, <1>2, Numbers DEF Bump
  <2>2. f = [n EXCEPT !.state = "OPEN", !.openCycleCount = more]
    BY <1>5 DEF OnFailure
  <2> HIDE DEF more, n, f
  <2>3. f \in Breaker /\ f.state = "OPEN" /\ f.openCycleCount = more
    BY <1>1, <2>1, <2>2 DEF Breaker, States
  <2> QED
    BY <1>5, <2>1, <2>3 DEF Sound, f
<1>6. CASE /\ ~TripsByKind(b, k) /\ b.state \in {"CLOSED", "DEGRADED"}
           /\ n.failureCount >= b.failureThreshold
  <2>1. ~(n.failureCount < b.failureThreshold) /\ b.state # "HALF_OPEN"
    BY <1>2, <1>6
  <2>2. f = [n EXCEPT !.state = "OPEN"]
    BY <1>6, <2>1 DEF OnFailure
  <2> QED
    BY <1>2, <1>3, <1>6, <2>2 DEF Sound
<1>7. CASE /\ ~TripsByKind(b, k) /\ b.state \in {"CLOSED", "DEGRADED"}
           /\ n.failureCount < b.failureThreshold
  <2>1. n.failureCount < MaxThreshold
    BY <1>2, <1>7, Numbers
  <2>2. f = [n EXCEPT !.state = "DEGRADED"] \/ f = n
    <3>1. ~(n.failureCount >= b.failureThreshold)
      BY <1>2, <1>7
    <3>2. CASE b.state = "CLOSED" /\ n.failureCount >= b.degradationThreshold
      BY <1>7, <3>1, <3>2 DEF OnFailure
    <3>3. CASE ~(b.state = "CLOSED" /\ n.failureCount >= b.degradationThreshold)
      BY <1>7, <3>1, <3>3 DEF OnFailure
    <3> QED
      BY <3>2, <3>3
  <2> HIDE DEF n, f
  <2>3. /\ f \in Breaker /\ f.state \in {"CLOSED", "DEGRADED"}
        /\ f.failureCount = n.failureCount
        /\ f.openCycleCount = b.openCycleCount
    BY <1>1, <1>7, <2>2 DEF Breaker, States
  <2> QED
    BY <1>2, <1>7, <2>1, <2>3 DEF Sound, f
<1>8. CASE ~TripsByKind(b, k) /\ b.state = "OPEN"
  <2>1. f = n
    BY <1>8 DEF OnFailure
  <2> QED
    BY <1>1, <1>2, <1>8, <2>1 DEF Sound
<1>9. n.failureCount >= b.failureThreshold \/ n.failureCount < b.failureThreshold
  BY <1>2
<1> QED
  BY <1>4, <1>5, <1>6, <1>7, <1>8, <1>9 DEF Breaker, States

\* getCircuitBreaker's options touch thresholds and clamp the allowance.
LEMMA ReconfiguredFacts ==
  ASSUME NEW b \in Breaker, NEW o \in Options
  PROVE  LET r == Reconfigured(b, o)
         IN  /\ r \in Breaker
             /\ Sound(b) => Sound(r)
             /\ r.state = b.state
             /\ r.openCycleCount = b.openCycleCount
             /\ r.halfOpenAllowed <= b.halfOpenAllowed
<1> DEFINE r == Reconfigured(b, o)
           clamp == IF b.state = "HALF_OPEN" /\ o.halfOpenRequests < b.halfOpenAllowed
                    THEN o.halfOpenRequests ELSE b.halfOpenAllowed
<1>1. o.failureThreshold \in 1..MaxThreshold /\ o.halfOpenRequests \in Nat
  BY OptionsAreLegal
<1>2. b.halfOpenAllowed \in Nat
  BY DEF Breaker
<1>3. clamp \in Nat /\ clamp <= b.halfOpenAllowed
  BY <1>1, <1>2
<1>4. r = [b EXCEPT !.failureThreshold = o.failureThreshold,
                    !.halfOpenRequests = o.halfOpenRequests,
                    !.halfOpenAllowed = clamp]
  BY DEF Reconfigured
<1> HIDE DEF r, clamp
<1>5. r \in Breaker
  BY <1>1, <1>3, <1>4 DEF Breaker
<1>6. /\ r.state = b.state /\ r.failureCount = b.failureCount
      /\ r.openCycleCount = b.openCycleCount
      /\ r.halfOpenAllowed = clamp
  BY <1>4 DEF Breaker
<1> QED
  BY <1>3, <1>5, <1>6 DEF Sound, r

-----------------------------------------------------------------------------
(* Type correctness *)

CallStates == {"idle", "running", "probe"}

\* Retire and BudgetAfter stay in their types.
LEMMA HelperTypes ==
  ASSUME TypeOK, NEW b \in Breaker, NEW cs \in [Calls -> CallStates]
  PROVE  Retire(cs, b) \in [Calls -> CallStates] /\ BudgetAfter(b) \in Nat
  BY DEF TypeOK, Retire, BudgetAfter, CallStates, Breaker

LEMMA InitType == Init => TypeOK
<1> SUFFICES ASSUME Init PROVE TypeOK
  OBVIOUS
<1>1. cb \in Breaker
  BY FreshFacts DEF Init
<1> QED
  BY <1>1 DEF Init, TypeOK

LEMMA NextType ==
  ASSUME TypeOK, [Next]_vars
  PROVE  TypeOK'
<1> USE DEF CallStates
<1>1. ASSUME NEW c \in Calls, Execute(c) PROVE TypeOK'
  <2> DEFINE b == Refreshed(cb)
  <2>1. b \in Breaker
    BY RefreshedFacts DEF TypeOK
  <2>2. cb' \in Breaker
    BY <1>1, <2>1, AdmittedFacts DEF Execute
  <2>3. saved' \in Row \cup {NoRow}
    BY <1>1, <2>1, RowOfFacts DEF Execute, TypeOK
  <2>4. budget' \in Nat
    BY <1>1, <2>1, HelperTypes DEF Execute, TypeOK
  <2>5. calls' \in [Calls -> CallStates]
    BY <1>1 DEF Execute, TypeOK
  <2> QED
    BY <2>2, <2>3, <2>4, <2>5 DEF TypeOK
<1>2. ASSUME NEW c \in Calls, FnResolves(c) PROVE TypeOK'
  <2>1. cb' \in Breaker
    BY <1>2, OnSuccessFacts DEF FnResolves, TypeOK
  <2>2. saved' \in Row
    BY <1>2, <2>1, RowOfFacts DEF FnResolves
  <2>3. calls' \in [Calls -> CallStates]
    BY <1>2, <2>1, HelperTypes DEF FnResolves, TypeOK
  <2> QED
    BY <1>2, <2>1, <2>2, <2>3 DEF TypeOK, FnResolves
<1>3. ASSUME NEW c \in Calls, NEW k \in Kinds \cup {NoKind}, FnThrows(c, k)
      PROVE  TypeOK'
  <2>1. cb' \in Breaker
    BY <1>3, OnFailureFacts DEF FnThrows, TypeOK
  <2>2. saved' \in Row \cup {NoRow}
    BY <1>3, <2>1, RowOfFacts DEF FnThrows, RowAfterFailure, TypeOK
  <2>3. calls' \in [Calls -> CallStates]
    BY <1>3, <2>1, HelperTypes DEF FnThrows, TypeOK
  <2> QED
    BY <1>3, <2>1, <2>2, <2>3 DEF TypeOK, FnThrows
<1>4. ASSUME NEW c \in Calls, FnThrowsLocal(c) PROVE TypeOK'
  BY <1>4 DEF FnThrowsLocal, TypeOK
<1>5. CASE Refresh
  <2>1. cb' \in Breaker
    BY <1>5, RefreshedFacts DEF Refresh, TypeOK
  <2>2. saved' \in Row \cup {NoRow}
    BY <1>5, <2>1, RowOfFacts DEF Refresh, TypeOK
  <2>3. budget' \in Nat
    BY <1>5, <2>1, HelperTypes DEF Refresh, TypeOK
  <2> QED
    BY <1>5, <2>1, <2>2, <2>3 DEF TypeOK, Refresh
<1>6. CASE Reset
  <2>1. cb' \in Breaker
    BY <1>6, ResetFacts DEF Reset, TypeOK
  <2>2. saved' \in Row
    BY <1>6, <2>1, RowOfFacts DEF Reset
  <2>3. calls' \in [Calls -> CallStates]
    BY <1>6, <2>1, HelperTypes DEF Reset, TypeOK
  <2> QED
    BY <1>6, <2>1, <2>2, <2>3 DEF TypeOK, Reset
<1>7. ASSUME NEW o \in Options, Reconfigure(o) PROVE TypeOK'
  <2>1. cb' \in Breaker
    BY <1>7, ReconfiguredFacts DEF Reconfigure, TypeOK
  <2>2. saved' \in Row
    BY <1>7, <2>1, RowOfFacts DEF Reconfigure
  <2> QED
    BY <1>7, <2>1, <2>2 DEF TypeOK, Reconfigure
<1>8. CASE Restart
  <2>1. cb' \in Breaker
    BY <1>8, RestoredFacts DEF Restart, TypeOK
  <2>2. budget' \in Nat
    BY <1>8, BreakerConstants DEF Restart, TypeOK
  <2> QED
    BY <1>8, <2>1, <2>2 DEF TypeOK, Restart
<1>9. CASE Tick
  BY <1>9, LaterFacts DEF Tick, TypeOK
<1>10. CASE UNCHANGED vars
  BY <1>10 DEF vars, TypeOK
<1> QED
  BY <1>1, <1>2, <1>3, <1>4, <1>5, <1>6, <1>7, <1>8, <1>9, <1>10
     DEF Next, Returns

\* Type correctness of the breaker, its row and its calls.
THEOREM TypeCorrect == Spec => []TypeOK
  BY InitType, NextType, PTL DEF Spec

-----------------------------------------------------------------------------
(* Thresholds and escalation *)

\* The row is as sound as the breaker and remembers the same open cycles,
\* even when a per-kind trip was not written.
RowFits ==
    IF saved = NoRow THEN cb.openCycleCount = 0
    ELSE Sound(saved) /\ saved.openCycleCount = cb.openCycleCount

OutageInv == TypeOK /\ Sound(cb) /\ RowFits

\* Every operation that writes its result leaves a row that fits.
LEMMA Written ==
  ASSUME cb' \in Breaker, Sound(cb'), saved' = RowOf(cb')
  PROVE  RowFits'
<1>1. saved' \in Row /\ Sound(saved') /\ saved'.openCycleCount = cb'.openCycleCount
  BY RowOfFacts
<1>2. saved' # NoRow
  BY <1>1, NoRowIsNoRow
<1> QED
  BY <1>1, <1>2 DEF RowFits, Sound

\* An operation that leaves the row and the open cycles alone keeps the fit.
LEMMA Untouched ==
  ASSUME RowFits, saved' = saved, cb'.openCycleCount = cb.openCycleCount
  PROVE  RowFits'
  BY DEF RowFits, Sound

LEMMA OutageInit == Init => OutageInv
<1> SUFFICES ASSUME Init PROVE OutageInv
  OBVIOUS
<1>1. Fresh.openCycleCount = 0
  BY DEF Fresh
<1> QED
  BY <1>1, InitType, FreshFacts DEF Init, OutageInv, RowFits

LEMMA OutageStep ==
  ASSUME OutageInv, [Next]_vars
  PROVE  /\ Sound(cb') /\ RowFits'
         /\ cb'.openCycleCount < cb.openCycleCount => cb'.state = "CLOSED"
<1>1. TypeOK /\ Sound(cb) /\ RowFits /\ cb \in Breaker /\ TypeOK' /\ cb' \in Breaker
  BY NextType DEF OutageInv, TypeOK
<1>2. cb.openCycleCount \in Int
  BY <1>1 DEF Breaker
<1>3. ASSUME NEW c \in Calls, Execute(c)
      PROVE  /\ Sound(cb') /\ RowFits'
             /\ cb'.openCycleCount = cb.openCycleCount
  <2> DEFINE b == Refreshed(cb)
  <2>1. b \in Breaker /\ Sound(b) /\ b.openCycleCount = cb.openCycleCount
    BY <1>1, RefreshedFacts
  <2>2. /\ Sound(cb') /\ RowOf(cb') = RowOf(b)
        /\ cb'.openCycleCount = b.openCycleCount
    BY <1>3, <2>1, AdmittedFacts DEF Execute
  <2>3. CASE b = cb
    BY <1>1, <1>3, <2>1, <2>2, <2>3, Untouched DEF Execute
  <2>4. CASE b # cb
    <3>1. saved' = RowOf(b)
      BY <1>3, <2>4 DEF Execute
    <3>2. saved' = RowOf(cb')
      BY <2>2, <3>1
    <3> QED
      BY <1>1, <2>1, <2>2, <3>2, Written
  <2> QED
    BY <2>1, <2>2, <2>3, <2>4
<1>4. ASSUME NEW c \in Calls, FnResolves(c)
      PROVE  /\ Sound(cb') /\ RowFits'
             /\ cb'.openCycleCount # cb.openCycleCount => cb'.state = "CLOSED"
  BY <1>1, <1>4, OnSuccessFacts, Written DEF FnResolves
<1>5. ASSUME NEW c \in Calls, NEW k \in Kinds \cup {NoKind}, FnThrows(c, k)
      PROVE  /\ Sound(cb') /\ RowFits'
             /\ cb'.openCycleCount >= cb.openCycleCount
  <2>1. /\ Sound(cb') /\ cb'.openCycleCount >= cb.openCycleCount
        /\ cb'.openCycleCount # cb.openCycleCount => ~TripsByKind(cb, k)
    BY <1>1, <1>5, OnFailureFacts DEF FnThrows
  <2>2. CASE TripsByKind(cb, k)
    BY <1>1, <1>5, <2>1, <2>2, Untouched DEF FnThrows, RowAfterFailure
  <2>3. CASE ~TripsByKind(cb, k)
    BY <1>1, <1>5, <2>1, <2>3, Written DEF FnThrows, RowAfterFailure
  <2> QED
    BY <2>1, <2>2, <2>3
<1>6. ASSUME NEW c \in Calls, FnThrowsLocal(c)
      PROVE  cb' = cb /\ Sound(cb') /\ RowFits'
  BY <1>1, <1>6, Untouched DEF FnThrowsLocal
<1>7. ASSUME Refresh
      PROVE  /\ Sound(cb') /\ RowFits'
             /\ cb'.openCycleCount = cb.openCycleCount
  <2>1. Sound(cb') /\ cb'.openCycleCount = cb.openCycleCount
    BY <1>1, <1>7, RefreshedFacts DEF Refresh
  <2>2. CASE cb' = cb
    BY <1>1, <1>7, <2>1, <2>2, Untouched DEF Refresh
  <2>3. CASE cb' # cb
    BY <1>1, <1>7, <2>1, <2>3, Written DEF Refresh
  <2> QED
    BY <2>1, <2>2, <2>3
<1>8. ASSUME Reset PROVE Sound(cb') /\ RowFits' /\ cb'.state = "CLOSED"
  BY <1>1, <1>8, ResetFacts, Written DEF Reset
<1>9. ASSUME NEW o \in Options, Reconfigure(o)
      PROVE  /\ Sound(cb') /\ RowFits'
             /\ cb'.openCycleCount = cb.openCycleCount
  BY <1>1, <1>9, ReconfiguredFacts, Written DEF Reconfigure
<1>10. ASSUME Restart
       PROVE  /\ Sound(cb') /\ RowFits'
              /\ cb'.openCycleCount = cb.openCycleCount
  <2>1. CASE saved = NoRow
    <3>1. cb' = Fresh /\ saved' = saved /\ cb.openCycleCount = 0
      BY <1>1, <1>10, <2>1, RestoredFacts DEF Restart, RowFits
    <3>2. Fresh.openCycleCount = 0
      BY DEF Fresh
    <3> QED
      BY <1>1, <3>1, <3>2, FreshFacts, Untouched
  <2>2. CASE saved # NoRow
    <3>1. /\ Sound(saved) /\ saved.openCycleCount = cb.openCycleCount
          /\ saved \in Row \cup {NoRow} /\ saved' = saved
      BY <1>1, <1>10, <2>2 DEF RowFits, TypeOK, Restart
    <3>2. Sound(cb') /\ cb'.openCycleCount = saved.openCycleCount
      BY <1>10, <2>2, <3>1, RestoredFacts DEF Restart
    <3> QED
      BY <1>1, <3>1, <3>2, Untouched
  <2> QED
    BY <2>1, <2>2
<1>11. ASSUME Tick
       PROVE  /\ Sound(cb') /\ RowFits'
              /\ cb'.openCycleCount = cb.openCycleCount
  <2>1. Sound(cb') /\ cb'.openCycleCount = cb.openCycleCount
    BY <1>1, <1>11, LaterFacts DEF Tick
  <2>2. CASE saved = NoRow
    <3>1. saved' = saved
      BY <1>11, <2>2 DEF Tick
    <3> QED
      BY <1>1, <2>1, <3>1, Untouched
  <2>3. CASE saved # NoRow
    <3>1. saved \in Row /\ saved' = Later(saved)
      BY <1>1, <1>11, <2>3 DEF Tick, TypeOK
    <3>2. saved' \in Row /\ Sound(saved')
          /\ saved'.openCycleCount = saved.openCycleCount
      BY <1>1, <2>3, <3>1, LaterFacts DEF RowFits
    <3>3. saved' # NoRow
      BY <3>2, NoRowIsNoRow
    <3> QED
      BY <1>1, <2>1, <2>3, <3>2, <3>3 DEF RowFits, Sound
  <2> QED
    BY <2>1, <2>2, <2>3
<1>12. CASE UNCHANGED vars
  BY <1>1, <1>2, <1>12, Untouched DEF vars
<1>13. cb'.openCycleCount \in Int
  BY <1>1 DEF Breaker
<1> QED
  BY <1>2, <1>3, <1>4, <1>5, <1>6, <1>7, <1>8, <1>9, <1>10, <1>11, <1>12, <1>13
     DEF Next, Returns

LEMMA OutageAlways == Spec => []OutageInv
<1>1. OutageInv /\ [Next]_vars => OutageInv'
  BY OutageStep, NextType DEF OutageInv, Sound
<1> QED
  BY OutageInit, <1>1, PTL DEF Spec

\* _onSuccess only takes failures away from a breaker that serves.
LEMMA OnSuccessCounts ==
  ASSUME NEW b \in Breaker, ServesAtThreshold(OnSuccess(b))
  PROVE  ServesAtThreshold(b) /\ OnSuccess(b).failureCount <= b.failureCount
<1>1. b.failureCount \in 0..MaxThreshold /\ b.failureThreshold \in 1..MaxThreshold
  BY DEF Breaker
<1>2. ASSUME b.state \in {"OPEN", "HALF_OPEN"} PROVE FALSE
  <2> DEFINE c == Cleared(b)
  <2>1. c \in Breaker /\ c.failureCount = 0
    BY ClearedFacts
  <2>2. c.failureThreshold = b.failureThreshold
    BY DEF Cleared, Breaker
  <2>3. \/ OnSuccess(b) = [c EXCEPT !.state = "CLOSED", !.sinceFailure = LongAgo]
        \/ OnSuccess(b) = [c EXCEPT !.state = "CLOSED"]
    BY <1>2 DEF OnSuccess, ResetBreaker
  <2> HIDE DEF c
  <2>4. /\ OnSuccess(b).failureCount = 0
        /\ OnSuccess(b).failureThreshold = b.failureThreshold
    BY <2>1, <2>2, <2>3 DEF Breaker
  <2> QED
    BY <1>1, <2>4 DEF ServesAtThreshold
<1>3. CASE b.state \in {"CLOSED", "DEGRADED"}
  <2> DEFINE fewer == IF b.failureCount > 0 THEN b.failureCount - 1 ELSE 0
             to == IF fewer <= b.degradationThreshold THEN "CLOSED" ELSE b.state
  <2>1. fewer \in Int /\ fewer <= b.failureCount
    BY <1>1
  <2>2. OnSuccess(b) = [b EXCEPT !.failureCount = fewer, !.state = to]
    BY <1>3 DEF OnSuccess
  <2> HIDE DEF fewer, to
  <2>3. /\ OnSuccess(b).failureCount = fewer
        /\ OnSuccess(b).failureThreshold = b.failureThreshold
    BY <2>2 DEF Breaker
  <2> QED
    BY <1>1, <1>3, <2>1, <2>3 DEF ServesAtThreshold
<1> QED
  BY <1>2, <1>3 DEF Breaker, States

\* _onFailure opens a breaker whose count it brings to the threshold, and one
\* whose count was there already.
LEMMA OnFailureOpens ==
  ASSUME NEW b \in Breaker, Sound(b), NEW k \in Kinds \cup {NoKind}
  PROVE  ~ServesAtThreshold(OnFailure(b, k))
<1> DEFINE n == Counted(b, k)
           f == OnFailure(b, k)
<1>1. n \in Breaker /\ n.state = b.state /\ n.failureThreshold = b.failureThreshold
  <2>1. n.failureThreshold = b.failureThreshold
    BY DEF Counted, Breaker
  <2> QED
    BY <2>1, CountedFacts
<1>2. n.failureCount \in Int /\ b.failureThreshold \in Int
  BY <1>1 DEF Breaker
<1> HIDE DEF n
<1>3. \/ f = [n EXCEPT !.state = "OPEN"]
      \/ f = [n EXCEPT !.state = "OPEN", !.openCycleCount = Bump(n.openCycleCount, MaxCycles)]
      \/ /\ f = [n EXCEPT !.state = "DEGRADED"]
         /\ n.failureCount < b.failureThreshold
      \/ /\ f = n
         /\ b.state \in {"CLOSED", "DEGRADED"} => n.failureCount < b.failureThreshold
  BY <1>2 DEF OnFailure, n
<1> HIDE DEF f
<1>4. \/ f.state = "OPEN"
      \/ /\ f.failureCount < f.failureThreshold
      \/ f = n /\ n.state \notin {"CLOSED", "DEGRADED"}
  BY <1>1, <1>2, <1>3 DEF Breaker
<1>5. f.failureCount \in Int /\ f.failureThreshold \in Int
  BY <1>1, <1>2, <1>3 DEF Breaker
<1> QED
  BY <1>4, <1>5 DEF ServesAtThreshold, f

\* A breaker with the same state and counts as one that is sound about its
\* threshold is as far from it.
LEMMA SameCounts ==
  ASSUME NEW b \in Breaker, NEW d \in Breaker, ServesAtThreshold(d),
         d.state = b.state, d.failureCount = b.failureCount
  PROVE  \/ ServesAtThreshold(b) /\ d.failureCount <= b.failureCount
         \/ d.failureThreshold < b.failureThreshold
<1>1. /\ b.failureCount \in Int
      /\ d.failureThreshold \in Int /\ b.failureThreshold \in Int
  BY DEF Breaker
<1> QED
  BY <1>1 DEF ServesAtThreshold

LEMMA ThresholdStep ==
  ASSUME OutageInv, [Next]_vars, ServesAtThreshold(cb')
  PROVE  \/ ServesAtThreshold(cb) /\ cb'.failureCount <= cb.failureCount
         \/ cb'.failureThreshold < cb.failureThreshold
         \/ Restart /\ RowOf(cb') # RowOf(cb)
<1>1. TypeOK /\ Sound(cb) /\ cb \in Breaker /\ cb' \in Breaker
  BY NextType DEF OutageInv, TypeOK
<1> DEFINE Kept == /\ cb'.state = cb.state
                   /\ cb'.failureCount = cb.failureCount
<1>2. ASSUME NEW c \in Calls, Execute(c) PROVE Kept
  <2> DEFINE b == Refreshed(cb)
  <2>1. b \in Breaker /\ CanExecute(b) /\ cb' = Admitted(b)
    BY <1>1, <1>2, RefreshedFacts DEF Execute
  <2>2. cb'.state = b.state /\ b.state # "HALF_OPEN"
    BY <2>1, AdmittedFacts DEF ServesAtThreshold
  <2>3. b = cb /\ cb' = b
    BY <1>1, <2>1, <2>2, RefreshedFacts DEF Admitted
  <2> QED
    BY <2>3
<1>3. ASSUME NEW c \in Calls, FnResolves(c)
      PROVE  ServesAtThreshold(cb) /\ cb'.failureCount <= cb.failureCount
  BY <1>1, <1>3, OnSuccessCounts DEF FnResolves
<1>4. ASSUME NEW c \in Calls, NEW k \in Kinds \cup {NoKind}, FnThrows(c, k)
      PROVE  FALSE
  BY <1>1, <1>4, OnFailureOpens DEF FnThrows
<1>5. ASSUME NEW c \in Calls, FnThrowsLocal(c) PROVE Kept
  BY <1>5 DEF FnThrowsLocal
<1>6. CASE Refresh
  <2>1. cb' = cb \/ cb'.state = "HALF_OPEN"
    BY <1>1, <1>6, RefreshedFacts DEF Refresh
  <2>2. Kept
    BY <2>1 DEF ServesAtThreshold
  <2> QED
    BY <1>1, <2>2, SameCounts
<1>7. ASSUME Reset PROVE FALSE
  <2> DEFINE c == Cleared(cb)
  <2>1. c \in Breaker /\ c.failureCount = 0
    BY <1>1, ClearedFacts
  <2>2. cb' = [c EXCEPT !.state = "CLOSED", !.sinceFailure = LongAgo]
    BY <1>7 DEF Reset, ResetBreaker
  <2> HIDE DEF c
  <2>3. cb'.failureCount = 0 /\ cb'.failureThreshold \in 1..MaxThreshold
    BY <1>1, <2>1, <2>2 DEF Breaker
  <2> QED
    BY <2>3 DEF ServesAtThreshold
<1>8. ASSUME NEW o \in Options, Reconfigure(o) PROVE Kept
  BY <1>1, <1>8 DEF Reconfigure, Reconfigured, Breaker
<1>9. ASSUME Restart, RowOf(cb') = RowOf(cb) PROVE Kept
  BY <1>9 DEF RowOf
<1>10. CASE Tick
  <2>1. Kept
    BY <1>1, <1>10 DEF Tick, Later, Breaker
  <2> QED
    BY <1>1, <2>1, SameCounts
<1>11. CASE UNCHANGED vars
  BY <1>1, <1>11, SameCounts DEF vars
<1>12. ASSUME Kept
       PROVE  \/ ServesAtThreshold(cb) /\ cb'.failureCount <= cb.failureCount
              \/ cb'.failureThreshold < cb.failureThreshold
  BY <1>1, <1>12, SameCounts
<1> HIDE DEF Kept
<1> QED
  BY <1>2, <1>3, <1>4, <1>5, <1>6, <1>7, <1>8, <1>9, <1>10, <1>11, <1>12
     DEF Next, Returns

\* Traffic is served only below the breaker's own failure threshold, unless new
\* options or a restart lowered it under the count; no failure is served there.
THEOREM ServesBelowThresholdHolds == Spec => ServesBelowThreshold
<1>1. OutageInv /\ [Next]_vars =>
        [ServesAtThreshold(cb') =>
            \/ ServesAtThreshold(cb) /\ cb'.failureCount <= cb.failureCount
            \/ cb'.failureThreshold < cb.failureThreshold
            \/ Restart /\ RowOf(cb') # RowOf(cb)]_vars
  BY ThresholdStep
<1> QED
  BY OutageAlways, <1>1, PTL DEF Spec, ServesBelowThreshold

\* No escalation is left over when traffic is served again.
THEOREM EscalationEndsHolds == Spec => []EscalationEndsWithOutage
<1>1. OutageInv => EscalationEndsWithOutage
  BY DEF OutageInv, Sound, EscalationEndsWithOutage
<1> QED
  BY OutageAlways, <1>1, PTL

\* Neither a restart nor a late result shrinks the escalation of an outage.
THEOREM EscalationIsKeptHolds == Spec => EscalationIsKept
<1>1. OutageInv /\ [Next]_vars =>
        [cb'.openCycleCount < cb.openCycleCount => cb'.state = "CLOSED"]_vars
  BY OutageStep
<1> QED
  BY OutageAlways, <1>1, PTL DEF Spec, EscalationIsKept

-----------------------------------------------------------------------------
(* The probe budget *)

BudgetInv ==
    /\ TypeOK
    /\ ProbeBudget
    /\ cb.state # "HALF_OPEN" => Probes(calls) = {}

\* The probes are finitely many; fewer calls are fewer probes.
LEMMA ProbeCount ==
  /\ \A cs : IsFiniteSet(Probes(cs)) /\ Cardinality(Probes(cs)) \in Nat
  /\ \A cs, ds : Probes(ds) \subseteq Probes(cs) =>
                    Cardinality(Probes(ds)) <= Cardinality(Probes(cs))
<1>1. \A cs : IsFiniteSet(Probes(cs))
  <2> TAKE cs
  <2>1. Probes(cs) \subseteq Calls
    BY DEF Probes
  <2> QED
    BY <2>1, CallsFinite, FS_Subset
<1> QED
  BY <1>1, FS_CardinalityType, FS_Subset

\* Outside HALF_OPEN, Retire leaves no probe.
LEMMA Retired ==
  ASSUME NEW b, b.state # "HALF_OPEN", NEW cs
  PROVE  Probes(Retire(cs, b)) = {}
  BY DEF Probes, Retire

LEMMA BudgetStep ==
  ASSUME BudgetInv, [Next]_vars
  PROVE  ProbeBudget' /\ (cb.state # "HALF_OPEN" => Probes(calls) = {})'
<1> DEFINE Goal == ProbeBudget' /\ (cb'.state # "HALF_OPEN" => Probes(calls') = {})
<1>1. /\ TypeOK /\ cb \in Breaker /\ TypeOK' /\ cb' \in Breaker
      /\ cb.halfOpenAllowed \in Nat /\ cb'.halfOpenAllowed \in Nat
      /\ budget \in Nat /\ budget' \in Nat
  BY NextType DEF BudgetInv, TypeOK, Breaker
<1>2. ASSUME cb'.state # "HALF_OPEN", NEW cs, calls' = Retire(cs, cb')
      PROVE  Goal
  BY <1>2, Retired DEF ProbeBudget
<1>3. ASSUME NEW c \in Calls, Execute(c) PROVE Goal
  <2> DEFINE b == Refreshed(cb)
  <2>1. /\ b \in Breaker /\ b.halfOpenAllowed \in Nat
        /\ b # cb => /\ cb.state = "OPEN" /\ b.state = "HALF_OPEN"
                     /\ b.halfOpenAllowed = b.halfOpenRequests
    BY <1>1, RefreshedFacts DEF Breaker
  <2>2. /\ cb'.state = b.state
        /\ b.state = "HALF_OPEN" =>
             /\ cb'.halfOpenAllowed = b.halfOpenAllowed - 1
             /\ calls' = [calls EXCEPT ![c] = "probe"]
        /\ b.state # "HALF_OPEN" => calls' = [calls EXCEPT ![c] = "running"]
        /\ budget' = BudgetAfter(b)
        /\ calls[c] = "idle"
    BY <1>3, <2>1, AdmittedFacts DEF Execute
  <2> HIDE DEF b
  <2>3. CASE b.state # "HALF_OPEN"
    <3>1. b = cb /\ Probes(calls) = {}
      BY <2>1, <2>3 DEF BudgetInv
    <3>2. Probes(calls') = {}
      BY <1>1, <2>2, <2>3, <3>1 DEF Probes, TypeOK
    <3> QED
      BY <2>2, <2>3, <3>2 DEF ProbeBudget
  <2>4. CASE b.state = "HALF_OPEN"
    <3>1. c \notin Probes(calls) /\ Probes(calls') = Probes(calls) \cup {c}
      BY <1>1, <2>2, <2>4 DEF Probes, TypeOK
    <3>2. Cardinality(Probes(calls')) = Cardinality(Probes(calls)) + 1
      BY <3>1, ProbeCount, FS_AddElement
    <3>3. Cardinality(Probes(calls)) + b.halfOpenAllowed <= budget'
      <4>1. CASE b = cb
        BY <2>2, <2>4, <4>1 DEF BudgetInv, ProbeBudget, BudgetAfter
      <4>2. CASE b # cb
        <5>1. Probes(calls) = {} /\ budget' = b.halfOpenRequests
          BY <2>1, <2>2, <4>2 DEF BudgetInv, BudgetAfter
        <5>2. Cardinality(Probes(calls)) = 0
          BY <5>1, FS_EmptySet
        <5> QED
          BY <2>1, <4>2, <5>1, <5>2
      <4> QED
        BY <4>1, <4>2
    <3>4. Cardinality(Probes(calls)) \in Nat
      BY ProbeCount
    <3> QED
      BY <1>1, <2>1, <2>2, <2>4, <3>2, <3>3, <3>4 DEF ProbeBudget
  <2> QED
    BY <2>3, <2>4
<1>4. ASSUME NEW c \in Calls, FnResolves(c) PROVE Goal
  <2>1. cb'.state # "HALF_OPEN"
    BY <1>1, <1>4, OnSuccessFacts DEF FnResolves
  <2> QED
    BY <1>2, <1>4, <2>1 DEF FnResolves
<1>5. ASSUME NEW c \in Calls, NEW k \in Kinds \cup {NoKind}, FnThrows(c, k)
      PROVE  Goal
  <2>1. cb'.state # "HALF_OPEN"
    BY <1>1, <1>5, OnFailureFacts DEF FnThrows
  <2> QED
    BY <1>2, <1>5, <2>1 DEF FnThrows
<1>6. ASSUME NEW c \in Calls, FnThrowsLocal(c) PROVE Goal
  <2>1. Probes(calls') \subseteq Probes(calls) /\ cb' = cb /\ budget' = budget
    BY <1>1, <1>6 DEF FnThrowsLocal, Probes, TypeOK
  <2>2. /\ Cardinality(Probes(calls')) <= Cardinality(Probes(calls))
        /\ Cardinality(Probes(calls')) \in Nat
        /\ Cardinality(Probes(calls)) \in Nat
    BY <2>1, ProbeCount
  <2> QED
    BY <1>1, <2>1, <2>2 DEF BudgetInv, ProbeBudget
<1>7. ASSUME Refresh PROVE Goal
  <2>1. calls' = calls /\ budget' = BudgetAfter(cb')
    BY <1>7 DEF Refresh
  <2>2. CASE cb' = cb
    BY <2>1, <2>2 DEF BudgetInv, ProbeBudget, BudgetAfter
  <2>3. CASE cb' # cb
    <3>1. /\ cb.state = "OPEN" /\ cb'.state = "HALF_OPEN"
          /\ cb'.halfOpenAllowed = cb'.halfOpenRequests
      BY <1>1, <1>7, <2>3, RefreshedFacts DEF Refresh
    <3>2. Probes(calls') = {} /\ budget' = cb'.halfOpenAllowed
      BY <2>1, <3>1 DEF BudgetInv, BudgetAfter
    <3>3. Cardinality(Probes(calls')) = 0
      BY <3>2, FS_EmptySet
    <3> QED
      BY <1>1, <3>1, <3>2, <3>3 DEF ProbeBudget
  <2> QED
    BY <2>2, <2>3
<1>8. ASSUME Reset PROVE Goal
  <2>1. cb'.state # "HALF_OPEN"
    BY <1>1, <1>8, ResetFacts DEF Reset
  <2> QED
    BY <1>2, <1>8, <2>1 DEF Reset
<1>9. ASSUME NEW o \in Options, Reconfigure(o) PROVE Goal
  <2>1. /\ cb'.state = cb.state /\ cb'.halfOpenAllowed <= cb.halfOpenAllowed
        /\ calls' = calls /\ budget' = budget
    BY <1>1, <1>9, ReconfiguredFacts DEF Reconfigure
  <2>2. Cardinality(Probes(calls)) \in Nat
    BY ProbeCount
  <2> QED
    BY <1>1, <2>1, <2>2 DEF BudgetInv, ProbeBudget
<1>10. ASSUME Restart PROVE Goal
  <2>1. Probes(calls') = {}
    BY <1>10 DEF Restart, Probes
  <2>2. cb'.state = "HALF_OPEN" =>
            cb'.halfOpenAllowed = HalfOpenRequests /\ budget' = HalfOpenRequests
    BY <1>1, <1>10, RestoredFacts DEF Restart, TypeOK
  <2>3. Cardinality(Probes(calls')) = 0
    BY <2>1, FS_EmptySet
  <2> QED
    BY <1>1, <2>1, <2>2, <2>3 DEF ProbeBudget
<1>11. ASSUME Tick PROVE Goal
  <2>1. /\ cb'.state = cb.state /\ cb'.halfOpenAllowed = cb.halfOpenAllowed
        /\ calls' = calls /\ budget' = budget
    BY <1>1, <1>11, LaterFacts DEF Tick
  <2> QED
    BY <2>1 DEF BudgetInv, ProbeBudget
<1>12. CASE UNCHANGED vars
  BY <1>12 DEF vars, BudgetInv, ProbeBudget
<1> QED
  BY <1>3, <1>4, <1>5, <1>6, <1>7, <1>8, <1>9, <1>10, <1>11, <1>12
     DEF Next, Returns

\* A HALF_OPEN period never admits more probes than its allowance.
THEOREM ProbeBudgetHolds == Spec => []ProbeBudget
<1>1. Init => BudgetInv
  <2> SUFFICES ASSUME Init PROVE BudgetInv
    OBVIOUS
  <2>1. cb.state = "CLOSED" /\ Probes(calls) = {}
    BY DEF Init, Fresh, Probes
  <2> QED
    BY <2>1, InitType DEF BudgetInv, ProbeBudget
<1>2. BudgetInv /\ [Next]_vars => BudgetInv'
  BY BudgetStep, NextType DEF BudgetInv
<1>3. BudgetInv => ProbeBudget
  BY DEF BudgetInv
<1> QED
  BY <1>1, <1>2, <1>3, PTL DEF Spec

-----------------------------------------------------------------------------
(* The row and the object *)

\* The row is what the breaker is; no row means that it is as constructed.
RowIsBreaker ==
    RowOf(cb) = IF saved = NoRow THEN RowOf(Fresh) ELSE saved

\* The constructor restores what was stored.
LEMMA RestoredRow ==
  ASSUME NEW r \in Row
  PROVE  RowOf(Restored(r)) = r
<1>1. r # NoRow
  BY NoRowIsNoRow
<1>2. Fresh \in Breaker
  BY FreshFacts
<1> DEFINE b == Restored(r)
<1>3. /\ b.state = r.state /\ b.failureCount = r.failureCount
      /\ b.sinceFailure = r.sinceFailure /\ b.lastFailureKind = r.lastFailureKind
      /\ b.kindFailureCounts = r.kindFailureCounts
      /\ b.openCycleCount = r.openCycleCount
  BY <1>1, <1>2 DEF Restored, Breaker
<1> HIDE DEF b
<1>4. r = [state |-> r.state, failureCount |-> r.failureCount,
           sinceFailure |-> r.sinceFailure, lastFailureKind |-> r.lastFailureKind,
           kindFailureCounts |-> r.kindFailureCounts,
           openCycleCount |-> r.openCycleCount]
  BY DEF Row
<1> QED
  BY <1>3, <1>4 DEF RowOf, b

\* A probe only uses up the allowance, which is not stored.
LEMMA AdmittedRow ==
  ASSUME NEW b \in Breaker
  PROVE  RowOf(Admitted(b)) = RowOf(b)
  BY DEF Admitted, RowOf, Breaker

\* Time passes for the object and for its row alike.
LEMMA LaterRow ==
  ASSUME NEW b \in Breaker
  PROVE  /\ RowOf(Later(b)) = Later(RowOf(b))
         /\ RowOf(Later(b)).sinceFailure = Bump(b.sinceFailure, LongAgo)
  BY DEF Later, RowOf, Breaker

\* A breaker as constructed does not age.
LEMMA FreshDoesNotAge == Later(RowOf(Fresh)) = RowOf(Fresh)
<1>1. LongAgo \in Nat
  BY BreakerConstants
<1>2. Bump(LongAgo, LongAgo) = LongAgo
  BY <1>1 DEF Bump
<1> QED
  BY <1>2 DEF Later, RowOf, Fresh

LEMMA RowInit == Init => RowIsBreaker
  BY DEF Init, RowIsBreaker

LEMMA RowStep ==
  ASSUME \A k \in Kinds : KindLimit[k] = 0,
         TypeOK, RowIsBreaker, [Next]_vars, TypeOK'
  PROVE  RowIsBreaker'
<1>1. cb \in Breaker /\ saved \in Row \cup {NoRow} /\ cb' \in Breaker
  BY DEF TypeOK
<1>2. \A b \in Breaker : RowOf(b) \in Row /\ RowOf(b) # NoRow
  BY RowOfFacts, NoRowIsNoRow
<1>3. ASSUME saved' = RowOf(cb') PROVE RowIsBreaker'
  BY <1>1, <1>2, <1>3 DEF RowIsBreaker
<1>4. ASSUME NEW c \in Calls, Execute(c) PROVE RowIsBreaker'
  <2> DEFINE b == Refreshed(cb)
  <2>1. b \in Breaker /\ cb' = Admitted(b) /\ RowOf(cb') = RowOf(b)
    BY <1>1, <1>4, RefreshedFacts, AdmittedRow DEF Execute
  <2>2. saved' = IF b = cb THEN saved ELSE RowOf(b)
    BY <1>4 DEF Execute
  <2> HIDE DEF b
  <2> QED BY <1>2, <2>1, <2>2 DEF RowIsBreaker
<1>5. ASSUME NEW c \in Calls, NEW k \in Kinds \cup {NoKind}, FnThrows(c, k)
      PROVE  RowIsBreaker'
  <2>1. ~TripsByKind(cb, k)
    BY DEF TripsByKind
  <2> QED BY <1>3, <1>5, <2>1 DEF FnThrows, RowAfterFailure
<1>6. CASE Refresh
  BY <1>1, <1>2, <1>6 DEF Refresh, RowIsBreaker
<1>7. CASE Restart
  <2>1. CASE saved = NoRow
    BY <1>7, <2>1 DEF Restart, Restored, RowIsBreaker
  <2>2. CASE saved # NoRow
    BY <1>1, <1>7, <2>2, RestoredRow DEF Restart, RowIsBreaker
  <2> QED BY <2>1, <2>2
<1>8. CASE Tick
  <2>1. RowOf(cb') = Later(RowOf(cb))
    BY <1>1, <1>8, LaterRow DEF Tick
  <2>2. CASE saved = NoRow
    BY <1>8, <2>1, <2>2, FreshDoesNotAge DEF Tick, RowIsBreaker
  <2>3. CASE saved # NoRow
    <3>1. saved' = Later(saved) /\ RowOf(cb) = saved
      BY <1>8, <2>3 DEF Tick, RowIsBreaker
    <3> QED BY <1>3, <2>1, <3>1
  <2> QED BY <2>2, <2>3
<1>9. ASSUME cb' = cb, saved' = saved PROVE RowIsBreaker'
  BY <1>9 DEF RowIsBreaker
<1>10. ASSUME NEW c \in Calls, FnResolves(c) \/ FnThrowsLocal(c) PROVE RowIsBreaker'
  BY <1>3, <1>9, <1>10 DEF FnResolves, FnThrowsLocal
<1>11. CASE Reset
  BY <1>3, <1>11 DEF Reset
<1>12. ASSUME NEW o \in Options, Reconfigure(o) PROVE RowIsBreaker'
  BY <1>3, <1>12 DEF Reconfigure
<1>13. CASE UNCHANGED vars
  BY <1>9, <1>13 DEF vars
<1> QED
  BY <1>4, <1>5, <1>6, <1>7, <1>8, <1>10, <1>11, <1>12, <1>13 DEF Next, Returns

\* With no per-kind thresholds, which no caller sets, the constructor restores
\* the breaker exactly as the dead process left it (_persistToDb, _restoreFromDb).
THEOREM RestartLosesNothingHolds ==
  ASSUME \A k \in Kinds : KindLimit[k] = 0
  PROVE  Spec => []RestartLosesNothing
<1>1. TypeOK /\ RowIsBreaker => RestartLosesNothing
  <2> SUFFICES ASSUME TypeOK, RowIsBreaker PROVE RestartLosesNothing
    OBVIOUS
  <2>1. CASE saved = NoRow
    BY <2>1 DEF RestartLosesNothing, RowIsBreaker, Restored
  <2>2. CASE saved # NoRow
    BY <2>2, RestoredRow DEF RestartLosesNothing, RowIsBreaker, TypeOK
  <2> QED BY <2>1, <2>2
<1>2. TypeOK /\ RowIsBreaker /\ [Next]_vars => (TypeOK /\ RowIsBreaker)'
  BY NextType, RowStep
<1> QED
  BY <1>1, <1>2, InitType, RowInit, PTL DEF Spec
=============================================================================
