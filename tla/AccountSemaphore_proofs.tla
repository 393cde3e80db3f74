----------------------- MODULE AccountSemaphore_proofs -----------------------
(***************************************************************************)
(* Proofs about AccountSemaphore for every finite set of clients, every    *)
(* set of caps, queue size and cooldown.                                   *)
(***************************************************************************)
EXTENDS AccountSemaphore, FiniteSetTheorems, SequenceTheorems, TLAPS

-----------------------------------------------------------------------------
(* Drains *)

\* A queue is a function on 1..Len.
LEMMA QueueShape ==
  ASSUME NEW q \in Seq(Clients)
  PROVE  /\ Len(q) \in Nat
         /\ DOMAIN q = 1..Len(q)
         /\ \A i \in 1..Len(q) : q[i] \in Clients
         /\ q = <<>> <=> Len(q) = 0
  BY LenProperties, EmptySeq

\* drainQueue lets in no more waiters than there are or than the cap allows,
\* and lets in somebody when there is a waiter and a slot.
LEMMA AdmitsFacts ==
  ASSUME NEW g \in Gates
  PROVE  /\ Admits(g) \in 0..Len(g.queue)
         /\ Admits(g) > 0 => HasSlot(g) /\ g.running + Admits(g) <= g.max
         /\ Admits(g) = 0 => ~HasSlot(g) \/ g.queue = <<>>
<1>1. /\ g.running \in Nat /\ g.max \in Nat \ {0} /\ g.queue \in Seq(Clients)
      /\ g.blocked \in Int
  BY ConstantsAssumption DEF Gates, None
<1>2. Len(g.queue) \in Nat /\ (g.queue = <<>> <=> Len(g.queue) = 0)
  BY <1>1, QueueShape
<1> QED
  BY <1>1, <1>2 DEF Admits, HasSlot

\* drainQueue drops a prefix of the queue and counts it as running.
LEMMA DrainedFacts ==
  ASSUME NEW g \in Gates
  PROVE  /\ Drained(g) \in Gates
         /\ Drained(g).running = g.running + Admits(g)
         /\ Len(Drained(g).queue) = Len(g.queue) - Admits(g)
         /\ \A i \in 1..(Len(g.queue) - Admits(g)) :
                Drained(g).queue[i] = g.queue[i + Admits(g)]
         /\ Drained(g).blocked = IF Admits(g) > 0 THEN None ELSE g.blocked
         /\ Idle(Drained(g)) => Drained(g).cleanup
<1> DEFINE n == Admits(g)
<1> DEFINE q == SubSeq(g.queue, n + 1, Len(g.queue))
<1>1. /\ g.running \in Nat /\ g.max \in Nat \ {0} /\ g.queue \in Seq(Clients)
      /\ g.blocked \in {None} \cup 0..MaxCooldown /\ g.cleanup \in BOOLEAN
  BY DEF Gates
<1>2. n \in 0..Len(g.queue) /\ Len(g.queue) \in Nat
  BY <1>1, QueueShape, AdmitsFacts
<1>3. \A i \in (n + 1)..Len(g.queue) : g.queue[i] \in Clients
  BY <1>1, <1>2, QueueShape
<1>4. /\ q \in Seq(Clients)
      /\ Len(q) = Len(g.queue) - n
      /\ \A i \in 1..(Len(g.queue) - n) : q[i] = g.queue[i + n]
  <2> HIDE DEF n
  <2>1. /\ SubSeq(g.queue, n + 1, Len(g.queue)) \in Seq(Clients)
        /\ Len(SubSeq(g.queue, n + 1, Len(g.queue)))
             = IF n + 1 <= Len(g.queue) THEN Len(g.queue) - (n + 1) + 1 ELSE 0
        /\ \A i \in 1..(Len(g.queue) - (n + 1) + 1) :
               SubSeq(g.queue, n + 1, Len(g.queue))[i] = g.queue[n + 1 + i - 1]
    BY <1>2, <1>3, SubSeqProperties
  <2> QED
    BY <1>2, <2>1
<1> DEFINE b == IF n > 0 THEN None ELSE g.blocked
<1> DEFINE d == [g EXCEPT !.running = @ + n, !.queue = q, !.blocked = b]
<1>5. Drained(g) = [d EXCEPT !.cleanup = @ \/ Idle(d)]
  BY DEF Drained
<1>6. b \in {None} \cup 0..MaxCooldown /\ g.running + n \in Nat
  BY <1>1, <1>2
<1>7. /\ d \in Gates /\ d.running = g.running + n /\ d.queue = q
      /\ d.blocked = b /\ d.cleanup = g.cleanup
  <2> HIDE DEF n, q, b
  <2> QED BY <1>4, <1>6 DEF Gates
<1>8. Idle(d) \in BOOLEAN
  BY DEF Idle
<1>9. /\ Drained(g) \in Gates
      /\ Drained(g).running = d.running /\ Drained(g).queue = d.queue
      /\ Drained(g).blocked = d.blocked
      /\ Drained(g).cleanup = (d.cleanup \/ Idle(d))
  <2> HIDE DEF d
  <2> QED BY <1>5, <1>7, <1>8 DEF Gates
<1>10. Idle(Drained(g)) <=> Idle(d)
  BY <1>9 DEF Idle
<1> QED
  BY <1>4, <1>7, <1>9, <1>10

-----------------------------------------------------------------------------
(* Queues and places *)

\* The queue q lists the clients that w says are queued, once each.
InLine(q, w) ==
    /\ \A i, j \in 1..Len(q) : q[i] = q[j] => i = j
    /\ \A c \in Clients : w[c] = "queued" <=> \E i \in 1..Len(q) : q[i] = c

HoldersIn(w) == {c \in Clients : w[c] = "holding"}

\* Holders are finitely many.
LEMMA HoldersFinite ==
  ASSUME NEW w
  PROVE  IsFiniteSet(HoldersIn(w)) /\ Cardinality(HoldersIn(w)) \in Nat
<1>1. HoldersIn(w) \subseteq Clients
  BY DEF HoldersIn
<1>2. IsFiniteSet(HoldersIn(w))
  BY <1>1, ConstantsAssumption, FS_Subset
<1> QED
  BY <1>2, FS_CardinalityType

\* A prefix of a queue without repetitions holds as many clients as it is long.
LEMMA PrefixCardinality ==
  ASSUME NEW q \in Seq(Clients), NEW n \in 0..Len(q),
         \A i, j \in 1..Len(q) : q[i] = q[j] => i = j
  PROVE  LET P == {q[i] : i \in 1..n}
         IN  IsFiniteSet(P) /\ Cardinality(P) = n
<1> DEFINE P == {q[i] : i \in 1..n}
<1> DEFINE f == [i \in 1..n |-> q[i]]
<1>1. Len(q) \in Nat
  BY QueueShape
<1>2. f \in [1..n -> P]
  OBVIOUS
<1>3. \A i, j \in 1..n : f[i] = f[j] => i = j
  BY <1>1
<1>4. \A x \in P : \E i \in 1..n : f[i] = x
  OBVIOUS
<1>5. f \in Bijection(1..n, P)
  BY <1>2, <1>3, <1>4 DEF Bijection, Injection, Surjection, IsInjective
<1>6. ExistsBijection(1..n, P)
  BY <1>5 DEF ExistsBijection
<1>7. IsFiniteSet(1..n) /\ Cardinality(1..n) = n
  BY <1>1, FS_Interval
<1> QED
  BY <1>6, <1>7, FS_Bijection

\* drainQueue moves exactly the waiters it counts from the queue to a slot.
LEMMA DrainKeepsLine ==
  ASSUME NEW g \in Gates, NEW w \in [Clients -> Places], InLine(g.queue, w)
  PROVE  /\ Woken(g, w) \in [Clients -> Places]
         /\ InLine(Drained(g).queue, Woken(g, w))
         /\ Cardinality(HoldersIn(Woken(g, w)))
              = Cardinality(HoldersIn(w)) + Admits(g)
<1> DEFINE q == g.queue
<1> DEFINE n == Admits(g)
<1> DEFINE q2 == Drained(g).queue
<1> DEFINE w2 == Woken(g, w)
<1> DEFINE P == {q[i] : i \in 1..n}
<1>1. q \in Seq(Clients) /\ Len(q) \in Nat /\ \A i \in 1..Len(q) : q[i] \in Clients
  <2>1. q \in Seq(Clients)
    BY DEF Gates
  <2> QED BY <2>1, QueueShape
<1>2. n \in 0..Len(q)
  BY AdmitsFacts
<1>3. Len(q2) = Len(q) - n /\ \A i \in 1..(Len(q) - n) : q2[i] = q[i + n]
  BY DrainedFacts
<1>4. \A c \in Clients : w2[c] = IF c \in P THEN "holding" ELSE w[c]
  BY DEF Woken
<1>5. w2 \in [Clients -> Places]
  BY DEF Woken, Places
<1> HIDE DEF n, q, q2, w2
<1>6. \A i, j \in 1..Len(q) : q[i] = q[j] => i = j
  BY DEF InLine, q
<1>7. \A c \in Clients : w[c] = "queued" <=> \E i \in 1..Len(q) : q[i] = c
  BY DEF InLine, q
<1>8. \A i, j \in 1..Len(q2) : q2[i] = q2[j] => i = j
  <2> SUFFICES ASSUME NEW i \in 1..Len(q2), NEW j \in 1..Len(q2), q2[i] = q2[j]
               PROVE  i = j
    OBVIOUS
  <2>1. /\ i \in 1..(Len(q) - n) /\ j \in 1..(Len(q) - n)
        /\ i + n \in 1..Len(q) /\ j + n \in 1..Len(q)
    BY <1>1, <1>2, <1>3
  <2>2. q[i + n] = q[j + n]
    BY <1>3, <2>1
  <2>3. i + n = j + n
    BY <1>6, <2>1, <2>2
  <2> QED
    BY <1>1, <1>2, <2>1, <2>3
<1>9. ASSUME NEW c \in Clients
      PROVE  w2[c] = "queued" <=> \E i \in 1..Len(q2) : q2[i] = c
  <2>1. CASE c \in P
    <3>1. PICK k \in 1..n : q[k] = c
      BY <2>1
    <3>2. w2[c] # "queued"
      BY <1>4, <2>1
    <3>3. ASSUME NEW i \in 1..Len(q2), q2[i] = c
          PROVE  FALSE
      <4>1. i \in 1..(Len(q) - n) /\ i + n \in 1..Len(q) /\ k \in 1..Len(q) /\ k # i + n
        BY <1>1, <1>2, <1>3, <3>1
      <4>2. q[i + n] = q[k]
        BY <1>3, <3>1, <3>3, <4>1
      <4> QED BY <1>6, <4>1, <4>2
    <3> QED BY <3>2, <3>3
  <2>2. CASE c \notin P
    <3>1. w2[c] = w[c]
      BY <1>4, <2>2
    <3>2. ASSUME NEW i \in 1..Len(q), q[i] = c
          PROVE  \E k \in 1..Len(q2) : q2[k] = c
      <4>1. ~ (i \in 1..n)
        BY <2>2, <3>2
      <4>2. i - n \in 1..(Len(q) - n) /\ (i - n) + n = i
        BY <1>1, <1>2, <4>1
      <4>3. q2[i - n] = q[(i - n) + n]
        BY <1>3, <4>2
      <4>4. q2[i - n] = c /\ i - n \in 1..Len(q2)
        BY <1>3, <3>2, <4>2, <4>3
      <4> QED BY <4>4
    <3>3. ASSUME NEW k \in 1..Len(q2), q2[k] = c
          PROVE  \E i \in 1..Len(q) : q[i] = c
      <4>1. k \in 1..(Len(q) - n) /\ k + n \in 1..Len(q)
        BY <1>1, <1>2, <1>3
      <4>2. q[k + n] = c
        BY <1>3, <3>3, <4>1
      <4> QED BY <4>1, <4>2
    <3> QED BY <1>7, <3>1, <3>2, <3>3
  <2> QED BY <2>1, <2>2
<1>10. InLine(q2, w2)
  BY <1>8, <1>9 DEF InLine
<1>11. HoldersIn(w2) = HoldersIn(w) \cup P
  <2>1. P \subseteq Clients
    BY <1>1, <1>2
  <2> QED BY <1>4, <2>1 DEF HoldersIn
<1>12. HoldersIn(w) \cap P = {}
  <2> SUFFICES ASSUME NEW i \in 1..n PROVE q[i] \notin HoldersIn(w)
    OBVIOUS
  <2>1. i \in 1..Len(q)
    BY <1>1, <1>2
  <2>2. w[q[i]] = "queued"
    BY <1>1, <1>7, <2>1
  <2> QED BY <2>2 DEF HoldersIn
<1>13. IsFiniteSet(P) /\ Cardinality(P) = n
  BY <1>1, <1>2, <1>6, PrefixCardinality
<1>14. Cardinality(HoldersIn(w2)) = Cardinality(HoldersIn(w)) + n
  <2> HIDE DEF P
  <2>1. Cardinality(HoldersIn(w) \cup P)
          = Cardinality(HoldersIn(w)) + Cardinality(P)
              - Cardinality(HoldersIn(w) \cap P)
    BY <1>13, HoldersFinite, FS_Union
  <2>2. Cardinality(HoldersIn(w) \cap P) = 0
    BY <1>12, FS_EmptySet
  <2> QED BY <1>2, <1>1, <1>11, <1>13, <2>1, <2>2, HoldersFinite
<1> QED
  BY <1>5, <1>10, <1>14 DEF n, q2, w2

\* A newcomer joins the end of the queue.
LEMMA AppendKeepsLine ==
  ASSUME NEW q \in Seq(Clients), NEW w \in [Clients -> Places], InLine(q, w),
         NEW c \in Clients, w[c] # "queued"
  PROVE  /\ Append(q, c) \in Seq(Clients)
         /\ Len(Append(q, c)) = Len(q) + 1
         /\ InLine(Append(q, c), [w EXCEPT ![c] = "queued"])
<1> DEFINE q2 == Append(q, c)
<1> DEFINE w2 == [w EXCEPT ![c] = "queued"]
<1>1. Len(q) \in Nat /\ \A i \in 1..Len(q) : q[i] \in Clients
  BY QueueShape
<1>2. /\ q2 \in Seq(Clients) /\ Len(q2) = Len(q) + 1
      /\ \A i \in 1..Len(q) : q2[i] = q[i]
      /\ q2[Len(q) + 1] = c
  BY <1>1, AppendProperties
<1>3. \A d \in Clients : w2[d] = IF d = c THEN "queued" ELSE w[d]
  OBVIOUS
<1> HIDE DEF q2, w2
<1>4. /\ \A i, j \in 1..Len(q) : q[i] = q[j] => i = j
      /\ \A d \in Clients : w[d] = "queued" <=> \E i \in 1..Len(q) : q[i] = d
  BY DEF InLine
<1>5. \A i \in 1..Len(q) : q[i] # c
  BY <1>4
<1>6. \A i \in 1..Len(q2) : i \in 1..Len(q) \/ i = Len(q) + 1
  BY <1>1, <1>2
<1>7. \A i, j \in 1..Len(q2) : q2[i] = q2[j] => i = j
  BY <1>2, <1>4, <1>5, <1>6
<1>8. \A d \in Clients : w2[d] = "queued" <=> \E i \in 1..Len(q2) : q2[i] = d
  <2>1. Len(q) + 1 \in 1..Len(q2) /\ \A i \in 1..Len(q) : i \in 1..Len(q2)
    BY <1>1, <1>2
  <2> QED BY <1>2, <1>3, <1>4, <1>6, <2>1
<1> QED
  BY <1>2, <1>7, <1>8 DEF InLine, q2, w2

\* A waiter that gives up leaves the queue, and nobody else does.
LEMMA RemoveKeepsLine ==
  ASSUME NEW q \in Seq(Clients), NEW w \in [Clients -> Places], InLine(q, w),
         NEW k \in 1..Len(q)
  PROVE  /\ RemoveAt(q, k) \in Seq(Clients)
         /\ Len(RemoveAt(q, k)) = Len(q) - 1
         /\ InLine(RemoveAt(q, k), [w EXCEPT ![q[k]] = "idle"])
<1> DEFINE l == SubSeq(q, 1, k - 1)
<1> DEFINE r == SubSeq(q, k + 1, Len(q))
<1> DEFINE q2 == RemoveAt(q, k)
<1> DEFINE w2 == [w EXCEPT ![q[k]] = "idle"]
<1>1. Len(q) \in Nat /\ \A i \in 1..Len(q) : q[i] \in Clients
  BY QueueShape
<1>2. /\ l \in Seq(Clients) /\ Len(l) = k - 1
      /\ \A i \in 1..(k - 1) : l[i] = q[i]
  <2>1. /\ l \in Seq(Clients)
        /\ Len(l) = IF 1 <= k - 1 THEN (k - 1) - 1 + 1 ELSE 0
        /\ \A i \in 1..((k - 1) - 1 + 1) : l[i] = q[1 + i - 1]
    BY <1>1, SubSeqProperties
  <2> QED BY <1>1, <2>1
<1>3. /\ r \in Seq(Clients) /\ Len(r) = Len(q) - k
      /\ \A i \in 1..(Len(q) - k) : r[i] = q[k + i]
  <2>1. /\ r \in Seq(Clients)
        /\ Len(r) = IF k + 1 <= Len(q) THEN Len(q) - (k + 1) + 1 ELSE 0
        /\ \A i \in 1..(Len(q) - (k + 1) + 1) : r[i] = q[k + 1 + i - 1]
    BY <1>1, SubSeqProperties
  <2> QED BY <1>1, <2>1
<1>4. q2 = l \o r
  BY DEF RemoveAt
<1> HIDE DEF l, r, q2
<1>5. /\ q2 \in Seq(Clients) /\ Len(q2) = Len(q) - 1
      /\ \A i \in 1..(Len(q) - 1) : q2[i] = IF i < k THEN q[i] ELSE q[i + 1]
  <2>1. /\ q2 \in Seq(Clients)
        /\ Len(q2) = Len(l) + Len(r)
        /\ \A i \in 1..(Len(l) + Len(r)) :
               q2[i] = IF i <= Len(l) THEN l[i] ELSE r[i - Len(l)]
    BY <1>2, <1>3, <1>4, ConcatProperties
  <2>2. Len(q2) = Len(q) - 1
    BY <1>1, <1>2, <1>3, <2>1
  <2>3. ASSUME NEW i \in 1..(Len(q) - 1)
        PROVE  q2[i] = IF i < k THEN q[i] ELSE q[i + 1]
    <3>1. CASE i < k
      <4>1. i \in 1..(k - 1) /\ i <= Len(l) /\ i \in 1..(Len(l) + Len(r))
        BY <1>1, <1>2, <1>3, <3>1
      <4>2. q2[i] = l[i]
        BY <2>1, <4>1
      <4> QED BY <1>2, <3>1, <4>1, <4>2
    <3>2. CASE ~ (i < k)
      <4>1. /\ ~ (i <= Len(l)) /\ i \in 1..(Len(l) + Len(r))
            /\ i - Len(l) \in 1..(Len(q) - k) /\ k + (i - Len(l)) = i + 1
        BY <1>1, <1>2, <1>3, <3>2
      <4>2. q2[i] = r[i - Len(l)]
        BY <2>1, <4>1
      <4>3. r[i - Len(l)] = q[k + (i - Len(l))]
        BY <1>3, <4>1
      <4> QED BY <3>2, <4>1, <4>2, <4>3
    <3> QED BY <3>1, <3>2
  <2> QED BY <2>1, <2>2, <2>3
<1>6. \A d \in Clients : w2[d] = IF d = q[k] THEN "idle" ELSE w[d]
  OBVIOUS
<1> HIDE DEF w2
<1>7. /\ \A i, j \in 1..Len(q) : q[i] = q[j] => i = j
      /\ \A d \in Clients : w[d] = "queued" <=> \E i \in 1..Len(q) : q[i] = d
  BY DEF InLine
\* Where an element of the shortened queue was.
<1> DEFINE Was(i) == IF i < k THEN i ELSE i + 1
<1>8. \A i \in 1..Len(q2) :
        Was(i) \in 1..Len(q) /\ Was(i) # k /\ q2[i] = q[Was(i)]
  BY <1>1, <1>5
<1>9. \A i, j \in 1..Len(q2) : q2[i] = q2[j] => i = j
  <2> SUFFICES ASSUME NEW i \in 1..Len(q2), NEW j \in 1..Len(q2), q2[i] = q2[j]
               PROVE  i = j
    OBVIOUS
  <2>1. Was(i) = Was(j)
    <3> HIDE DEF Was
    <3> QED BY <1>7, <1>8
  <2> QED BY <1>1, <1>5, <2>1
<1>10. ASSUME NEW d \in Clients
       PROVE  w2[d] = "queued" <=> \E i \in 1..Len(q2) : q2[i] = d
  <2>1. CASE d = q[k]
    <3>1. \A i \in 1..Len(q2) : q2[i] # d
      <4> HIDE DEF Was
      <4> QED BY <1>7, <1>8, <2>1
    <3> QED BY <1>6, <2>1, <3>1
  <2>2. CASE d # q[k]
    <3>1. w2[d] = w[d]
      BY <1>6, <2>2
    <3>2. ASSUME NEW i \in 1..Len(q), q[i] = d
          PROVE  \E j \in 1..Len(q2) : q2[j] = d
      <4>1. i # k
        BY <2>2, <3>2
      <4> DEFINE j == IF i < k THEN i ELSE i - 1
      <4>2. j \in 1..(Len(q) - 1) /\ Was(j) = i
        BY <1>1, <4>1
      <4>3. j \in 1..Len(q2) /\ q2[j] = q[i]
        <5> HIDE DEF Was, j
        <5> QED BY <1>5, <1>8, <4>2
      <4> QED BY <3>2, <4>3
    <3>3. ASSUME NEW j \in 1..Len(q2), q2[j] = d
          PROVE  \E i \in 1..Len(q) : q[i] = d
      <4> HIDE DEF Was
      <4> QED BY <1>8, <3>3
    <3> QED BY <1>7, <3>1, <3>2, <3>3
  <2> QED BY <2>1, <2>2
<1> QED
  BY <1>5, <1>9, <1>10 DEF InLine, q2, w2

-----------------------------------------------------------------------------
(* The gate's types and its queue *)

LineInv == TypeOK /\ InLine(Queue, at)

\* A gate that exists is a record of gates and names its queue.
LEMMA GateFacts ==
  ASSUME TypeOK
  PROVE  /\ gate # NoGate => gate \in Gates /\ Queue = gate.queue
         /\ gate = NoGate => Queue = <<>>
         /\ \A g \in Gates : g # NoGate
  BY NoGateAssumption DEF TypeOK, Queue

\* The gate a caller finds or creates.
LEMMA EnsuredFacts ==
  ASSUME TypeOK, NEW cap \in Caps
  PROVE  LET g == [Ensured(cap) EXCEPT !.cleanup = FALSE]
         IN  /\ g \in Gates
             /\ g.queue = Queue
             /\ g.running = IF gate = NoGate THEN 0 ELSE gate.running
             /\ g.blocked = IF gate = NoGate THEN None ELSE gate.blocked
             /\ g.max = cap
<1>1. cap \in Nat \ {0}
  BY ConstantsAssumption
<1>2. <<>> \in Seq(Clients)
  OBVIOUS
<1>3. CASE gate = NoGate
  <2>1. Ensured(cap) \in Gates
    BY <1>1, <1>2, <1>3 DEF Ensured, Created, Gates
  <2> QED
    BY <1>1, <1>2, <1>3, <2>1 DEF Ensured, Created, Gates, Queue
<1>4. CASE gate # NoGate
  <2>1. gate \in Gates
    BY <1>4, GateFacts
  <2> QED
    BY <1>1, <1>4, <2>1 DEF Ensured, Gates, Queue
<1> QED BY <1>3, <1>4

\* The gate after one slot was given back.
LEMMA FreedFacts ==
  ASSUME TypeOK, gate # NoGate
  PROVE  /\ Freed \in Gates
         /\ Freed.queue = gate.queue
         /\ Freed.running = IF gate.running > 0 THEN gate.running - 1 ELSE 0
         /\ Freed.max = gate.max /\ Freed.blocked = gate.blocked
<1>1. gate \in Gates /\ gate.running \in Nat
  BY GateFacts DEF Gates
<1>2. (IF gate.running > 0 THEN gate.running - 1 ELSE 0) \in Nat
  BY <1>1
<1> QED
  BY <1>1, <1>2 DEF Freed, Gates

\* Whatever drains a well formed gate leaves a well formed gate.
LEMMA DrainKeepsLineInv ==
  ASSUME TypeOK, NEW g \in Gates, NEW w \in [Clients -> Places],
         InLine(g.queue, w), Len(g.queue) <= QueueSize,
         gate' = Drained(g), at' = Woken(g, w),
         timers' \subseteq 0..(MaxCooldown + 1)
  PROVE  LineInv'
<1>1. gate' \in Gates /\ gate' # NoGate
  BY DrainedFacts, GateFacts
<1>2. Len(gate'.queue) <= QueueSize
  <2>1. g.queue \in Seq(Clients)
    BY DEF Gates
  <2>2. Len(g.queue) \in Nat /\ Admits(g) \in 0..Len(g.queue)
    BY <2>1, QueueShape, AdmitsFacts
  <2> QED
    BY <2>2, DrainedFacts, ConstantsAssumption
<1>3. at' \in [Clients -> Places] /\ InLine(gate'.queue, at')
  BY DrainKeepsLine
<1> QED
  BY <1>1, <1>2, <1>3 DEF LineInv, TypeOK, Queue

\* A step that keeps the queue and who is queued keeps the queue in line.
LEMMA SameQueue ==
  ASSUME NEW q, NEW w, NEW w2, InLine(q, w),
         \A c \in Clients : (w2[c] = "queued" <=> w[c] = "queued")
  PROVE  InLine(q, w2)
  BY DEF InLine

LEMMA LineInit == Init => LineInv
<1> SUFFICES ASSUME Init PROVE LineInv
  OBVIOUS
<1>1. TypeOK
  BY DEF Init, TypeOK, Places
<1>2. Queue = <<>> /\ Len(<<>>) = 0
  BY DEF Init, Queue
<1> QED
  BY <1>1, <1>2 DEF LineInv, InLine, Init

LEMMA AcquireKeepsLine ==
  ASSUME LineInv, NEW c \in Clients, Acquire(c)
  PROVE  LineInv'
<1> USE DEF LineInv
<1>1. PICK cap \in Caps :
        LET g == [Ensured(cap) EXCEPT !.cleanup = FALSE]
        IN  \/ /\ HasSlot(g)
               /\ gate' = [g EXCEPT !.running = @ + 1, !.blocked = None]
               /\ at' = [at EXCEPT ![c] = "holding"]
            \/ /\ ~HasSlot(g)
               /\ ~QueueFull(g)
               /\ gate' = [g EXCEPT !.queue = Append(@, c)]
               /\ at' = [at EXCEPT ![c] = "queued"]
            \/ /\ ~HasSlot(g)
               /\ QueueFull(g)
               /\ gate' = g
               /\ UNCHANGED at
  BY DEF Acquire
<1> DEFINE g == [Ensured(cap) EXCEPT !.cleanup = FALSE]
<1>2. g \in Gates /\ g.queue = Queue
  BY EnsuredFacts
<1>3. /\ at \in [Clients -> Places] /\ at[c] \in {"idle", "done"}
      /\ timers' = timers /\ timers \subseteq 0..(MaxCooldown + 1)
  BY DEF TypeOK, Acquire
<1>4. Queue \in Seq(Clients) /\ Len(Queue) \in Nat /\ Len(Queue) <= QueueSize
  <2>1. Queue \in Seq(Clients)
    BY <1>2 DEF Gates
  <2>2. Len(<<>>) = 0
    OBVIOUS
  <2> QED BY <2>1, <2>2, QueueShape, ConstantsAssumption DEF TypeOK, Queue
<1> HIDE DEF g
<1>5. CASE /\ gate' = [g EXCEPT !.running = @ + 1, !.blocked = None]
           /\ at' = [at EXCEPT ![c] = "holding"]
  <2>1. gate' \in Gates /\ gate'.queue = Queue
    <3>1. g.running + 1 \in Nat /\ None \in {None} \cup 0..MaxCooldown
      BY <1>2 DEF Gates
    <3> QED BY <1>2, <1>5, <3>1 DEF Gates
  <2>2. at' \in [Clients -> Places]
    BY <1>3, <1>5 DEF Places
  <2>3. \A d \in Clients : (at'[d] = "queued" <=> at[d] = "queued")
    BY <1>3, <1>5
  <2>4. InLine(Queue, at')
    BY <2>3, SameQueue
  <2> QED
    BY <1>3, <1>4, <2>1, <2>2, <2>4, GateFacts DEF TypeOK, Queue
<1>6. CASE /\ ~QueueFull(g)
           /\ gate' = [g EXCEPT !.queue = Append(@, c)]
           /\ at' = [at EXCEPT ![c] = "queued"]
  <2>1. /\ Append(Queue, c) \in Seq(Clients)
        /\ Len(Append(Queue, c)) = Len(Queue) + 1
        /\ InLine(Append(Queue, c), at')
    <3>1. at[c] # "queued"
      BY <1>3
    <3> QED BY <1>3, <1>4, <1>6, <3>1, AppendKeepsLine
  <2>2. Len(Queue) + 1 <= QueueSize
    BY <1>2, <1>4, <1>6, ConstantsAssumption DEF QueueFull
  <2>3. gate' \in Gates /\ gate'.queue = Append(Queue, c)
    BY <1>2, <1>6, <2>1 DEF Gates
  <2>4. at' \in [Clients -> Places]
    BY <1>3, <1>6 DEF Places
  <2> QED
    BY <1>3, <2>1, <2>2, <2>3, <2>4, GateFacts DEF TypeOK, Queue
<1>7. CASE gate' = g /\ at' = at
  BY <1>2, <1>3, <1>4, <1>7, GateFacts DEF TypeOK, Queue
<1> QED
  BY <1>1, <1>5, <1>6, <1>7 DEF g

LEMMA ReleaseKeepsLine ==
  ASSUME LineInv, NEW c \in Clients, Release(c)
  PROVE  LineInv'
<1> USE DEF LineInv
<1> DEFINE spent == [at EXCEPT ![c] = "done"]
<1>1. /\ at \in [Clients -> Places] /\ at[c] \in {"holding", "stray", "done"}
      /\ timers' = timers /\ timers \subseteq 0..(MaxCooldown + 1)
  BY DEF TypeOK, Release
<1>2. /\ spent \in [Clients -> Places]
      /\ \A d \in Clients : (spent[d] = "queued" <=> at[d] = "queued")
  BY <1>1 DEF Places
<1>3. InLine(Queue, spent)
  BY <1>2, SameQueue
<1>4. CASE at' = spent /\ gate' = gate
  BY <1>1, <1>2, <1>3, <1>4 DEF TypeOK, Queue
<1>5. CASE gate # NoGate /\ gate' = Drained(Freed) /\ at' = Woken(Freed, spent)
  <2>1. /\ Freed \in Gates /\ InLine(Freed.queue, spent)
        /\ Len(Freed.queue) <= QueueSize
    BY <1>3, <1>5, FreedFacts, GateFacts DEF TypeOK
  <2> HIDE DEF spent
  <2> QED BY <1>1, <1>2, <1>5, <2>1, DrainKeepsLineInv
<1>6. CASE gate # NoGate /\ gate' = [Freed EXCEPT !.cleanup = TRUE] /\ at' = spent
  <2>1. gate' \in Gates /\ gate'.queue = gate.queue
    BY <1>6, FreedFacts DEF Gates
  <2> QED BY <1>1, <1>2, <1>3, <1>6, <2>1, GateFacts DEF TypeOK, Queue
<1> QED
  BY <1>4, <1>5, <1>6 DEF Release

LEMMA GivesUpKeepsLine ==
  ASSUME LineInv, NEW c \in Clients, GivesUp(c)
  PROVE  LineInv'
<1> USE DEF LineInv
<1>1. /\ at \in [Clients -> Places] /\ at[c] = "queued"
      /\ timers' = timers /\ timers \subseteq 0..(MaxCooldown + 1)
      /\ at' = [at EXCEPT ![c] = "idle"]
  BY DEF TypeOK, GivesUp
<1>2. gate # NoGate
  <2> SUFFICES ASSUME gate = NoGate PROVE FALSE
    OBVIOUS
  <2>1. \E i \in 1..Len(Queue) : Queue[i] = c
    BY <1>1 DEF InLine
  <2>2. Queue = <<>> /\ Len(<<>>) = 0
    BY GateFacts
  <2> QED BY <2>1, <2>2
<1>3. gate \in Gates /\ Queue = gate.queue /\ gate.queue \in Seq(Clients)
  BY <1>2, GateFacts DEF Gates
<1>4. PICK i \in 1..Len(gate.queue) :
        /\ gate.queue[i] = c
        /\ LET g == [gate EXCEPT !.queue = RemoveAt(@, i)]
           IN  gate' = [g EXCEPT !.cleanup = @ \/ Idle(g)]
  BY <1>3, QueueShape DEF GivesUp
<1> DEFINE g == [gate EXCEPT !.queue = RemoveAt(@, i)]
<1>5. /\ RemoveAt(gate.queue, i) \in Seq(Clients)
      /\ Len(RemoveAt(gate.queue, i)) = Len(gate.queue) - 1
      /\ InLine(RemoveAt(gate.queue, i), at')
  BY <1>1, <1>3, <1>4, RemoveKeepsLine
<1>6. g \in Gates /\ g.queue = RemoveAt(gate.queue, i)
  BY <1>3, <1>5 DEF Gates
<1>7. gate' \in Gates /\ gate'.queue = RemoveAt(gate.queue, i)
  <2>1. gate' = [g EXCEPT !.cleanup = @ \/ Idle(g)] /\ (g.cleanup \/ Idle(g)) \in BOOLEAN
    BY <1>4, <1>6 DEF Gates, Idle
  <2> HIDE DEF g
  <2> QED BY <1>6, <2>1 DEF Gates
<1>8. Len(RemoveAt(gate.queue, i)) <= QueueSize
  BY <1>2, <1>3, <1>5, QueueShape, ConstantsAssumption DEF TypeOK
<1>9. at' \in [Clients -> Places]
  BY <1>1 DEF Places
<1> QED
  BY <1>1, <1>5, <1>7, <1>8, <1>9, GateFacts DEF TypeOK, Queue

\* The gate with its block lifted, before it is drained.
LEMMA LiftedFacts ==
  ASSUME TypeOK, gate # NoGate
  PROVE  LET g == [gate EXCEPT !.blocked = None]
         IN  /\ g \in Gates /\ g.queue = gate.queue /\ g.running = gate.running
             /\ g.max = gate.max /\ g.blocked = None /\ g.cleanup = gate.cleanup
<1>1. gate \in Gates /\ None \in {None} \cup 0..MaxCooldown
  BY GateFacts
<1> QED
  BY <1>1 DEF Gates

\* Lifting a block, by markBlocked or by its timer, keeps the line.
LEMMA LiftKeepsLine ==
  ASSUME LineInv, gate # NoGate,
         LET g == [gate EXCEPT !.blocked = None]
         IN  gate' = Drained(g) /\ at' = Woken(g, at),
         timers' \subseteq timers
  PROVE  LineInv'
<1> DEFINE g == [gate EXCEPT !.blocked = None]
<1>1. /\ g \in Gates /\ g.queue = gate.queue
  BY LiftedFacts DEF LineInv
<1>2. InLine(g.queue, at) /\ Len(g.queue) <= QueueSize
  BY <1>1, GateFacts DEF LineInv, TypeOK
<1>3. at \in [Clients -> Places] /\ timers' \subseteq 0..(MaxCooldown + 1)
  BY DEF LineInv, TypeOK
<1>4. gate' = Drained(g) /\ at' = Woken(g, at)
  OBVIOUS
<1> HIDE DEF g
<1> QED
  BY <1>1, <1>2, <1>3, <1>4, DrainKeepsLineInv DEF LineInv

LEMMA BlockKeepsLine ==
  ASSUME LineInv, NEW d \in 1..MaxCooldown, Block(d)
  PROVE  LineInv'
<1> DEFINE g == IF gate = NoGate THEN Created(1) ELSE gate
<1>1. g \in Gates /\ g.queue = Queue
  <2>1. CASE gate = NoGate
    BY <2>1 DEF Created, Gates, Queue
  <2>2. CASE gate # NoGate
    BY <2>2, GateFacts DEF LineInv
  <2> QED BY <2>1, <2>2
<1>2. gate' = [g EXCEPT !.cleanup = FALSE, !.blocked = d]
  BY DEF Block
<1>3. gate' \in Gates /\ gate'.queue = Queue
  <2>1. d \in {None} \cup 0..MaxCooldown
    BY ConstantsAssumption
  <2> HIDE DEF g
  <2> QED BY <1>1, <1>2, <2>1 DEF Gates
<1>4. Len(Queue) <= QueueSize
  <2>1. Len(<<>>) = 0
    OBVIOUS
  <2> QED BY <2>1, ConstantsAssumption DEF LineInv, TypeOK, Queue
<1>5. timers' \subseteq 0..(MaxCooldown + 1)
  BY ConstantsAssumption DEF LineInv, TypeOK, Block
<1>6. at' = at
  BY DEF Block
<1> QED
  BY <1>3, <1>4, <1>5, <1>6, GateFacts DEF LineInv, TypeOK, Queue

LEMMA TickKeepsLine ==
  ASSUME LineInv, Tick
  PROVE  LineInv'
<1>1. timers' \subseteq 0..(MaxCooldown + 1)
  BY ConstantsAssumption DEF LineInv, TypeOK, Tick, Sooner
<1>2. at' = at
  BY DEF Tick
<1>3. CASE gate = NoGate
  BY <1>1, <1>2, <1>3 DEF LineInv, TypeOK, Tick, Queue
<1>4. CASE gate # NoGate
  <2>1. gate \in Gates /\ Queue = gate.queue
    BY <1>4, GateFacts DEF LineInv
  <2>2. Sooner(gate.blocked) \in {None} \cup 0..MaxCooldown
    BY <2>1, ConstantsAssumption DEF Gates, Sooner, None
  <2>3. gate' = [gate EXCEPT !.blocked = Sooner(@)]
    BY <1>4 DEF Tick
  <2>4. gate' \in Gates /\ gate'.queue = gate.queue
    BY <2>1, <2>2, <2>3 DEF Gates
  <2> QED
    BY <1>1, <1>2, <1>4, <2>1, <2>4, GateFacts DEF LineInv, TypeOK, Queue
<1> QED BY <1>3, <1>4

LEMMA ResetKeepsLine ==
  ASSUME LineInv, Reset
  PROVE  LineInv'
<1>1. /\ gate' = NoGate /\ timers' = timers /\ at \in [Clients -> Places]
      /\ at' = [c \in Clients |-> CASE at[c] = "queued"  -> "idle"
                                      [] at[c] = "holding" -> "stray"
                                      [] OTHER             -> at[c]]
  BY DEF Reset, LineInv, TypeOK
<1>2. \A c \in Clients : at'[c] \in Places /\ at'[c] # "queued"
  BY <1>1 DEF Places
<1>3. at' \in [Clients -> Places]
  BY <1>1, <1>2
<1>4. Queue' = <<>> /\ Len(<<>>) = 0
  BY <1>1 DEF Queue
<1> QED
  BY <1>1, <1>2, <1>3, <1>4 DEF LineInv, TypeOK, InLine

LEMMA CleanupKeepsLine ==
  ASSUME LineInv, CleanupTimer
  PROVE  LineInv'
<1>1. gate # NoGate /\ gate \in Gates /\ Queue = gate.queue /\ at' = at /\ timers' = timers
  BY GateFacts DEF CleanupTimer, LineInv
<1>2. CASE gate' = NoGate /\ Idle(gate)
  <2>1. Queue' = Queue
    BY <1>1, <1>2 DEF Queue, Idle
  <2> QED BY <1>1, <1>2, <2>1 DEF LineInv, TypeOK
<1>3. CASE gate' = [gate EXCEPT !.cleanup = FALSE]
  <2>1. gate' \in Gates /\ gate'.queue = gate.queue
    BY <1>1, <1>3 DEF Gates
  <2> QED BY <1>1, <2>1, GateFacts DEF LineInv, TypeOK, Queue
<1> QED BY <1>2, <1>3 DEF CleanupTimer

LEMMA ProbeKeepsLine ==
  ASSUME LineInv, ProbeFull
  PROVE  LineInv'
<1>1. gate # NoGate /\ at' = at /\ timers' = timers
      /\ gate' = [gate EXCEPT !.blocked = None]
  BY DEF ProbeFull
<1>2. gate' \in Gates /\ gate'.queue = gate.queue
  BY <1>1, LiftedFacts DEF LineInv
<1> QED BY <1>1, <1>2, GateFacts DEF LineInv, TypeOK, Queue

LEMMA LineStep == LineInv /\ [Next]_vars => LineInv'
<1> SUFFICES ASSUME LineInv, [Next]_vars PROVE LineInv'
  OBVIOUS
<1>1. ASSUME NEW c \in Clients, Acquire(c) PROVE LineInv'
  BY <1>1, AcquireKeepsLine
<1>2. ASSUME NEW c \in Clients, Release(c) PROVE LineInv'
  BY <1>2, ReleaseKeepsLine
<1>3. ASSUME NEW c \in Clients, GivesUp(c) PROVE LineInv'
  BY <1>3, GivesUpKeepsLine
<1>4. ASSUME NEW d \in 1..MaxCooldown, Block(d) PROVE LineInv'
  BY <1>4, BlockKeepsLine
<1>5. CASE Unblock
  BY <1>5, LiftKeepsLine DEF Unblock
<1>6. CASE ProbeFull
  BY <1>6, ProbeKeepsLine
<1>7. CASE BlockTimer
  <2>1. CASE gate # NoGate /\ gate.blocked = 0
    BY <1>7, <2>1, LiftKeepsLine DEF BlockTimer
  <2>2. CASE ~ (gate # NoGate /\ gate.blocked = 0)
    BY <1>7, <2>2 DEF BlockTimer, LineInv, TypeOK, Queue
  <2> QED BY <2>1, <2>2
<1>8. CASE CleanupTimer
  BY <1>8, CleanupKeepsLine
<1>9. CASE Reset
  BY <1>9, ResetKeepsLine
<1>10. CASE Tick
  BY <1>10, TickKeepsLine
<1>11. CASE UNCHANGED vars
  BY <1>11 DEF vars, LineInv, TypeOK, Queue
<1> QED
  BY <1>1, <1>2, <1>3, <1>4, <1>5, <1>6, <1>7, <1>8, <1>9, <1>10, <1>11 DEF Next

\* The gate, its timers and the places are always well formed.
THEOREM TypeCorrect == Spec => []TypeOK
<1>1. LineInv => TypeOK
  BY DEF LineInv
<1> QED BY <1>1, LineInit, LineStep, PTL DEF Spec

\* A queue in line lists the waiters, as many as it is long.
LEMMA LineIsTheWaiters == LineInv => QueueIsTheWaiters
<1> SUFFICES ASSUME LineInv PROVE QueueIsTheWaiters
  OBVIOUS
<1>1. Queue \in Seq(Clients)
  <2>1. gate # NoGate => gate.queue \in Seq(Clients)
    BY GateFacts DEF LineInv, Gates
  <2> QED BY <2>1 DEF Queue
<1>2. DOMAIN Queue = 1..Len(Queue) /\ Len(Queue) \in Nat
      /\ \A i \in 1..Len(Queue) : Queue[i] \in Clients
  BY <1>1, QueueShape
<1>3. ToSet(Queue) = {Queue[i] : i \in 1..Len(Queue)}
  BY <1>2 DEF ToSet
<1> HIDE DEF Queue
<1>4. Cardinality(ToSet(Queue)) = Len(Queue)
  <2>1. \A i, j \in 1..Len(Queue) : Queue[i] = Queue[j] => i = j
    BY DEF LineInv, InLine
  <2>2. Len(Queue) \in 0..Len(Queue)
    BY <1>2
  <2> QED BY <1>1, <1>3, <2>1, <2>2, PrefixCardinality
<1>5. ToSet(Queue) = {c \in Clients : at[c] = "queued"}
  BY <1>2, <1>3 DEF LineInv, InLine
<1> QED BY <1>4, <1>5 DEF QueueIsTheWaiters

\* No waiter is lost and none is queued twice, whatever drains, timeouts,
\* aborts, cleanups and resets do (drainQueue, acquire, reset).
THEOREM QueueIsTheWaitersHolds == Spec => []QueueIsTheWaiters
BY LineInit, LineStep, LineIsTheWaiters, PTL DEF Spec

-----------------------------------------------------------------------------
(* Somebody looks after every idle gate *)

\* A block has a timer that fires no earlier than it ends.
BlockHasTimer ==
    (gate # NoGate /\ gate.blocked # None) => \E t \in timers : t >= gate.blocked

\* A gate nobody runs on is blocked or about to be dropped.
IdleIsBlockedOrDropped ==
    (gate # NoGate /\ gate.running = 0) =>
        gate.blocked # None \/ (gate.queue = <<>> /\ gate.cleanup)

AttendInv == LineInv /\ BlockHasTimer /\ IdleIsBlockedOrDropped

\* A drain leaves an idle gate only with its block or with an empty queue.
LEMMA DrainAttends ==
  ASSUME TypeOK, NEW g \in Gates, gate' = Drained(g),
         g.blocked # None => \E t \in timers' : t >= g.blocked
  PROVE  BlockHasTimer' /\ IdleIsBlockedOrDropped'
<1>1. /\ g.queue \in Seq(Clients) /\ g.running \in Nat /\ g.max \in Nat \ {0}
      /\ g.blocked \in {None} \cup 0..MaxCooldown
  BY DEF Gates
<1>2. Admits(g) \in Nat /\ Len(g.queue) \in Nat
  BY <1>1, QueueShape, AdmitsFacts
<1>3. CASE Admits(g) > 0
  <2>1. gate'.running > 0 /\ gate'.blocked = None
    BY <1>1, <1>2, <1>3, DrainedFacts
  <2> QED BY <2>1 DEF BlockHasTimer, IdleIsBlockedOrDropped
<1>4. CASE Admits(g) = 0
  <2>1. gate'.running = g.running /\ gate'.blocked = g.blocked
    BY <1>1, <1>2, <1>4, DrainedFacts
  <2>2. BlockHasTimer'
    BY <2>1 DEF BlockHasTimer
  <2>3. CASE ~HasSlot(g)
    <3>1. g.running = 0 => g.blocked # None
      BY <1>1, <2>3 DEF HasSlot, None
    <3> QED BY <2>1, <2>2, <3>1 DEF IdleIsBlockedOrDropped
  <2>4. CASE g.queue = <<>>
    <3>1. Len(g.queue) = 0
      BY <2>4
    <3>2. gate' \in Gates /\ Len(gate'.queue) = 0
      BY <1>4, <3>1, DrainedFacts
    <3>3. gate'.queue = <<>>
      <4>1. gate'.queue \in Seq(Clients)
        BY <3>2 DEF Gates
      <4> QED BY <3>2, <4>1, QueueShape
    <3>4. gate'.running = 0 => gate'.cleanup
      BY <3>3, DrainedFacts DEF Idle
    <3> QED BY <2>2, <3>3, <3>4 DEF IdleIsBlockedOrDropped
  <2> QED BY <1>4, <2>3, <2>4, AdmitsFacts
<1> QED BY <1>2, <1>3, <1>4

LEMMA AcquireAttends ==
  ASSUME AttendInv, NEW c \in Clients, Acquire(c)
  PROVE  BlockHasTimer' /\ IdleIsBlockedOrDropped'
<1>1. PICK cap \in Caps :
        LET g == [Ensured(cap) EXCEPT !.cleanup = FALSE]
        IN  \/ /\ HasSlot(g)
               /\ gate' = [g EXCEPT !.running = @ + 1, !.blocked = None]
               /\ at' = [at EXCEPT ![c] = "holding"]
            \/ /\ ~HasSlot(g)
               /\ ~QueueFull(g)
               /\ gate' = [g EXCEPT !.queue = Append(@, c)]
               /\ at' = [at EXCEPT ![c] = "queued"]
            \/ /\ ~HasSlot(g)
               /\ QueueFull(g)
               /\ gate' = g
               /\ UNCHANGED at
  BY DEF Acquire
<1> DEFINE g == [Ensured(cap) EXCEPT !.cleanup = FALSE]
<1>2. /\ g \in Gates
      /\ g.blocked = IF gate = NoGate THEN None ELSE gate.blocked
  BY EnsuredFacts DEF AttendInv, LineInv
<1>3. /\ g.running \in Nat /\ g.max \in Nat \ {0}
      /\ g.blocked \in {None} \cup 0..MaxCooldown
  BY <1>2 DEF Gates
<1>4. timers' = timers
  BY DEF Acquire
<1>5. g.blocked # None => \E t \in timers' : t >= g.blocked
  BY <1>2, <1>4 DEF AttendInv, BlockHasTimer
<1>6. ~HasSlot(g) /\ g.running = 0 => g.blocked # None
  BY <1>3 DEF HasSlot, None
<1> HIDE DEF g
<1>7. CASE gate' = [g EXCEPT !.running = @ + 1, !.blocked = None]
  <2>1. gate'.running > 0 /\ gate'.blocked = None
    BY <1>2, <1>3, <1>7 DEF Gates
  <2> QED BY <2>1 DEF BlockHasTimer, IdleIsBlockedOrDropped
<1>8. CASE ~HasSlot(g) /\ (gate' = [g EXCEPT !.queue = Append(@, c)] \/ gate' = g)
  <2>1. gate'.running = g.running /\ gate'.blocked = g.blocked
    BY <1>2, <1>8 DEF Gates
  <2> QED BY <1>5, <1>6, <1>8, <2>1 DEF BlockHasTimer, IdleIsBlockedOrDropped
<1> QED
  BY <1>1, <1>7, <1>8 DEF g

LEMMA ReleaseAttends ==
  ASSUME AttendInv, NEW c \in Clients, Release(c)
  PROVE  BlockHasTimer' /\ IdleIsBlockedOrDropped'
<1>1. timers' = timers
  BY DEF Release
<1>2. CASE gate' = gate
  BY <1>1, <1>2 DEF AttendInv, BlockHasTimer, IdleIsBlockedOrDropped
<1>3. CASE gate # NoGate /\ gate' = Drained(Freed)
  <2>1. Freed \in Gates /\ Freed.blocked = gate.blocked
    BY <1>3, FreedFacts DEF AttendInv, LineInv
  <2>2. Freed.blocked # None => \E t \in timers' : t >= Freed.blocked
    BY <1>1, <1>3, <2>1 DEF AttendInv, BlockHasTimer
  <2> QED BY <1>3, <2>1, <2>2, DrainAttends DEF AttendInv, LineInv
<1>4. CASE /\ gate # NoGate /\ gate.queue = <<>>
           /\ gate' = [Freed EXCEPT !.cleanup = TRUE]
  <2>1. gate'.blocked = gate.blocked /\ gate'.queue = <<>> /\ gate'.cleanup
    BY <1>4, FreedFacts DEF AttendInv, LineInv, Gates
  <2> QED
    BY <1>1, <1>4, <2>1 DEF AttendInv, BlockHasTimer, IdleIsBlockedOrDropped
<1> QED
  BY <1>2, <1>3, <1>4 DEF Release

LEMMA GivesUpAttends ==
  ASSUME AttendInv, NEW c \in Clients, GivesUp(c)
  PROVE  BlockHasTimer' /\ IdleIsBlockedOrDropped'
<1>1. timers' = timers /\ gate # NoGate
  <2> SUFFICES ASSUME gate = NoGate PROVE FALSE
    BY DEF GivesUp
  <2>1. at[c] = "queued" /\ Queue = <<>> /\ Len(<<>>) = 0
    BY GateFacts DEF GivesUp, AttendInv, LineInv
  <2> QED BY <2>1 DEF AttendInv, LineInv, InLine
<1>2. gate \in Gates /\ gate.queue \in Seq(Clients)
  BY <1>1, GateFacts DEF AttendInv, LineInv, Gates
<1>3. PICK i \in 1..Len(gate.queue) :
        LET g == [gate EXCEPT !.queue = RemoveAt(@, i)]
        IN  gate' = [g EXCEPT !.cleanup = @ \/ Idle(g)]
  BY <1>2, QueueShape DEF GivesUp
<1> DEFINE g == [gate EXCEPT !.queue = RemoveAt(@, i)]
<1>4. g.running = gate.running /\ g.blocked = gate.blocked /\ g.cleanup = gate.cleanup
  BY <1>2 DEF Gates
<1>5. /\ gate'.running = g.running /\ gate'.blocked = g.blocked
      /\ gate'.queue = g.queue /\ gate'.cleanup = (g.cleanup \/ Idle(g))
  <2>1. gate' = [g EXCEPT !.cleanup = @ \/ Idle(g)]
    BY <1>3
  <2>2. /\ "running" \in DOMAIN g /\ "blocked" \in DOMAIN g
        /\ "queue" \in DOMAIN g /\ "cleanup" \in DOMAIN g
    BY <1>2 DEF Gates
  <2> HIDE DEF g
  <2> QED BY <2>1, <2>2
<1>6. BlockHasTimer'
  BY <1>1, <1>4, <1>5 DEF AttendInv, BlockHasTimer
<1>7. IdleIsBlockedOrDropped'
  <2>1. CASE gate'.queue = <<>>
    BY <1>5, <2>1 DEF IdleIsBlockedOrDropped, Idle
  <2>2. CASE gate'.queue # <<>>
    <3>1. gate.queue # <<>>
      BY <1>2, <1>3, QueueShape
    <3> QED
      BY <1>1, <1>4, <1>5, <2>2, <3>1 DEF AttendInv, IdleIsBlockedOrDropped
  <2> QED BY <2>1, <2>2
<1> QED BY <1>6, <1>7

LEMMA BlockAttends ==
  ASSUME AttendInv, NEW d \in 1..MaxCooldown, Block(d)
  PROVE  BlockHasTimer' /\ IdleIsBlockedOrDropped'
<1> DEFINE g == IF gate = NoGate THEN Created(1) ELSE gate
<1>1. g \in Gates
  <2>1. gate = NoGate => Created(1) \in Gates
    BY DEF Created, Gates
  <2> QED BY <2>1, GateFacts DEF AttendInv, LineInv
<1>2. gate' = [g EXCEPT !.cleanup = FALSE, !.blocked = d] /\ timers' = timers \cup {d + 1}
  BY DEF Block
<1>3. gate'.blocked = d
  <2> HIDE DEF g
  <2> QED BY <1>1, <1>2 DEF Gates
<1>4. d # None /\ d + 1 >= d
  BY ConstantsAssumption DEF None
<1> QED BY <1>2, <1>3, <1>4 DEF BlockHasTimer, IdleIsBlockedOrDropped

LEMMA LiftAttends ==
  ASSUME AttendInv, gate # NoGate,
         LET g == [gate EXCEPT !.blocked = None]
         IN  gate' = Drained(g)
  PROVE  BlockHasTimer' /\ IdleIsBlockedOrDropped'
<1> DEFINE g == [gate EXCEPT !.blocked = None]
<1>1. g \in Gates /\ g.blocked = None /\ gate' = Drained(g)
  BY LiftedFacts DEF AttendInv, LineInv
<1> HIDE DEF g
<1> QED BY <1>1, DrainAttends DEF AttendInv, LineInv

LEMMA TickAttends ==
  ASSUME AttendInv, Tick
  PROVE  BlockHasTimer' /\ IdleIsBlockedOrDropped'
<1>1. CASE gate = NoGate
  BY <1>1 DEF Tick, BlockHasTimer, IdleIsBlockedOrDropped
<1>2. CASE gate # NoGate
  <2>1. gate \in Gates /\ gate' = [gate EXCEPT !.blocked = Sooner(@)]
    BY <1>2, GateFacts DEF Tick, AttendInv, LineInv
  <2>2. /\ gate'.running = gate.running /\ gate'.queue = gate.queue
        /\ gate'.cleanup = gate.cleanup /\ gate'.blocked = Sooner(gate.blocked)
    BY <2>1 DEF Gates
  <2>3. gate.blocked \in {None} \cup 0..MaxCooldown
    BY <2>1 DEF Gates
  <2>4. Sooner(gate.blocked) = None <=> gate.blocked = None
    BY <2>3, ConstantsAssumption DEF Sooner, None
  <2>5. ASSUME gate.blocked # None
        PROVE  \E t \in timers' : t >= Sooner(gate.blocked)
    <3>1. PICK t \in timers : t >= gate.blocked
      BY <1>2, <2>5 DEF AttendInv, BlockHasTimer
    <3>2. t \in Int /\ gate.blocked \in Int
      BY <2>3, ConstantsAssumption DEF AttendInv, LineInv, TypeOK, None
    <3>3. Sooner(t) \in timers' /\ Sooner(t) >= Sooner(gate.blocked)
      BY <2>3, <3>1, <3>2, ConstantsAssumption DEF Tick, Sooner, None
    <3> QED BY <3>3
  <2> QED
    BY <1>2, <2>2, <2>4, <2>5 DEF AttendInv, BlockHasTimer, IdleIsBlockedOrDropped
<1> QED BY <1>1, <1>2

LEMMA TimerAttends ==
  ASSUME AttendInv, BlockTimer
  PROVE  BlockHasTimer' /\ IdleIsBlockedOrDropped'
<1>1. CASE gate # NoGate /\ gate.blocked = 0
  BY <1>1, LiftAttends DEF BlockTimer
<1>2. CASE ~ (gate # NoGate /\ gate.blocked = 0)
  <2>1. gate' = gate /\ timers' = timers \ {0}
    BY <1>2 DEF BlockTimer
  <2>2. ASSUME gate # NoGate, gate.blocked # None
        PROVE  \E t \in timers' : t >= gate.blocked
    <3>1. PICK t \in timers : t >= gate.blocked
      BY <2>2 DEF AttendInv, BlockHasTimer
    <3>2. gate.blocked \in {None} \cup 0..MaxCooldown
      BY <2>2, GateFacts DEF AttendInv, LineInv, Gates
    <3>3. gate.blocked > 0 /\ t # 0
      BY <1>2, <2>2, <3>1, <3>2, ConstantsAssumption DEF None
    <3> QED BY <2>1, <3>1, <3>3
  <2> QED
    BY <2>1, <2>2 DEF AttendInv, BlockHasTimer, IdleIsBlockedOrDropped
<1> QED BY <1>1, <1>2

LEMMA CleanupAttends ==
  ASSUME AttendInv, CleanupTimer
  PROVE  BlockHasTimer' /\ IdleIsBlockedOrDropped'
<1>1. gate \in Gates /\ gate # NoGate /\ timers' = timers
  BY GateFacts DEF CleanupTimer, AttendInv, LineInv
<1>2. CASE gate' = NoGate
  BY <1>2 DEF BlockHasTimer, IdleIsBlockedOrDropped
<1>3. CASE ~ (Idle(gate) /\ gate.blocked <= 0) /\ gate' = [gate EXCEPT !.cleanup = FALSE]
  <2>1. /\ gate'.running = gate.running /\ gate'.blocked = gate.blocked
        /\ gate.blocked \in {None} \cup 0..MaxCooldown
    BY <1>1, <1>3 DEF Gates
  <2>2. gate.running = 0 => gate.blocked # None
    <3>1. CASE gate.queue = <<>>
      BY <1>3, <2>1, <3>1 DEF Idle, None
    <3>2. CASE gate.queue # <<>>
      BY <1>1, <3>2 DEF AttendInv, IdleIsBlockedOrDropped
    <3> QED BY <3>1, <3>2
  <2> QED
    BY <1>1, <2>1, <2>2 DEF AttendInv, BlockHasTimer, IdleIsBlockedOrDropped
<1> QED BY <1>2, <1>3 DEF CleanupTimer

LEMMA AttendStep == ~Probes /\ AttendInv /\ [Next]_vars => AttendInv'
<1> SUFFICES ASSUME ~Probes, AttendInv, [Next]_vars PROVE AttendInv'
  OBVIOUS
<1> DEFINE Goal == BlockHasTimer' /\ IdleIsBlockedOrDropped'
<1>1. LineInv'
  BY LineStep DEF AttendInv
<1> SUFFICES Goal
  BY <1>1 DEF AttendInv
<1>2. ASSUME NEW c \in Clients, Acquire(c) \/ Release(c) \/ GivesUp(c) PROVE Goal
  BY <1>2, AcquireAttends, ReleaseAttends, GivesUpAttends
<1>3. ASSUME NEW d \in 1..MaxCooldown, Block(d) PROVE Goal
  BY <1>3, BlockAttends
<1>4. CASE Unblock
  BY <1>4, LiftAttends DEF Unblock
<1>5. CASE BlockTimer
  BY <1>5, TimerAttends
<1>6. CASE CleanupTimer
  BY <1>6, CleanupAttends
<1>7. CASE Reset
  BY <1>7 DEF Reset, BlockHasTimer, IdleIsBlockedOrDropped
<1>8. CASE Tick
  BY <1>8, TickAttends
<1>9. CASE ProbeFull
  BY <1>9 DEF ProbeFull
<1>10. CASE UNCHANGED vars
  BY <1>10 DEF vars, AttendInv, BlockHasTimer, IdleIsBlockedOrDropped
<1> QED
  BY <1>2, <1>3, <1>4, <1>5, <1>6, <1>7, <1>8, <1>9, <1>10 DEF Next

\* As long as nobody asks whether the key is full, every idle gate is looked
\* after: no waiter stays behind without a release or a timer to wake it, and
\* no empty gate stays in the map (drainQueue, markBlocked, cleanupGateIfIdle).
THEOREM IdleGateIsAttendedHolds ==
  ASSUME ~Probes
  PROVE  Spec => []IdleGateIsAttended
<1>1. Init => AttendInv
  BY LineInit DEF Init, AttendInv, BlockHasTimer, IdleIsBlockedOrDropped
<1>2. AttendInv /\ [Next]_vars => AttendInv'
  BY AttendStep
<1>3. AttendInv => IdleGateIsAttended
  BY DEF AttendInv, BlockHasTimer, IdleIsBlockedOrDropped, IdleGateIsAttended
<1> QED BY <1>1, <1>2, <1>3, PTL DEF Spec

-----------------------------------------------------------------------------
(* The counter and the calls it counts *)

Running == IF gate = NoGate THEN 0 ELSE gate.running

\* The counter never exceeds the holders; unless the gate can be reset under
\* its holders it equals them, and no holder is left without a gate.
SlotInv ==
    /\ LineInv
    /\ Running <= Cardinality(HoldersIn(at))
    /\ ~Resets => /\ Running = Cardinality(HoldersIn(at))
                  /\ \A c \in Clients : at[c] # "stray"

LEMMA RunningType ==
  ASSUME TypeOK
  PROVE  Running \in Nat
  BY GateFacts DEF Running, Gates

\* Sending a client elsewhere adds it to the holders or takes it away.
LEMMA MoveHolder ==
  ASSUME NEW w \in [Clients -> Places], NEW c \in Clients, NEW p \in Places
  PROVE  LET before == Cardinality(HoldersIn(w))
             after  == Cardinality(HoldersIn([w EXCEPT ![c] = p]))
         IN  /\ w[c] # "holding" /\ p = "holding" => after = before + 1
             /\ w[c] = "holding" /\ p # "holding" => after = before - 1
             /\ w[c] # "holding" /\ p # "holding" => after = before
<1> DEFINE w2 == [w EXCEPT ![c] = p]
<1>1. IsFiniteSet(HoldersIn(w)) /\ IsFiniteSet(HoldersIn(w2))
  BY HoldersFinite
<1>2. CASE w[c] # "holding" /\ p = "holding"
  <2>1. HoldersIn(w2) = HoldersIn(w) \cup {c} /\ c \notin HoldersIn(w)
    BY <1>2 DEF HoldersIn
  <2> QED BY <1>1, <1>2, <2>1, FS_AddElement
<1>3. CASE w[c] = "holding" /\ p # "holding"
  <2>1. HoldersIn(w2) = HoldersIn(w) \ {c} /\ c \in HoldersIn(w)
    BY <1>3 DEF HoldersIn
  <2> QED BY <1>1, <1>3, <2>1, FS_RemoveElement
<1>4. CASE w[c] # "holding" /\ p # "holding"
  <2>1. HoldersIn(w2) = HoldersIn(w)
    BY <1>4 DEF HoldersIn
  <2> QED BY <1>4, <2>1
<1> QED BY <1>2, <1>3, <1>4

\* A drain adds as many holders as it adds to the counter.
LEMMA DrainCounts ==
  ASSUME TypeOK, NEW g \in Gates, NEW w \in [Clients -> Places],
         InLine(g.queue, w), gate' = Drained(g), at' = Woken(g, w)
  PROVE  \E n \in Nat :
           /\ Running' = g.running + n
           /\ Cardinality(HoldersIn(at')) = Cardinality(HoldersIn(w)) + n
           /\ (\A c \in Clients : w[c] # "stray")
                 => \A c \in Clients : at'[c] # "stray"
<1>1. Admits(g) \in Nat
  <2>1. g.queue \in Seq(Clients)
    BY DEF Gates
  <2> QED BY <2>1, QueueShape, AdmitsFacts
<1>2. Running' = g.running + Admits(g)
  BY DrainedFacts, GateFacts DEF Running
<1>3. Cardinality(HoldersIn(at')) = Cardinality(HoldersIn(w)) + Admits(g)
  BY DrainKeepsLine
<1>4. (\A c \in Clients : w[c] # "stray") => \A c \in Clients : at'[c] # "stray"
  BY DEF Woken
<1> QED BY <1>1, <1>2, <1>3, <1>4

LEMMA AcquireCounts ==
  ASSUME SlotInv, NEW c \in Clients, Acquire(c)
  PROVE  SlotInv'
<1>1. PICK cap \in Caps :
        LET g == [Ensured(cap) EXCEPT !.cleanup = FALSE]
        IN  \/ /\ HasSlot(g)
               /\ gate' = [g EXCEPT !.running = @ + 1, !.blocked = None]
               /\ at' = [at EXCEPT ![c] = "holding"]
            \/ /\ ~HasSlot(g)
               /\ ~QueueFull(g)
               /\ gate' = [g EXCEPT !.queue = Append(@, c)]
               /\ at' = [at EXCEPT ![c] = "queued"]
            \/ /\ ~HasSlot(g)
               /\ QueueFull(g)
               /\ gate' = g
               /\ UNCHANGED at
  BY DEF Acquire
<1> DEFINE g == [Ensured(cap) EXCEPT !.cleanup = FALSE]
<1>2. g \in Gates /\ g.running = Running
  BY EnsuredFacts DEF SlotInv, LineInv, Running
<1>3. /\ at \in [Clients -> Places] /\ at[c] \in {"idle", "done"}
      /\ Running \in Nat /\ Cardinality(HoldersIn(at)) \in Nat
      /\ "holding" \in Places /\ "queued" \in Places
  BY RunningType, HoldersFinite DEF SlotInv, LineInv, TypeOK, Acquire, Places
<1>4. LineInv' /\ (gate' # NoGate => gate' \in Gates)
  BY AcquireKeepsLine, GateFacts DEF SlotInv, LineInv, TypeOK
<1> HIDE DEF g
<1>5. CASE /\ gate' = [g EXCEPT !.running = @ + 1, !.blocked = None]
           /\ at' = [at EXCEPT ![c] = "holding"]
  <2>1. gate'.running = g.running + 1 /\ gate' \in Gates
    <3>1. g.running + 1 \in Nat /\ None \in {None} \cup 0..MaxCooldown
      BY <1>2, <1>3
    <3> QED BY <1>2, <1>5, <3>1 DEF Gates
  <2>2. Running' = Running + 1
    BY <1>2, <2>1, GateFacts DEF Running, SlotInv, LineInv
  <2>3. Cardinality(HoldersIn(at')) = Cardinality(HoldersIn(at)) + 1
    BY <1>3, <1>5, MoveHolder
  <2>4. (\A d \in Clients : at[d] # "stray") => \A d \in Clients : at'[d] # "stray"
    BY <1>3, <1>5
  <2> QED BY <1>3, <1>4, <2>2, <2>3, <2>4 DEF SlotInv
<1>6. CASE /\ gate' = [g EXCEPT !.queue = Append(@, c)]
           /\ at' = [at EXCEPT ![c] = "queued"]
  <2>1. gate'.running = g.running /\ gate' # NoGate
    <3>1. gate'.running = g.running
      BY <1>2, <1>6 DEF Gates
    <3>2. Append(g.queue, c) \in Seq(Clients)
      <4>1. g.queue \in Seq(Clients)
        BY <1>2 DEF Gates
      <4> QED BY <4>1, AppendProperties
    <3>3. gate' \in Gates
      BY <1>2, <1>6, <3>2 DEF Gates
    <3> QED BY <3>1, <3>3, GateFacts DEF SlotInv, LineInv
  <2>2. Running' = Running
    BY <1>2, <2>1 DEF Running
  <2>3. Cardinality(HoldersIn(at')) = Cardinality(HoldersIn(at))
    BY <1>3, <1>6, MoveHolder
  <2>4. (\A d \in Clients : at[d] # "stray") => \A d \in Clients : at'[d] # "stray"
    BY <1>3, <1>6
  <2> QED BY <1>3, <1>4, <2>2, <2>3, <2>4 DEF SlotInv
<1>7. CASE gate' = g /\ at' = at
  <2>1. Running' = Running
    BY <1>2, <1>7, GateFacts DEF Running, SlotInv, LineInv
  <2> QED BY <1>4, <1>7, <2>1 DEF SlotInv
<1> QED
  BY <1>1, <1>5, <1>6, <1>7 DEF g

LEMMA ReleaseCounts ==
  ASSUME SlotInv, NEW c \in Clients, Release(c)
  PROVE  SlotInv'
<1> DEFINE spent == [at EXCEPT ![c] = "done"]
<1> DEFINE H == Cardinality(HoldersIn(at))
<1> DEFINE S == Cardinality(HoldersIn(spent))
<1>1. /\ at \in [Clients -> Places] /\ at[c] \in {"holding", "stray", "done"}
      /\ "done" \in Places /\ TypeOK
  BY DEF SlotInv, LineInv, TypeOK, Release, Places
<1>2. Running \in Nat /\ H \in Nat /\ S \in Nat
  BY <1>1, RunningType, HoldersFinite
<1>3. S = IF at[c] = "holding" THEN H - 1 ELSE H
  BY <1>1, MoveHolder
<1>4. /\ spent \in [Clients -> Places]
      /\ \A d \in Clients : (spent[d] = "queued" <=> at[d] = "queued")
      /\ (\A d \in Clients : at[d] # "stray") => \A d \in Clients : spent[d] # "stray"
  BY <1>1 DEF Places
<1>5. LineInv'
  BY ReleaseKeepsLine DEF SlotInv
<1> DEFINE Less == IF Running > 0 THEN Running - 1 ELSE 0
<1>6. ASSUME at[c] # "done"
      PROVE  Less <= S /\ (~Resets => Less = S)
  BY <1>1, <1>2, <1>3, <1>6 DEF SlotInv
<1>7. CASE at[c] = "done" /\ at' = spent /\ gate' = gate
  <2>1. Running' = Running /\ Cardinality(HoldersIn(at')) = H
    BY <1>3, <1>7 DEF Running
  <2> QED BY <1>4, <1>5, <1>7, <2>1 DEF SlotInv
<1>8. CASE at[c] # "done" /\ gate = NoGate /\ at' = spent /\ gate' = gate
  <2>1. Running = 0 /\ Running' = 0 /\ Cardinality(HoldersIn(at')) = S
    BY <1>8 DEF Running
  <2> QED BY <1>2, <1>4, <1>5, <1>6, <1>8, <2>1 DEF SlotInv
<1>9. CASE /\ at[c] # "done" /\ gate # NoGate
           /\ gate' = Drained(Freed) /\ at' = Woken(Freed, spent)
  <2>1. Freed \in Gates /\ Freed.running = Less /\ Freed.queue = Queue
    BY <1>1, <1>9, FreedFacts, GateFacts DEF Running
  <2>2. InLine(Freed.queue, spent)
    <3>1. InLine(Queue, spent)
      BY <1>4, SameQueue DEF SlotInv, LineInv
    <3> QED BY <2>1, <3>1
  <2> HIDE DEF spent, Less
  <2>3. PICK n \in Nat :
           /\ Running' = Freed.running + n
           /\ Cardinality(HoldersIn(at')) = Cardinality(HoldersIn(spent)) + n
           /\ (\A d \in Clients : spent[d] # "stray")
                 => \A d \in Clients : at'[d] # "stray"
    BY <1>1, <1>4, <1>9, <2>1, <2>2, DrainCounts
  <2>4. Less \in Nat
    BY <1>2 DEF Less
  <2> QED BY <1>2, <1>4, <1>5, <1>6, <1>9, <2>1, <2>3, <2>4 DEF SlotInv
<1>10. CASE /\ at[c] # "done" /\ gate # NoGate
            /\ gate' = [Freed EXCEPT !.cleanup = TRUE] /\ at' = spent
  <2>1. Freed \in Gates /\ Freed.running = Less
    BY <1>1, <1>10, FreedFacts DEF Running
  <2>2. gate' \in Gates /\ gate'.running = Less
    <3> HIDE DEF Less
    <3> QED BY <1>10, <2>1 DEF Gates
  <2>3. Running' = Less
    BY <1>1, <2>2, GateFacts DEF Running
  <2>4. Cardinality(HoldersIn(at')) = S
    BY <1>10
  <2> HIDE DEF Less, S, spent
  <2> QED BY <1>4, <1>5, <1>6, <1>10, <2>3, <2>4 DEF SlotInv
<1> QED
  BY <1>7, <1>8, <1>9, <1>10 DEF Release

LEMMA GivesUpCounts ==
  ASSUME SlotInv, NEW c \in Clients, GivesUp(c)
  PROVE  SlotInv'
<1>1. /\ at \in [Clients -> Places] /\ at[c] = "queued"
      /\ at' = [at EXCEPT ![c] = "idle"] /\ "idle" \in Places /\ TypeOK
  BY DEF SlotInv, LineInv, TypeOK, GivesUp, Places
<1>2. LineInv'
  BY GivesUpKeepsLine DEF SlotInv
<1>3. gate # NoGate
  <2> SUFFICES ASSUME gate = NoGate PROVE FALSE
    OBVIOUS
  <2>1. Queue = <<>> /\ Len(<<>>) = 0
    BY <1>1, GateFacts
  <2> QED BY <1>1, <2>1 DEF SlotInv, LineInv, InLine
<1>4. gate \in Gates /\ gate.queue \in Seq(Clients)
  BY <1>1, <1>3, GateFacts DEF Gates
<1>5. PICK i \in 1..Len(gate.queue) :
        LET g == [gate EXCEPT !.queue = RemoveAt(@, i)]
        IN  gate.queue[i] = c /\ gate' = [g EXCEPT !.cleanup = @ \/ Idle(g)]
  BY <1>4, QueueShape DEF GivesUp
<1>6. gate'.running = gate.running /\ gate' # NoGate
  <2> DEFINE g == [gate EXCEPT !.queue = RemoveAt(@, i)]
  <2>1. RemoveAt(gate.queue, i) \in Seq(Clients)
    BY <1>1, <1>3, <1>4, RemoveKeepsLine, GateFacts DEF SlotInv, LineInv
  <2>2. g \in Gates /\ g.running = gate.running
    BY <1>4, <2>1 DEF Gates
  <2>3. gate' = [g EXCEPT !.cleanup = @ \/ Idle(g)] /\ (g.cleanup \/ Idle(g)) \in BOOLEAN
    BY <1>5, <2>2 DEF Gates, Idle
  <2> HIDE DEF g
  <2>4. gate' \in Gates /\ gate'.running = g.running
    BY <2>2, <2>3 DEF Gates
  <2> QED BY <1>1, <2>2, <2>4, GateFacts
<1>7. Running' = Running
  BY <1>3, <1>6 DEF Running
<1>8. Cardinality(HoldersIn(at')) = Cardinality(HoldersIn(at))
  BY <1>1, MoveHolder
<1>9. (\A d \in Clients : at[d] # "stray") => \A d \in Clients : at'[d] # "stray"
  BY <1>1
<1> QED BY <1>2, <1>7, <1>8, <1>9 DEF SlotInv

LEMMA LiftCounts ==
  ASSUME SlotInv, gate # NoGate, LineInv',
         LET g == [gate EXCEPT !.blocked = None]
         IN  gate' = Drained(g) /\ at' = Woken(g, at)
  PROVE  SlotInv'
<1> DEFINE g == [gate EXCEPT !.blocked = None]
<1>1. g \in Gates /\ g.running = Running /\ g.queue = Queue /\ TypeOK
  BY LiftedFacts, GateFacts DEF SlotInv, LineInv, Running
<1>2. gate' = Drained(g) /\ at' = Woken(g, at)
  OBVIOUS
<1> HIDE DEF g
<1>3. InLine(g.queue, at) /\ at \in [Clients -> Places]
  BY <1>1 DEF SlotInv, LineInv, TypeOK
<1>4. PICK n \in Nat :
           /\ Running' = g.running + n
           /\ Cardinality(HoldersIn(at')) = Cardinality(HoldersIn(at)) + n
           /\ (\A d \in Clients : at[d] # "stray")
                 => \A d \in Clients : at'[d] # "stray"
  BY <1>1, <1>2, <1>3, DrainCounts
<1>5. Running \in Nat /\ Cardinality(HoldersIn(at)) \in Nat
  BY <1>1, RunningType, HoldersFinite
<1> QED BY <1>1, <1>4, <1>5 DEF SlotInv

LEMMA BlockCounts ==
  ASSUME SlotInv, NEW d \in 1..MaxCooldown, Block(d)
  PROVE  SlotInv'
<1> DEFINE g == IF gate = NoGate THEN Created(1) ELSE gate
<1>1. g \in Gates /\ g.running = Running
  <2>1. CASE gate = NoGate
    BY <2>1 DEF Created, Gates, Running
  <2>2. CASE gate # NoGate
    BY <2>2, GateFacts DEF SlotInv, LineInv, Running
  <2> QED BY <2>1, <2>2
<1>2. gate' = [g EXCEPT !.cleanup = FALSE, !.blocked = d] /\ at' = at
  BY DEF Block
<1>3. LineInv'
  BY BlockKeepsLine DEF SlotInv
<1>4. gate' \in Gates /\ gate'.running = g.running
  <2>1. d \in {None} \cup 0..MaxCooldown
    BY ConstantsAssumption
  <2> HIDE DEF g
  <2> QED BY <1>1, <1>2, <2>1 DEF Gates
<1>5. Running' = Running
  BY <1>1, <1>4, GateFacts DEF Running, SlotInv, LineInv
<1> QED BY <1>2, <1>3, <1>5 DEF SlotInv

LEMMA ResetCounts ==
  ASSUME SlotInv, Reset
  PROVE  SlotInv'
<1>1. LineInv' /\ Running' = 0 /\ Resets
  BY ResetKeepsLine DEF SlotInv, Reset, Running
<1>2. Cardinality(HoldersIn(at')) \in Nat
  BY HoldersFinite
<1> QED BY <1>1, <1>2 DEF SlotInv

LEMMA SlotStep == SlotInv /\ [Next]_vars => SlotInv'
<1> SUFFICES ASSUME SlotInv, [Next]_vars PROVE SlotInv'
  OBVIOUS
<1>1. LineInv'
  BY LineStep DEF SlotInv
<1>2. ASSUME NEW c \in Clients, Acquire(c) \/ Release(c) \/ GivesUp(c) PROVE SlotInv'
  BY <1>2, AcquireCounts, ReleaseCounts, GivesUpCounts
<1>3. ASSUME NEW d \in 1..MaxCooldown, Block(d) PROVE SlotInv'
  BY <1>3, BlockCounts
<1>4. CASE Unblock
  BY <1>1, <1>4, LiftCounts DEF Unblock
<1>5. CASE BlockTimer
  <2>1. CASE gate # NoGate /\ gate.blocked = 0
    BY <1>1, <1>5, <2>1, LiftCounts DEF BlockTimer
  <2>2. CASE ~ (gate # NoGate /\ gate.blocked = 0)
    BY <1>1, <1>5, <2>2 DEF BlockTimer, SlotInv, Running
  <2> QED BY <2>1, <2>2
<1>6. ASSUME at' = at, Running' = Running PROVE SlotInv'
  BY <1>1, <1>6 DEF SlotInv
<1>7. gate # NoGate => gate \in Gates
  BY GateFacts DEF SlotInv, LineInv
<1>8. CASE CleanupTimer
  <2>1. CASE gate' = NoGate /\ Idle(gate)
    BY <1>6, <1>8, <2>1 DEF CleanupTimer, Running, Idle
  <2>2. CASE gate' = [gate EXCEPT !.cleanup = FALSE]
    <3>1. gate' \in Gates /\ gate'.running = gate.running
      BY <1>7, <1>8, <2>2 DEF CleanupTimer, Gates
    <3> QED BY <1>6, <1>8, <3>1, NoGateAssumption DEF CleanupTimer, Running
  <2> QED BY <1>8, <2>1, <2>2 DEF CleanupTimer
<1>9. CASE ProbeFull
  <2>1. gate' = [gate EXCEPT !.blocked = None] /\ gate # NoGate /\ at' = at
    BY <1>9 DEF ProbeFull
  <2>2. gate' \in Gates /\ gate'.running = gate.running
    BY <2>1, LiftedFacts DEF SlotInv, LineInv
  <2> QED BY <1>6, <2>1, <2>2, NoGateAssumption DEF Running
<1>10. CASE Reset
  BY <1>10, ResetCounts
<1>11. CASE Tick
  <2>1. CASE gate = NoGate
    BY <1>6, <1>11, <2>1 DEF Tick, Running
  <2>2. CASE gate # NoGate
    <3>1. gate' = [gate EXCEPT !.blocked = Sooner(@)] /\ at' = at
      BY <1>11, <2>2 DEF Tick
    <3>2. gate'.running = gate.running
      BY <1>7, <2>2, <3>1 DEF Gates
    <3>3. gate' # NoGate
      <4>1. gate.blocked \in {None} \cup 0..MaxCooldown
        BY <1>7, <2>2 DEF Gates
      <4>2. Sooner(gate.blocked) \in {None} \cup 0..MaxCooldown
        BY <4>1, ConstantsAssumption DEF Sooner, None
      <4>3. gate' \in Gates
        BY <1>7, <2>2, <3>1, <4>2 DEF Gates
      <4> QED BY <4>3, NoGateAssumption
    <3> QED BY <1>6, <2>2, <3>1, <3>2, <3>3 DEF Running
  <2> QED BY <2>1, <2>2
<1>12. CASE UNCHANGED vars
  BY <1>6, <1>12 DEF vars, Running
<1> QED
  BY <1>2, <1>3, <1>4, <1>5, <1>8, <1>9, <1>10, <1>11, <1>12 DEF Next

LEMMA SlotInit == Init => SlotInv
<1> SUFFICES ASSUME Init PROVE SlotInv
  OBVIOUS
<1>1. LineInv
  BY LineInit
<1>2. HoldersIn(at) = {} /\ Running = 0 /\ \A c \in Clients : at[c] # "stray"
  BY DEF Init, HoldersIn, Running
<1> QED BY <1>1, <1>2, FS_EmptySet DEF SlotInv

\* No slot leaks, even across resets: an account is never full for good
\* (createReleaseFn, drainQueue, reset).
THEOREM NoSlotLeaksHolds == Spec => []NoSlotLeaks
<1>1. SlotInv => NoSlotLeaks
  BY DEF SlotInv, NoSlotLeaks, Running, Holding, HoldersIn
<1> QED BY <1>1, SlotInit, SlotStep, PTL DEF Spec

\* While nobody resets the gate the counter is exactly the number of calls
\* that hold a slot (createReleaseFn, drainQueue, cleanupGateIfIdle).
THEOREM RunningCountsHoldersHolds ==
  ASSUME ~Resets
  PROVE  Spec => []RunningCountsHolders
<1>1. SlotInv => RunningCountsHolders
  BY DEF SlotInv, RunningCountsHolders, Running, Holding, HoldersIn
<1> QED BY <1>1, SlotInit, SlotStep, PTL DEF Spec

-----------------------------------------------------------------------------
(* The abstract limiter: every step of the gate is a step of                 *)
(* ConcurrencyLimiter, or leaves what the limiter sees unchanged.             *)

\* The cap the abstract limiter sees.
Cap == IF gate = NoGate THEN 0 ELSE gate.max

\* The abstract module speaks of the same operators under names of its own.
LEMMA SameOperators ==
  /\ \A S : Limiter!Cardinality(S) = Cardinality(S)
  /\ \A s : Limiter!ToSet(s) = ToSet(s)
  /\ \A s, i : Limiter!RemoveAt(s, i) = RemoveAt(s, i)
  BY DEF Limiter!Cardinality, Cardinality, Limiter!ToSet, ToSet, Limiter!RemoveAt, RemoveAt

\* drainQueue is a let-in of the abstract limiter: the first waiters enter, and
\* they fit.
LEMMA DrainLetsIn ==
  ASSUME TypeOK, gate # NoGate,
         NEW g \in Gates, g.queue = gate.queue, g.max = gate.max,
         NEW w \in [Clients -> Places], InLine(g.queue, w),
         g.running = Cardinality(HoldersIn(w)),
         gate' = Drained(g), at' = Woken(g, w)
  PROVE  /\ Admits(g) \in 0..Len(Queue)
         /\ Limiter!LetIn(HoldersIn(w), Admits(g))
         /\ Cap' = Cap
<1> DEFINE n == Admits(g)
<1> DEFINE q == g.queue
<1>1. q \in Seq(Clients) /\ Len(q) \in Nat /\ Queue = q /\ g.running \in Nat /\ g.max \in Nat
  <2>1. q \in Seq(Clients) /\ g.running \in Nat /\ g.max \in Nat
    BY DEF Gates
  <2> QED BY <2>1, QueueShape, GateFacts
<1>2. n \in 0..Len(q) /\ (n > 0 => g.running + n <= g.max)
  BY AdmitsFacts
<1>3. Drained(g) \in Gates /\ Drained(g) # NoGate
  BY DrainedFacts, GateFacts
<1>4. Drained(g).queue = SubSeq(q, n + 1, Len(q)) /\ Drained(g).max = g.max
  BY DEF Drained, Gates
<1>5. Queue' = SubSeq(Queue, n + 1, Len(Queue)) /\ Cap' = Cap
  BY <1>1, <1>3, <1>4 DEF Queue, Cap
<1> HIDE DEF n, q
<1>6. ToSet(SubSeq(q, 1, n)) = {q[i] : i \in 1..n}
  <2>1. \A i \in 1..n : q[i] \in Clients
    BY <1>1, <1>2, QueueShape
  <2>2. /\ SubSeq(q, 1, n) \in Seq(Clients)
        /\ Len(SubSeq(q, 1, n)) = IF 1 <= n THEN n - 1 + 1 ELSE 0
        /\ \A i \in 1..(n - 1 + 1) : SubSeq(q, 1, n)[i] = q[1 + i - 1]
    BY <1>1, <1>2, <2>1, SubSeqProperties
  <2>3. DOMAIN SubSeq(q, 1, n) = 1..n /\ \A i \in 1..n : SubSeq(q, 1, n)[i] = q[i]
    BY <1>1, <1>2, <2>2, LenProperties
  <2> QED BY <2>3 DEF ToSet
<1>7. \A i \in 1..n : q[i] \in Clients
  BY <1>1, <1>2, QueueShape
<1>8. Holding' = HoldersIn(w) \cup ToSet(SubSeq(Queue, 1, n))
  <2>1. \A c \in Clients : at'[c] = IF \E i \in 1..n : q[i] = c THEN "holding" ELSE w[c]
    BY DEF Woken, n, q
  <2> QED BY <1>1, <1>6, <1>7, <2>1 DEF Holding, HoldersIn
<1>9. Cardinality(Holding') = Cardinality(HoldersIn(w)) + n
  BY DrainKeepsLine DEF Holding, HoldersIn, n
<1>10. n > 0 => Cardinality(Holding') <= Cap
  BY <1>2, <1>9 DEF Cap
<1> QED
  BY <1>1, <1>2, <1>5, <1>8, <1>10, SameOperators DEF Limiter!LetIn, Cap, n

\* A caller that is let in, queued or turned away is an abstract Enter.
LEMMA AcquireEnters ==
  ASSUME SlotInv, ~Resets, NEW c \in Clients, Acquire(c)
  PROVE  Limiter!Enter(c)
<1>1. PICK cap \in Caps :
        LET g == [Ensured(cap) EXCEPT !.cleanup = FALSE]
        IN  \/ /\ HasSlot(g)
               /\ gate' = [g EXCEPT !.running = @ + 1, !.blocked = None]
               /\ at' = [at EXCEPT ![c] = "holding"]
            \/ /\ ~HasSlot(g)
               /\ ~QueueFull(g)
               /\ gate' = [g EXCEPT !.queue = Append(@, c)]
               /\ at' = [at EXCEPT ![c] = "queued"]
            \/ /\ ~HasSlot(g)
               /\ QueueFull(g)
               /\ gate' = g
               /\ UNCHANGED at
  BY DEF Acquire
<1> DEFINE g == [Ensured(cap) EXCEPT !.cleanup = FALSE]
<1>2. /\ g \in Gates /\ g.queue = Queue /\ g.running = Running /\ g.max = cap
      /\ cap \in Nat \ {0}
  BY EnsuredFacts, ConstantsAssumption DEF SlotInv, LineInv, Running
<1>3. /\ at \in [Clients -> Places] /\ at[c] \in {"idle", "done"} /\ TypeOK
      /\ Running = Cardinality(Holding) /\ Running \in Nat
  BY RunningType DEF SlotInv, LineInv, TypeOK, Acquire, Holding, HoldersIn
<1>4. Queue \in Seq(Clients)
  BY <1>2 DEF Gates
<1>5. c \notin Holding \cup ToSet(Queue)
  <2>1. DOMAIN Queue = 1..Len(Queue)
    BY <1>4, LenProperties
  <2>2. c \notin ToSet(Queue)
    BY <1>3, <2>1 DEF ToSet, SlotInv, LineInv, InLine
  <2> QED BY <1>3, <2>2 DEF Holding
<1> HIDE DEF g
<1>6. ASSUME gate' \in Gates, gate'.max = cap
      PROVE  Cap' = cap /\ Cap' \in Nat /\ Queue' = gate'.queue
  BY <1>2, <1>6, GateFacts, NoGateAssumption DEF Cap, Queue
<1>7. CASE /\ HasSlot(g)
           /\ gate' = [g EXCEPT !.running = @ + 1, !.blocked = None]
           /\ at' = [at EXCEPT ![c] = "holding"]
  <2>1. gate' \in Gates /\ gate'.max = cap /\ gate'.queue = Queue
    <3>1. g.running + 1 \in Nat /\ None \in {None} \cup 0..MaxCooldown
      BY <1>2, <1>3
    <3> QED BY <1>2, <1>7, <3>1 DEF Gates
  <2>2. Holding' = Holding \cup {c}
    BY <1>3, <1>7 DEF Holding
  <2>3. Cardinality(Holding') = Running + 1
    <3>1. Cardinality(HoldersIn(at')) = Cardinality(HoldersIn(at)) + 1
      BY <1>3, <1>7, MoveHolder DEF Places
    <3> QED BY <1>3, <3>1 DEF Holding, HoldersIn
  <2>4. Cardinality(Holding') <= Cap'
    BY <1>2, <1>3, <1>6, <1>7, <2>1, <2>3 DEF HasSlot
  <2> QED BY <1>5, <1>6, <2>1, <2>2, <2>4, SameOperators DEF Limiter!Enter, Cap
<1>8. CASE /\ gate' = [g EXCEPT !.queue = Append(@, c)]
           /\ at' = [at EXCEPT ![c] = "queued"]
  <2>1. gate' \in Gates /\ gate'.max = cap /\ gate'.queue = Append(Queue, c)
    <3>1. Append(Queue, c) \in Seq(Clients)
      BY <1>4, AppendProperties
    <3> QED BY <1>2, <1>8, <3>1 DEF Gates
  <2>2. Holding' = Holding
    BY <1>3, <1>8 DEF Holding
  <2> QED BY <1>5, <1>6, <2>1, <2>2, SameOperators DEF Limiter!Enter, Cap
<1>9. CASE gate' = g /\ UNCHANGED at
  <2>1. Holding' = Holding /\ Queue' = Queue
    BY <1>2, <1>6, <1>9 DEF Holding
  <2> QED BY <1>2, <1>5, <1>6, <1>9, <2>1, SameOperators DEF Limiter!Enter, Cap
<1> QED
  BY <1>1, <1>7, <1>8, <1>9 DEF g

\* A release is an abstract Leave; of a spent function, nothing.
LEMMA ReleaseLeaves ==
  ASSUME SlotInv, ~Resets, NEW c \in Clients, Release(c)
  PROVE  Limiter!Leave(c) \/ UNCHANGED Limiter!lvars
<1> DEFINE spent == [at EXCEPT ![c] = "done"]
<1>1. /\ at \in [Clients -> Places] /\ TypeOK /\ at[c] \in {"holding", "done"}
      /\ Running = Cardinality(HoldersIn(at)) /\ Running \in Nat
  BY RunningType DEF SlotInv, LineInv, TypeOK, Release
<1>2. CASE at[c] = "done"
  <2>1. gate' = gate /\ at' = spent
    BY <1>2 DEF Release
  <2>2. Holding' = Holding
    BY <1>1, <1>2, <2>1 DEF Holding
  <2> QED BY <2>1, <2>2 DEF Limiter!lvars, Queue
<1>3. CASE at[c] = "holding"
  <2>1. /\ spent \in [Clients -> Places]
        /\ Cardinality(HoldersIn(spent)) = Running - 1
        /\ HoldersIn(spent) = Holding \ {c} /\ c \in Holding
    <3>1. Cardinality(HoldersIn(spent)) = Cardinality(HoldersIn(at)) - 1
      BY <1>1, <1>3, MoveHolder DEF Places
    <3> QED BY <1>1, <1>3, <3>1 DEF Holding, HoldersIn, Places
  <2>2. Running > 0
    BY <1>1, <2>1, HoldersFinite
  <2>3. gate # NoGate /\ gate \in Gates
    BY <1>1, <2>2, GateFacts DEF Running
  <2>4. /\ Freed \in Gates /\ Freed.queue = gate.queue /\ Freed.max = gate.max
        /\ Freed.running = Running - 1
    BY <1>1, <2>2, <2>3, FreedFacts DEF Running
  <2>5. InLine(Freed.queue, spent)
    <3>1. \A d \in Clients : (spent[d] = "queued" <=> at[d] = "queued")
      BY <1>1, <1>3
    <3>2. InLine(Queue, spent)
      BY <3>1, SameQueue DEF SlotInv, LineInv
    <3> QED BY <1>1, <2>3, <2>4, <3>2, GateFacts
  <2>6. CASE gate.queue # <<>>
    <3>1. gate' = Drained(Freed) /\ at' = Woken(Freed, spent)
      BY <1>3, <2>3, <2>6 DEF Release
    <3> HIDE DEF spent
    <3>2. /\ Admits(Freed) \in 0..Len(Queue)
          /\ Limiter!LetIn(HoldersIn(spent), Admits(Freed))
          /\ Cap' = Cap
      BY <1>1, <2>1, <2>3, <2>4, <2>5, <3>1, DrainLetsIn
    <3> QED BY <2>1, <3>2 DEF Limiter!Leave, Cap
  <2>7. CASE gate.queue = <<>>
    <3>1. gate' = [Freed EXCEPT !.cleanup = TRUE] /\ at' = spent
      BY <1>3, <2>3, <2>7 DEF Release
    <3>2. gate' \in Gates /\ gate'.queue = <<>> /\ gate'.max = gate.max
      BY <2>4, <2>7, <3>1 DEF Gates
    <3>3. gate' # NoGate /\ Queue = <<>> /\ Queue' = <<>> /\ Cap' = Cap
      BY <1>1, <2>3, <2>7, <3>2, GateFacts DEF Queue, Cap
    <3>4. Holding' = Holding \ {c}
      BY <2>1, <3>1 DEF Holding, HoldersIn
    <3>5. Limiter!LetIn(Holding \ {c}, 0)
      <4>1. ToSet(SubSeq(<<>>, 1, 0)) = {} /\ SubSeq(<<>>, 1, 0) = <<>> /\ Len(<<>>) = 0
        BY DEF ToSet
      <4> QED BY <3>3, <3>4, <4>1, SameOperators DEF Limiter!LetIn
    <3>6. 0 \in 0..Len(Queue)
      BY <3>3
    <3> QED BY <2>1, <3>3, <3>5, <3>6 DEF Limiter!Leave, Cap
  <2> QED BY <2>6, <2>7
<1> QED BY <1>1, <1>2, <1>3

\* A waiter that times out or is aborted is an abstract GiveUp.
LEMMA GivesUpGivesUp ==
  ASSUME SlotInv, NEW c \in Clients, GivesUp(c)
  PROVE  Limiter!GiveUp(c)
<1>1. /\ at \in [Clients -> Places] /\ at[c] = "queued" /\ TypeOK
      /\ at' = [at EXCEPT ![c] = "idle"]
  BY DEF SlotInv, LineInv, TypeOK, GivesUp
<1>2. gate # NoGate
  <2> SUFFICES ASSUME gate = NoGate PROVE FALSE
    OBVIOUS
  <2>1. Queue = <<>> /\ Len(<<>>) = 0
    BY <1>1, GateFacts
  <2> QED BY <1>1, <2>1 DEF SlotInv, LineInv, InLine
<1>3. gate \in Gates /\ gate.queue \in Seq(Clients) /\ Queue = gate.queue
  BY <1>1, <1>2, GateFacts DEF Gates
<1>4. PICK i \in DOMAIN gate.queue :
        LET g == [gate EXCEPT !.queue = RemoveAt(@, i)]
        IN  gate.queue[i] = c /\ gate' = [g EXCEPT !.cleanup = @ \/ Idle(g)]
  BY DEF GivesUp
<1>5. gate' \in Gates /\ gate'.queue = RemoveAt(gate.queue, i) /\ gate'.max = gate.max
  <2> DEFINE g == [gate EXCEPT !.queue = RemoveAt(@, i)]
  <2>1. RemoveAt(gate.queue, i) \in Seq(Clients)
    BY <1>1, <1>3, QueueShape, RemoveKeepsLine DEF SlotInv, LineInv
  <2>2. g \in Gates /\ g.queue = RemoveAt(gate.queue, i) /\ g.max = gate.max
    BY <1>3, <2>1 DEF Gates
  <2>3. gate' = [g EXCEPT !.cleanup = @ \/ Idle(g)] /\ (g.cleanup \/ Idle(g)) \in BOOLEAN
    BY <1>4, <2>2 DEF Gates, Idle
  <2> HIDE DEF g
  <2> QED BY <2>2, <2>3 DEF Gates
<1>6. gate' # NoGate /\ Queue' = RemoveAt(Queue, i) /\ Cap' = Cap
  BY <1>1, <1>2, <1>3, <1>5, GateFacts DEF Queue, Cap
<1>7. Holding' = Holding
  BY <1>1 DEF Holding
<1> QED
  BY <1>3, <1>4, <1>6, <1>7, SameOperators DEF Limiter!GiveUp, Cap

\* The end of a block, by markBlocked or its timer, is an abstract Admit.
LEMMA LiftAdmits ==
  ASSUME SlotInv, ~Resets, gate # NoGate,
         LET g == [gate EXCEPT !.blocked = None]
         IN  gate' = Drained(g) /\ at' = Woken(g, at)
  PROVE  Limiter!Admit
<1> DEFINE g == [gate EXCEPT !.blocked = None]
<1>1. /\ g \in Gates /\ g.queue = gate.queue /\ g.max = gate.max /\ TypeOK
      /\ g.running = Cardinality(HoldersIn(at)) /\ at \in [Clients -> Places]
  BY LiftedFacts DEF SlotInv, LineInv, TypeOK, Running
<1>2. InLine(g.queue, at)
  BY <1>1, GateFacts DEF SlotInv, LineInv
<1>3. gate' = Drained(g) /\ at' = Woken(g, at)
  OBVIOUS
<1> HIDE DEF g
<1>4. /\ Admits(g) \in 0..Len(Queue)
      /\ Limiter!LetIn(HoldersIn(at), Admits(g))
      /\ Cap' = Cap
  BY <1>1, <1>2, <1>3, DrainLetsIn
<1>5. HoldersIn(at) = Holding
  BY DEF Holding, HoldersIn
<1>6. Limiter!LetIn(Holding, Admits(g))
  BY <1>4, <1>5
<1> QED
  BY <1>4, <1>6 DEF Limiter!Admit, Cap

\* A cooldown on a key without a gate configures the abstract limiter; any other
\* one is invisible to it.
LEMMA BlockConfigures ==
  ASSUME SlotInv, NEW d \in 1..MaxCooldown, Block(d)
  PROVE  Limiter!Configure \/ UNCHANGED Limiter!lvars
<1> DEFINE g == IF gate = NoGate THEN Created(1) ELSE gate
<1>1. g \in Gates /\ TypeOK /\ g.queue = Queue /\ (gate # NoGate => g.max = Cap)
  <2>1. CASE gate = NoGate
    BY <2>1 DEF Created, Gates, SlotInv, LineInv, Queue
  <2>2. CASE gate # NoGate
    BY <2>2, GateFacts DEF SlotInv, LineInv, Cap
  <2> QED BY <2>1, <2>2
<1>2. gate' = [g EXCEPT !.cleanup = FALSE, !.blocked = d] /\ at' = at
  BY DEF Block
<1>3. gate' \in Gates /\ gate'.queue = g.queue /\ gate'.max = g.max /\ g.max \in Nat
  <2>1. d \in {None} \cup 0..MaxCooldown
    BY ConstantsAssumption
  <2> HIDE DEF g
  <2> QED BY <1>1, <1>2, <2>1 DEF Gates
<1>4. Queue' = Queue /\ Cap' = g.max /\ Holding' = Holding
  BY <1>1, <1>2, <1>3, GateFacts DEF Queue, Cap, Holding
<1>5. CASE gate = NoGate
  <2>1. Queue = <<>>
    BY <1>5 DEF Queue
  <2> HIDE DEF g
  <2> QED BY <1>3, <1>4, <2>1 DEF Limiter!Configure, Cap
<1>6. CASE gate # NoGate
  <2> HIDE DEF g
  <2> QED BY <1>1, <1>4, <1>6 DEF Limiter!lvars, Cap
<1> QED BY <1>5, <1>6

\* A dropped gate is a forgotten configuration; a kept one changes nothing.
LEMMA CleanupConfigures ==
  ASSUME SlotInv, CleanupTimer
  PROVE  Limiter!Configure \/ UNCHANGED Limiter!lvars
<1>1. gate \in Gates /\ gate # NoGate /\ TypeOK /\ Holding' = Holding
  BY GateFacts DEF SlotInv, LineInv, CleanupTimer, Holding
<1>2. CASE gate' = NoGate /\ Idle(gate)
  BY <1>1, <1>2 DEF Limiter!Configure, Queue, Idle
<1>3. CASE gate' = [gate EXCEPT !.cleanup = FALSE]
  <2>1. gate' \in Gates /\ gate'.queue = gate.queue /\ gate'.max = gate.max
    BY <1>1, <1>3 DEF Gates
  <2>2. gate' # NoGate
    BY <1>1, <2>1, GateFacts
  <2> QED BY <1>1, <2>1, <2>2 DEF Limiter!lvars, Queue
<1> QED BY <1>2, <1>3 DEF CleanupTimer

\* Time and the router's question are invisible to the abstract limiter.
LEMMA BlockedIsInvisible ==
  ASSUME SlotInv, gate # NoGate, at' = at, NEW b \in {None} \cup 0..MaxCooldown,
         gate' = [gate EXCEPT !.blocked = b]
  PROVE  UNCHANGED Limiter!lvars
<1>1. gate \in Gates /\ TypeOK
  BY GateFacts DEF SlotInv, LineInv
<1>2. gate' \in Gates /\ gate'.queue = gate.queue /\ gate'.max = gate.max
  BY <1>1 DEF Gates
<1>3. gate' # NoGate
  BY <1>1, <1>2, GateFacts
<1> QED BY <1>2, <1>3 DEF Limiter!lvars, Queue, Holding

LEMMA LimiterStep ==
  ASSUME ~Resets, SlotInv, [Next]_vars
  PROVE  [Limiter!Next]_(Limiter!lvars)
<1>1. ASSUME NEW c \in Clients, Acquire(c) \/ Release(c) \/ GivesUp(c)
      PROVE  [Limiter!Next]_(Limiter!lvars)
  BY <1>1, AcquireEnters, ReleaseLeaves, GivesUpGivesUp DEF Limiter!Next
<1>2. ASSUME NEW d \in 1..MaxCooldown, Block(d)
      PROVE  [Limiter!Next]_(Limiter!lvars)
  BY <1>2, BlockConfigures DEF Limiter!Next
<1>3. CASE Unblock
  BY <1>3, LiftAdmits DEF Unblock, Limiter!Next
<1>4. CASE BlockTimer
  <2>1. CASE gate # NoGate /\ gate.blocked = 0
    BY <1>4, <2>1, LiftAdmits DEF BlockTimer, Limiter!Next
  <2>2. CASE ~ (gate # NoGate /\ gate.blocked = 0)
    BY <1>4, <2>2 DEF BlockTimer, Limiter!lvars, Queue, Holding
  <2> QED BY <2>1, <2>2
<1>5. CASE CleanupTimer
  BY <1>5, CleanupConfigures DEF Limiter!Next
<1>6. CASE ProbeFull
  BY <1>6, BlockedIsInvisible DEF ProbeFull
<1>7. CASE Tick
  <2>1. CASE gate = NoGate
    BY <1>7, <2>1 DEF Tick, Limiter!lvars, Queue, Holding
  <2>2. CASE gate # NoGate
    <3>1. gate \in Gates /\ gate.blocked \in {None} \cup 0..MaxCooldown
      BY <2>2, GateFacts DEF SlotInv, LineInv, Gates
    <3>2. Sooner(gate.blocked) \in {None} \cup 0..MaxCooldown
      BY <3>1, ConstantsAssumption DEF Sooner, None
    <3>3. gate' = [gate EXCEPT !.blocked = Sooner(gate.blocked)] /\ at' = at
      BY <1>7, <2>2 DEF Tick
    <3> QED BY <2>2, <3>2, <3>3, BlockedIsInvisible
  <2> QED BY <2>1, <2>2
<1>8. CASE UNCHANGED vars
  BY <1>8 DEF vars, Limiter!lvars, Queue, Holding
<1>9. ~Reset
  BY DEF Reset
<1> QED
  BY <1>1, <1>2, <1>3, <1>4, <1>5, <1>6, <1>7, <1>8, <1>9 DEF Next

LEMMA LimiterInit == Init => Limiter!Init
  BY DEF Init, Limiter!Init, Holding, Queue

\* While nobody resets the semaphores, acquire, release, time-outs, cooldowns and
\* clean-up together are a concurrency limiter (accountSemaphore.ts:4-6).
THEOREM ImplementsLimiterHolds ==
  ASSUME ~Resets
  PROVE  Spec => ImplementsLimiter
<1>1. SlotInv /\ [Next]_vars => [Limiter!Next]_(Limiter!lvars)
  BY LimiterStep
<1> QED
  BY <1>1, SlotInit, SlotStep, LimiterInit, PTL
  DEF Spec, ImplementsLimiter, Limiter!Spec
=============================================================================
