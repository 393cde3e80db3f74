-------------------------- MODULE Admission_proofs --------------------------
(***************************************************************************)
(* Proofs about Admission for every set of requests, every assignment of   *)
(* tenants and costs, and every limit and cap.                             *)
(***************************************************************************)
EXTENDS Admission, FiniteSetTheorems, SequenceTheorems, WellFoundedInduction, TLAPS

-----------------------------------------------------------------------------
(* Induction over numbers, stated for a set *)

\* A set of numbers has a least one.
LEMMA LeastNumber ==
  ASSUME NEW T, T \subseteq Nat, T # {}
  PROVE  \E x \in T : \A y \in T : x <= y
<1>1. PICK x \in T : \A y \in T : ~ (<<y, x>> \in OpToRel(<, Nat))
  BY NatLessThanWellFounded, WFMin
<1>2. ASSUME NEW y \in T PROVE ~ (y < x)
  <2>1. y < x => <<y, x>> \in OpToRel(<, Nat)
    BY DEF OpToRel
  <2> QED
    BY <1>1, <2>1
<1> QED
  BY <1>2

\* A set that holds 0 and with each number the next one, up to N, holds them
\* all.
LEMMA Upwards ==
  ASSUME NEW N \in Nat, NEW T, 0 \in T, \A n \in 0..(N - 1) : n \in T => n + 1 \in T
  PROVE  0..N \subseteq T
<1> DEFINE Others == (0..N) \ T
<1> SUFFICES ASSUME Others # {} PROVE FALSE
  OBVIOUS
<1>0. Others \subseteq Nat
  OBVIOUS
<1>1. PICK n \in Others : \A m \in Others : n <= m
  BY <1>0, LeastNumber
<1>2. n \in Nat /\ n <= N /\ n # 0
  BY <1>1
<1>3. n - 1 \in 0..(N - 1) /\ n - 1 \in 0..N /\ ~(n <= n - 1) /\ (n - 1) + 1 = n
  BY <1>2
<1>4. n - 1 \in T
  BY <1>1, <1>3
<1> QED
  BY <1>1, <1>3, <1>4

-----------------------------------------------------------------------------
(* The cost of a set of requests *)

\* One unit for each of the cost of a request.
Units(S) == UNION {{r} \X (1..Cost[r]) : r \in S}

\* The recursion that CostOf solves.
Sums(f, S) ==
    f = [s \in SUBSET S |->
            IF s = {} THEN 0
            ELSE Cost[CHOOSE r \in s : TRUE] + f[s \ {CHOOSE r \in s : TRUE}]]

LEMMA UnitsOfOne ==
  ASSUME NEW r \in Requests
  PROVE  IsFiniteSet({r} \X (1..Cost[r])) /\ Cardinality({r} \X (1..Cost[r])) = Cost[r]
<1>1. Cost[r] \in Nat \ {0}
  BY RequestsAssumption
<1>2. IsFiniteSet(1..Cost[r]) /\ Cardinality(1..Cost[r]) = Cost[r]
  <2> DEFINE n == Cost[r]
  <2>1. n \in Int /\ ~(1 > n) /\ n - 1 + 1 = n
    BY <1>1
  <2> HIDE DEF n
  <2>2. IsFiniteSet(1..n) /\ Cardinality(1..n) = n - 1 + 1
    BY <2>1, FS_Interval
  <2> QED
    BY <2>1, <2>2 DEF n
<1>3. IsFiniteSet({r}) /\ Cardinality({r}) = 1
  BY FS_Singleton
<1>4. /\ IsFiniteSet({r} \X (1..Cost[r]))
      /\ Cardinality({r} \X (1..Cost[r])) = Cardinality({r}) * Cardinality(1..Cost[r])
  BY <1>2, <1>3, FS_Product
<1> QED
  BY <1>1, <1>2, <1>3, <1>4

\* A request adds its units, which are nobody else's.
LEMMA UnitsFacts ==
  ASSUME NEW S, S \subseteq Requests
  PROVE  /\ IsFiniteSet(Units(S)) /\ Units({}) = {}
         /\ \A r \in S : Cardinality(Units(S)) = Cost[r] + Cardinality(Units(S \ {r}))
<1> DEFINE of == [r \in S |-> {r} \X (1..Cost[r])]
           All == {{r} \X (1..Cost[r]) : r \in S}
<1>1. IsFiniteSet(S)
  BY RequestsAssumption, FS_Subset
<1>2. of \in Surjection(S, All)
  BY DEF Surjection
<1>3. IsFiniteSet(All)
  BY <1>1, <1>2, FS_Surjection
<1>4. \A T \in All : IsFiniteSet(T)
  BY UnitsOfOne
<1>5. IsFiniteSet(Units(S))
  BY <1>3, <1>4, FS_UNION DEF Units
<1>6. ASSUME NEW r \in S
      PROVE  Cardinality(Units(S)) = Cost[r] + Cardinality(Units(S \ {r}))
  <2> DEFINE own == {r} \X (1..Cost[r])
             rest == Units(S \ {r})
  <2>1. Units(S) = own \cup rest
    BY DEF Units
  <2>2. own \cap rest = {}
    BY DEF Units
  <2>3. IsFiniteSet(rest)
    <3>1. rest \subseteq Units(S)
      BY <2>1
    <3> QED
      BY <1>5, <3>1, FS_Subset
  <2>4. IsFiniteSet(own) /\ Cardinality(own) = Cost[r]
    BY UnitsOfOne
  <2> HIDE DEF own, rest
  <2>5. Cardinality(own \cup rest) = Cardinality(own) + Cardinality(rest) - Cardinality(own \cap rest)
    BY <2>3, <2>4, FS_Union
  <2>6. /\ Cardinality(own \cap rest) = 0
        /\ Cardinality(own) \in Nat /\ Cardinality(rest) \in Nat
    BY <2>2, <2>3, <2>4, FS_EmptySet, FS_CardinalityType
  <2> QED
    BY <2>1, <2>4, <2>5, <2>6 DEF rest
<1>7. Units({}) = {}
  BY DEF Units
<1> QED
  BY <1>5, <1>6, <1>7

\* The sum counts the units, whatever order it is taken in.
LEMMA CostIsUnits ==
  ASSUME NEW S, S \subseteq Requests
  PROVE  CostOf(S) = Cardinality(Units(S))
<1> DEFINE g == [s \in SUBSET S |-> Cardinality(Units(s))]
<1>1. ASSUME NEW s \in SUBSET S, s # {}
      PROVE  LET c == CHOOSE r \in s : TRUE
             IN  c \in s /\ g[s] = Cost[c] + g[s \ {c}]
  BY <1>1, UnitsFacts
<1>2. g[{}] = 0
  BY UnitsFacts, FS_EmptySet
<1>3. Sums(g, S)
  <2>1. g = [s \in SUBSET S |-> g[s]]
    OBVIOUS
  <2> HIDE DEF g
  <2> QED
    BY <1>1, <1>2, <2>1 DEF Sums
<1>4. ASSUME NEW f, Sums(f, S) PROVE f[S] = g[S]
  <2> DEFINE Wrong == {n \in Nat : \E s \in SUBSET S : Cardinality(s) = n /\ f[s] # g[s]}
  <2> HIDE DEF g
  <2>1. SUFFICES ASSUME f[S] # g[S] PROVE FALSE
    OBVIOUS
  <2>2. \A s \in SUBSET S : IsFiniteSet(s) /\ Cardinality(s) \in Nat
    BY RequestsAssumption, FS_Subset, FS_CardinalityType
  <2>3. Wrong # {}
    BY <2>1, <2>2
  <2>4. PICK n \in Wrong : \A m \in Wrong : n <= m
    BY <2>3, LeastNumber
  <2>5. PICK s \in SUBSET S : Cardinality(s) = n /\ f[s] # g[s]
    BY <2>4
  <2>6. s # {}
    BY <1>2, <1>4, <2>5 DEF Sums
  <2> DEFINE c == CHOOSE r \in s : TRUE
  <2>7. c \in s /\ g[s] = Cost[c] + g[s \ {c}]
    BY <1>1, <2>6
  <2>8. f[s] = Cost[c] + f[s \ {c}]
    BY <1>4, <2>6 DEF Sums
  <2> HIDE DEF c
  <2>9. Cardinality(s \ {c}) = n - 1 /\ n - 1 \in Nat
    BY <2>2, <2>5, <2>7, FS_RemoveElement
  <2>10. n - 1 \in Wrong
    BY <2>5, <2>7, <2>8, <2>9
  <2> QED
    BY <2>4, <2>9, <2>10
<1>5. CostOf(S) = (CHOOSE f : Sums(f, S))[S]
  BY DEF CostOf, MapThenSumSet, MapThenFoldSet, Sums
<1> HIDE DEF g
<1>6. Sums(CHOOSE f : Sums(f, S), S)
  BY <1>3
<1>7. CostOf(S) = g[S]
  BY <1>4, <1>5, <1>6
<1> QED
  BY <1>7 DEF g

\* What the proofs need of costs.
LEMMA CostFacts ==
  ASSUME NEW S, S \subseteq Requests
  PROVE  /\ CostOf(S) \in Nat /\ CostOf({}) = 0
         /\ \A r \in Requests \ S : CostOf(S \cup {r}) = CostOf(S) + Cost[r]
         /\ \A T \in SUBSET S : CostOf(T) <= CostOf(S)
<1>1. CostOf(S) \in Nat /\ CostOf({}) = 0
  BY CostIsUnits, UnitsFacts, FS_CardinalityType, FS_EmptySet
<1>2. ASSUME NEW r \in Requests \ S PROVE CostOf(S \cup {r}) = CostOf(S) + Cost[r]
  <2>1. (S \cup {r}) \ {r} = S /\ S \cup {r} \subseteq Requests /\ r \in S \cup {r}
    OBVIOUS
  <2>2. Cardinality(Units(S \cup {r})) = Cost[r] + Cardinality(Units(S))
    BY <2>1, UnitsFacts
  <2>3. Cost[r] \in Nat
    BY RequestsAssumption
  <2> QED
    BY <1>1, <2>1, <2>2, <2>3, CostIsUnits
<1>3. ASSUME NEW T \in SUBSET S PROVE CostOf(T) <= CostOf(S)
  <2>1. Units(T) \subseteq Units(S) /\ T \subseteq Requests
    BY DEF Units
  <2>2. Cardinality(Units(T)) <= Cardinality(Units(S))
    BY <2>1, UnitsFacts, FS_Subset
  <2> QED
    BY <2>1, <2>2, CostIsUnits
<1> QED
  BY <1>1, <1>2, <1>3

-----------------------------------------------------------------------------
(* The queue *)

Tenants == {Tenant[r] : r \in Requests}

\* The rotation lists the tenants of those who wait, each once.
Shape(q) ==
    /\ q \in [order : Seq(Tenants), cursor : Nat, line : Seq(Requests),
              skip : [Requests -> Nat]]
    /\ IsInjective(q.line) /\ IsInjective(q.order)
    /\ ToSet(q.order) = {Tenant[r] : r \in ToSet(q.line)}

CursorFits(q) == q.cursor = 0 \/ q.cursor < Len(q.order)

\* r waits, and nobody of its tenant came before it.
IsHead(q, r) ==
    \E p \in 1..Len(q.line) :
        q.line[p] = r /\ \A j \in 1..(p - 1) : Tenant[q.line[j]] # Tenant[r]

\* Only the first entry of a bucket has been passed over.
SkipsFit(q) ==
    \A r \in Requests : q.skip[r] <= MAX_UNFITTABLE_SKIPS /\ (q.skip[r] > 0 => IsHead(q, r))

QueueFits(q) == Shape(q) /\ CursorFits(q) /\ SkipsFit(q)

\* What a sequence without one of its elements is.
LEMMA RemoveShape ==
  ASSUME NEW S, NEW s \in Seq(S), NEW k \in 1..Len(s)
  PROVE  /\ RemoveAt(s, k) \in Seq(S)
         /\ Len(RemoveAt(s, k)) = Len(s) - 1
         /\ \A i \in 1..(Len(s) - 1) : RemoveAt(s, k)[i] = IF i < k THEN s[i] ELSE s[i + 1]
<1> DEFINE before == SubSeq(s, 1, k - 1)
           after == SubSeq(s, k + 1, Len(s))
<1>1. Len(s) \in Nat /\ k \in Nat /\ \A i \in 1..Len(s) : s[i] \in S
  BY LenProperties, ElementOfSeq
<1>2. /\ before \in Seq(S) /\ Len(before) = k - 1
      /\ \A i \in 1..(k - 1) : before[i] = s[i]
  <2>1. /\ before \in Seq(S)
        /\ Len(before) = IF 1 <= k - 1 THEN (k - 1) - 1 + 1 ELSE 0
        /\ \A i \in 1..((k - 1) - 1 + 1) : before[i] = s[1 + i - 1]
    BY <1>1, SubSeqProperties
  <2> QED
    BY <1>1, <2>1
<1>3. /\ after \in Seq(S) /\ Len(after) = Len(s) - k
      /\ \A i \in 1..(Len(s) - k) : after[i] = s[k + i]
  <2>1. /\ after \in Seq(S)
        /\ Len(after) = IF k + 1 <= Len(s) THEN Len(s) - (k + 1) + 1 ELSE 0
        /\ \A i \in 1..(Len(s) - (k + 1) + 1) : after[i] = s[k + 1 + i - 1]
    BY <1>1, SubSeqProperties
  <2> QED
    BY <1>1, <2>1
<1>4. RemoveAt(s, k) = before \o after
  BY DEF RemoveAt
<1> HIDE DEF before, after
<1>5. /\ before \o after \in Seq(S)
      /\ Len(before \o after) = Len(before) + Len(after)
      /\ \A i \in 1..(Len(before) + Len(after)) :
             (before \o after)[i] = IF i <= Len(before) THEN before[i]
                                    ELSE after[i - Len(before)]
  BY <1>2, <1>3, ConcatProperties
<1> QED
  BY <1>1, <1>2, <1>3, <1>4, <1>5

\* Where an element comes from.
LEMMA RemoveFacts ==
  ASSUME NEW S, NEW s \in Seq(S), NEW k \in 1..Len(s), IsInjective(s)
  PROVE  /\ IsInjective(RemoveAt(s, k))
         /\ ToSet(RemoveAt(s, k)) = ToSet(s) \ {s[k]}
<1> DEFINE p == RemoveAt(s, k)
           Was(i) == IF i < k THEN i ELSE i + 1
<1>1. DOMAIN s = 1..Len(s) /\ Len(s) \in Nat /\ k \in Nat
  BY LenProperties
<1>2. /\ Len(p) = Len(s) - 1 /\ DOMAIN p = 1..Len(p)
      /\ \A i \in 1..(Len(s) - 1) : p[i] = IF i < k THEN s[i] ELSE s[i + 1]
  BY RemoveShape, LenProperties
<1> HIDE DEF p
<1>3. \A i \in DOMAIN p : Was(i) \in DOMAIN s /\ Was(i) # k /\ p[i] = s[Was(i)]
  BY <1>1, <1>2
<1>4. \A i, j \in DOMAIN p : Was(i) = Was(j) => i = j
  BY <1>1, <1>2
<1>5. ASSUME NEW i \in DOMAIN s, i # k PROVE \E j \in DOMAIN p : p[j] = s[i]
  <2> DEFINE j == IF i < k THEN i ELSE i - 1
  <2>1. j \in DOMAIN p /\ Was(j) = i
    BY <1>1, <1>2, <1>5
  <2> HIDE DEF j, Was
  <2> QED
    BY <1>3, <2>1
<1>6. \A i, j \in DOMAIN s : s[i] = s[j] => i = j
  BY DEF IsInjective
<1> HIDE DEF Was
<1>7. IsInjective(p)
  BY <1>3, <1>4, <1>6 DEF IsInjective
<1>8. ToSet(p) \subseteq ToSet(s) \ {s[k]}
  BY <1>1, <1>3, <1>6 DEF ToSet
<1>9. ToSet(s) \ {s[k]} \subseteq ToSet(p)
  BY <1>5 DEF ToSet
<1> QED
  BY <1>7, <1>8, <1>9 DEF p

\* What a sequence with one more element is.
LEMMA AppendFacts ==
  ASSUME NEW S, NEW s \in Seq(S), NEW e \in S
  PROVE  /\ Append(s, e) \in Seq(S) /\ Len(Append(s, e)) = Len(s) + 1
         /\ \A i \in 1..Len(s) : Append(s, e)[i] = s[i]
         /\ Append(s, e)[Len(s) + 1] = e
         /\ ToSet(Append(s, e)) = ToSet(s) \cup {e}
         /\ IsInjective(s) /\ e \notin ToSet(s) => IsInjective(Append(s, e))
<1> DEFINE t == Append(s, e)
<1>1. /\ t \in Seq(S) /\ Len(t) = Len(s) + 1
      /\ \A i \in 1..Len(s) : t[i] = s[i]
      /\ t[Len(s) + 1] = e
  BY AppendProperties
<1>2. /\ DOMAIN s = 1..Len(s) /\ DOMAIN t = 1..(Len(s) + 1) /\ Len(s) \in Nat
      /\ Len(s) + 1 \in DOMAIN t
  BY <1>1, LenProperties
<1> HIDE DEF t
<1>3. \A i \in DOMAIN t : i \in DOMAIN s \/ i = Len(s) + 1
  BY <1>2
<1>4. DOMAIN s \subseteq DOMAIN t
  BY <1>2
<1>5. ToSet(t) = ToSet(s) \cup {e}
  BY <1>1, <1>2, <1>3, <1>4 DEF ToSet
<1>6. ASSUME IsInjective(s), e \notin ToSet(s) PROVE IsInjective(t)
  BY <1>1, <1>2, <1>3, <1>6 DEF IsInjective, ToSet
<1> QED
  BY <1>1, <1>5, <1>6 DEF t

\* The first entry of every bucket of the rotation is in the line.
LEMMA ArrivalFacts ==
  ASSUME NEW q, Shape(q), NEW k \in DOMAIN q.order
  PROVE  /\ Arrival(q, k) \in 1..Len(q.line)
         /\ InBucket(q, k, Arrival(q, k))
         /\ \A j \in 1..(Arrival(q, k) - 1) : ~InBucket(q, k, j)
         /\ BucketHead(q, k) \in ToSet(q.line) /\ IsHead(q, BucketHead(q, k))
<1> DEFINE Places == {i \in DOMAIN q.line : InBucket(q, k, i)}
<1>1. DOMAIN q.line = 1..Len(q.line) /\ Len(q.line) \in Nat
  BY LenProperties DEF Shape
<1>2. PICK r \in ToSet(q.line) : Tenant[r] = q.order[k]
  <2>1. q.order[k] \in ToSet(q.order)
    BY DEF ToSet
  <2> QED
    BY <2>1 DEF Shape
<1>3. Places # {} /\ Places \subseteq Nat
  BY <1>1, <1>2 DEF ToSet, InBucket
<1>4. PICK i \in Places : \A j \in Places : i <= j
  BY <1>3, LeastNumber
<1>5. \A j \in 1..(i - 1) : ~InBucket(q, k, j)
  <2>1. \A j \in 1..(i - 1) : j \in DOMAIN q.line /\ ~(i <= j)
    BY <1>1
  <2> QED
    BY <1>4, <2>1
<1>6. /\ Arrival(q, k) \in DOMAIN q.line
      /\ InBucket(q, k, Arrival(q, k))
      /\ \A j \in 1..(Arrival(q, k) - 1) : ~InBucket(q, k, j)
  BY <1>4, <1>5 DEF Arrival
<1>7. BucketHead(q, k) \in ToSet(q.line) /\ IsHead(q, BucketHead(q, k))
  BY <1>1, <1>6 DEF BucketHead, IsHead, InBucket, ToSet
<1> QED
  BY <1>1, <1>6, <1>7

\* And who is first of its tenant is the first entry of a bucket.
LEMMA HeadFacts ==
  ASSUME NEW q, Shape(q), NEW r, IsHead(q, r)
  PROVE  r \in ToSet(q.line) /\ \E k \in DOMAIN q.order : BucketHead(q, k) = r
<1>1. DOMAIN q.line = 1..Len(q.line) /\ Len(q.line) \in Nat
  BY LenProperties DEF Shape
<1>2. PICK p \in 1..Len(q.line) :
          q.line[p] = r /\ \A j \in 1..(p - 1) : Tenant[q.line[j]] # Tenant[r]
  BY DEF IsHead
<1>3. r \in ToSet(q.line)
  BY <1>1, <1>2 DEF ToSet
<1>4. PICK k \in DOMAIN q.order : q.order[k] = Tenant[r]
  BY <1>3 DEF Shape, ToSet
<1> DEFINE a == Arrival(q, k)
<1>5. /\ a \in 1..Len(q.line) /\ Tenant[q.line[a]] = Tenant[r]
      /\ \A j \in 1..(a - 1) : Tenant[q.line[j]] # Tenant[r]
  BY <1>4, ArrivalFacts DEF InBucket
<1> HIDE DEF a
<1>6. a = p
  BY <1>1, <1>2, <1>5
<1> QED
  BY <1>2, <1>3, <1>6 DEF BucketHead, a

\* The parts of a queue, typed.
LEMMA ShapeFacts ==
  ASSUME NEW q, Shape(q)
  PROVE  /\ q.order \in Seq(Tenants) /\ q.line \in Seq(Requests)
         /\ q.cursor \in Nat /\ q.skip \in [Requests -> Nat]
         /\ DOMAIN q.line = 1..Len(q.line) /\ Len(q.line) \in Nat
         /\ DOMAIN q.order = 1..Len(q.order) /\ Len(q.order) \in Nat
         /\ ToSet(q.line) \subseteq Requests
  BY LenProperties, ElementOfSeq DEF Shape, ToSet

\* The cursor has no part in the shape and in who was passed over.
LEMMA CursorMoves ==
  ASSUME NEW q, Shape(q), SkipsFit(q), NEW c \in Nat
  PROVE  LET m == [q EXCEPT !.cursor = c]
         IN  /\ Shape(m) /\ SkipsFit(m) /\ m.cursor = c
             /\ m.order = q.order /\ m.line = q.line /\ m.skip = q.skip
<1> DEFINE m == [q EXCEPT !.cursor = c]
<1>1. /\ m \in [order : Seq(Tenants), cursor : Nat, line : Seq(Requests),
                skip : [Requests -> Nat]]
      /\ m.cursor = c /\ m.order = q.order /\ m.line = q.line /\ m.skip = q.skip
  BY DEF Shape
<1> HIDE DEF m
<1>2. Shape(m)
  BY <1>1 DEF Shape
<1>3. \A r \in Requests : IsHead(q, r) => IsHead(m, r)
  BY <1>1 DEF IsHead
<1>4. SkipsFit(m)
  BY <1>1, <1>3 DEF SkipsFit
<1> QED
  BY <1>1, <1>2, <1>4 DEF m

\* Nobody comes in w before one of q who did not come before it in q.
OrderKept(q, w) == \A s, r : r \in ToSet(q.line) /\ Before(w, s, r) => Before(q, s, r)

\* From q to w, h left the line and the others kept their order in it.
Leaves(h, q, w) ==
    /\ OrderKept(q, w)
    /\ Len(w.line) = Len(q.line) - 1
    /\ ToSet(w.line) = ToSet(q.line) \ {h}
    /\ w.skip[h] = 0 /\ \A r \in Requests \ {h} : w.skip[r] = q.skip[r]

\* An entry leaves, and its bucket with it if it was the last.
LEMMA WithoutFacts ==
  ASSUME NEW q, Shape(q), SkipsFit(q), NEW k \in DOMAIN q.order,
         NEW i \in 1..Len(q.line), InBucket(q, k, i)
  PROVE  LET w == Without(q, k, i)
         IN  /\ Shape(w) /\ SkipsFit(w) /\ w.cursor = q.cursor
             /\ Leaves(q.line[i], q, w)
             /\ Len(w.order) \in {Len(q.order), Len(q.order) - 1}
<1> DEFINE w == Without(q, k, i)
           h == q.line[i]
           Others == \E j \in DOMAIN q.line \ {i} : InBucket(q, k, j)
<1>1. /\ q.order \in Seq(Tenants) /\ q.line \in Seq(Requests)
      /\ q.cursor \in Nat /\ q.skip \in [Requests -> Nat]
      /\ DOMAIN q.line = 1..Len(q.line) /\ Len(q.line) \in Nat
      /\ DOMAIN q.order = 1..Len(q.order) /\ Len(q.order) \in Nat
  BY ShapeFacts
<1>2. /\ RemoveAt(q.line, i) \in Seq(Requests)
      /\ Len(RemoveAt(q.line, i)) = Len(q.line) - 1
      /\ \A j \in 1..(Len(q.line) - 1) :
            RemoveAt(q.line, i)[j] = IF j < i THEN q.line[j] ELSE q.line[j + 1]
      /\ IsInjective(RemoveAt(q.line, i))
      /\ ToSet(RemoveAt(q.line, i)) = ToSet(q.line) \ {h}
  BY <1>1, RemoveShape, RemoveFacts DEF Shape
<1>3. /\ RemoveAt(q.order, k) \in Seq(Tenants)
      /\ Len(RemoveAt(q.order, k)) = Len(q.order) - 1
      /\ IsInjective(RemoveAt(q.order, k))
      /\ ToSet(RemoveAt(q.order, k)) = ToSet(q.order) \ {q.order[k]}
  BY <1>1, RemoveShape, RemoveFacts DEF Shape
<1>4. /\ w.line = RemoveAt(q.line, i) /\ w.cursor = q.cursor
      /\ w.skip = [q.skip EXCEPT ![h] = 0]
      /\ w.order = IF Others THEN q.order ELSE RemoveAt(q.order, k)
      /\ w \in [order : Seq(Tenants), cursor : Nat, line : Seq(Requests),
                skip : [Requests -> Nat]]
  BY <1>1, <1>2, <1>3 DEF Without, Shape
<1>5. h \in ToSet(q.line) /\ Tenant[h] = q.order[k]
  BY <1>1 DEF ToSet, InBucket
<1>6. \A r \in ToSet(q.line) : \E j \in DOMAIN q.line : r = q.line[j]
  BY DEF ToSet
<1>7. IsInjective(w.order)
  BY <1>3, <1>4 DEF Shape
<1>8. ToSet(w.order) = {Tenant[r] : r \in ToSet(w.line)}
  <2>1. CASE Others
    <3>1. PICK j \in DOMAIN q.line \ {i} : InBucket(q, k, j)
      BY <2>1
    <3>2. q.line[j] \in ToSet(q.line) \ {h} /\ Tenant[q.line[j]] = Tenant[h]
      BY <1>1, <1>5, <3>1 DEF ToSet, InBucket, Shape, IsInjective
    <3>3. {Tenant[r] : r \in ToSet(q.line)} = {Tenant[r] : r \in ToSet(q.line) \ {h}}
      BY <3>2
    <3> HIDE DEF w, Others, h
    <3> QED
      BY <1>2, <1>4, <2>1, <3>3 DEF Shape
  <2>2. CASE ~Others
    <3>1. \A r \in ToSet(q.line) \ {h} : Tenant[r] # q.order[k]
      BY <1>6, <2>2 DEF InBucket
    <3>2. {Tenant[r] : r \in ToSet(q.line) \ {h}} = {Tenant[r] : r \in ToSet(q.line)} \ {q.order[k]}
      BY <1>5, <3>1
    <3> HIDE DEF w, Others, h
    <3> QED
      BY <1>2, <1>3, <1>4, <2>2, <3>2 DEF Shape
  <2> QED
    BY <2>1, <2>2
<1>s. w.skip[h] = 0 /\ \A r \in Requests \ {h} : w.skip[r] = q.skip[r]
  <2>1. h \in Requests
    BY <1>5, ShapeFacts
  <2> HIDE DEF w, h
  <2> QED
    BY <1>1, <1>4, <2>1
<1>m. /\ Len(w.line) = Len(q.line) - 1
      /\ \A j \in 1..(Len(q.line) - 1) :
            w.line[j] = IF j < i THEN q.line[j] ELSE q.line[j + 1]
  BY <1>2, <1>4
<1>o. OrderKept(q, w)
  <2> DEFINE Was(x) == IF x < i THEN x ELSE x + 1
  <2>0. Len(q.line) \in Nat /\ DOMAIN q.line = 1..Len(q.line) /\ i \in Nat
    BY <1>1
  <2>1. w.line \in Seq(Requests)
    BY <1>2, <1>4
  <2> HIDE DEF w, h
  <2>2. DOMAIN w.line = 1..(Len(q.line) - 1)
    BY <1>m, <2>1, LenProperties
  <2>3. ASSUME NEW x \in DOMAIN w.line
        PROVE  Was(x) \in DOMAIN q.line /\ w.line[x] = q.line[Was(x)]
    <3> HIDE DEF Was
    <3>1. x \in 1..(Len(q.line) - 1)
      BY <2>2
    <3>2. x \in 1..Len(q.line) /\ x + 1 \in 1..Len(q.line)
      BY <2>0, <3>1
    <3>3. w.line[x] = IF x < i THEN q.line[x] ELSE q.line[x + 1]
      BY <1>m, <3>1
    <3>4. Was(x) = IF x < i THEN x ELSE x + 1
      BY DEF Was
    <3> QED
      BY <2>0, <3>2, <3>3, <3>4
  <2>4. \A x, y \in DOMAIN w.line : x < y => Was(x) < Was(y)
    BY <2>0, <2>2
  <2> HIDE DEF Was
  <2> SUFFICES ASSUME NEW s, NEW r, Before(w, s, r) PROVE Before(q, s, r)
    BY DEF OrderKept
  <2>5. PICK x \in DOMAIN w.line, y \in DOMAIN w.line :
            x < y /\ w.line[x] = s /\ w.line[y] = r
    BY DEF Before
  <2>6. /\ Was(x) \in DOMAIN q.line /\ Was(y) \in DOMAIN q.line /\ Was(x) < Was(y)
        /\ q.line[Was(x)] = s /\ q.line[Was(y)] = r
    BY <2>3, <2>4, <2>5
  <2> QED
    BY <2>6 DEF Before
<1>9. Shape(w)
  BY <1>2, <1>4, <1>7, <1>8 DEF Shape
<1>10. SkipsFit(w)
  <2> SUFFICES ASSUME NEW r \in Requests
               PROVE  w.skip[r] <= MAX_UNFITTABLE_SKIPS /\ (w.skip[r] > 0 => IsHead(w, r))
    BY DEF SkipsFit
  <2> HIDE DEF w
  <2>1. CASE r = h
    BY <1>s, <2>1 DEF MAX_UNFITTABLE_SKIPS
  <2>2. CASE r # h
    <3>1. w.skip[r] = q.skip[r]
      BY <1>s, <2>2
    <3>2. ASSUME IsHead(q, r) PROVE IsHead(w, r)
      <4>1. PICK p \in 1..Len(q.line) :
                q.line[p] = r /\ \A j \in 1..(p - 1) : Tenant[q.line[j]] # Tenant[r]
        BY <3>2 DEF IsHead
      <4> DEFINE to == IF p < i THEN p ELSE p - 1
      <4>2. p # i
        BY <2>2, <4>1
      <4>3. to \in 1..Len(w.line) /\ w.line[to] = r
        <5>1. CASE p < i
          <6>1. p \in 1..(Len(q.line) - 1) /\ to = p
            BY <1>1, <5>1
          <6> QED
            BY <1>m, <4>1, <5>1, <6>1
        <5>2. CASE p > i
          <6>1. /\ p - 1 \in 1..(Len(q.line) - 1) /\ ~(p - 1 < i) /\ (p - 1) + 1 = p
                /\ to = p - 1
            BY <1>1, <5>2
          <6> QED
            BY <1>m, <4>1, <6>1
        <5> QED
          BY <1>1, <4>2, <5>1, <5>2
      <4>4. ASSUME NEW j \in 1..(to - 1) PROVE Tenant[w.line[j]] # Tenant[r]
        <5>0. to \in Nat /\ to <= p /\ (p > i => to = p - 1)
          BY <4>2
        <5>1. CASE j < i
          <6>0. j \in 1..(Len(q.line) - 1)
            BY <1>1, <5>0
          <6>1. j \in 1..(p - 1)
            BY <5>0
          <6>2. w.line[j] = q.line[j]
            BY <1>m, <5>1, <6>0
          <6> QED
            BY <4>1, <6>1, <6>2
        <5>2. CASE ~(j < i)
          <6>0. j \in 1..(Len(q.line) - 1)
            BY <1>1, <5>0
          <6>1. j + 1 \in 1..(p - 1)
            BY <4>2, <5>0, <5>2
          <6>2. w.line[j] = q.line[j + 1]
            BY <1>m, <5>2, <6>0
          <6> QED
            BY <4>1, <6>1, <6>2
        <5> QED
          BY <5>1, <5>2
      <4> HIDE DEF to
      <4> QED
        BY <4>3, <4>4 DEF IsHead
    <3> QED
      BY <3>1, <3>2 DEF SkipsFit
  <2> QED
    BY <2>1, <2>2
<1>11. Len(w.order) \in {Len(q.order), Len(q.order) - 1}
  BY <1>3, <1>4
<1> HIDE DEF w
<1> QED
  BY <1>2, <1>4, <1>s, <1>o, <1>9, <1>10, <1>11 DEF w, Leaves

\* takeAt leaves the cursor at a position of the rotation.
LEMMA TakenFacts ==
  ASSUME NEW q, Shape(q), SkipsFit(q), NEW k \in DOMAIN q.order
  PROVE  LET t == Taken(q, k)
         IN  QueueFits(t) /\ Leaves(BucketHead(q, k), q, t)
<1> DEFINE rest == Without(q, k, Arrival(q, k))
           n == Len(rest.order)
           c == IF n = 0 THEN 0 ELSE IF n = Len(q.order) THEN k % n ELSE (k - 1) % n
<1>1. /\ Shape(rest) /\ SkipsFit(rest) /\ n \in {Len(q.order), Len(q.order) - 1}
      /\ Leaves(BucketHead(q, k), q, rest)
  <2>1. Arrival(q, k) \in 1..Len(q.line) /\ InBucket(q, k, Arrival(q, k))
    BY ArrivalFacts
  <2> QED
    BY <2>1, WithoutFacts DEF BucketHead
<1>2. n \in Nat /\ k \in Nat /\ k >= 1
  BY <1>1, ShapeFacts
<1>3. Taken(q, k) = [rest EXCEPT !.cursor = c]
  BY DEF Taken
<1> HIDE DEF rest
<1>4. c \in Nat /\ (c = 0 \/ c < n)
  BY <1>2
<1> HIDE DEF c
<1> DEFINE m == [rest EXCEPT !.cursor = c]
<1>5. /\ Shape(m) /\ SkipsFit(m) /\ m.cursor = c
      /\ m.order = rest.order /\ m.line = rest.line /\ m.skip = rest.skip
  BY <1>1, <1>4, CursorMoves
<1> HIDE DEF m
<1>6. QueueFits(m)
  BY <1>4, <1>5 DEF QueueFits, CursorFits
<1> QED
  BY <1>1, <1>3, <1>5, <1>6 DEF Leaves, OrderKept, Before, m

\* So does removeById.
LEMMA RemovedFacts ==
  ASSUME NEW q, QueueFits(q), NEW k \in DOMAIN q.order,
         NEW i \in 1..Len(q.line), InBucket(q, k, i)
  PROVE  LET t == Removed(q, k, i)
         IN  QueueFits(t) /\ Leaves(q.line[i], q, t)
<1> DEFINE rest == Without(q, k, i)
           n == Len(rest.order)
           c == IF n = Len(q.order) THEN rest.cursor
                ELSE IF n = 0 THEN 0
                ELSE IF k <= rest.cursor THEN rest.cursor - 1
                ELSE IF rest.cursor >= n THEN 0 ELSE rest.cursor
<1>1. /\ Shape(rest) /\ SkipsFit(rest) /\ n \in {Len(q.order), Len(q.order) - 1}
      /\ rest.cursor = q.cursor /\ Leaves(q.line[i], q, rest)
  <2>1. Shape(q) /\ SkipsFit(q)
    BY DEF QueueFits
  <2> QED
    BY <2>1, WithoutFacts
<1>2. /\ n \in Nat /\ k \in Nat /\ k >= 1 /\ Len(q.order) \in Nat /\ rest.cursor \in Nat
      /\ (rest.cursor = 0 \/ rest.cursor < Len(q.order))
  BY <1>1, ShapeFacts DEF QueueFits, CursorFits
<1>3. Removed(q, k, i) = [rest EXCEPT !.cursor = c]
  BY DEF Removed
<1> HIDE DEF rest
<1>4. c \in Nat /\ (c = 0 \/ c < n)
  <2> HIDE DEF n
  <2>1. n = Len(q.order) \/ n = Len(q.order) - 1
    BY <1>1
  <2> QED
    BY <1>2, <2>1
<1> HIDE DEF c
<1> DEFINE m == [rest EXCEPT !.cursor = c]
<1>5. /\ Shape(m) /\ SkipsFit(m) /\ m.cursor = c
      /\ m.order = rest.order /\ m.line = rest.line /\ m.skip = rest.skip
  BY <1>1, <1>4, CursorMoves
<1> HIDE DEF m
<1>6. QueueFits(m)
  BY <1>4, <1>5 DEF QueueFits, CursorFits
<1> QED
  BY <1>1, <1>3, <1>5, <1>6 DEF Leaves, OrderKept, Before, m

\* A newcomer is the last of the line, and its tenant of the rotation unless it
\* is in it.
LEMMA JoinedFacts ==
  ASSUME NEW q, QueueFits(q), NEW r \in Requests, r \notin ToSet(q.line)
  PROVE  LET j == Joined(q, r)
         IN  /\ QueueFits(j) /\ Len(j.line) = Len(q.line) + 1
             /\ ToSet(j.line) = ToSet(q.line) \cup {r}
             /\ j.skip = q.skip /\ OrderKept(q, j)
<1> DEFINE j == Joined(q, r)
           t == Tenant[r]
<1>1. /\ q.order \in Seq(Tenants) /\ q.line \in Seq(Requests)
      /\ q.cursor \in Nat /\ q.skip \in [Requests -> Nat]
      /\ DOMAIN q.line = 1..Len(q.line) /\ Len(q.line) \in Nat
      /\ DOMAIN q.order = 1..Len(q.order) /\ Len(q.order) \in Nat
      /\ Shape(q) /\ CursorFits(q) /\ SkipsFit(q)
  BY ShapeFacts DEF QueueFits
<1>2. /\ Append(q.line, r) \in Seq(Requests)
      /\ Len(Append(q.line, r)) = Len(q.line) + 1
      /\ \A i \in 1..Len(q.line) : Append(q.line, r)[i] = q.line[i]
      /\ ToSet(Append(q.line, r)) = ToSet(q.line) \cup {r}
      /\ IsInjective(Append(q.line, r))
  BY <1>1, AppendFacts DEF Shape
<1>3. t \in Tenants
  BY DEF Tenants
<1>4. /\ Append(q.order, t) \in Seq(Tenants)
      /\ Len(Append(q.order, t)) = Len(q.order) + 1
      /\ ToSet(Append(q.order, t)) = ToSet(q.order) \cup {t}
      /\ t \notin ToSet(q.order) => IsInjective(Append(q.order, t))
  BY <1>1, <1>3, AppendFacts DEF Shape
<1>5. /\ j \in [order : Seq(Tenants), cursor : Nat, line : Seq(Requests),
                skip : [Requests -> Nat]]
      /\ j.line = Append(q.line, r) /\ j.skip = q.skip /\ j.cursor = q.cursor
      /\ j.order = IF t \in ToSet(q.order) THEN q.order ELSE Append(q.order, t)
  BY <1>1, <1>2, <1>4 DEF Joined, Shape
<1> HIDE DEF j
<1>6. IsInjective(j.line) /\ IsInjective(j.order)
  BY <1>1, <1>2, <1>4, <1>5 DEF Shape
<1>7. ToSet(j.order) = {Tenant[s] : s \in ToSet(j.line)}
  <2>1. ToSet(j.order) = ToSet(q.order) \cup {t}
    BY <1>4, <1>5
  <2>2. {Tenant[s] : s \in ToSet(q.line) \cup {r}} = {Tenant[s] : s \in ToSet(q.line)} \cup {t}
    OBVIOUS
  <2> HIDE DEF t
  <2> QED
    BY <1>1, <1>2, <1>5, <2>1, <2>2 DEF Shape
<1>8. Shape(j)
  BY <1>5, <1>6, <1>7 DEF Shape
<1>9. CursorFits(j)
  BY <1>1, <1>4, <1>5 DEF CursorFits
<1>10. ASSUME NEW s \in Requests, IsHead(q, s) PROVE IsHead(j, s)
  <2>1. PICK p \in 1..Len(q.line) :
            q.line[p] = s /\ \A i \in 1..(p - 1) : Tenant[q.line[i]] # Tenant[s]
    BY <1>10 DEF IsHead
  <2>2. p \in 1..Len(j.line) /\ j.line[p] = s
    BY <1>1, <1>2, <1>5, <2>1
  <2>3. \A i \in 1..(p - 1) : i \in 1..Len(q.line) /\ j.line[i] = q.line[i]
    BY <1>1, <1>2, <1>5
  <2> QED
    BY <2>1, <2>2, <2>3 DEF IsHead
<1>11. SkipsFit(j)
  BY <1>1, <1>5, <1>10 DEF SkipsFit
<1>12. OrderKept(q, j)
  <2>1. DOMAIN j.line = 1..(Len(q.line) + 1) /\ j.line[Len(q.line) + 1] = r
    BY <1>1, <1>2, <1>5, AppendFacts, LenProperties
  <2> SUFFICES ASSUME NEW s, NEW x \in ToSet(q.line), Before(j, s, x) PROVE Before(q, s, x)
    BY DEF OrderKept
  <2>2. PICK a \in DOMAIN j.line, b \in DOMAIN j.line :
            a < b /\ j.line[a] = s /\ j.line[b] = x
    BY DEF Before
  <2>3. b # Len(q.line) + 1
    BY <2>1, <2>2
  <2>4. a \in 1..Len(q.line) /\ b \in 1..Len(q.line)
    BY <1>1, <2>1, <2>2, <2>3
  <2>5. q.line[a] = s /\ q.line[b] = x
    BY <1>2, <1>5, <2>2, <2>4
  <2> QED
    BY <1>1, <2>2, <2>4, <2>5 DEF Before
<1> QED
  BY <1>2, <1>5, <1>8, <1>9, <1>11, <1>12 DEF QueueFits, j

\* Heads that are passed over grow older, but none beyond the limit; nothing
\* else changes, and nothing at all while a reservation holds.
LEMMA PassedFacts ==
  ASSUME NEW q, QueueFits(q), NEW k \in DOMAIN q.order
  PROVE  LET p == Passed(q, k)
         IN  /\ Shape(p) /\ SkipsFit(p)
             /\ p.order = q.order /\ p.line = q.line
             /\ BucketHead(p, k) = BucketHead(q, k)
             /\ Aged(q) # {} => p = q
<1> DEFINE p == Passed(q, k)
           over == {BucketHead(q, j) : j \in {i \in DOMAIN q.order : Turn(q, i) < Turn(q, k)}}
<1>1. Shape(q) /\ SkipsFit(q) /\ q.skip \in [Requests -> Nat]
  BY ShapeFacts DEF QueueFits
<1>2. CASE Aged(q) # {}
  <2>1. p = q
    BY <1>2 DEF Passed
  <2> QED
    BY <1>1, <2>1
<1>3. CASE Aged(q) = {}
  <2> DEFINE older == [r \in Requests |-> IF r \in over THEN q.skip[r] + 1 ELSE q.skip[r]]
  <2>1. p = [q EXCEPT !.skip = older]
    BY <1>3 DEF Passed
  <2>2. older \in [Requests -> Nat]
    BY <1>1
  <2>3. \A r \in over : IsHead(q, r) /\ r \in Requests /\ ~(q.skip[r] >= MAX_UNFITTABLE_SKIPS)
    BY <1>1, <1>3, ArrivalFacts, ShapeFacts DEF Aged
  <2>4. \A r \in Requests : /\ older[r] <= MAX_UNFITTABLE_SKIPS
                            /\ older[r] > 0 => IsHead(q, r)
    BY <1>1, <2>3 DEF SkipsFit, MAX_UNFITTABLE_SKIPS
  <2> HIDE DEF older, over
  <2>5. /\ p \in [order : Seq(Tenants), cursor : Nat, line : Seq(Requests),
                  skip : [Requests -> Nat]]
        /\ p.order = q.order /\ p.line = q.line /\ p.skip = older
    BY <1>1, <2>1, <2>2 DEF Shape
  <2> HIDE DEF p
  <2>6. Shape(p)
    BY <1>1, <2>5 DEF Shape
  <2>7. SkipsFit(p)
    BY <2>4, <2>5 DEF SkipsFit, IsHead
  <2>8. BucketHead(p, k) = BucketHead(q, k)
    BY <2>5 DEF BucketHead, Arrival, InBucket
  <2> QED
    BY <1>3, <2>5, <2>6, <2>7, <2>8 DEF p
<1> QED
  BY <1>2, <1>3

-----------------------------------------------------------------------------
(* The dispatch loop *)

\* What the loop works on: nobody both waits and holds a lease.
Ready(d) ==
    /\ QueueFits(d.queue)
    /\ d.running \subseteq Requests /\ d.running \cap ToSet(d.queue.line) = {}

\* From d to e entries left the line, some of them with a lease; as long as one
\* who reserves is left, only those ahead of it.
Reaches(d, e) ==
    /\ Ready(e)
    /\ ToSet(e.queue.line) \subseteq ToSet(d.queue.line) /\ Len(e.queue.line) <= Len(d.queue.line)
    /\ d.running \subseteq e.running /\ e.running \subseteq d.running \cup ToSet(d.queue.line)
    /\ OrderKept(d.queue, e.queue)
    /\ \A r \in Reserving(d.queue) \cap ToSet(e.queue.line) :
          /\ e.running \ d.running \subseteq Ahead(d.queue, r)
          /\ \A s \in ToSet(e.queue.line) : e.queue.skip[s] = d.queue.skip[s]

\* One that reserves is the head of its bucket.
LEMMA ReservingIsAged ==
  ASSUME NEW q, QueueFits(q), NEW r \in Reserving(q)
  PROVE  \E k \in Aged(q) : BucketHead(q, k) = r
<1>1. r \in Requests /\ q.skip[r] \in Nat /\ q.skip[r] >= MAX_UNFITTABLE_SKIPS
  BY ShapeFacts DEF QueueFits, Reserving
<1>2. IsHead(q, r)
  BY <1>1 DEF QueueFits, SkipsFit, MAX_UNFITTABLE_SKIPS
<1>3. PICK k \in DOMAIN q.order : BucketHead(q, k) = r
  BY <1>2, HeadFacts DEF QueueFits
<1> QED
  BY <1>1, <1>3 DEF Aged

\* What is due is a bucket, and the oldest of the aged ones if there is any.
LEMMA DueFacts ==
  ASSUME NEW d, NEW lim, NEW k \in DueNow(d, lim)
  PROVE  /\ k \in DOMAIN d.queue.order
         /\ Aged(d.queue) # {} =>
               /\ k \in Aged(d.queue)
               /\ \A j \in Aged(d.queue) : Arrival(d.queue, k) <= Arrival(d.queue, j)
<1>1. k \in Due(d.queue, lim - CostOf(d.running))
  BY DEF DueNow
<1> QED
  BY <1>1 DEF Due, Aged

\* The oldest of the aged heads came before all others who reserve.
LEMMA OldestIsAhead ==
  ASSUME NEW q, QueueFits(q), NEW k \in Aged(q),
         \A j \in Aged(q) : Arrival(q, k) <= Arrival(q, j),
         NEW r \in Reserving(q), r # BucketHead(q, k)
  PROVE  BucketHead(q, k) \in Ahead(q, r)
<1>1. PICK j \in Aged(q) : BucketHead(q, j) = r
  BY ReservingIsAged
<1>2. j \in DOMAIN q.order /\ k \in DOMAIN q.order /\ Shape(q)
  BY DEF Aged, QueueFits
<1>3. /\ Arrival(q, k) \in 1..Len(q.line) /\ Arrival(q, j) \in 1..Len(q.line)
      /\ DOMAIN q.line = 1..Len(q.line) /\ Len(q.line) \in Nat
      /\ BucketHead(q, k) \in ToSet(q.line)
  BY <1>2, ArrivalFacts, ShapeFacts
<1>4. Arrival(q, k) # Arrival(q, j)
  BY <1>1 DEF BucketHead
<1>5. Arrival(q, k) < Arrival(q, j)
  BY <1>3, <1>4
<1>6. Before(q, BucketHead(q, k), r)
  BY <1>1, <1>3, <1>5 DEF Before, BucketHead
<1>7. q.skip[BucketHead(q, k)] >= MAX_UNFITTABLE_SKIPS
  BY DEF Aged
<1> QED
  BY <1>3, <1>6, <1>7 DEF Ahead, Reserving

\* Where a place of the rotation comes from the cursor on.
LEMMA TurnFacts ==
  ASSUME NEW q, Shape(q), CursorFits(q), NEW k \in DOMAIN q.order
  PROVE  Turn(q, k) = IF k - 1 >= q.cursor THEN k - 1 - q.cursor
                      ELSE k - 1 + Len(q.order) - q.cursor
<1> DEFINE n == Len(q.order)
           c == q.cursor
<1>1. n \in Nat /\ c \in Nat /\ k \in 1..n /\ c < n
  BY ShapeFacts DEF CursorFits
<1>2. Turn(q, k) = (k - 1 + n - c) % n
  BY DEF Turn
<1> HIDE DEF n, c
<1>3. ASSUME NEW x \in Nat, x < n PROVE x % n = x /\ (x + n) % n = x
  BY <1>1, <1>3
<1>4. CASE k - 1 >= c
  <2>1. k - 1 - c \in Nat /\ k - 1 - c < n /\ k - 1 + n - c = (k - 1 - c) + n
    BY <1>1, <1>4
  <2> QED
    BY <1>2, <1>3, <1>4, <2>1 DEF n, c
<1>5. CASE ~(k - 1 >= c)
  <2>1. k - 1 + n - c \in Nat /\ k - 1 + n - c < n
    BY <1>1, <1>5
  <2> QED
    BY <1>2, <1>3, <1>5, <2>1 DEF n, c
<1> QED
  BY <1>4, <1>5

\* dequeue takes from one bucket at most.
LEMMA OneIsDue ==
  ASSUME NEW q, Shape(q), CursorFits(q), NEW room,
         NEW j \in Due(q, room), NEW k \in Due(q, room)
  PROVE  j = k
<1>1. j \in DOMAIN q.order /\ k \in DOMAIN q.order
  BY DEF Due, Aged
<1>2. CASE Aged(q) # {}
  <2>1. Arrival(q, j) <= Arrival(q, k) /\ Arrival(q, k) <= Arrival(q, j)
    BY <1>2 DEF Due
  <2>2. /\ Arrival(q, j) \in Nat /\ Arrival(q, k) \in Nat
        /\ InBucket(q, j, Arrival(q, j)) /\ InBucket(q, k, Arrival(q, k))
    BY <1>1, ArrivalFacts
  <2>3. Arrival(q, j) = Arrival(q, k)
    BY <2>1, <2>2
  <2>4. q.order[j] = q.order[k]
    BY <2>2, <2>3 DEF InBucket
  <2> QED
    BY <1>1, <2>4 DEF Shape, IsInjective
<1>3. CASE Aged(q) = {}
  <2>1. Turn(q, j) <= Turn(q, k) /\ Turn(q, k) <= Turn(q, j)
    BY <1>3 DEF Due
  <2>2. /\ Len(q.order) \in Nat /\ q.cursor \in Nat /\ q.cursor < Len(q.order)
        /\ j \in 1..Len(q.order) /\ k \in 1..Len(q.order)
    BY <1>1, ShapeFacts DEF CursorFits
  <2> DEFINE n == Len(q.order)
             c == q.cursor
             t == Turn(q, j)
             u == Turn(q, k)
  <2>3. /\ t = IF j - 1 >= c THEN j - 1 - c ELSE j - 1 + n - c
        /\ u = IF k - 1 >= c THEN k - 1 - c ELSE k - 1 + n - c
    BY <1>1, TurnFacts
  <2>4. t <= u /\ u <= t /\ n \in Nat /\ c \in Nat /\ c < n /\ j \in 1..n /\ k \in 1..n
    BY <2>1, <2>2
  <2> HIDE DEF n, c, t, u
  <2> QED
    BY <2>3, <2>4
<1> QED
  BY <1>2, <1>3

\* Nothing is due when nobody waits.
LEMMA NobodyIsDue ==
  ASSUME NEW d, NEW lim, Shape(d.queue), Len(d.queue.line) = 0
  PROVE  DueNow(d, lim) = {}
<1>1. ToSet(d.queue.line) = {}
  BY ShapeFacts DEF ToSet
<1>2. ToSet(d.queue.order) = {}
  BY <1>1 DEF Shape
<1>3. DOMAIN d.queue.order = {}
  BY <1>2 DEF ToSet
<1> QED
  BY <1>3, DueFacts

\* A turn of the loop.
LEMMA HandedOutFacts ==
  ASSUME NEW d, NEW lim, Ready(d), NEW e \in HandedOut(d, lim)
  PROVE  /\ Ready(e) /\ Len(e.queue.line) = Len(d.queue.line) - 1
         /\ ToSet(e.queue.line) \subseteq ToSet(d.queue.line)
         /\ d.running \subseteq e.running /\ e.running \subseteq d.running \cup ToSet(d.queue.line)
         /\ OrderKept(d.queue, e.queue)
         /\ Aged(d.queue) # {} =>
               /\ \A r \in Reserving(d.queue) \cap ToSet(e.queue.line) :
                     e.running \ d.running \subseteq Ahead(d.queue, r)
               /\ \A s \in ToSet(e.queue.line) : e.queue.skip[s] = d.queue.skip[s]
<1>1. PICK k \in DueNow(d, lim) :
          e = [queue |-> Taken(Passed(d.queue, k), k),
               running |-> d.running \cup ({BucketHead(d.queue, k)} \ late)]
  BY DEF HandedOut
<1> DEFINE q == d.queue
           p == Passed(q, k)
           h == BucketHead(q, k)
           t == Taken(p, k)
<1>2. /\ k \in DOMAIN q.order
      /\ Aged(q) # {} =>
            k \in Aged(q) /\ \A j \in Aged(q) : Arrival(q, k) <= Arrival(q, j)
  BY DueFacts
<1>3. QueueFits(q) /\ Shape(q)
  BY DEF Ready, QueueFits
<1>4. h \in ToSet(q.line) /\ h \in Requests /\ ToSet(q.line) \subseteq Requests
  BY <1>2, <1>3, ArrivalFacts, ShapeFacts
<1>5. /\ Shape(p) /\ SkipsFit(p) /\ p.order = q.order /\ p.line = q.line
      /\ BucketHead(p, k) = h /\ (Aged(q) # {} => p = q)
  BY <1>2, <1>3, PassedFacts
<1>6. e.queue = t /\ e.running = d.running \cup ({h} \ late)
  BY <1>1
<1> HIDE DEF q, p, h
<1>7. QueueFits(t) /\ Leaves(h, p, t)
  BY <1>2, <1>5, TakenFacts
<1> HIDE DEF t
<1>8. /\ Len(t.line) = Len(q.line) - 1 /\ ToSet(t.line) = ToSet(q.line) \ {h}
      /\ \A r \in Requests \ {h} : t.skip[r] = p.skip[r]
      /\ OrderKept(q, t)
  BY <1>5, <1>7 DEF Leaves, OrderKept, Before
<1>9. d.running \subseteq Requests /\ d.running \cap ToSet(q.line) = {}
  BY DEF Ready, q
<1>10. Ready(e)
  BY <1>4, <1>6, <1>7, <1>8, <1>9 DEF Ready
<1>11. ASSUME Aged(q) # {}
       PROVE  /\ \A r \in Reserving(q) \cap ToSet(t.line) :
                    e.running \ d.running \subseteq Ahead(q, r)
              /\ \A s \in ToSet(t.line) : t.skip[s] = q.skip[s]
  <2>1. ASSUME NEW r \in Reserving(q) \cap ToSet(t.line)
        PROVE  e.running \ d.running \subseteq Ahead(q, r)
    <3>1. r \in Reserving(q) /\ r # h
      BY <1>8
    <3>2. h \in Ahead(q, r)
      BY <1>2, <1>3, <1>11, <3>1, OldestIsAhead DEF h
    <3> QED
      BY <1>6, <3>2
  <2>2. p = q
    BY <1>5, <1>11
  <2>3. \A s \in ToSet(t.line) : t.skip[s] = q.skip[s]
    BY <1>4, <1>8, <2>2
  <2> QED
    BY <2>1, <2>3
<1> QED
  BY <1>4, <1>6, <1>8, <1>10, <1>11 DEF q

\* A turn has one outcome.
LEMMA HandedOutOnce ==
  ASSUME NEW d, NEW lim, Ready(d)
  PROVE  DueNow(d, lim) # {} => \E e : HandedOut(d, lim) = {e}
<1> SUFFICES ASSUME NEW k \in DueNow(d, lim) PROVE \E e : HandedOut(d, lim) = {e}
  OBVIOUS
<1>1. ASSUME NEW j \in DueNow(d, lim) PROVE j = k
  <2>1. /\ j \in Due(d.queue, lim - CostOf(d.running))
        /\ k \in Due(d.queue, lim - CostOf(d.running))
    BY DEF DueNow
  <2>2. Shape(d.queue) /\ CursorFits(d.queue)
    BY DEF Ready, QueueFits
  <2> QED
    BY <2>1, <2>2, OneIsDue
<1>2. DueNow(d, lim) = {k}
  BY <1>1
<1> DEFINE e == [queue |-> Taken(Passed(d.queue, k), k),
                 running |-> d.running \cup ({BucketHead(d.queue, k)} \ late)]
<1>3. HandedOut(d, lim) = {e}
  BY <1>2 DEF HandedOut
<1> QED
  BY <1>3

LEMMA ReachesItself ==
  ASSUME NEW d, Ready(d)
  PROVE  Reaches(d, d)
<1>1. Len(d.queue.line) \in Nat
  BY ShapeFacts DEF Ready, QueueFits
<1>2. OrderKept(d.queue, d.queue)
  BY DEF OrderKept
<1>3. d.running \ d.running = {}
  OBVIOUS
<1> QED
  BY <1>1, <1>2, <1>3 DEF Reaches

\* While one who reserved from the start waits, so does the reservation.
LEMMA ReachesOn ==
  ASSUME NEW d, NEW e, NEW f, NEW lim, Ready(d), Reaches(d, e), f \in HandedOut(e, lim)
  PROVE  Reaches(d, f) /\ Len(f.queue.line) = Len(e.queue.line) - 1
<1>1. /\ Ready(f) /\ Len(f.queue.line) = Len(e.queue.line) - 1
      /\ ToSet(f.queue.line) \subseteq ToSet(e.queue.line)
      /\ e.running \subseteq f.running /\ f.running \subseteq e.running \cup ToSet(e.queue.line)
      /\ OrderKept(e.queue, f.queue)
      /\ Aged(e.queue) # {} =>
            /\ \A r \in Reserving(e.queue) \cap ToSet(f.queue.line) :
                  f.running \ e.running \subseteq Ahead(e.queue, r)
            /\ \A s \in ToSet(f.queue.line) : f.queue.skip[s] = e.queue.skip[s]
  BY HandedOutFacts DEF Reaches
<1>2. Len(e.queue.line) \in Nat /\ Len(d.queue.line) \in Nat
  BY ShapeFacts DEF Reaches, Ready, QueueFits
<1>3. ASSUME NEW r \in Reserving(d.queue) \cap ToSet(f.queue.line)
      PROVE  /\ f.running \ d.running \subseteq Ahead(d.queue, r)
             /\ \A s \in ToSet(f.queue.line) : f.queue.skip[s] = d.queue.skip[s]
  <2>1. r \in Reserving(d.queue) \cap ToSet(e.queue.line)
    BY <1>1
  <2>2. /\ e.running \ d.running \subseteq Ahead(d.queue, r)
        /\ \A s \in ToSet(e.queue.line) : e.queue.skip[s] = d.queue.skip[s]
    BY <2>1 DEF Reaches
  <2>3. Reserving(e.queue) \subseteq Reserving(d.queue)
    BY <2>2 DEF Reserving, Reaches
  <2>4. r \in Reserving(e.queue)
    BY <2>1, <2>2 DEF Reserving
  <2>5. Aged(e.queue) # {}
    BY <2>4, ReservingIsAged DEF Reaches, Ready
  <2>6. /\ f.running \ e.running \subseteq Ahead(e.queue, r)
        /\ \A s \in ToSet(f.queue.line) : f.queue.skip[s] = e.queue.skip[s]
    BY <1>1, <2>4, <2>5
  <2>7. Ahead(e.queue, r) \subseteq Ahead(d.queue, r)
    <3>1. OrderKept(d.queue, e.queue) /\ r \in ToSet(d.queue.line)
      BY DEF Reaches, Reserving
    <3>2. \A s : Before(e.queue, s, r) => Before(d.queue, s, r)
      BY <3>1 DEF OrderKept
    <3> QED
      BY <2>3, <3>2 DEF Ahead
  <2> QED
    BY <1>1, <2>2, <2>6, <2>7
<1>4. /\ ToSet(f.queue.line) \subseteq ToSet(d.queue.line)
      /\ Len(f.queue.line) <= Len(d.queue.line)
      /\ d.running \subseteq f.running /\ f.running \subseteq d.running \cup ToSet(d.queue.line)
  <2>1. /\ ToSet(e.queue.line) \subseteq ToSet(d.queue.line)
        /\ Len(e.queue.line) <= Len(d.queue.line)
        /\ d.running \subseteq e.running /\ e.running \subseteq d.running \cup ToSet(d.queue.line)
    BY DEF Reaches
  <2>2. Len(f.queue.line) <= Len(d.queue.line)
    BY <1>1, <1>2, <2>1
  <2> QED
    BY <1>1, <2>1, <2>2
<1>5. OrderKept(d.queue, f.queue)
  <2>1. OrderKept(d.queue, e.queue) /\ OrderKept(e.queue, f.queue)
    BY <1>1 DEF Reaches
  <2>2. \A s, r : Before(f.queue, s, r) => r \in ToSet(f.queue.line)
    BY DEF Before, ToSet
  <2> QED
    BY <1>1, <2>1, <2>2 DEF OrderKept
<1> QED
  BY <1>1, <1>3, <1>4, <1>5 DEF Reaches

\* The outcomes of one more turn from those in S.
After(S, lim) == UNION {IF DueNow(e, lim) = {} THEN {e} ELSE HandedOut(e, lim) : e \in S}

\* f counts the turns of the loop from d, up to N.
LoopIs(f, d, lim, N) == f = [n \in 0..N |-> IF n = 0 THEN {d} ELSE After(f[n - 1], lim)]

LEMMA LoopExists ==
  ASSUME NEW d, NEW lim, NEW N \in Nat
  PROVE  \E f : LoopIs(f, d, lim, N)
<1> DEFINE T == {n \in 0..N : \E f : LoopIs(f, d, lim, n)}
<1>1. 0 \in T
  <2>1. LoopIs([n \in 0..0 |-> {d}], d, lim, 0)
    BY DEF LoopIs
  <2> QED
    BY <2>1
<1>2. ASSUME NEW n \in 0..(N - 1), n \in T PROVE n + 1 \in T
  <2>1. PICK f : LoopIs(f, d, lim, n)
    BY <1>2
  <2> DEFINE g == [m \in 0..(n + 1) |-> IF m = n + 1 THEN After(f[n], lim) ELSE f[m]]
  <2>2. \A m \in 0..n : f[m] = IF m = 0 THEN {d} ELSE After(f[m - 1], lim)
    BY <2>1 DEF LoopIs
  <2>3. ASSUME NEW m \in 0..(n + 1)
        PROVE  g[m] = IF m = 0 THEN {d} ELSE After(g[m - 1], lim)
    <3>1. CASE m = n + 1
      <4>1. g[m - 1] = f[n] /\ m # 0
        BY <3>1
      <4> QED
        BY <3>1, <4>1
    <3>2. CASE m # n + 1
      <4>1. m \in 0..n /\ g[m] = f[m]
        BY <3>2
      <4>2. m # 0 => g[m - 1] = f[m - 1]
        BY <3>2
      <4> QED
        BY <2>2, <4>1, <4>2
    <3> QED
      BY <3>1, <3>2
  <2>4. g = [m \in 0..(n + 1) |-> g[m]]
    OBVIOUS
  <2> HIDE DEF g
  <2>5. LoopIs(g, d, lim, n + 1)
    BY <2>3, <2>4 DEF LoopIs
  <2> QED
    BY <2>5
<1> HIDE DEF T
<1>3. 0..N \subseteq T
  BY <1>1, <1>2, Upwards
<1> QED
  BY <1>3 DEF T

\* After n turns nothing is due, or n entries have left.
LEMMA LoopFacts ==
  ASSUME NEW d, NEW lim, Ready(d), NEW N \in Nat, NEW f, LoopIs(f, d, lim, N)
  PROVE  \A n \in 0..N :
            /\ \E e : f[n] = {e}
            /\ \A e \in f[n] : /\ Reaches(d, e)
                               /\ \/ DueNow(e, lim) = {}
                                  \/ Len(e.queue.line) <= Len(d.queue.line) - n
<1> DEFINE Settles(n, e) == \/ DueNow(e, lim) = {}
                            \/ Len(e.queue.line) <= Len(d.queue.line) - n
           One(S) == \E e : S = {e}
           T == {n \in 0..N : One(f[n]) /\ \A e \in f[n] : Reaches(d, e) /\ Settles(n, e)}
<1>1. Len(d.queue.line) \in Nat
  BY ShapeFacts DEF Ready, QueueFits
<1>2. 0 \in T
  <2>1. f[0] = {d}
    BY DEF LoopIs
  <2>2. Settles(0, d)
    BY <1>1
  <2>3. One(f[0])
    BY <2>1
  <2> HIDE DEF Settles, One
  <2> QED
    BY <2>1, <2>2, <2>3, ReachesItself
<1>3. ASSUME NEW n \in 0..(N - 1), n \in T PROVE n + 1 \in T
  <2>0. n + 1 \in 0..N /\ (n + 1) - 1 = n /\ n + 1 # 0
    OBVIOUS
  <2>1. f[n + 1] = After(f[n], lim)
    BY <2>0 DEF LoopIs
  <2>2. ASSUME NEW e \in f[n], NEW g \in IF DueNow(e, lim) = {} THEN {e} ELSE HandedOut(e, lim)
        PROVE  Reaches(d, g) /\ Settles(n + 1, g)
    <3>1. Reaches(d, e) /\ Settles(n, e)
      BY <1>3
    <3>2. CASE DueNow(e, lim) = {}
      BY <2>2, <3>1, <3>2
    <3>3. CASE DueNow(e, lim) # {}
      <4>1. Reaches(d, g) /\ Len(g.queue.line) = Len(e.queue.line) - 1
        BY <2>2, <3>1, <3>3, ReachesOn
      <4>2. Len(e.queue.line) \in Nat
        BY <3>1, ShapeFacts DEF Reaches, Ready, QueueFits
      <4> QED
        BY <1>1, <3>1, <3>3, <4>1, <4>2
    <3> QED
      BY <3>2, <3>3
  <2>3. One(f[n + 1])
    <3>1. PICK e : f[n] = {e}
      BY <1>3
    <3>2. Ready(e)
      BY <1>3, <3>1 DEF Reaches
    <3>3. PICK g : (IF DueNow(e, lim) = {} THEN {e} ELSE HandedOut(e, lim)) = {g}
      BY <3>2, HandedOutOnce
    <3>4. After({e}, lim) = {g}
      BY <3>3 DEF After
    <3> QED
      BY <2>1, <3>1, <3>4
  <2>4. \A g \in f[n + 1] : Reaches(d, g) /\ Settles(n + 1, g)
    <3> HIDE DEF Settles
    <3> QED
      BY <2>1, <2>2 DEF After
  <2> HIDE DEF Settles, One
  <2> QED
    BY <2>0, <2>3, <2>4
<1> HIDE DEF T
<1>4. 0..N \subseteq T
  BY <1>2, <1>3, Upwards
<1> QED
  BY <1>4 DEF T

\* dispatch has one outcome, and nothing is due in it.
LEMMA DispatchFacts ==
  ASSUME NEW d, NEW lim, Ready(d)
  PROVE  /\ \E e : Dispatch(d, lim) = {e}
         /\ \A e \in Dispatch(d, lim) : Reaches(d, e) /\ (~down => DueNow(e, lim) = {})
<1> DEFINE N == Len(d.queue.line)
           loop == CHOOSE f : LoopIs(f, d, lim, N)
<1>1. N \in Nat
  BY ShapeFacts DEF Ready, QueueFits
<1>2. Dispatch(d, lim) = IF down THEN {d} ELSE loop[N]
  BY DEF Dispatch, LoopIs, After
<1>3. LoopIs(loop, d, lim, N)
  BY <1>1, LoopExists
<1> HIDE DEF loop, N
<1>f. \A n \in 0..N :
         /\ \E e : loop[n] = {e}
         /\ \A e \in loop[n] : /\ Reaches(d, e)
                               /\ \/ DueNow(e, lim) = {}
                                  \/ Len(e.queue.line) <= Len(d.queue.line) - n
  BY <1>1, <1>3, LoopFacts
<1>4. /\ \E e : loop[N] = {e}
      /\ \A e \in loop[N] : /\ Reaches(d, e)
                            /\ DueNow(e, lim) = {} \/ Len(e.queue.line) <= N - N
  <2>1. N \in 0..N
    BY <1>1
  <2>2. \E e : loop[N] = {e}
    BY <1>f, <2>1
  <2>3. \A e \in loop[N] : /\ Reaches(d, e)
                           /\ \/ DueNow(e, lim) = {}
                              \/ Len(e.queue.line) <= Len(d.queue.line) - N
    BY <1>f, <2>1
  <2> QED
    BY <2>2, <2>3 DEF N
<1>5. ASSUME NEW e \in loop[N] PROVE DueNow(e, lim) = {}
  <2>1. Shape(e.queue) /\ Len(e.queue.line) \in Nat
    BY <1>4, ShapeFacts DEF Reaches, Ready, QueueFits
  <2> QED
    BY <1>1, <1>4, <2>1, NobodyIsDue
<1> QED
  BY <1>2, <1>4, <1>5, ReachesItself

-----------------------------------------------------------------------------
(* The invariant *)

Windows == [pressure : DOMAIN Severity, frozen : BOOLEAN, consumed : BOOLEAN,
            completed : BOOLEAN, loaded : BOOLEAN]

Now == [queue |-> queue, running |-> active]

\* TypeOK does not say who may have been passed over, on which the reservations
\* rest, and that nobody waits after shutdown, when dispatch does nothing.
IInv ==
    /\ limit \in MinLimit..MaxLimit /\ window \in Windows
    /\ Ready(Now)
    /\ late \subseteq Waiting /\ down \in BOOLEAN
    /\ Len(queue.line) <= MaxQueueCount /\ CostOf(Waiting) <= MaxQueueCost
    /\ down => Len(queue.line) = 0

\* The step that ReservationsHold asks for.
Honours ==
    \A r \in Reserving(queue) \cap Waiting' : active' \ active \subseteq Ahead(queue, r)

LEMMA SeverityFacts == DOMAIN Severity = {"normal", "high", "critical"}
  BY DEF Severity

\* A report of a pressure and an outcome leave a window.
LEMMA WindowFacts ==
  ASSUME NEW w \in Windows
  PROVE  Reports(w) \subseteq Windows /\ \A outcome : Noted(w, outcome) \in Windows
<1>1. ASSUME NEW p \in DOMAIN Severity PROVE Observed(w, p) \in Windows
  BY DEF Observed, Windows
<1>2. ASSUME NEW outcome PROVE Noted(w, outcome) \in Windows
  <2>1. (w.frozen \/ outcome \in {"upstream_error", "timeout"}) \in BOOLEAN
    OBVIOUS
  <2> QED
    BY <2>1 DEF Noted, Windows
<1> QED
  BY <1>1, <1>2 DEF Reports

LEMMA IInvTyped ==
  ASSUME IInv
  PROVE  TypeOK
<1>1. /\ QueueFits(queue) /\ Shape(queue) /\ CursorFits(queue) /\ SkipsFit(queue)
      /\ active \subseteq Requests /\ active \cap Waiting = {}
  BY DEF IInv, Ready, Now, QueueFits, Waiting
<1>2. queue.line \in Seq(Requests) /\ queue.cursor \in Nat /\ queue.skip \in [Requests -> Nat]
  BY <1>1, ShapeFacts
<1>3. queue.skip \in [Requests -> 0..MAX_UNFITTABLE_SKIPS]
  BY <1>1, <1>2 DEF SkipsFit, MAX_UNFITTABLE_SKIPS
<1>4. /\ IsInjective(queue.line) /\ IsInjective(queue.order)
      /\ ToSet(queue.order) = {Tenant[r] : r \in Waiting}
  BY <1>1 DEF Shape, Waiting
<1> QED
  BY <1>1, <1>2, <1>3, <1>4 DEF IInv, TypeOK, CursorFits, Windows

\* The parts of the invariant on a queue, in short.
LEMMA IInvFacts ==
  ASSUME IInv
  PROVE  /\ QueueFits(queue) /\ active \subseteq Requests /\ active \cap Waiting = {}
         /\ Waiting \subseteq Requests /\ Len(queue.line) \in Nat
         /\ limit \in Nat /\ MinLimit \in Nat \ {0} /\ MaxLimit \in Nat
         /\ InitialLimit \in Nat /\ Step \in Nat /\ MinLimit <= MaxLimit
         /\ MaxQueueCount \in Nat /\ MaxQueueCost \in Nat
<1>1. QueueFits(queue) /\ active \subseteq Requests /\ active \cap Waiting = {}
  BY DEF IInv, Ready, Now, Waiting
<1>2. Waiting \subseteq Requests /\ Len(queue.line) \in Nat
  BY <1>1, ShapeFacts DEF QueueFits, Waiting
<1>3. /\ MinLimit \in Nat \ {0} /\ MaxLimit \in Nat
      /\ InitialLimit \in Nat /\ Step \in Nat /\ MinLimit <= MaxLimit
      /\ MaxQueueCount \in Nat /\ MaxQueueCost \in Nat
  BY LimitsAssumption
<1> QED
  BY <1>1, <1>2, <1>3 DEF IInv

\* A handler that ends with dispatch, from queue q with the leases of running.
LEMMA Handler ==
  ASSUME IInv, NEW q, NEW running, NEW lim \in MinLimit..MaxLimit, NEW w \in Windows,
         Ready([queue |-> q, running |-> running]), running \subseteq active,
         Len(q.line) <= MaxQueueCount, CostOf(ToSet(q.line)) <= MaxQueueCost,
         Reserving(q) = Reserving(queue) \cap ToSet(q.line), OrderKept(queue, q),
         down => Len(q.line) = 0,
         Dispatched(q, running, lim, w)
  PROVE  IInv' /\ NobodyIsStranded' /\ Honours
<1> DEFINE d == [queue |-> q, running |-> running]
<1>1. PICK e \in Dispatch(d, lim) :
          /\ limit' = lim /\ queue' = e.queue /\ active' = e.running
          /\ late' = late \cap ToSet(e.queue.line)
          /\ window' = [w EXCEPT !.loaded = @ \/ e.running # {}]
          /\ down' = down
  BY DEF Dispatched
<1>d. d.queue = q /\ d.running = running
  OBVIOUS
<1>2. Ready(d)
  OBVIOUS
<1> HIDE DEF d
<1>3. Reaches(d, e) /\ (~down => DueNow(e, lim) = {})
  BY <1>2, DispatchFacts
<1>4. /\ Ready(e) /\ ToSet(e.queue.line) \subseteq ToSet(q.line)
      /\ Len(e.queue.line) <= Len(q.line)
      /\ \A r \in Reserving(q) \cap ToSet(e.queue.line) :
            e.running \ running \subseteq Ahead(q, r)
  BY <1>3, <1>d DEF Reaches
<1>5. QueueFits(q) /\ Shape(q) /\ ToSet(q.line) \subseteq Requests /\ Len(q.line) \in Nat
  <2>1. QueueFits(q) /\ Shape(q)
    BY <1>2, <1>d DEF Ready, QueueFits
  <2> QED
    BY <2>1, ShapeFacts
<1>6. Shape(e.queue) /\ Len(e.queue.line) \in Nat
  BY <1>4, ShapeFacts DEF Ready, QueueFits
<1>7. Ready(Now')
  <2>1. Now'.queue = e.queue /\ Now'.running = e.running
    BY <1>1 DEF Now
  <2> HIDE DEF Now
  <2> QED
    BY <1>4, <2>1 DEF Ready
<1>8. window' \in Windows
  <2>1. (w.loaded \/ e.running # {}) \in BOOLEAN
    OBVIOUS
  <2> QED
    BY <1>1, <2>1 DEF Windows
<1>9. Waiting' = ToSet(e.queue.line) /\ Len(queue'.line) = Len(e.queue.line)
  BY <1>1 DEF Waiting
<1>10. CostOf(Waiting') <= MaxQueueCost
  <2>0. MaxQueueCost \in Nat /\ CostOf(ToSet(q.line)) <= MaxQueueCost
    BY IInvFacts
  <2>1. /\ CostOf(ToSet(q.line)) \in Nat /\ CostOf(ToSet(e.queue.line)) \in Nat
        /\ CostOf(ToSet(e.queue.line)) <= CostOf(ToSet(q.line))
    BY <1>4, <1>5, CostFacts
  <2> QED
    BY <1>9, <2>0, <2>1
<1>11. Len(queue'.line) <= MaxQueueCount /\ (down' => Len(queue'.line) = 0)
  <2>1. MaxQueueCount \in Nat /\ Len(queue'.line) = Len(e.queue.line) /\ down' = down
    BY <1>1, LimitsAssumption
  <2>2. Len(e.queue.line) <= Len(q.line) /\ Len(q.line) \in Nat /\ Len(e.queue.line) \in Nat
    BY <1>4, <1>5, <1>6
  <2> QED
    BY <2>1, <2>2
<1>12. late' \subseteq Waiting' /\ down' \in BOOLEAN /\ limit' \in MinLimit..MaxLimit
  BY <1>1, <1>9 DEF IInv
<1>13. DueNow(e, lim) = {}
  BY <1>1, <1>3, <1>6, <1>9, <1>11, NobodyIsDue
<1>14. NobodyIsStranded'
  BY <1>1, <1>13 DEF NobodyIsStranded, DueNow
<1>15. ASSUME NEW r \in Reserving(queue) \cap Waiting'
       PROVE  active' \ active \subseteq Ahead(queue, r)
  <2>1. r \in Reserving(q) \cap ToSet(e.queue.line)
    BY <1>4, <1>9
  <2>2. active' \ active \subseteq Ahead(q, r)
    BY <1>1, <1>4, <2>1
  <2>3. \A s : Before(q, s, r) => Before(queue, s, r)
    BY DEF OrderKept, Reserving
  <2>4. Reserving(q) \subseteq Reserving(queue)
    OBVIOUS
  <2> QED
    BY <2>2, <2>3, <2>4 DEF Ahead
<1>16. Honours
  BY <1>15 DEF Honours
<1> QED
  BY <1>7, <1>8, <1>10, <1>11, <1>12, <1>14, <1>16 DEF IInv

-----------------------------------------------------------------------------
(* One lemma per action *)

\* A step that changes nothing but the window.
LEMMA OnlyTheWindow ==
  ASSUME IInv, NobodyIsStranded, window' \in Windows,
         UNCHANGED <<limit, active, queue, late, down>>
  PROVE  IInv' /\ NobodyIsStranded' /\ Honours
<1>1. Now' = Now /\ Waiting' = Waiting
  BY DEF Now, Waiting
<1>2. IInv'
  BY <1>1 DEF IInv
<1>3. NobodyIsStranded'
  BY DEF NobodyIsStranded
<1> QED
  BY <1>2, <1>3 DEF Honours

LEMMA ByAcquire ==
  ASSUME IInv, NobodyIsStranded, NEW r \in Requests, Acquire(r)
  PROVE  IInv' /\ NobodyIsStranded' /\ Honours
<1>0. PICK w \in Reports(window) :
          \/ /\ Solo(r, w) \/ Direct(r)
             /\ active' = active \cup {r}
             /\ window' = [w EXCEPT !.loaded = TRUE]
             /\ UNCHANGED <<limit, queue, late, down>>
          \/ Joins(r) /\ Dispatched(Joined(queue, r), active, limit, w)
          \/ window' = w /\ UNCHANGED <<limit, active, queue, late, down>>
  BY DEF Acquire
<1>w. w \in Windows
  BY WindowFacts DEF IInv
<1>1. CASE /\ Solo(r, w) \/ Direct(r)
           /\ active' = active \cup {r}
           /\ window' = [w EXCEPT !.loaded = TRUE]
           /\ UNCHANGED <<limit, queue, late, down>>
  <2>1. queue.line = <<>>
    BY <1>1 DEF Solo, Direct
  <2>2. Waiting = {} /\ Waiting' = {} /\ Len(queue.line) = 0
    BY <1>1, <2>1 DEF Waiting, ToSet
  <2>3. Ready(Now')
    <3>1. Now'.queue = queue /\ Now'.running = active \cup {r}
      BY <1>1 DEF Now
    <3> HIDE DEF Now
    <3> QED
      BY <2>2, <3>1, IInvFacts DEF Ready, Waiting
  <2>4. window' \in Windows
    BY <1>1, <1>w DEF Windows
  <2>5. IInv'
    BY <1>1, <2>2, <2>3, <2>4 DEF IInv
  <2>6. NobodyIsStranded'
    <3>1. Shape(Now'.queue) /\ Len(Now'.queue.line) = 0
      BY <1>1, <2>2, IInvFacts DEF Now, QueueFits
    <3>2. DueNow(Now', limit') = {}
      BY <3>1, NobodyIsDue
    <3> QED
      BY <3>2 DEF NobodyIsStranded, Now
  <2> QED
    BY <2>2, <2>5, <2>6 DEF Honours
<1>2. CASE Joins(r) /\ Dispatched(Joined(queue, r), active, limit, w)
  <2> DEFINE j == Joined(queue, r)
  <2>1. r \notin active /\ r \notin ToSet(queue.line) /\ ~down
    BY DEF Acquire, Waiting
  <2>2. /\ QueueFits(j) /\ Len(j.line) = Len(queue.line) + 1
        /\ ToSet(j.line) = ToSet(queue.line) \cup {r}
        /\ j.skip = queue.skip /\ OrderKept(queue, j)
    BY <2>1, IInvFacts, JoinedFacts DEF Waiting
  <2> HIDE DEF j
  <2>3. Ready([queue |-> j, running |-> active])
    BY <2>1, <2>2, IInvFacts DEF Ready, Waiting
  <2>4. Len(j.line) <= MaxQueueCount /\ CostOf(ToSet(j.line)) <= MaxQueueCost
    <3>1. /\ CostOf(ToSet(queue.line)) \in Nat /\ Cost[r] \in Nat
          /\ CostOf(ToSet(j.line)) = CostOf(ToSet(queue.line)) + Cost[r]
      BY <2>1, <2>2, IInvFacts, CostFacts, RequestsAssumption DEF Waiting
    <3>2. MaxQueueCount \in Nat /\ MaxQueueCost \in Nat /\ Len(queue.line) \in Nat
      BY IInvFacts
    <3>3. Len(queue.line) < MaxQueueCount /\ Cost[r] <= MaxQueueCost - CostOf(ToSet(queue.line))
      BY <1>2 DEF Joins, CanAccept
    <3> QED
      BY <2>2, <3>1, <3>2, <3>3
  <2>5. ~(queue.skip[r] >= MAX_UNFITTABLE_SKIPS)
    <3>1. SkipsFit(queue) /\ Shape(queue) /\ queue.skip[r] \in Nat
      BY IInvFacts, ShapeFacts DEF QueueFits
    <3>2. ~IsHead(queue, r)
      BY <2>1, <3>1, HeadFacts
    <3> QED
      BY <3>1, <3>2 DEF SkipsFit, MAX_UNFITTABLE_SKIPS
  <2>6. Reserving(j) = Reserving(queue) \cap ToSet(j.line)
    BY <2>2, <2>5 DEF Reserving
  <2>7. limit \in MinLimit..MaxLimit
    BY DEF IInv
  <2> QED
    BY <1>2, <1>w, <2>1, <2>2, <2>3, <2>4, <2>6, <2>7, Handler DEF j
<1>3. CASE window' = w /\ UNCHANGED <<limit, active, queue, late, down>>
  BY <1>3, <1>w, OnlyTheWindow
<1> QED
  BY <1>0, <1>1, <1>2, <1>3

LEMMA ByRelease ==
  ASSUME IInv, NEW r \in Requests, Release(r)
  PROVE  IInv' /\ NobodyIsStranded' /\ Honours
<1>1. PICK v \in Reports(window), outcome \in Outcomes :
          Dispatched(queue, active \ {r}, limit, Noted(v, outcome))
  BY DEF Release
<1> DEFINE w == Noted(v, outcome)
<1>2. w \in Windows
  <2>1. v \in Windows
    BY WindowFacts DEF IInv
  <2> QED
    BY <2>1, WindowFacts
<1> HIDE DEF w
<1>3. Ready([queue |-> queue, running |-> active \ {r}])
  BY IInvFacts DEF Ready, Waiting
<1>4. Reserving(queue) = Reserving(queue) \cap ToSet(queue.line) /\ OrderKept(queue, queue)
  BY DEF Reserving, OrderKept
<1>5. /\ Len(queue.line) <= MaxQueueCount /\ CostOf(ToSet(queue.line)) <= MaxQueueCost
      /\ limit \in MinLimit..MaxLimit /\ (down => Len(queue.line) = 0)
  BY DEF IInv, Waiting
<1>6. active \ {r} \subseteq active /\ Dispatched(queue, active \ {r}, limit, w)
  BY <1>1 DEF w
<1> QED
  BY <1>2, <1>3, <1>4, <1>5, <1>6, Handler

LEMMA ByDeadline ==
  ASSUME IInv, NobodyIsStranded, NEW r \in Requests, Deadline(r)
  PROVE  IInv' /\ NobodyIsStranded' /\ Honours
<1>1. /\ limit' = limit /\ window' = window /\ active' = active /\ queue' = queue
      /\ down' = down /\ late' = late \cup {r} /\ r \in Waiting
  BY DEF Deadline
<1>2. Now' = Now /\ Waiting' = Waiting
  BY <1>1 DEF Now, Waiting
<1>3. IInv'
  BY <1>1, <1>2 DEF IInv
<1>4. NobodyIsStranded'
  BY <1>1 DEF NobodyIsStranded
<1> QED
  BY <1>1, <1>3, <1>4 DEF Honours

LEMMA ByLeave ==
  ASSUME IInv, NEW r \in Requests, Leave(r)
  PROVE  IInv' /\ NobodyIsStranded' /\ Honours
<1>1. PICK i \in DOMAIN queue.line, k \in DOMAIN queue.order :
          /\ queue.line[i] = r /\ InBucket(queue, k, i)
          /\ Dispatched(Removed(queue, k, i), active, limit, window)
  BY DEF Leave
<1> DEFINE t == Removed(queue, k, i)
<1>2. QueueFits(t) /\ Leaves(r, queue, t)
  <2>1. i \in 1..Len(queue.line)
    BY IInvFacts, ShapeFacts DEF QueueFits
  <2> QED
    BY <1>1, <2>1, IInvFacts, RemovedFacts
<1> HIDE DEF t
<1>3. /\ Len(t.line) = Len(queue.line) - 1 /\ ToSet(t.line) = ToSet(queue.line) \ {r}
      /\ \A s \in Requests \ {r} : t.skip[s] = queue.skip[s]
      /\ OrderKept(queue, t)
  BY <1>2 DEF Leaves
<1>4. Ready([queue |-> t, running |-> active])
  BY <1>2, <1>3, IInvFacts DEF Ready, Waiting
<1>5. Reserving(t) = Reserving(queue) \cap ToSet(t.line)
  BY <1>3, IInvFacts DEF Reserving, Waiting
<1>6. Len(t.line) <= MaxQueueCount /\ CostOf(ToSet(t.line)) <= MaxQueueCost
  <2>1. /\ CostOf(Waiting) \in Nat /\ CostOf(ToSet(t.line)) \in Nat
        /\ CostOf(ToSet(t.line)) <= CostOf(Waiting)
    BY <1>3, IInvFacts, CostFacts DEF Waiting
  <2>2. MaxQueueCount \in Nat /\ MaxQueueCost \in Nat /\ Len(queue.line) \in Nat
    BY IInvFacts
  <2>3. Len(queue.line) <= MaxQueueCount /\ CostOf(Waiting) <= MaxQueueCost
    BY DEF IInv
  <2> QED
    BY <1>3, <2>1, <2>2, <2>3
<1>7. ~down
  BY <1>1, IInvFacts, ShapeFacts DEF IInv, QueueFits
<1>8. limit \in MinLimit..MaxLimit /\ window \in Windows
  BY DEF IInv
<1> QED
  BY <1>1, <1>3, <1>4, <1>5, <1>6, <1>7, <1>8, Handler DEF t

\* A dispatch with the queue and the leases as they are, under another limit.
LEMMA ByLimit ==
  ASSUME IInv, NEW lim \in MinLimit..MaxLimit, NEW w \in Windows,
         Dispatched(queue, active, lim, w)
  PROVE  IInv' /\ NobodyIsStranded' /\ Honours
<1>1. Ready([queue |-> queue, running |-> active])
  BY DEF IInv, Now
<1>2. Reserving(queue) = Reserving(queue) \cap ToSet(queue.line) /\ OrderKept(queue, queue)
  BY DEF Reserving, OrderKept
<1>3. /\ Len(queue.line) <= MaxQueueCount /\ CostOf(ToSet(queue.line)) <= MaxQueueCost
      /\ down => Len(queue.line) = 0
  BY DEF IInv, Waiting
<1> QED
  BY <1>1, <1>2, <1>3, Handler

LEMMA ByObservePressure ==
  ASSUME IInv, NobodyIsStranded, NEW p \in DOMAIN Severity, ObservePressure(p)
  PROVE  IInv' /\ NobodyIsStranded' /\ Honours
<1> DEFINE raised == Observed(window, p)
<1>1. raised \in Windows
  BY WindowFacts DEF IInv, Reports
<1>2. CASE p = "critical" /\ ~window.consumed
  <2> DEFINE lim == IF CriticallyDecreased(limit) < MinLimit THEN MinLimit
                    ELSE CriticallyDecreased(limit)
             w == [raised EXCEPT !.consumed = TRUE]
  <2>1. w \in Windows
    BY <1>1 DEF Windows
  <2>2. lim \in MinLimit..MaxLimit
    BY IInvFacts DEF IInv, CriticallyDecreased
  <2>3. Dispatched(queue, active, lim, w)
    BY <1>2 DEF ObservePressure
  <2> HIDE DEF lim, w
  <2> QED
    BY <2>1, <2>2, <2>3, ByLimit
<1>3. CASE ~(p = "critical" /\ ~window.consumed)
  <2>1. window' = raised /\ UNCHANGED <<limit, active, queue, late, down>>
    BY <1>3 DEF ObservePressure
  <2> HIDE DEF raised
  <2> QED
    BY <1>1, <2>1, OnlyTheWindow
<1> QED
  BY <1>2, <1>3

\* What a window may conclude is a limit.
LEMMA NextLimitFacts ==
  ASSUME IInv, NEW utilization, NEW gradient
  PROVE  NextLimit(utilization, gradient) \in MinLimit..MaxLimit
<1>0. MinLimit \in Nat /\ MaxLimit \in Nat /\ MinLimit <= MaxLimit
  BY IInvFacts
<1>1. \A n \in Nat : Clamp(n) \in MinLimit..MaxLimit
  BY <1>0 DEF Clamp
<1>2. Decreased(limit) \in Nat /\ CriticallyDecreased(limit) \in Nat
  <2>1. limit \in Nat
    BY IInvFacts
  <2> QED
    BY <2>1 DEF Decreased, CriticallyDecreased
<1>3. Adjusted(utilization, gradient) \in Nat
  <2>1. limit \in Nat /\ limit + Step \in Nat
    BY IInvFacts
  <2> QED
    BY <1>2, <2>1 DEF Adjusted
<1>4. RecoveryCeiling \in Nat
  BY <1>1, IInvFacts DEF RecoveryCeiling
<1> DEFINE n == Adjusted(utilization, gradient)
           raised == IF n + Step < RecoveryCeiling THEN n + Step ELSE RecoveryCeiling
<1>5. NextLimit(utilization, gradient) = Clamp(IF ~Recovers(utilization) THEN n ELSE raised)
  BY DEF NextLimit
<1>6. n \in Nat /\ raised \in Nat
  BY <1>3, <1>4, IInvFacts
<1> HIDE DEF n, raised
<1>7. (IF ~Recovers(utilization) THEN n ELSE raised) \in Nat
  BY <1>6
<1> QED
  BY <1>1, <1>5, <1>7

LEMMA ByTick ==
  ASSUME IInv, Tick
  PROVE  IInv' /\ NobodyIsStranded' /\ Honours
<1> DEFINE w == [NewWindow EXCEPT !.loaded = active # {}]
<1>1. PICK utilization \in Utilizations, gradient \in Gradients :
          Dispatched(queue, active, NextLimit(utilization, gradient), w)
  BY DEF Tick
<1>2. w \in Windows
  <2>1. (active # {}) \in BOOLEAN
    OBVIOUS
  <2> QED
    BY <2>1, SeverityFacts DEF NewWindow, Windows
<1> HIDE DEF w
<1> QED
  BY <1>1, <1>2, NextLimitFacts, ByLimit

\* Nobody waits in an empty queue, and it fits.
LEMMA EmptyQueueFacts ==
  QueueFits(EmptyQueue) /\ Len(EmptyQueue.line) = 0 /\ ToSet(EmptyQueue.line) = {}
<1>1. /\ EmptyQueue.line = <<>> /\ EmptyQueue.order = <<>> /\ EmptyQueue.cursor = 0
      /\ EmptyQueue.skip = [r \in Requests |-> 0]
      /\ EmptyQueue \in [order : Seq(Tenants), cursor : Nat, line : Seq(Requests),
                         skip : [Requests -> Nat]]
  BY DEF EmptyQueue
<1>2. IsInjective(<<>>) /\ ToSet(<<>>) = {} /\ Len(<<>>) = 0
  BY DEF IsInjective, ToSet
<1>3. Shape(EmptyQueue) /\ CursorFits(EmptyQueue)
  BY <1>1, <1>2 DEF Shape, CursorFits
<1>4. SkipsFit(EmptyQueue)
  BY <1>1 DEF SkipsFit, MAX_UNFITTABLE_SKIPS
<1> QED
  BY <1>1, <1>2, <1>3, <1>4 DEF QueueFits

LEMMA ByShutdown ==
  ASSUME IInv, Shutdown
  PROVE  IInv' /\ NobodyIsStranded' /\ Honours
<1>1. /\ limit' = limit /\ window' = window /\ active' = active /\ queue' = EmptyQueue
      /\ down' = TRUE /\ late' = {}
  BY DEF Shutdown
<1>2. Waiting' = {} /\ Len(queue'.line) = 0
  BY <1>1, EmptyQueueFacts DEF Waiting
<1>3. Now'.queue = EmptyQueue /\ Now'.running = active
  BY <1>1 DEF Now
<1>4. Ready(Now')
  <2> HIDE DEF Now
  <2> QED
    BY <1>3, EmptyQueueFacts, IInvFacts DEF Ready
<1>5. CostOf(Waiting') <= MaxQueueCost
  BY <1>2, CostFacts, IInvFacts
<1>6. IInv'
  BY <1>1, <1>2, <1>4, <1>5, IInvFacts DEF IInv
<1>7. NobodyIsStranded'
  <2>1. Shape(Now'.queue) /\ Len(Now'.queue.line) = 0
    BY <1>3, EmptyQueueFacts DEF QueueFits
  <2>2. DueNow(Now', limit') = {}
    BY <2>1, NobodyIsDue
  <2> QED
    BY <2>2 DEF NobodyIsStranded, Now
<1> QED
  BY <1>2, <1>6, <1>7 DEF Honours

LEMMA Initially == Init => IInv /\ NobodyIsStranded
<1> SUFFICES ASSUME Init PROVE IInv /\ NobodyIsStranded
  OBVIOUS
<1>1. /\ limit = Clamp(InitialLimit) /\ window = NewWindow /\ active = {}
      /\ queue = EmptyQueue /\ late = {} /\ down = FALSE
  BY DEF Init
<1>2. limit \in MinLimit..MaxLimit
  BY <1>1, LimitsAssumption DEF Clamp
<1>3. window \in Windows
  BY <1>1, SeverityFacts DEF NewWindow, Windows
<1>4. Waiting = {} /\ Len(queue.line) = 0
  BY <1>1, EmptyQueueFacts DEF Waiting
<1>5. Now.queue = EmptyQueue /\ Now.running = {}
  BY <1>1 DEF Now
<1>6. Ready(Now)
  <2> HIDE DEF Now
  <2> QED
    BY <1>5, EmptyQueueFacts DEF Ready
<1>7. CostOf(Waiting) <= MaxQueueCost
  BY <1>4, CostFacts, LimitsAssumption
<1>8. IInv
  <2>1. 0 <= MaxQueueCount
    BY LimitsAssumption
  <2>2. late \subseteq Waiting /\ down \in BOOLEAN /\ ~down
    BY <1>1
  <2> QED
    BY <1>2, <1>3, <1>4, <1>6, <1>7, <2>1, <2>2 DEF IInv
<1>9. NobodyIsStranded
  <2>1. Shape(Now.queue) /\ Len(Now.queue.line) = 0
    BY <1>5, EmptyQueueFacts DEF QueueFits
  <2>2. DueNow(Now, limit) = {}
    BY <2>1, NobodyIsDue
  <2> QED
    BY <2>2 DEF NobodyIsStranded, Now
<1> QED
  BY <1>8, <1>9

LEMMA EveryStep ==
  ASSUME IInv, NobodyIsStranded, [Next]_vars
  PROVE  IInv' /\ NobodyIsStranded' /\ [Honours]_vars
<1>1. CASE Next
  BY <1>1, ByAcquire, ByRelease, ByDeadline, ByLeave, ByObservePressure, ByTick, ByShutdown
  DEF Next
<1>2. CASE UNCHANGED vars
  <2>1. /\ limit' = limit /\ window' = window /\ active' = active /\ queue' = queue
        /\ down' = down /\ late' = late
    BY <1>2 DEF vars
  <2>2. Now' = Now /\ Waiting' = Waiting
    BY <2>1 DEF Now, Waiting
  <2>3. IInv'
    BY <2>1, <2>2 DEF IInv
  <2>4. NobodyIsStranded'
    BY <2>1 DEF NobodyIsStranded
  <2> QED
    BY <1>2, <2>3, <2>4
<1> QED
  BY <1>1, <1>2

-----------------------------------------------------------------------------
(* The theorems *)

LEMMA Invariance == Spec => [](IInv /\ NobodyIsStranded)
<1>1. IInv /\ NobodyIsStranded /\ [Next]_vars => (IInv /\ NobodyIsStranded)'
  BY EveryStep
<1> QED
  BY Initially, <1>1, PTL DEF Spec

\* The limit stays within its bounds, nobody both waits and holds a lease, the
\* queue keeps within its caps, its rotation is the tenants that wait, and its
\* cursor is a position of the rotation (queue.ts:102-182), whatever joins,
\* is taken, or is removed from the middle of a rotation.
THEOREM AdmissionIsTyped == Spec => []TypeOK
<1>1. IInv /\ NobodyIsStranded => TypeOK
  BY IInvTyped
<1> QED
  BY Invariance, <1>1, PTL

\* The loop of dispatch (controller.ts:594-621) has exactly one outcome, since
\* dequeue finds one bucket at most (queue.ts:79-120): the set Dispatch leaves
\* nothing open and blocks no handler.
THEOREM DispatchIsDetermined ==
  ASSUME NEW d, NEW lim, Ready(d)
  PROVE  \E e : Dispatch(d, lim) = {e}
  BY DispatchFacts

\* Whatever frees capacity, reorders the queue or moves the limit also hands out
\* what has become due (controller.ts:577-621): no request is left waiting that
\* dequeue would return.
THEOREM CapacityReachesTheNext == Spec => []NobodyIsStranded
  BY Invariance, PTL

\* While a request waits that was passed over MAX_UNFITTABLE_SKIPS times, a lease
\* goes only to a waiting request that was passed over as often and came before
\* it (queue.ts:83-101, controller.ts:311): neither a newcomer, nor a cheaper
\* successor, nor a younger one with a reservation takes the capacity that is
\* kept for it, however many leases the step grants.
THEOREM ReservationsAreHonoured == Spec => ReservationsHold
<1>1. IInv /\ NobodyIsStranded /\ [Next]_vars => [Honours]_vars
  BY EveryStep
<1>2. Spec => [][Honours]_vars
  BY Invariance, <1>1, PTL DEF Spec
<1> QED
  BY <1>2 DEF ReservationsHold, Honours

=============================================================================
