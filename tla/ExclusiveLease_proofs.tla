------------------------- MODULE ExclusiveLease_proofs -------------------------
(***************************************************************************)
(* Proofs about ExclusiveLease, for any owners, keys, connections, calls   *)
(* and any number of rows.                                                 *)
(*                                                                         *)
(* Every step treats the table in one of two ways: it ends or ages rows    *)
(* (Evolves), or it does that and appends one (Grows).  Both keep TableInv *)
(* - the two unique indexes, the order of the generations, and two facts   *)
(* that make them inductive: an owner's ACTIVE row is its newest, and the  *)
(* maximum NextGeneration asks for exists.  The last part shows that each  *)
(* step is one of LeaseRegistry, or changes nothing the registry sees.     *)
(***************************************************************************)
EXTENDS ExclusiveLease, TLAPS

IndexesOf(t) ==
    \A i, j \in DOMAIN t :
        t[i].state = "ACTIVE" /\ t[j].state = "ACTIVE" /\ i # j
            => t[i].owner # t[j].owner /\ t[i].connection # t[j].connection

OrderOf(t) ==
    \A i, j \in DOMAIN t :
        i < j /\ t[i].owner = t[j].owner
            => \/ t[i].generation < t[j].generation
               \/ t[i].generation = t[j].generation /\ t[i].state = "INVALIDATED"

\* An owner's ACTIVE row has no successor.
NewestOf(t) ==
    \A i, j \in DOMAIN t :
        i < j /\ t[i].owner = t[j].owner => t[i].state # "ACTIVE"

\* The generations of an owner have a maximum.
BoundedOf(t) ==
    \A o \in Owners : \E m \in {0} \cup Generations(t, o) :
        \A g \in {0} \cup Generations(t, o) : g <= m

TableInv(t) ==
    /\ t \in Seq(Row)
    /\ IndexesOf(t)
    /\ OrderOf(t)
    /\ NewestOf(t)
    /\ BoundedOf(t)

\* No row is added, and none becomes ACTIVE or changes owner, generation or,
\* while it is ACTIVE, connection; what has ended does not change its state.
Evolves(t, u) ==
    /\ t \in Seq(Row)
    /\ u \in Seq(Row)
    /\ DOMAIN u = DOMAIN t
    /\ \A i \in DOMAIN t : /\ u[i].owner = t[i].owner
                           /\ u[i].state = "ACTIVE" => u[i].connection = t[i].connection
                           /\ u[i].generation = t[i].generation
                           /\ t[i].state # "ACTIVE" => u[i].state = t[i].state

-----------------------------------------------------------------------------
(* What ends or ages rows keeps the invariant *)

LEMMA SameGenerations ==
    ASSUME NEW t, NEW u, Evolves(t, u), NEW o
    PROVE  Generations(u, o) = Generations(t, o)
  BY DEF Evolves, Generations

LEMMA EvolvesKeeps ==
    ASSUME NEW t, NEW u, Evolves(t, u), TableInv(t)
    PROVE  TableInv(u)
<1>1. \A i \in DOMAIN u : /\ i \in DOMAIN t
                          /\ u[i].owner = t[i].owner
                          /\ u[i].state = "ACTIVE" => u[i].connection = t[i].connection
                          /\ u[i].generation = t[i].generation
                          /\ t[i].state # "ACTIVE" => u[i].state = t[i].state
  BY DEF Evolves
<1>2. IndexesOf(u)
  BY <1>1 DEF TableInv, IndexesOf
<1>3. OrderOf(u)
  <2> SUFFICES ASSUME NEW i \in DOMAIN u, NEW j \in DOMAIN u, i < j, u[i].owner = u[j].owner
               PROVE  \/ u[i].generation < u[j].generation
                      \/ u[i].generation = u[j].generation /\ u[i].state = "INVALIDATED"
    BY DEF OrderOf
  <2>1. \/ t[i].generation < t[j].generation
        \/ t[i].generation = t[j].generation /\ t[i].state = "INVALIDATED"
    BY <1>1 DEF TableInv, OrderOf
  <2>2. t[i].state = "INVALIDATED" => u[i].state = "INVALIDATED"
    BY <1>1
  <2> QED
    BY <1>1, <2>1, <2>2
<1>4. NewestOf(u)
  BY <1>1 DEF TableInv, NewestOf
<1>5. BoundedOf(u)
  BY SameGenerations DEF TableInv, BoundedOf
<1> QED
  BY <1>2, <1>3, <1>4, <1>5 DEF TableInv, Evolves

LEMMA EvolvesIsTransitive ==
    ASSUME NEW t, NEW u, NEW v, Evolves(t, u), Evolves(u, v)
    PROVE  Evolves(t, v)
  BY DEF Evolves

\* A rewriting of the rows one by one evolves the table if it evolves each.
LEMMA RowwiseEvolves ==
    ASSUME NEW t \in Seq(Row), NEW u, DOMAIN u = DOMAIN t, u = [i \in DOMAIN t |-> u[i]],
           \A i \in DOMAIN t :
              /\ u[i] \in Row
              /\ u[i].owner = t[i].owner
              /\ u[i].state = "ACTIVE" => u[i].connection = t[i].connection
              /\ u[i].generation = t[i].generation
              /\ t[i].state # "ACTIVE" => u[i].state = t[i].state
    PROVE  Evolves(t, u)
<1>1. u \in Seq(Row)
  <2>1. DOMAIN t = 1..Len(t) /\ Len(t) \in Nat
    OBVIOUS
  <2>2. u \in [1..Len(t) -> Row]
    BY <2>1
  <2> QED
    BY <2>1, <2>2
<1> QED
  BY <1>1 DEF Evolves

LEMMA RowFields ==
    ASSUME NEW x \in Row
    PROVE  /\ x.owner \in Owners /\ x.key \in Keys
           /\ x.generation \in Nat \ {0} /\ x.left \in 0..Ttl
           /\ x.state \in {"ACTIVE", "RELEASED", "EXPIRED", "INVALIDATED"}
  BY DEF Row

\* What the statements of a transaction make of a row.
LEMMA EndedRow ==
    ASSUME NEW x \in Row, NEW how \in {"RELEASED", "EXPIRED", "INVALIDATED"}
    PROVE  /\ Ended(x, how) \in Row
           /\ Ended(x, how).owner = x.owner
           /\ Ended(x, how).generation = x.generation
           /\ Ended(x, how).state = how
<1> DEFINE y == [x EXCEPT !.state = how, !.left = 0, !.connection = None]
<1>1. 0 \in 0..Ttl
  BY ConstantsAssumption
<1>2. /\ y.owner = x.owner /\ y.key = x.key /\ y.connection = None
      /\ y.generation = x.generation /\ y.state = how /\ y.left = 0
  BY DEF Row
<1>3. [x EXCEPT !.state = how] \in Row
  BY DEF Row
<1>4. y \in Row
  BY <1>1, <1>3 DEF Row
<1> QED
  BY <1>2, <1>4 DEF Ended

LEMMA AgedRow ==
    ASSUME NEW x \in Row, NEW n \in 0..Ttl
    PROVE  LET y == [x EXCEPT !.left = n]
           IN  /\ y \in Row /\ y.owner = x.owner /\ y.connection = x.connection
               /\ y.generation = x.generation /\ y.state = x.state
  BY DEF Row

\* expire ends leases and does nothing else.
LEMMA ExpiredEvolves ==
    ASSUME NEW t \in Seq(Row)
    PROVE  Evolves(t, Expired(t))
<1> DEFINE u == Expired(t)
<1>1. u = [i \in DOMAIN t |-> u[i]] /\ DOMAIN u = DOMAIN t
  BY DEF Expired
<1>2. ASSUME NEW i \in DOMAIN t
      PROVE  /\ u[i] \in Row
             /\ u[i].owner = t[i].owner
             /\ u[i].state = "ACTIVE" => u[i].connection = t[i].connection
             /\ u[i].generation = t[i].generation
             /\ t[i].state # "ACTIVE" => u[i].state = t[i].state
  <2>1. t[i] \in Row
    OBVIOUS
  <2>2. u[i] = t[i] \/ (t[i].state = "ACTIVE" /\ u[i] = Ended(t[i], "EXPIRED"))
    BY DEF Expired
  <2> QED
    BY <2>1, <2>2, EndedRow
<1> HIDE DEF u
<1>3. Evolves(t, u)
  BY <1>1, <1>2, RowwiseEvolves
<1> QED
  BY <1>3 DEF u

\* An UPDATE that ends some ACTIVE rows.
LEMMA EndingEvolves ==
    ASSUME NEW t \in Seq(Row), NEW S, NEW how \in {"RELEASED", "INVALIDATED"},
           \A i \in S : i \in DOMAIN t => t[i].state = "ACTIVE"
    PROVE  Evolves(t, [i \in DOMAIN t |-> IF i \in S THEN Ended(t[i], how) ELSE t[i]])
<1> DEFINE u == [i \in DOMAIN t |-> IF i \in S THEN Ended(t[i], how) ELSE t[i]]
<1>1. u = [i \in DOMAIN t |-> u[i]] /\ DOMAIN u = DOMAIN t
  OBVIOUS
<1>2. ASSUME NEW i \in DOMAIN t
      PROVE  /\ u[i] \in Row
             /\ u[i].owner = t[i].owner
             /\ u[i].state = "ACTIVE" => u[i].connection = t[i].connection
             /\ u[i].generation = t[i].generation
             /\ t[i].state # "ACTIVE" => u[i].state = t[i].state
  <2>1. t[i] \in Row
    OBVIOUS
  <2>2. u[i] = t[i] \/ (t[i].state = "ACTIVE" /\ u[i] = Ended(t[i], how))
    OBVIOUS
  <2> QED
    BY <2>1, <2>2, EndedRow
<1> HIDE DEF u
<1>3. Evolves(t, u)
  BY <1>1, <1>2, RowwiseEvolves
<1> QED
  BY <1>3 DEF u

\* An UPDATE, or the passing of time, that changes what is left to rows.
LEMMA AgingEvolves ==
    ASSUME NEW t \in Seq(Row), NEW S, NEW n,
           \A i \in S : i \in DOMAIN t => n[i] \in 0..Ttl
    PROVE  Evolves(t, [i \in DOMAIN t |-> IF i \in S THEN [t[i] EXCEPT !.left = n[i]] ELSE t[i]])
<1> DEFINE u == [i \in DOMAIN t |-> IF i \in S THEN [t[i] EXCEPT !.left = n[i]] ELSE t[i]]
<1>1. u = [i \in DOMAIN t |-> u[i]] /\ DOMAIN u = DOMAIN t
  OBVIOUS
<1>2. ASSUME NEW i \in DOMAIN t
      PROVE  /\ u[i] \in Row
             /\ u[i].owner = t[i].owner
             /\ u[i].state = "ACTIVE" => u[i].connection = t[i].connection
             /\ u[i].generation = t[i].generation
             /\ t[i].state # "ACTIVE" => u[i].state = t[i].state
  <2>1. t[i] \in Row
    OBVIOUS
  <2>2. u[i] = t[i] \/ (n[i] \in 0..Ttl /\ u[i] = [t[i] EXCEPT !.left = n[i]])
    OBVIOUS
  <2> QED
    BY <2>1, <2>2, AgedRow
<1> HIDE DEF u
<1>3. Evolves(t, u)
  BY <1>1, <1>2, RowwiseEvolves
<1> QED
  BY <1>3 DEF u

-----------------------------------------------------------------------------
(* What adds a row keeps the invariant *)

LEMMA InsertKeeps ==
    ASSUME NEW t, TableInv(t),
           NEW o \in Owners, NEW k \in Keys, NEW c \in Connections, NEW g \in Nat \ {0},
           OfOwner(t, o) = {}, OfConnection(t, c) = {},
           \A i \in DOMAIN t : t[i].owner = o =>
              \/ t[i].generation < g
              \/ t[i].generation = g /\ t[i].state = "INVALIDATED"
    PROVE  TableInv(Insert(t, o, k, c, g))
<1> DEFINE x == [owner |-> o, key |-> k, connection |-> c, generation |-> g,
                 state |-> "ACTIVE", left |-> Ttl]
           u == Append(t, x)
           n == Len(t) + 1
<1>1. x \in Row
  BY ConstantsAssumption DEF Row
<1>2. t \in Seq(Row) /\ DOMAIN t = 1..Len(t) /\ Len(t) \in Nat
  BY DEF TableInv
<1>3. x.owner = o /\ x.connection = c /\ x.generation = g /\ x.state = "ACTIVE"
  OBVIOUS
<1> HIDE DEF x
<1>4. /\ u \in Seq(Row) /\ DOMAIN u = 1..n /\ u[n] = x
      /\ \A i \in DOMAIN t : u[i] = t[i]
  BY <1>1, <1>2
<1> HIDE DEF u
<1>5. \A i \in DOMAIN u : i \in DOMAIN t \/ i = n
  BY <1>2, <1>4
<1>6. \A i \in DOMAIN t : i < n /\ i # n
  BY <1>2
<1>7. \A i \in DOMAIN t : t[i].state = "ACTIVE" => t[i].owner # o /\ t[i].connection # c
  BY DEF OfOwner, OfConnection
<1>8. IndexesOf(u)
  BY <1>3, <1>4, <1>5, <1>6, <1>7 DEF TableInv, IndexesOf
<1>9. OrderOf(u)
  <2> SUFFICES ASSUME NEW i \in DOMAIN u, NEW j \in DOMAIN u, i < j, u[i].owner = u[j].owner
               PROVE  \/ u[i].generation < u[j].generation
                      \/ u[i].generation = u[j].generation /\ u[i].state = "INVALIDATED"
    BY DEF OrderOf
  <2>1. i \in DOMAIN t
    BY <1>2, <1>4
  <2>2. CASE j = n
    BY <1>3, <1>4, <2>1, <2>2
  <2>3. CASE j \in DOMAIN t
    BY <1>4, <2>1, <2>3 DEF TableInv, OrderOf
  <2> QED
    BY <1>5, <2>2, <2>3
<1>10. NewestOf(u)
  <2> SUFFICES ASSUME NEW i \in DOMAIN u, NEW j \in DOMAIN u, i < j, u[i].owner = u[j].owner
               PROVE  u[i].state # "ACTIVE"
    BY DEF NewestOf
  <2>1. i \in DOMAIN t
    BY <1>2, <1>4
  <2>2. CASE j = n
    BY <1>3, <1>4, <1>7, <2>1, <2>2
  <2>3. CASE j \in DOMAIN t
    BY <1>4, <2>1, <2>3 DEF TableInv, NewestOf
  <2> QED
    BY <1>5, <2>2, <2>3
<1>11. BoundedOf(u)
  <2> SUFFICES ASSUME NEW p \in Owners
               PROVE  \E m \in {0} \cup Generations(u, p) :
                         \A h \in {0} \cup Generations(u, p) : h <= m
    BY DEF BoundedOf
  <2>1. CASE p # o
    <3>1. Generations(u, p) = Generations(t, p)
      BY <1>3, <1>4, <1>5, <1>2, <2>1 DEF Generations
    <3> QED
      BY <3>1 DEF TableInv, BoundedOf
  <2>2. CASE p = o
    <3>1. g \in Generations(u, o)
      BY <1>3, <1>4, <1>2 DEF Generations
    <3>2. ASSUME NEW h \in Generations(u, o)
          PROVE  h <= g
      <4>1. PICK i \in DOMAIN u : u[i].owner = o /\ h = u[i].generation
        BY DEF Generations
      <4>2. CASE i = n
        BY <1>3, <1>4, <4>1, <4>2
      <4>3. CASE i \in DOMAIN t
        <5>1. t[i] \in Row
          BY <1>2, <4>3
        <5>2. t[i].generation \in Nat
          BY <5>1 DEF Row
        <5> QED
          BY <1>4, <4>1, <4>3, <5>2
      <4> QED
        BY <1>5, <4>2, <4>3
    <3> QED
      BY <2>2, <3>1, <3>2
  <2> QED
    BY <2>1, <2>2
<1>12. TableInv(u)
  BY <1>4, <1>8, <1>9, <1>10, <1>11 DEF TableInv
<1> QED
  BY <1>12 DEF u, x, Insert

\* NextGeneration is above every generation the owner ever had.
LEMMA NextGenerationIsNew ==
    ASSUME NEW t, TableInv(t), NEW o \in Owners
    PROVE  /\ NextGeneration(t, o) \in Nat \ {0}
           /\ \A i \in DOMAIN t : t[i].owner = o => t[i].generation < NextGeneration(t, o)
<1> DEFINE G == {0} \cup Generations(t, o)
<1>1. G \subseteq Nat
  BY RowFields DEF TableInv, Generations
<1>2. \E m \in G : \A g \in G : m >= g
  BY <1>1 DEF TableInv, BoundedOf
<1>3. Max(G) \in G /\ \A g \in G : Max(G) >= g
  BY <1>2 DEF Max
<1>4. \A i \in DOMAIN t : t[i].owner = o => t[i].generation \in G
  BY DEF Generations
<1>5. NextGeneration(t, o) = Max(G) + 1
  BY DEF NextGeneration
<1> DEFINE m == Max(G)
<1> HIDE DEF G
<1>6. m \in Nat
  BY <1>1, <1>3
<1>7. ASSUME NEW i \in DOMAIN t, t[i].owner = o
      PROVE  t[i].generation \in Nat /\ t[i].generation <= m
  BY <1>1, <1>3, <1>4, <1>6, <1>7
<1> HIDE DEF m
<1>8. ASSUME NEW i \in DOMAIN t, t[i].owner = o
      PROVE  t[i].generation < m + 1
  BY <1>6, <1>7, <1>8
<1>9. NextGeneration(t, o) = m + 1
  BY <1>5 DEF m
<1>10. m + 1 \in Nat \ {0}
  BY <1>6
<1> QED
  BY <1>8, <1>9, <1>10

\* A lease that moves keeps its generation: every earlier one is over.
LEMMA MovedGenerationFits ==
    ASSUME NEW t, TableInv(t), NEW o \in Owners, NEW i \in OfOwner(t, o)
    PROVE  LET u == Vacated(t, i)
           IN  /\ Evolves(t, u)
               /\ OfOwner(u, o) = {}
               /\ \A c : OfConnection(t, c) = {} => OfConnection(u, c) = {}
               /\ t[i].generation \in Nat \ {0}
               /\ \A j \in DOMAIN u : u[j].owner = o =>
                     \/ u[j].generation < t[i].generation
                     \/ u[j].generation = t[i].generation /\ u[j].state = "INVALIDATED"
<1> DEFINE u == Vacated(t, i)
<1>1. t \in Seq(Row) /\ i \in DOMAIN t /\ t[i].state = "ACTIVE" /\ t[i].owner = o
  BY DEF TableInv, OfOwner
<1>2. t[i] \in Row
  BY <1>1
<1>3. u = [j \in DOMAIN t |-> IF j \in {i} THEN Ended(t[j], "INVALIDATED") ELSE t[j]]
  BY <1>1 DEF Vacated
<1> HIDE DEF u
<1>4. Evolves(t, u)
  BY <1>1, <1>3, EndingEvolves
<1>5. DOMAIN u = DOMAIN t /\ u[i] = Ended(t[i], "INVALIDATED")
      /\ \A j \in DOMAIN t : j # i => u[j] = t[j]
  BY <1>1, <1>3
<1>6. u[i].state = "INVALIDATED" /\ u[i].generation = t[i].generation /\ u[i].owner = o
  BY <1>1, <1>2, <1>5, EndedRow
<1>7. ASSUME NEW j \in DOMAIN t, j # i, t[j].owner = o
      PROVE  j < i /\ t[j].state # "ACTIVE"
  <2>1. i \in Nat /\ j \in Nat
    BY <1>1, <1>7
  <2>2. t[j].state # "ACTIVE"
    BY <1>1, <1>7 DEF TableInv, IndexesOf
  <2>3. ~(i < j)
    BY <1>1, <1>7 DEF TableInv, NewestOf
  <2> QED
    BY <1>7, <2>1, <2>2, <2>3
<1>8. OfOwner(u, o) = {}
  BY <1>5, <1>6, <1>7 DEF OfOwner
<1>9. ASSUME NEW c, OfConnection(t, c) = {}
      PROVE  OfConnection(u, c) = {}
  BY <1>5, <1>6, <1>9 DEF OfConnection
<1>10. ASSUME NEW j \in DOMAIN u, u[j].owner = o
       PROVE  \/ u[j].generation < t[i].generation
              \/ u[j].generation = t[i].generation /\ u[j].state = "INVALIDATED"
  <2>1. CASE j = i
    BY <1>6, <2>1
  <2>2. CASE j # i
    <3>1. j \in DOMAIN t /\ u[j] = t[j] /\ t[j].owner = o
      BY <1>5, <1>10, <2>2
    <3>2. j < i
      BY <1>7, <2>2, <3>1
    <3>3. \/ t[j].generation < t[i].generation
          \/ t[j].generation = t[i].generation /\ t[j].state = "INVALIDATED"
      BY <1>1, <3>1, <3>2 DEF TableInv, OrderOf
    <3> QED
      BY <3>1, <3>3
  <2> QED
    BY <2>1, <2>2
<1>11. t[i].generation \in Nat \ {0}
  BY <1>2, RowFields
<1> QED
  BY <1>4, <1>8, <1>9, <1>10, <1>11 DEF u

-----------------------------------------------------------------------------
(* Calls keep their type, and a connection from their choice to the answer *)

Picked == {q \in Call : q.phase = "selecting" \/ q.connection \in Connections}

CallsInv == call \in [Calls -> Picked \cup {Idle}]

LEMMA FinishType ==
    ASSUME CallsInv, NEW r \in Calls, Finish(r)
    PROVE  CallsInv'
  BY DEF CallsInv, Finish

LEMMA PhaseType ==
    ASSUME CallsInv, NEW r \in Calls, call[r] # Idle,
           NEW ph \in {"chosen", "claimed", "fenced", "sent"}, call[r].connection \in Connections,
           call' = [call EXCEPT ![r].phase = ph]
    PROVE  CallsInv'
<1>1. call[r] \in Call
  BY DEF CallsInv, Picked
<1>2. [call[r] EXCEPT !.phase = ph] \in Picked
  BY <1>1 DEF Call, Picked
<1>3. call' = [call EXCEPT ![r] = [call[r] EXCEPT !.phase = ph]]
  BY DEF CallsInv
<1> QED
  BY <1>2, <1>3 DEF CallsInv

LEMMA ClaimedType ==
    ASSUME CallsInv, NEW r \in Calls, call[r] # Idle,
           call[r].connection \in Connections, Claimed(r)
    PROVE  CallsInv'
  BY FinishType, PhaseType DEF Claimed

LEMMA ChosenType ==
    ASSUME CallsInv, NEW r \in Calls, call[r] # Idle, NEW c \in Connections,
           call' = [call EXCEPT ![r].phase = "chosen", ![r].connection = c]
    PROVE  CallsInv'
<1> DEFINE q == [call[r] EXCEPT !.phase = "chosen", !.connection = c]
<1>1. call[r] \in Call
  BY DEF CallsInv, Picked
<1>2. q \in Picked
  BY <1>1 DEF Call, Picked
<1>3. call' = [call EXCEPT ![r] = q]
  BY DEF CallsInv
<1> HIDE DEF q
<1> QED
  BY <1>2, <1>3 DEF CallsInv

LEMMA AgainType ==
    ASSUME CallsInv, NEW r \in Calls, call[r] # Idle,
           call[r].connection \in Connections, Again(r)
    PROVE  CallsInv'
<1> DEFINE e == call[r].tried \cup {call[r].connection}
           q == [call[r] EXCEPT !.phase = "selecting", !.connection = None, !.tried = e]
<1>1. call[r] \in Call
  BY DEF CallsInv, Picked
<1>2. e \in SUBSET Connections
  BY <1>1 DEF Call
<1>3. call' = [call EXCEPT ![r] = q]
  BY DEF CallsInv, Again
<1> HIDE DEF e
<1>4. q \in Picked
  BY <1>1, <1>2 DEF Call, Picked
<1> HIDE DEF q
<1> QED
  BY <1>3, <1>4 DEF CallsInv

-----------------------------------------------------------------------------
(* Each action *)

RowsInv == TableInv(rows) /\ Len(rows) <= MaxRows

LEMMA EvolvesLength ==
    ASSUME NEW t, NEW u, Evolves(t, u)
    PROVE  Len(u) = Len(t)
  BY DEF Evolves

LEMMA EvolvedRows ==
    ASSUME RowsInv, Evolves(rows, rows')
    PROVE  RowsInv'
<1>1. TableInv(rows')
  BY EvolvesKeeps DEF RowsInv
<1>2. Len(rows') = Len(rows)
  BY EvolvesLength
<1> QED
  BY <1>1, <1>2 DEF RowsInv

\* The table every transaction works on, after expire.
LEMMA ExpiredTable ==
    ASSUME RowsInv
    PROVE  /\ Evolves(rows, Expired(rows))
           /\ TableInv(Expired(rows))
           /\ Expired(rows) \in Seq(Row)
           /\ Len(Expired(rows)) <= MaxRows
<1>1. Evolves(rows, Expired(rows))
  BY ExpiredEvolves DEF RowsInv, TableInv
<1>2. TableInv(Expired(rows)) /\ Len(Expired(rows)) = Len(rows)
  BY <1>1, EvolvesKeeps, EvolvesLength DEF RowsInv
<1> QED
  BY <1>1, <1>2 DEF RowsInv, TableInv

LEMMA EndedRows ==
    ASSUME RowsInv, NEW S, NEW how \in {"RELEASED", "INVALIDATED"},
           \A i \in S : i \in DOMAIN Expired(rows) => Expired(rows)[i].state = "ACTIVE",
           rows' = [i \in DOMAIN Expired(rows) |->
                       IF i \in S THEN Ended(Expired(rows)[i], how) ELSE Expired(rows)[i]]
    PROVE  RowsInv'
<1>1. Evolves(Expired(rows), rows')
  BY ExpiredTable, EndingEvolves
<1>2. Evolves(rows, rows')
  BY <1>1, ExpiredTable, EvolvesIsTransitive
<1> QED
  BY <1>2, EvolvedRows

LEMMA RenewKeeps ==
    ASSUME RowsInv, NEW o, NEW k, NEW g, Renew(o, k, g)
    PROVE  RowsInv'
<1> DEFINE t == Expired(rows)
           S == Named(t, o, k, g)
           n == [i \in S |-> Ttl]
<1>1. rows' = [i \in DOMAIN t |-> IF i \in S THEN [t[i] EXCEPT !.left = Ttl] ELSE t[i]]
  BY DEF Renew
<1>2. \A i \in S : i \in DOMAIN t => n[i] \in 0..Ttl
  BY ConstantsAssumption
<1>3. rows' = [i \in DOMAIN t |-> IF i \in S THEN [t[i] EXCEPT !.left = n[i]] ELSE t[i]]
  BY <1>1
<1>4. t \in Seq(Row) /\ Evolves(rows, t)
  BY ExpiredTable
<1> HIDE DEF t, S, n
<1>5. Evolves(t, rows')
  BY <1>2, <1>3, <1>4, AgingEvolves
<1> QED
  BY <1>4, <1>5, EvolvesIsTransitive, EvolvedRows

LEMMA ReleaseKeeps ==
    ASSUME RowsInv, NEW o, NEW k, NEW g, Release(o, k, g)
    PROVE  RowsInv'
<1> DEFINE S == Named(Expired(rows), o, k, g)
<1>1. \A i \in S : Expired(rows)[i].state = "ACTIVE"
  BY DEF Named, OfOwner
<1>2. rows' = [i \in DOMAIN Expired(rows) |->
                  IF i \in S THEN Ended(Expired(rows)[i], "RELEASED") ELSE Expired(rows)[i]]
  BY DEF Release
<1> HIDE DEF S
<1> QED
  BY <1>1, <1>2, EndedRows

LEMMA InvalidatedKeeps ==
    ASSUME RowsInv, NEW q, rows' = Invalidated(Expired(rows), q)
    PROVE  RowsInv'
<1> DEFINE S == {i \in Named(Expired(rows), q.owner, q.key, q.generation) : q.mode = "request"}
<1>1. \A i \in S : Expired(rows)[i].state = "ACTIVE"
  BY DEF Named, OfOwner
<1>2. rows' = [i \in DOMAIN Expired(rows) |->
                  IF i \in S THEN Ended(Expired(rows)[i], "INVALIDATED") ELSE Expired(rows)[i]]
  BY DEF Invalidated
<1> HIDE DEF S
<1> QED
  BY <1>1, <1>2, EndedRows

LEMMA TickKeeps ==
    ASSUME RowsInv, Tick
    PROVE  RowsInv'
<1> DEFINE S == {i \in DOMAIN rows : rows[i].state = "ACTIVE" /\ rows[i].left > 0}
           n == [i \in S |-> rows[i].left - 1]
<1>1. rows' = [i \in DOMAIN rows |->
                  IF i \in S THEN [rows[i] EXCEPT !.left = rows[i].left - 1] ELSE rows[i]]
  BY DEF Tick
<1>2. \A i \in S : n[i] \in 0..Ttl
  <2> SUFFICES ASSUME NEW i \in S PROVE n[i] \in 0..Ttl
    OBVIOUS
  <2>1. rows[i] \in Row
    BY DEF RowsInv, TableInv
  <2>2. rows[i].left \in 0..Ttl
    BY <2>1 DEF Row
  <2> QED
    BY <2>2, ConstantsAssumption
<1>3. rows' = [i \in DOMAIN rows |->
                  IF i \in S THEN [rows[i] EXCEPT !.left = n[i]] ELSE rows[i]]
  BY <1>1
<1> HIDE DEF S, n
<1> QED
  BY <1>2, <1>3, AgingEvolves, EvolvedRows DEF RowsInv, TableInv

\* Inserting into a table with fewer than MaxRows rows.
LEMMA InsertedRows ==
    ASSUME NEW t, TableInv(t), Len(t) < MaxRows, TableInv(rows'),
           NEW o, NEW k, NEW c, NEW g, rows' = Insert(t, o, k, c, g)
    PROVE  RowsInv'
<1>1. Len(rows') = Len(t) + 1 /\ Len(t) \in Nat
  BY DEF Insert, TableInv
<1> QED
  BY <1>1, ConstantsAssumption DEF RowsInv

LEMMA BeginKeeps ==
    ASSUME RowsInv, CallsInv, NEW r \in Calls, Begin(r)
    PROVE  RowsInv' /\ CallsInv'
<1>1. PICK mode \in {"acquire", "request"}, o \in Owners, k \in Keys :
         \E g \in IF mode = "acquire" THEN {1} ELSE Generations(rows, o) :
            call' = [call EXCEPT ![r] =
                [phase |-> "selecting", mode |-> mode, owner |-> o, key |-> k,
                 generation |-> g, connection |-> None, tried |-> {}]]
  BY DEF Begin
<1>2. PICK g \in IF mode = "acquire" THEN {1} ELSE Generations(rows, o) :
            call' = [call EXCEPT ![r] =
                [phase |-> "selecting", mode |-> mode, owner |-> o, key |-> k,
                 generation |-> g, connection |-> None, tried |-> {}]]
  BY <1>1
<1>3. \A i \in DOMAIN rows : rows[i].generation \in Nat
  <2> SUFFICES ASSUME NEW i \in DOMAIN rows PROVE rows[i].generation \in Nat
    OBVIOUS
  <2>1. rows[i] \in Row
    BY DEF RowsInv, TableInv
  <2> QED
    BY <2>1, RowFields
<1>4. g \in Nat
  BY <1>3 DEF Generations
<1>5. [phase |-> "selecting", mode |-> mode, owner |-> o, key |-> k,
       generation |-> g, connection |-> None, tried |-> {}] \in Picked
  BY <1>4 DEF Picked, Call
<1>6. CallsInv'
  BY <1>2, <1>5 DEF CallsInv
<1> QED
  BY <1>6 DEF Begin, RowsInv

LEMMA SelectKeeps ==
    ASSUME RowsInv, CallsInv, NEW r \in Calls, NEW e \in SUBSET Connections, Select(r, e)
    PROVE  RowsInv' /\ CallsInv'
<1> DEFINE q == call[r]
           t == Expired(rows)
           own == OfOwner(t, q.owner)
           candidates == {c \in e : OfConnection(t, c) \subseteq own}
           binding == {t[i].connection : i \in own}
<1>1. CASE rows' = Invalidated(t, q) /\ Finish(r)
  BY <1>1, InvalidatedKeeps, FinishType
<1>2. CASE rows' = t /\ Finish(r)
  BY <1>2, ExpiredTable, EvolvedRows, FinishType
<1>3. CASE /\ rows' = t
           /\ \E c \in Picks(r, q.mode, binding, candidates) :
                 call' = [call EXCEPT ![r].phase = "chosen", ![r].connection = c]
  <2>1. PICK c \in Picks(r, q.mode, binding, candidates) :
           call' = [call EXCEPT ![r].phase = "chosen", ![r].connection = c]
    BY <1>3
  <2>2. c \in Connections
    <3>1. candidates \subseteq Connections
      OBVIOUS
    <3> HIDE DEF candidates, binding
    <3> QED
      BY <2>1, <3>1 DEF Picks
  <2>3. call[r] # Idle
    BY DEF Select
  <2> QED
    BY <1>3, <2>1, <2>2, <2>3, ChosenType, ExpiredTable, EvolvedRows
<1> QED
  BY <1>1, <1>2, <1>3 DEF Select

LEMMA ClaimKeeps ==
    ASSUME RowsInv, CallsInv, NEW r \in Calls, Claim(r)
    PROVE  RowsInv' /\ CallsInv'
<1> DEFINE q == call[r]
           t == Expired(rows)
           own == OfOwner(t, q.owner)
           free == OfConnection(t, q.connection) = {}
<1>1. call[r] # Idle /\ q.phase = "chosen"
  BY DEF Claim
<1>2. /\ q.owner \in Owners /\ q.key \in Keys /\ q.connection \in Connections
  BY <1>1 DEF CallsInv, Picked, Call
<1>3. TableInv(t) /\ t \in Seq(Row)
  BY ExpiredTable
<1>4. CASE /\ own = {} /\ free /\ Len(t) < MaxRows
           /\ rows' = Insert(t, q.owner, q.key, q.connection, NextGeneration(t, q.owner))
           /\ Claimed(r)
  <2>1. /\ NextGeneration(t, q.owner) \in Nat \ {0}
        /\ \A i \in DOMAIN t : t[i].owner = q.owner
              => t[i].generation < NextGeneration(t, q.owner)
    BY <1>2, <1>3, NextGenerationIsNew
  <2> HIDE DEF t, q
  <2>2. TableInv(rows')
    BY <1>2, <1>3, <1>4, <2>1, InsertKeeps
  <2>3. RowsInv'
    BY <1>3, <1>4, <2>2, InsertedRows
  <2> QED
    BY <1>1, <1>2, <1>4, <2>3, ClaimedType DEF q
<1>5. CASE rows' = t /\ Finish(r)
  BY <1>5, ExpiredTable, EvolvedRows, FinishType
<1>6. CASE rows' = t /\ Claimed(r)
  BY <1>1, <1>2, <1>6, ExpiredTable, EvolvedRows, ClaimedType
<1>7. CASE \E i \in own :
              /\ free /\ Len(t) < MaxRows
              /\ rows' = Insert(Vacated(t, i), q.owner, q.key, q.connection, t[i].generation)
              /\ Claimed(r)
  <2>1. PICK i \in own :
              /\ free /\ Len(t) < MaxRows
              /\ rows' = Insert(Vacated(t, i), q.owner, q.key, q.connection, t[i].generation)
              /\ Claimed(r)
    BY <1>7
  <2> DEFINE u == Vacated(t, i)
  <2>2. /\ Evolves(t, u)
        /\ OfOwner(u, q.owner) = {}
        /\ \A c : OfConnection(t, c) = {} => OfConnection(u, c) = {}
        /\ t[i].generation \in Nat \ {0}
        /\ \A j \in DOMAIN u : u[j].owner = q.owner =>
              \/ u[j].generation < t[i].generation
              \/ u[j].generation = t[i].generation /\ u[j].state = "INVALIDATED"
    <3>1. i \in OfOwner(t, q.owner)
      OBVIOUS
    <3> HIDE DEF t, q, own, free
    <3> QED
      BY <1>2, <1>3, <3>1, MovedGenerationFits
  <2>3. rows' = Insert(u, q.owner, q.key, q.connection, t[i].generation)
    BY <2>1
  <2> HIDE DEF u, t, q
  <2>4. TableInv(u) /\ Len(u) < MaxRows /\ OfConnection(u, q.connection) = {}
    BY <1>3, <2>1, <2>2, EvolvesKeeps, EvolvesLength
  <2>5. TableInv(rows')
    BY <1>2, <2>2, <2>3, <2>4, InsertKeeps
  <2>6. RowsInv'
    BY <2>3, <2>4, <2>5, InsertedRows
  <2> QED
    BY <1>1, <1>2, <2>1, <2>6, ClaimedType DEF q
<1>8. CASE rows' = t /\ Again(r)
  BY <1>1, <1>2, <1>8, ExpiredTable, EvolvedRows, AgainType
<1> QED
  BY <1>4, <1>5, <1>6, <1>7, <1>8 DEF Claim

LEMMA OtherCallStepsKeep ==
    ASSUME RowsInv, CallsInv, NEW r \in Calls,
           PreflightBlocks(r) \/ Fence(r) \/ Send(r) \/ Resend(r) \/ Answer(r)
    PROVE  RowsInv' /\ CallsInv'
<1>1. call[r] # Idle /\ call[r].connection \in Connections
  BY DEF PreflightBlocks, Fence, Send, Resend, Answer, CallsInv, Picked
<1>2. CASE PreflightBlocks(r)
  BY <1>1, <1>2, AgainType DEF PreflightBlocks, RowsInv
<1>3. CASE Fence(r)
  <2>1. RowsInv'
    BY <1>3, ExpiredTable, EvolvedRows DEF Fence
  <2> QED
    BY <1>1, <1>3, <2>1, PhaseType, FinishType DEF Fence
<1>4. CASE Answer(r)
  <2>1. RowsInv'
    BY <1>4 DEF Answer, RowsInv
  <2> QED
    BY <1>1, <1>4, <2>1, PhaseType, FinishType, AgainType DEF Answer
<1>5. CASE Send(r) \/ Resend(r)
  <2>1. RowsInv'
    BY <1>5 DEF Send, Resend, RowsInv
  <2> QED
    BY <1>1, <1>5, <2>1, PhaseType DEF Send, Resend
<1> QED
  BY <1>2, <1>3, <1>4, <1>5

LEMMA StepKeeps ==
    ASSUME RowsInv, CallsInv, [Next]_vars
    PROVE  RowsInv' /\ CallsInv'
<1>1. ASSUME NEW o \in Owners, NEW k \in Keys, NEW g, Renew(o, k, g)
      PROVE  RowsInv' /\ CallsInv'
  BY <1>1, RenewKeeps DEF Renew, CallsInv
<1>2. ASSUME NEW o \in Owners, NEW k \in Keys, NEW g, Release(o, k, g)
      PROVE  RowsInv' /\ CallsInv'
  BY <1>2, ReleaseKeeps DEF Release, CallsInv
<1>3. CASE Reconcile
  BY <1>3, ExpiredTable, EvolvedRows DEF Reconcile, CallsInv
<1>4. ASSUME NEW r \in Calls, Begin(r)
      PROVE  RowsInv' /\ CallsInv'
  BY <1>4, BeginKeeps
<1>5. ASSUME NEW r \in Calls, NEW e \in SUBSET (Connections \ call[r].tried), Select(r, e)
      PROVE  RowsInv' /\ CallsInv'
  BY <1>5, SelectKeeps
<1>6. ASSUME NEW r \in Calls, Claim(r)
      PROVE  RowsInv' /\ CallsInv'
  BY <1>6, ClaimKeeps
<1>7. ASSUME NEW r \in Calls,
             PreflightBlocks(r) \/ Fence(r) \/ Send(r) \/ Resend(r) \/ Answer(r)
      PROVE  RowsInv' /\ CallsInv'
  BY <1>7, OtherCallStepsKeep
<1>8. CASE Restart
  BY <1>8 DEF Restart, CallsInv, RowsInv
<1>9. CASE Tick
  BY <1>9, TickKeeps DEF Tick, CallsInv
<1>10. CASE UNCHANGED vars
  BY <1>10 DEF vars, CallsInv, RowsInv
<1> QED
  BY <1>1, <1>2, <1>3, <1>4, <1>5, <1>6, <1>7, <1>8, <1>9, <1>10 DEF Next

-----------------------------------------------------------------------------
(* Theorems *)

Inv == RowsInv /\ CallsInv

LEMMA InvIsInvariant == Spec => []Inv
<1>1. Init => Inv
  <2> SUFFICES ASSUME Init PROVE Inv
    OBVIOUS
  <2>1. rows = <<>> /\ DOMAIN rows = {} /\ Len(rows) = 0
    BY DEF Init
  <2>2. BoundedOf(rows)
    BY <2>1 DEF BoundedOf, Generations
  <2>3. TableInv(rows)
    BY <2>1, <2>2 DEF TableInv, IndexesOf, OrderOf, NewestOf
  <2> QED
    BY <2>1, <2>3, ConstantsAssumption DEF Init, Inv, RowsInv, CallsInv
<1>2. Inv /\ [Next]_vars => Inv'
  BY StepKeeps DEF Inv
<1> QED
  BY <1>1, <1>2, PTL DEF Spec

\* Types, and at most MaxRows rows.
THEOREM TypeCorrect == Spec => []TypeOK
<1>1. Inv => TypeOK
  BY DEF Inv, TypeOK, RowsInv, TableInv, CallsInv, Picked
<1> QED
  BY <1>1, InvIsInvariant, PTL

\* The transactions alone keep both unique indexes: no owner has two ACTIVE
\* leases and no connection two, for any number of owners and calls.
THEOREM IndexesHoldAlways == Spec => []IndexesHold
<1>1. Inv => IndexesHold
  BY DEF Inv, RowsInv, TableInv, IndexesOf, IndexesHold
<1> QED
  BY <1>1, InvIsInvariant, PTL

\* A generation that was released or has expired never comes back.
THEOREM GenerationsEndAlways == Spec => []GenerationsEnd
<1>1. Inv => GenerationsEnd
  BY DEF Inv, RowsInv, TableInv, OrderOf, GenerationsEnd
<1> QED
  BY <1>1, InvIsInvariant, PTL

\* A release once acknowledged is acknowledged whenever it comes again.
THEOREM ReleaseIsIdempotentAlways == Spec => []ReleaseIsIdempotent
<1>1. Inv => ReleaseIsIdempotent
  <2> SUFFICES ASSUME Inv, NEW i \in DOMAIN rows, rows[i].state = "RELEASED"
               PROVE  AcceptsRelease(rows[i].owner, rows[i].key, rows[i].generation)
    BY DEF ReleaseIsIdempotent
  <2>1. rows \in Seq(Row) /\ DOMAIN rows = 1..Len(rows) /\ Len(rows) \in Nat
    BY DEF Inv, RowsInv, TableInv
  <2>2. \A j \in DOMAIN rows : rows[j].generation \in Nat
    <3> SUFFICES ASSUME NEW j \in DOMAIN rows PROVE rows[j].generation \in Nat
      OBVIOUS
    <3>1. rows[j] \in Row
      BY <2>1
    <3> QED
      BY <3>1, RowFields
  <2>3. ASSUME NEW j \in (i + 1)..Len(rows), rows[j].owner = rows[i].owner
        PROVE  rows[j].generation # rows[i].generation
    <3>1. j \in DOMAIN rows /\ i < j
      BY <2>1
    <3>2. rows[i].generation < rows[j].generation
      BY <2>3, <3>1 DEF Inv, RowsInv, TableInv, OrderOf
    <3> QED
      BY <2>2, <3>1, <3>2
  <2> QED
    BY <2>3 DEF AcceptsRelease, Historical
<1> QED
  BY <1>1, InvIsInvariant, PTL

\* A request passes its fence only while no other owner holds the connection.
THEOREM FenceIsExclusiveAlways == Spec => FenceIsExclusive
<1> DEFINE Alone(r) ==
        Fence(r) /\ call'[r] # Idle =>
             \A i \in OfConnection(rows', call[r].connection) :
                 rows'[i].owner = call[r].owner
<1>1. ASSUME Inv', [Next]_vars
      PROVE  [\A r \in Calls : Alone(r)]_vars
  <2> SUFFICES ASSUME NEW r \in Calls, Fence(r), call'[r] # Idle,
                      NEW i \in OfConnection(rows', call[r].connection)
               PROVE  rows'[i].owner = call[r].owner
    OBVIOUS
  <2>1. CallsInv' /\ IndexesOf(rows')
    BY <1>1 DEF Inv, RowsInv, TableInv
  <2>2. Fenced(rows', call[r])
    <3>1. CASE call' = [call EXCEPT ![r] = Idle]
      <4>1. DOMAIN call' = DOMAIN call /\ DOMAIN call' = Calls
        BY <2>1, <3>1 DEF CallsInv
      <4>2. call'[r] = Idle
        BY <3>1, <4>1
      <4> QED
        BY <4>2
    <3> QED
      BY <3>1 DEF Fence, Finish
  <2>3. PICK j \in OfOwner(rows', call[r].owner) :
           rows'[j].connection = call[r].connection
    BY <2>2 DEF Fenced
  <2>4. /\ i \in DOMAIN rows' /\ rows'[i].state = "ACTIVE"
        /\ rows'[i].connection = call[r].connection
        /\ j \in DOMAIN rows' /\ rows'[j].state = "ACTIVE" /\ rows'[j].owner = call[r].owner
    BY <2>3 DEF OfOwner, OfConnection
  <2>5. i = j
    BY <2>1, <2>3, <2>4 DEF IndexesOf
  <2> QED
    BY <2>4, <2>5
<1>2. Spec => [][\A r \in Calls : Alone(r)]_vars
  BY <1>1, InvIsInvariant, PTL DEF Spec
<1> QED
  BY <1>2 DEF FenceIsExclusive

-----------------------------------------------------------------------------
(* A live lease and the calls of its owner under another key *)

\* Lease i is live, belongs to the owner call r names, and has another key.
Guarded(r, i) ==
    /\ call[r] # Idle
    /\ i \in DOMAIN rows /\ rows[i].state = "ACTIVE" /\ rows[i].left > 0
    /\ rows[i].owner = call[r].owner /\ rows[i].key # call[r].key

Inert(r, i) == rows'[i] = rows[i] /\ ~(Fence(r) /\ call'[r] # Idle)

\* expire leaves the lease alone, and the owner has no other.
LEMMA OnlyLease ==
    ASSUME RowsInv, NEW r \in Calls, NEW i, Guarded(r, i)
    PROVE  /\ i \in DOMAIN Expired(rows) /\ Expired(rows)[i] = rows[i]
           /\ OfOwner(Expired(rows), call[r].owner) = {i}
<1> DEFINE t == Expired(rows)
<1>1. rows[i] \in Row /\ rows[i].left \in 0..Ttl
  <2>1. rows[i] \in Row
    BY DEF RowsInv, TableInv, Guarded
  <2> QED BY <2>1, RowFields
<1>2. ~ (rows[i].left <= 0)
  BY <1>1, ConstantsAssumption DEF Guarded
<1>3. i \in DOMAIN t /\ t[i] = rows[i]
  BY <1>2 DEF Expired, Guarded
<1>4. IndexesOf(t)
  BY ExpiredTable DEF TableInv
<1> HIDE DEF t
<1>5. \A j \in OfOwner(t, call[r].owner) : j = i
  BY <1>3, <1>4 DEF OfOwner, IndexesOf, Guarded
<1>6. i \in OfOwner(t, call[r].owner)
  BY <1>3 DEF OfOwner, Guarded
<1> QED
  BY <1>3, <1>5, <1>6 DEF t

\* Where the ways a call goes on lead to.
LEMMA NextPhase ==
    ASSUME CallsInv, NEW r \in Calls, call[r] # Idle
    PROVE  /\ Finish(r) => call'[r] = Idle
           /\ Again(r) => call'[r].phase = "selecting"
           /\ \A ph : call' = [call EXCEPT ![r].phase = ph] => call'[r].phase = ph
           /\ \A c : call' = [call EXCEPT ![r].phase = "chosen", ![r].connection = c]
                        => call'[r].phase = "chosen"
<1>1. call[r] \in Call /\ r \in DOMAIN call
  BY DEF CallsInv, Picked
<1>2. DOMAIN call[r] = {"phase", "mode", "owner", "key", "generation", "connection", "tried"}
  BY <1>1 DEF Call
<1>3. Finish(r) => call'[r] = Idle
  BY <1>1 DEF Finish
<1>4. Again(r) => call'[r].phase = "selecting"
  BY <1>1, <1>2 DEF Again
<1>5. ASSUME NEW ph, call' = [call EXCEPT ![r].phase = ph]
      PROVE  call'[r].phase = ph
  BY <1>1, <1>2, <1>5
<1>6. ASSUME NEW c, call' = [call EXCEPT ![r].phase = "chosen", ![r].connection = c]
      PROVE  call'[r].phase = "chosen"
  BY <1>1, <1>2, <1>6
<1> QED
  BY <1>3, <1>4, <1>5, <1>6

LEMMA SelectIsInert ==
    ASSUME RowsInv, CallsInv, NEW r \in Calls, NEW e, Select(r, e), NEW i, Guarded(r, i)
    PROVE  Inert(r, i)
<1> DEFINE q == call[r]
           t == Expired(rows)
<1>1. i \in DOMAIN t /\ t[i] = rows[i] /\ t[i].key # q.key
  BY OnlyLease DEF Guarded
<1>2. rows' \in {t, Invalidated(t, q)}
  BY DEF Select
<1>3. rows'[i] = rows[i]
  <2>1. i \notin Named(t, q.owner, q.key, q.generation)
    BY <1>1 DEF Named
  <2>2. Invalidated(t, q)[i] = t[i]
    BY <1>1, <2>1 DEF Invalidated
  <2> QED BY <1>1, <1>2, <2>2
<1>4. ~Fence(r)
  BY DEF Select, Fence
<1> QED
  BY <1>3, <1>4 DEF Inert

LEMMA ClaimIsInert ==
    ASSUME RowsInv, CallsInv, NEW r \in Calls, Claim(r), NEW i, Guarded(r, i)
    PROVE  Inert(r, i)
<1> DEFINE q == call[r]
           t == Expired(rows)
<1>1. /\ t[i] = rows[i] /\ t[i].key # q.key
      /\ OfOwner(t, q.owner) = {i}
  BY OnlyLease DEF Guarded
<1>2. rows' = t
  BY <1>1 DEF Claim
<1>3. ~Fence(r)
  BY DEF Claim, Fence
<1> QED
  BY <1>1, <1>2, <1>3 DEF Inert

LEMMA FenceIsInert ==
    ASSUME RowsInv, CallsInv, NEW r \in Calls, Fence(r), NEW i, Guarded(r, i)
    PROVE  Inert(r, i)
<1>1. /\ rows' = Expired(rows) /\ rows'[i] = rows[i]
      /\ OfOwner(rows', call[r].owner) = {i}
  BY OnlyLease DEF Fence
<1>2. ~Fenced(rows', call[r])
  BY <1>1 DEF Fenced, Guarded
<1> QED
  BY <1>1, <1>2, NextPhase DEF Fence, Inert, Guarded

\* Of the steps in which call r goes on, none touches the lease or passes
\* the fence under it.
LEMMA StepIsInert ==
    ASSUME RowsInv, CallsInv, [Next]_vars, NEW r \in Calls, call'[r] # call[r],
           NEW i, Guarded(r, i)
    PROVE  Inert(r, i)
<1>1. ASSUME NEW s \in Calls,
             \/ Begin(s)
             \/ call[s] # Idle /\ \E e \in SUBSET (Connections \ call[s].tried) : Select(s, e)
             \/ PreflightBlocks(s) \/ Claim(s)
             \/ Fence(s) \/ Send(s) \/ Resend(s) \/ Answer(s)
      PROVE  s = r /\ ~Begin(s)
  <2>1. s = r
    <3>1. \A x \in Calls : x # s => call'[x] = call[x]
      BY <1>1 DEF Begin, Select, PreflightBlocks, Claim, Claimed, Fence, Send, Resend, Answer,
                  Finish, Again, CallsInv
    <3> QED BY <3>1
  <2> QED
    BY <2>1 DEF Begin, Guarded
<1>2. ASSUME NEW e, Select(r, e) PROVE Inert(r, i)
  BY <1>2, SelectIsInert
<1>3. CASE Claim(r)
  BY <1>3, ClaimIsInert
<1>4. CASE Fence(r)
  BY <1>4, FenceIsInert
<1>5. CASE PreflightBlocks(r)
  BY <1>5 DEF PreflightBlocks, Fence, Inert
<1>6. CASE Send(r) \/ Resend(r) \/ Answer(r)
  BY <1>6 DEF Send, Resend, Answer, Fence, Inert
<1>7. CASE Restart
  BY <1>7 DEF Restart, Inert
<1>8. ~ (UNCHANGED call)
  OBVIOUS
<1>9. ASSUME NEW s \in Calls,
              \/ Begin(s)
              \/ call[s] # Idle /\ \E e \in SUBSET (Connections \ call[s].tried) : Select(s, e)
              \/ PreflightBlocks(s) \/ Claim(s)
             \/ Fence(s) \/ Send(s) \/ Resend(s) \/ Answer(s)
       PROVE  Inert(r, i)
  BY <1>1, <1>2, <1>3, <1>4, <1>5, <1>6, <1>9
<1> QED
  BY <1>7, <1>8, <1>9 DEF Next, Renew, Release, Reconcile, Tick, vars

\* No call under another key changes a live lease or passes the fence under it, for any
\* owners, keys and calls, and however the lease changed hands meanwhile.
THEOREM ForeignKeyIsInertAlways == Spec => ForeignKeyIsInert
<1>1. ASSUME Inv, [Next]_vars
      PROVE  [\A r \in Calls, i \in DOMAIN rows :
                 /\ call[r] # Idle /\ call'[r] # call[r]
                 /\ rows[i].state = "ACTIVE" /\ rows[i].left > 0
                 /\ rows[i].owner = call[r].owner /\ rows[i].key # call[r].key
               => rows'[i] = rows[i] /\ ~(Fence(r) /\ call'[r] # Idle)]_vars
  BY <1>1, StepIsInert DEF Inv, Guarded, Inert
<1> QED
  BY <1>1, InvIsInvariant, PTL DEF Spec, ForeignKeyIsInert
-----------------------------------------------------------------------------
(* Every step of the table and of the calls is a step of LeaseRegistry, or     *)
(* leaves what the registry sees unchanged.                                    *)

LiveIn(t) == {j \in DOMAIN t : t[j].state = "ACTIVE" /\ t[j].left > 0}

LEMMA LeasesAreLive ==
    ASSUME NEW t
    PROVE  Leases(t) = {Lease(t[i]) : i \in LiveIn(t)}
  BY DEF Leases, LiveIn

\* No generation comes without a new row.
LEMMA GrantedStays ==
    ASSUME NEW t, NEW u, Evolves(t, u)
    PROVE  Granted(u) = Granted(t)
  BY DEF Evolves, Granted

LEMMA LeasesShrink ==
    ASSUME NEW t, NEW u,
           \A i \in LiveIn(u) : i \in LiveIn(t) /\ Lease(u[i]) = Lease(t[i])
    PROVE  Leases(u) \subseteq Leases(t)
<1> SUFFICES ASSUME NEW l \in Leases(u) PROVE l \in Leases(t)
  OBVIOUS
<1>1. PICK i \in LiveIn(u) : l = Lease(u[i])
  BY LeasesAreLive
<1>2. i \in LiveIn(t) /\ l = Lease(t[i])
  BY <1>1
<1> QED
  BY <1>2, LeasesAreLive

\* expire ends only what the registry no longer sees.
LEMMA ExpiredSeen ==
    ASSUME NEW t \in Seq(Row)
    PROVE  /\ Leases(Expired(t)) = Leases(t) /\ Granted(Expired(t)) = Granted(t)
           /\ \A i \in DOMAIN Expired(t) :
                 Expired(t)[i].state = "ACTIVE" => i \in LiveIn(Expired(t))
<1> DEFINE u == Expired(t)
<1>1. DOMAIN u = DOMAIN t
  BY DEF Expired
<1>2. ASSUME NEW i \in DOMAIN t
      PROVE  /\ u[i].state = "ACTIVE" => u[i] = t[i] /\ u[i].left > 0
             /\ i \in LiveIn(t) => u[i] = t[i]
  <2>1. t[i] \in Row
    OBVIOUS
  <2>2. t[i].left \in Int
    BY <2>1, RowFields, ConstantsAssumption
  <2>3. CASE t[i].state = "ACTIVE" /\ t[i].left <= 0
    <3>1. u[i] = Ended(t[i], "EXPIRED")
      BY <2>3 DEF Expired
    <3>2. u[i].state = "EXPIRED"
      BY <2>1, <3>1, EndedRow
    <3>3. i \notin LiveIn(t)
      BY <2>2, <2>3 DEF LiveIn
    <3> QED
      BY <3>2, <3>3
  <2>4. CASE ~(t[i].state = "ACTIVE" /\ t[i].left <= 0)
    <3>1. u[i] = t[i]
      BY <2>4 DEF Expired
    <3>2. t[i].state = "ACTIVE" => t[i].left > 0
      BY <2>2, <2>4
    <3> QED
      BY <3>1, <3>2
  <2> QED
    BY <2>3, <2>4
<1>3. Granted(u) = Granted(t)
  BY ExpiredEvolves, GrantedStays
<1> HIDE DEF u
<1>4. \A i \in LiveIn(u) : i \in LiveIn(t) /\ Lease(u[i]) = Lease(t[i])
  BY <1>1, <1>2 DEF LiveIn
<1>5. \A i \in LiveIn(t) : i \in LiveIn(u) /\ Lease(t[i]) = Lease(u[i])
  BY <1>1, <1>2 DEF LiveIn
<1>6. Leases(u) = Leases(t)
  <2>1. Leases(u) \subseteq Leases(t)
    BY <1>4, LeasesShrink
  <2>2. Leases(t) \subseteq Leases(u)
    BY <1>5, LeasesShrink
  <2> QED
    BY <2>1, <2>2
<1>7. \A i \in DOMAIN u : u[i].state = "ACTIVE" => i \in LiveIn(u)
  BY <1>1, <1>2 DEF LiveIn
<1> QED
  BY <1>3, <1>6, <1>7 DEF u

\* The rows in S have ended and the others stayed.
EndsIn(t, S, u) ==
    /\ DOMAIN u = DOMAIN t
    /\ \A i \in DOMAIN t : IF i \in S THEN u[i].state # "ACTIVE" ELSE u[i] = t[i]

LEMMA EndingSeen ==
    ASSUME NEW t, NEW S, NEW u, EndsIn(t, S, u)
    PROVE  /\ LiveIn(u) = LiveIn(t) \ S
           /\ \A i \in LiveIn(u) : Lease(u[i]) = Lease(t[i])
           /\ Leases(u) \subseteq Leases(t)
<1>1. LiveIn(u) = LiveIn(t) \ S
  BY DEF LiveIn, EndsIn
<1>2. \A i \in LiveIn(u) : i \in LiveIn(t) /\ Lease(u[i]) = Lease(t[i])
  <2> SUFFICES ASSUME NEW i \in LiveIn(u) PROVE i \in LiveIn(t) /\ Lease(u[i]) = Lease(t[i])
    OBVIOUS
  <2>1. i \in DOMAIN t \ S /\ i \in LiveIn(t)
    BY <1>1 DEF LiveIn
  <2>2. u[i] = t[i]
    BY <2>1 DEF EndsIn
  <2> QED
    BY <2>1, <2>2
<1> QED
  BY <1>1, <1>2, LeasesShrink

\* A new row is a new lease.
LEMMA InsertSeen ==
    ASSUME NEW t \in Seq(Row),
           NEW o \in Owners, NEW k \in Keys, NEW c \in Connections, NEW g \in Nat \ {0}
    PROVE  LET l == [owner |-> o, key |-> k, connection |-> c, generation |-> g]
               u == Insert(t, o, k, c, g)
           IN  /\ Leases(u) = Leases(t) \cup {l}
               /\ Granted(u) = Granted(t) \cup {<<o, g>>}
<1> DEFINE l == [owner |-> o, key |-> k, connection |-> c, generation |-> g]
           x == [owner |-> o, key |-> k, connection |-> c, generation |-> g,
                 state |-> "ACTIVE", left |-> Ttl]
           u == Append(t, x)
           n == Len(t) + 1
<1>1. x \in Row
  BY ConstantsAssumption DEF Row
<1>2. /\ x.owner = o /\ x.generation = g /\ x.state = "ACTIVE" /\ x.left > 0
      /\ Lease(x) = l
  BY ConstantsAssumption DEF Lease
<1> HIDE DEF x, l
<1>3. /\ DOMAIN t = 1..Len(t) /\ Len(t) \in Nat
      /\ DOMAIN u = 1..n /\ u[n] = x /\ \A i \in DOMAIN t : u[i] = t[i]
  BY <1>1
<1> HIDE DEF u
<1>4. DOMAIN u = DOMAIN t \cup {n} /\ n \notin DOMAIN t
  BY <1>3
<1> HIDE DEF n
<1>5. LiveIn(u) = LiveIn(t) \cup {n}
  BY <1>2, <1>3, <1>4 DEF LiveIn
<1>6. \A i \in LiveIn(t) : u[i] = t[i]
  BY <1>3 DEF LiveIn
<1>7. Leases(u) = Leases(t) \cup {l}
  <2>1. Leases(u) = {Lease(u[i]) : i \in LiveIn(t) \cup {n}}
    BY <1>5, LeasesAreLive
  <2>2. Leases(t) = {Lease(t[i]) : i \in LiveIn(t)}
    BY LeasesAreLive
  <2>3. {Lease(u[i]) : i \in LiveIn(t) \cup {n}} = {Lease(u[i]) : i \in LiveIn(t)} \cup {Lease(u[n])}
    OBVIOUS
  <2>4. {Lease(u[i]) : i \in LiveIn(t)} = {Lease(t[i]) : i \in LiveIn(t)}
    BY <1>6
  <2> QED
    BY <1>2, <1>3, <2>1, <2>2, <2>3, <2>4
<1>8. Granted(u) = Granted(t) \cup {<<o, g>>}
  <2>1. Granted(u) = {<<u[i].owner, u[i].generation>> : i \in DOMAIN t \cup {n}}
    BY <1>4 DEF Granted
  <2>2. {<<u[i].owner, u[i].generation>> : i \in DOMAIN t \cup {n}}
          = {<<u[i].owner, u[i].generation>> : i \in DOMAIN t} \cup {<<u[n].owner, u[n].generation>>}
    OBVIOUS
  <2>3. {<<u[i].owner, u[i].generation>> : i \in DOMAIN t} = Granted(t)
    BY <1>3 DEF Granted
  <2> QED
    BY <1>2, <1>3, <2>1, <2>2, <2>3
<1> QED
  BY <1>7, <1>8 DEF u, x, l, Insert

\* The row a transition takes the lease from was the only one with it.
LEMMA VacatedSeen ==
    ASSUME NEW t, TableInv(t), NEW i \in LiveIn(t)
    PROVE  Leases(Vacated(t, i)) = Leases(t) \ {Lease(t[i])}
<1> DEFINE u == Vacated(t, i)
<1>1. t \in Seq(Row) /\ i \in DOMAIN t /\ IndexesOf(t)
  BY DEF TableInv, LiveIn
<1>2. u = [j \in DOMAIN t |-> IF j \in {i} THEN Ended(t[j], "INVALIDATED") ELSE t[j]]
  BY <1>1 DEF Vacated
<1> HIDE DEF u
<1>3. /\ LiveIn(u) = LiveIn(t) \ {i}
      /\ \A j \in LiveIn(u) : Lease(u[j]) = Lease(t[j])
  <2>1. t[i] \in Row
    BY <1>1
  <2>2. Ended(t[i], "INVALIDATED").state = "INVALIDATED"
    BY <2>1, EndedRow
  <2>3. EndsIn(t, {i}, u)
    BY <1>2, <2>2 DEF EndsIn
  <2> QED
    BY <2>3, EndingSeen
<1>4. \A j \in LiveIn(t) \ {i} : Lease(t[j]) # Lease(t[i])
  <2>1. \A j \in LiveIn(t) \ {i} : t[j].owner # t[i].owner
    BY <1>1 DEF IndexesOf, LiveIn
  <2>2. \A j : Lease(t[j]).owner = t[j].owner
    BY DEF Lease
  <2> QED
    BY <2>1, <2>2
<1>5. Leases(u) = {Lease(t[j]) : j \in LiveIn(t) \ {i}}
  <2>1. Leases(u) = {Lease(u[j]) : j \in LiveIn(u)}
    BY LeasesAreLive
  <2>2. {Lease(u[j]) : j \in LiveIn(u)} = {Lease(t[j]) : j \in LiveIn(u)}
    BY <1>3
  <2> QED
    BY <1>3, <2>1, <2>2
<1>6. Leases(t) = {Lease(t[j]) : j \in LiveIn(t)}
  BY LeasesAreLive
<1>7. {Lease(t[j]) : j \in LiveIn(t) \ {i}} = {Lease(t[j]) : j \in LiveIn(t)} \ {Lease(t[i])}
  BY <1>4
<1> QED
  BY <1>5, <1>6, <1>7 DEF u


\* What a step shows the registry of the table, unless it inserts a row.
RowsEnd == Leases(rows') \subseteq Leases(rows) /\ Granted(rows') = Granted(rows)

LEMMA ExpiredRowsSeen ==
    ASSUME RowsInv, rows' = Expired(rows)
    PROVE  RowsEnd /\ Leases(rows') = Leases(rows)
  BY ExpiredSeen DEF RowsInv, TableInv, RowsEnd

LEMMA EndedRowsSeen ==
    ASSUME RowsInv, NEW S, NEW how \in {"RELEASED", "INVALIDATED"},
           rows' = [i \in DOMAIN Expired(rows) |->
                       IF i \in S THEN Ended(Expired(rows)[i], how) ELSE Expired(rows)[i]],
           \A i \in S : i \in DOMAIN Expired(rows) => Expired(rows)[i].state = "ACTIVE"
    PROVE  RowsEnd
<1> DEFINE t == Expired(rows)
<1>1. t \in Seq(Row) /\ Leases(t) = Leases(rows) /\ Granted(t) = Granted(rows)
  BY ExpiredTable, ExpiredSeen DEF RowsInv, TableInv
<1>2. rows' = [i \in DOMAIN t |-> IF i \in S THEN Ended(t[i], how) ELSE t[i]]
  OBVIOUS
<1>3. Evolves(t, rows')
  BY ExpiredTable, EndingEvolves
<1> HIDE DEF t
<1>4. EndsIn(t, S, rows')
  <2>1. ASSUME NEW i \in DOMAIN t
        PROVE  IF i \in S THEN rows'[i].state # "ACTIVE" ELSE rows'[i] = t[i]
    <3>1. t[i] \in Row
      BY <1>1
    <3>2. Ended(t[i], how).state # "ACTIVE"
      BY <3>1, EndedRow
    <3> QED
      BY <1>2, <3>2
  <2>2. DOMAIN rows' = DOMAIN t
    BY <1>2
  <2> QED
    BY <2>1, <2>2 DEF EndsIn
<1>5. Leases(rows') \subseteq Leases(t)
  BY <1>4, EndingSeen
<1> QED
  BY <1>1, <1>3, <1>5, GrantedStays DEF RowsEnd

\* renew gives a live lease more time and changes nothing else of it.
LEMMA RenewSeen ==
    ASSUME RowsInv, NEW o, NEW k, NEW g, Renew(o, k, g)
    PROVE  RowsEnd
<1> DEFINE t == Expired(rows)
           S == Named(t, o, k, g)
<1>1. t \in Seq(Row) /\ Leases(t) = Leases(rows) /\ Granted(t) = Granted(rows)
  BY ExpiredTable, ExpiredSeen DEF RowsInv, TableInv
<1>2. rows' = [i \in DOMAIN t |-> IF i \in S THEN [t[i] EXCEPT !.left = Ttl] ELSE t[i]]
  BY DEF Renew
<1>3. \A i \in S : i \in LiveIn(t)
  BY DEF Named, OfOwner, LiveIn
<1> HIDE DEF t, S
<1>4. ASSUME NEW i \in DOMAIN t
      PROVE  /\ i \notin S => rows'[i] = t[i]
             /\ Lease(rows'[i]) = Lease(t[i])
             /\ rows'[i].owner = t[i].owner /\ rows'[i].generation = t[i].generation
  <2>1. t[i] \in Row
    BY <1>1
  <2>2. rows'[i] \in {t[i], [t[i] EXCEPT !.left = Ttl]} /\ (i \notin S => rows'[i] = t[i])
    BY <1>2
  <2> QED
    BY <2>1, <2>2 DEF Row, Lease
<1>5. DOMAIN rows' = DOMAIN t
  BY <1>2
<1>6. \A i \in LiveIn(rows') : i \in LiveIn(t) /\ Lease(rows'[i]) = Lease(t[i])
  BY <1>3, <1>4, <1>5 DEF LiveIn
<1>7. Leases(rows') \subseteq Leases(t)
  BY <1>6, LeasesShrink
<1>8. Granted(rows') = Granted(t)
  BY <1>4, <1>5 DEF Granted
<1> QED
  BY <1>1, <1>7, <1>8 DEF RowsEnd

LEMMA ReleaseSeen ==
    ASSUME RowsInv, NEW o, NEW k, NEW g, Release(o, k, g)
    PROVE  RowsEnd
<1> DEFINE S == Named(Expired(rows), o, k, g)
<1>1. \A i \in S : Expired(rows)[i].state = "ACTIVE"
  BY DEF Named, OfOwner
<1>2. rows' = [i \in DOMAIN Expired(rows) |->
                  IF i \in S THEN Ended(Expired(rows)[i], "RELEASED") ELSE Expired(rows)[i]]
  BY DEF Release
<1> HIDE DEF S
<1> QED
  BY <1>1, <1>2, EndedRowsSeen

LEMMA InvalidatedSeen ==
    ASSUME RowsInv, NEW q, rows' = Invalidated(Expired(rows), q)
    PROVE  RowsEnd
<1> DEFINE S == {i \in Named(Expired(rows), q.owner, q.key, q.generation) : q.mode = "request"}
<1>1. \A i \in S : Expired(rows)[i].state = "ACTIVE"
  BY DEF Named, OfOwner
<1>2. rows' = [i \in DOMAIN Expired(rows) |->
                  IF i \in S THEN Ended(Expired(rows)[i], "INVALIDATED") ELSE Expired(rows)[i]]
  BY DEF Invalidated
<1> HIDE DEF S
<1> QED
  BY <1>1, <1>2, EndedRowsSeen

\* When time runs out the registry sees the lease end, whoever notices when.
LEMMA TickSeen ==
    ASSUME RowsInv, Tick
    PROVE  RowsEnd
<1>1. DOMAIN rows' = DOMAIN rows /\ rows \in Seq(Row)
  BY DEF Tick, RowsInv, TableInv
<1>2. ASSUME NEW i \in DOMAIN rows
      PROVE  /\ Lease(rows'[i]) = Lease(rows[i])
             /\ rows'[i].owner = rows[i].owner /\ rows'[i].generation = rows[i].generation
             /\ i \in LiveIn(rows') => i \in LiveIn(rows)
  <2>1. rows[i] \in Row
    BY <1>1
  <2>2. CASE rows[i].state = "ACTIVE" /\ rows[i].left > 0
    <3>1. rows'[i] = [rows[i] EXCEPT !.left = @ - 1]
      BY <2>2 DEF Tick
    <3> QED
      BY <2>1, <2>2, <3>1 DEF Row, Lease, LiveIn
  <2>3. CASE ~(rows[i].state = "ACTIVE" /\ rows[i].left > 0)
    <3>1. rows'[i] = rows[i]
      BY <2>3 DEF Tick
    <3> QED
      BY <1>1, <3>1 DEF LiveIn
  <2> QED
    BY <2>2, <2>3
<1>3. \A i \in LiveIn(rows') : i \in LiveIn(rows) /\ Lease(rows'[i]) = Lease(rows[i])
  BY <1>1, <1>2 DEF LiveIn
<1>4. Leases(rows') \subseteq Leases(rows)
  BY <1>3, LeasesShrink
<1>5. Granted(rows') = Granted(rows)
  BY <1>1, <1>2 DEF Granted
<1> QED
  BY <1>4, <1>5 DEF RowsEnd

-----------------------------------------------------------------------------
(* The calls the registry sees *)

PassedAt(q, x) == q[x] # Idle /\ q[x].phase \in {"fenced", "sent"}

LEMMA PassedIs ==
    ASSUME NEW q
    PROVE  Passed(q) = {<<x, Lease(q[x])>> : x \in {y \in Calls : PassedAt(q, y)}}
  BY DEF Passed, PassedAt

\* A step of one call that no executor has afterwards.
LEMMA OneCallSeen ==
    ASSUME NEW r \in Calls, \A x \in Calls \ {r} : call'[x] = call[x], ~PassedAt(call', r)
    PROVE  /\ Passed(call') \subseteq Passed(call)
           /\ ~PassedAt(call, r) => Passed(call') = Passed(call)
<1>1. \A x \in Calls : PassedAt(call', x) => x # r /\ PassedAt(call, x) /\ call'[x] = call[x]
  BY DEF PassedAt
<1>2. ~PassedAt(call, r) => \A x \in Calls : PassedAt(call, x) => PassedAt(call', x) /\ call'[x] = call[x]
  BY DEF PassedAt
<1>3. Passed(call') \subseteq Passed(call)
  BY <1>1, PassedIs
<1>4. ASSUME ~PassedAt(call, r) PROVE Passed(call) \subseteq Passed(call')
  BY <1>2, <1>4, PassedIs
<1> QED
  BY <1>3, <1>4

\* A step of a call touches no other one.
LEMMA OthersStay ==
    ASSUME CallsInv, NEW r \in Calls,
           \/ Finish(r) \/ Again(r) \/ Claimed(r) \/ Begin(r)
           \/ \E ph : call' = [call EXCEPT ![r].phase = ph]
           \/ \E c : call' = [call EXCEPT ![r].phase = "chosen", ![r].connection = c]
    PROVE  \A x \in Calls \ {r} : call'[x] = call[x]
  BY DEF CallsInv, Finish, Again, Claimed, Begin

\* Of the ways a call goes on, only the fence leads to an executor.
LEMMA NotPassedNext ==
    ASSUME CallsInv, NEW r \in Calls, call[r] # Idle,
           \/ Finish(r) \/ Again(r) \/ Claimed(r)
           \/ call' = [call EXCEPT ![r].phase = "claimed"]
           \/ \E c : call' = [call EXCEPT ![r].phase = "chosen", ![r].connection = c]
    PROVE  /\ Passed(call') \subseteq Passed(call)
           /\ ~PassedAt(call, r) => Passed(call') = Passed(call)
<1>1. \A x \in Calls \ {r} : call'[x] = call[x]
  BY OthersStay
<1>2. \/ call'[r] = Idle
      \/ call'[r].phase \in {"selecting", "claimed", "chosen"}
  BY NextPhase DEF Claimed
<1>3. ~PassedAt(call', r)
  BY <1>2 DEF PassedAt
<1> QED
  BY <1>1, <1>3, OneCallSeen DEF PassedAt

LEMMA BeginSeen ==
    ASSUME CallsInv, NEW r \in Calls, Begin(r)
    PROVE  Passed(call') = Passed(call)
<1>1. \A x \in Calls \ {r} : call'[x] = call[x]
  BY OthersStay
<1>2. call'[r].phase = "selecting"
  BY DEF Begin, CallsInv
<1>3. ~PassedAt(call', r) /\ ~PassedAt(call, r)
  BY <1>2 DEF PassedAt, Begin
<1> QED
  BY <1>1, <1>3, OneCallSeen

-----------------------------------------------------------------------------
(* Each action as a step of the registry *)

LEMMA EndIsEnd ==
    ASSUME RowsEnd, Passed(call') = Passed(call)
    PROVE  Registry!Next
  BY DEF RowsEnd, Registry!End, Registry!Next

LEMMA SelectStep ==
    ASSUME RowsInv, CallsInv, NEW r \in Calls, NEW e, Select(r, e)
    PROVE  Registry!Next
<1> DEFINE q == call[r]
           t == Expired(rows)
<1>1. call[r] # Idle /\ ~PassedAt(call, r)
  BY DEF Select, PassedAt
<1>2. /\ rows' = t \/ rows' = Invalidated(t, q)
      /\ \/ Finish(r)
         \/ \E c : call' = [call EXCEPT ![r].phase = "chosen", ![r].connection = c]
  BY DEF Select
<1>3. RowsEnd
  BY <1>2, ExpiredRowsSeen, InvalidatedSeen
<1>4. Passed(call') = Passed(call)
  BY <1>1, <1>2, NotPassedNext
<1> QED
  BY <1>3, <1>4, EndIsEnd

\* ACQUIRED: the owner holds nothing, nobody holds the connection, and the
\* generation is new.
LEMMA AcquiredGrants ==
    ASSUME NEW t, TableInv(t), Leases(t) = Leases(rows), Granted(t) = Granted(rows),
           NEW o \in Owners, NEW k \in Keys, NEW c \in Connections,
           OfOwner(t, o) = {}, OfConnection(t, c) = {},
           rows' = Insert(t, o, k, c, NextGeneration(t, o)),
           Passed(call') = Passed(call)
    PROVE  Registry!Next
<1> DEFINE g == NextGeneration(t, o)
           l == [owner |-> o, key |-> k, connection |-> c, generation |-> g]
<1>1. /\ g \in Nat \ {0}
      /\ \A i \in DOMAIN t : t[i].owner = o => t[i].generation < g
  BY NextGenerationIsNew
<1>2. t \in Seq(Row)
  BY DEF TableInv
<1>3. rows' = Insert(t, o, k, c, g)
  OBVIOUS
<1> HIDE DEF g
<1>4. Leases(rows') = Leases(rows) \cup {l} /\ Granted(rows') = Granted(rows) \cup {<<o, g>>}
  BY <1>1, <1>2, <1>3, InsertSeen
<1>5. /\ l \in Registry!Lease
      /\ l.owner = o /\ l.connection = c /\ l.generation = g
  BY <1>1 DEF Registry!Lease
<1>6. \A m \in Leases(rows) : m.owner # o /\ m.connection # c
  <2> SUFFICES ASSUME NEW m \in Leases(t) PROVE m.owner # o /\ m.connection # c
    OBVIOUS
  <2>1. PICK i \in LiveIn(t) : m = Lease(t[i])
    BY LeasesAreLive
  <2>2. t[i].owner # o /\ t[i].connection # c
    BY DEF LiveIn, OfOwner, OfConnection
  <2> QED
    BY <2>1, <2>2 DEF Lease
<1>7. \A p \in Granted(rows) : p[1] = o => p[2] < g
  <2> SUFFICES ASSUME NEW p \in Granted(t), p[1] = o PROVE p[2] < g
    OBVIOUS
  <2>1. PICK i \in DOMAIN t : p = <<t[i].owner, t[i].generation>>
    BY DEF Granted
  <2> QED
    BY <1>1, <2>1
<1> HIDE DEF l
<1>8. Registry!Grant(l)
  BY <1>4, <1>5, <1>6, <1>7 DEF Registry!Grant, Registry!Unheld
<1>9. l \in Leases(rows')
  BY <1>4
<1> QED
  BY <1>8, <1>9 DEF Registry!Next

\* TRANSITIONED: the lease moves as it is to a connection nobody holds.
LEMMA TransitionedMoves ==
    ASSUME NEW t, TableInv(t), Leases(t) = Leases(rows), Granted(t) = Granted(rows),
           NEW i \in LiveIn(t), NEW c \in Connections, OfConnection(t, c) = {},
           rows' = Insert(Vacated(t, i), t[i].owner, t[i].key, c, t[i].generation),
           Passed(call') = Passed(call)
    PROVE  Registry!Next
<1> DEFINE o == t[i].owner
           k == t[i].key
           g == t[i].generation
           u == Vacated(t, i)
           l == [owner |-> o, key |-> k, connection |-> c, generation |-> g]
<1>1. t \in Seq(Row) /\ i \in DOMAIN t /\ t[i] \in Row
  BY DEF TableInv, LiveIn
<1>2. o \in Owners /\ k \in Keys /\ g \in Nat \ {0}
  BY <1>1, RowFields
<1>3. i \in OfOwner(t, o)
  BY DEF OfOwner, LiveIn
<1>4. l = [Lease(t[i]) EXCEPT !.connection = c]
  BY DEF Lease
<1>5. <<o, g>> \in Granted(t)
  BY <1>1 DEF Granted
<1>6. rows' = Insert(u, o, k, c, g)
  OBVIOUS
<1>7. Leases(u) = Leases(t) \ {Lease(t[i])}
  BY VacatedSeen
<1> HIDE DEF o, k, g, u
<1>8. Evolves(t, u) /\ u \in Seq(Row)
  <2>1. Evolves(t, u)
    BY <1>2, <1>3, MovedGenerationFits DEF u
  <2> QED
    BY <2>1 DEF Evolves
<1>9. Leases(rows') = Leases(u) \cup {l} /\ Granted(rows') = Granted(u) \cup {<<o, g>>}
  BY <1>2, <1>6, <1>8, InsertSeen
<1>10. Granted(u) = Granted(t)
  BY <1>8, GrantedStays
<1>11. Lease(t[i]) \in Leases(rows)
  BY LeasesAreLive
<1>12. Registry!Unheld(c)
  <2> SUFFICES ASSUME NEW m \in Leases(t) PROVE m.connection # c
    BY DEF Registry!Unheld
  <2>1. PICK j \in LiveIn(t) : m = Lease(t[j])
    BY LeasesAreLive
  <2>2. t[j].connection # c
    BY DEF LiveIn, OfConnection
  <2> QED
    BY <2>1, <2>2 DEF Lease
<1> HIDE DEF l
<1>13. Registry!Move(Lease(t[i]), c)
  BY <1>4, <1>5, <1>7, <1>9, <1>10, <1>12 DEF Registry!Move
<1> QED
  BY <1>11, <1>13 DEF Registry!Next

LEMMA ClaimStep ==
    ASSUME RowsInv, CallsInv, NEW r \in Calls, Claim(r)
    PROVE  Registry!Next
<1> DEFINE q == call[r]
           t == Expired(rows)
           own == OfOwner(t, q.owner)
           free == OfConnection(t, q.connection) = {}
           stale(i) == \/ t[i].key # q.key
                       \/ q.mode = "request" /\ t[i].generation # q.generation
<1>1. call[r] # Idle /\ q.phase = "chosen"
  BY DEF Claim
<1>2. /\ q.owner \in Owners /\ q.key \in Keys /\ q.connection \in Connections
  BY <1>1 DEF CallsInv, Picked, Call
<1>3. /\ TableInv(t) /\ Leases(t) = Leases(rows) /\ Granted(t) = Granted(rows)
      /\ \A i \in DOMAIN t : t[i].state = "ACTIVE" => i \in LiveIn(t)
  BY ExpiredTable, ExpiredSeen DEF RowsInv, TableInv
<1>4. Finish(r) \/ Claimed(r) \/ Again(r)
  BY DEF Claim
<1>5. Passed(call') = Passed(call)
  BY <1>1, <1>4, NotPassedNext DEF PassedAt
<1>6. CASE rows' = t
  BY <1>5, <1>6, ExpiredRowsSeen, EndIsEnd
<1>7. CASE /\ own = {} /\ free
           /\ rows' = Insert(t, q.owner, q.key, q.connection, NextGeneration(t, q.owner))
  <2> HIDE DEF t, q
  <2> QED
    BY <1>2, <1>3, <1>5, <1>7, AcquiredGrants
<1>8. CASE \E i \in own :
              /\ ~stale(i) /\ free
              /\ rows' = Insert(Vacated(t, i), q.owner, q.key, q.connection, t[i].generation)
  <2>1. PICK i \in own :
              /\ ~stale(i) /\ free
              /\ rows' = Insert(Vacated(t, i), q.owner, q.key, q.connection, t[i].generation)
    BY <1>8
  <2>2. i \in LiveIn(t) /\ t[i].owner = q.owner /\ t[i].key = q.key
    BY <1>3, <2>1 DEF OfOwner
  <2> HIDE DEF t, q
  <2>3. rows' = Insert(Vacated(t, i), t[i].owner, t[i].key, q.connection, t[i].generation)
    BY <2>1, <2>2
  <2> QED
    BY <1>2, <1>3, <1>5, <2>1, <2>2, <2>3, TransitionedMoves
<1> QED
  BY <1>6, <1>7, <1>8 DEF Claim

\* A call that goes on inside its executor names the lease it named.
LEMMA HandedOn ==
    ASSUME CallsInv, NEW r \in Calls, call[r] # Idle, NEW ph \in {"fenced", "sent"},
           call' = [call EXCEPT ![r].phase = ph]
    PROVE  PassedAt(call', r) /\ Lease(call'[r]) = Lease(call[r])
<1>1. call[r] \in Call /\ r \in DOMAIN call
  BY DEF CallsInv, Picked
<1>2. call'[r] = [call[r] EXCEPT !.phase = ph]
  BY <1>1
<1>3. DOMAIN call'[r] = DOMAIN call[r] /\ "mode" \in DOMAIN call[r] /\ "mode" \notin DOMAIN Idle
  BY <1>1, <1>2 DEF Call, Idle
<1>4. call'[r] # Idle
  BY <1>3
<1> QED
  BY <1>1, <1>2, <1>4 DEF PassedAt, Call, Lease

\* A call that keeps its lease past the fence adds nothing to what has passed.
LEMMA PassedGrowsNot ==
    ASSUME NEW p, NEW q, NEW r \in Calls, PassedAt(p, r), PassedAt(q, r),
           Lease(q[r]) = Lease(p[r]), \A x \in Calls \ {r} : q[x] = p[x]
    PROVE  Passed(q) \subseteq Passed(p)
<1> SUFFICES ASSUME NEW e \in Passed(q) PROVE e \in Passed(p)
  OBVIOUS
<1>1. PICK x \in Calls : PassedAt(q, x) /\ e = <<x, Lease(q[x])>>
  BY PassedIs
<1>2. PassedAt(p, x) /\ e = <<x, Lease(p[x])>>
  <2>1. CASE x = r
    BY <1>1, <2>1
  <2>2. CASE x # r
    <3>1. q[x] = p[x]
      BY <2>2
    <3> QED
      BY <1>1, <3>1 DEF PassedAt
  <2> QED
    BY <2>1, <2>2
<1> QED
  BY <1>2, PassedIs

\* The executor's fetch and its own retries are no steps of the registry: it
\* does not see whether the lease is still in force.
LEMMA SendSeen ==
    ASSUME CallsInv, NEW r \in Calls, Send(r) \/ Resend(r)
    PROVE  Passed(call') = Passed(call) /\ rows' = rows
<1>1. PICK ph \in {"fenced", "sent"} : call' = [call EXCEPT ![r].phase = ph]
  BY DEF Send, Resend
<1>2. call[r] # Idle /\ PassedAt(call, r) /\ rows' = rows
  BY DEF Send, Resend, PassedAt
<1>3. PassedAt(call', r) /\ Lease(call'[r]) = Lease(call[r])
  BY <1>1, <1>2, HandedOn
<1>4. \A x \in Calls \ {r} : call'[x] = call[x]
  BY <1>1, OthersStay
<1>5. Passed(call') \subseteq Passed(call)
  BY <1>2, <1>3, <1>4, PassedGrowsNot
<1>6. Passed(call) \subseteq Passed(call')
  BY <1>2, <1>3, <1>4, PassedGrowsNot
<1> QED
  BY <1>2, <1>5, <1>6

\* A request that passes the fence does so under the lease it names; one that
\* does not pass goes to no executor.
LEMMA FenceStep ==
    ASSUME RowsInv, CallsInv, NEW r \in Calls, Fence(r)
    PROVE  Registry!Next
<1>1. /\ call[r] # Idle /\ call[r].phase = "claimed" /\ rows' = Expired(rows)
      /\ \/ Fenced(rows', call[r]) /\ call' = [call EXCEPT ![r].phase = "fenced"]
         \/ Finish(r)
  BY DEF Fence
<1>2. RowsEnd /\ Leases(rows') = Leases(rows)
  BY <1>1, ExpiredRowsSeen
<1>3. CASE Finish(r)
  BY <1>1, <1>2, <1>3, NotPassedNext, EndIsEnd DEF PassedAt
<1>4. CASE Fenced(rows', call[r]) /\ call' = [call EXCEPT ![r].phase = "fenced"]
  <2>1. PICK i \in OfOwner(rows', call[r].owner) :
           /\ rows'[i].generation = call[r].generation /\ rows'[i].key = call[r].key
           /\ rows'[i].connection = call[r].connection
    BY <1>4 DEF Fenced
  <2>2. i \in LiveIn(rows') /\ Lease(rows'[i]) = Lease(call[r])
    <3>1. i \in LiveIn(rows')
      BY <1>1, <2>1, ExpiredSeen DEF OfOwner, RowsInv, TableInv
    <3> QED
      BY <2>1, <3>1 DEF OfOwner, Lease
  <2>3. Lease(call[r]) \in Leases(rows)
    BY <1>2, <2>2, LeasesAreLive
  <2>4. ~PassedAt(call, r) /\ \A x \in Calls \ {r} : call'[x] = call[x]
    BY <1>1, <1>4, OthersStay DEF PassedAt
  <2>5. PassedAt(call', r) /\ Lease(call'[r]) = Lease(call[r])
    BY <1>1, <1>4, HandedOn
  <2>6. Passed(call') = Passed(call) \cup {<<r, Lease(call[r])>>}
    <3>1. {y \in Calls : PassedAt(call', y)} = {y \in Calls : PassedAt(call, y)} \cup {r}
      BY <2>4, <2>5 DEF PassedAt
    <3>2. \A y \in {x \in Calls : PassedAt(call, x)} : Lease(call'[y]) = Lease(call[y])
      BY <2>4
    <3> QED
      BY <2>5, <3>1, <3>2, PassedIs
  <2>7. \A p \in Passed(call) : p[1] # r
    BY <2>4, PassedIs
  <2>8. Registry!Pass(r, Lease(call[r]))
    BY <1>2, <2>6, <2>7 DEF RowsEnd, Registry!Pass
  <2> QED
    BY <2>3, <2>8 DEF Registry!Next
<1> QED
  BY <1>1, <1>3, <1>4

LEMMA AnswerStep ==
    ASSUME CallsInv, NEW r \in Calls, Answer(r)
    PROVE  Registry!Next
<1>1. /\ call[r] # Idle /\ rows' = rows
      /\ Finish(r) \/ Again(r) \/ call' = [call EXCEPT ![r].phase = "claimed"]
  BY DEF Answer
<1>2. Passed(call') \subseteq Passed(call)
  BY <1>1, NotPassedNext
<1> QED
  BY <1>1, <1>2 DEF Registry!Return, Registry!Next

\* The death of the process ends what executors do, not what is held.
LEMMA RestartStep ==
    ASSUME Restart
    PROVE  Registry!Next
<1>1. \A x \in Calls : ~PassedAt(call', x)
  BY DEF Restart, PassedAt
<1>2. Passed(call') \subseteq Passed(call)
  BY <1>1, PassedIs
<1> QED
  BY <1>2 DEF Restart, Registry!Return, Registry!Next

LEMMA RegistryStep ==
    ASSUME Inv, [Next]_vars
    PROVE  [Registry!Next]_(Registry!rvars)
<1>1. RowsInv /\ CallsInv
  BY DEF Inv
<1>2. ASSUME NEW o, NEW k, NEW g, Renew(o, k, g) \/ Release(o, k, g)
      PROVE  Registry!Next
  <2>1. RowsEnd
    BY <1>1, <1>2, RenewSeen, ReleaseSeen
  <2>2. call' = call
    BY <1>2 DEF Renew, Release
  <2> QED
    BY <2>1, <2>2, EndIsEnd
<1>3. CASE Reconcile
  BY <1>1, <1>3, ExpiredRowsSeen, EndIsEnd DEF Reconcile
<1>4. ASSUME NEW r \in Calls, Begin(r)
      PROVE  [Registry!Next]_(Registry!rvars)
  BY <1>1, <1>4, BeginSeen DEF Begin, Registry!rvars
<1>5. ASSUME NEW r \in Calls, NEW e, Select(r, e)
      PROVE  Registry!Next
  BY <1>1, <1>5, SelectStep
<1>6. ASSUME NEW r \in Calls, PreflightBlocks(r)
      PROVE  [Registry!Next]_(Registry!rvars)
  <2>1. call[r] # Idle /\ ~PassedAt(call, r) /\ Again(r) /\ rows' = rows
    BY <1>6 DEF PreflightBlocks, PassedAt
  <2>2. Passed(call') = Passed(call)
    BY <1>1, <2>1, NotPassedNext
  <2> QED
    BY <2>1, <2>2 DEF Registry!rvars
<1>7. ASSUME NEW r \in Calls, Claim(r) \/ Fence(r) \/ Answer(r)
      PROVE  Registry!Next
  BY <1>1, <1>7, ClaimStep, FenceStep, AnswerStep
<1>11. ASSUME NEW r \in Calls, Send(r) \/ Resend(r)
       PROVE  [Registry!Next]_(Registry!rvars)
  BY <1>1, <1>11, SendSeen DEF Registry!rvars
<1>8. CASE Restart
  BY <1>8, RestartStep
<1>9. CASE Tick
  BY <1>1, <1>9, TickSeen, EndIsEnd DEF Tick
<1>10. CASE UNCHANGED vars
  BY <1>10 DEF vars, Registry!rvars
<1> QED
  BY <1>2, <1>3, <1>4, <1>5, <1>6, <1>7, <1>8, <1>9, <1>10, <1>11 DEF Next

LEMMA RegistryInit == Init => Registry!Init
<1> SUFFICES ASSUME Init PROVE Registry!Init
  OBVIOUS
<1>1. DOMAIN rows = {}
  BY DEF Init
<1>2. Leases(rows) = {} /\ Granted(rows) = {}
  BY <1>1 DEF Leases, Granted
<1>3. \A x \in Calls : ~PassedAt(call, x)
  BY DEF Init, PassedAt
<1>4. Passed(call) = {}
  BY <1>3, PassedIs
<1> QED
  BY <1>2, <1>4 DEF Registry!Init

\* Selection, claim, transition, fence, renewal, release and expiry together are
\* a registry of exclusive leases (RESILIENCE_GUIDE.md:116), for any owners, keys,
\* connections and calls: what was chosen or claimed before an await never
\* grants, moves or hands to an executor what the registry would not.
THEOREM ImplementsRegistryHolds == Spec => ImplementsRegistry
<1>1. Inv /\ [Next]_vars => [Registry!Next]_(Registry!rvars)
  BY RegistryStep
<1> QED
  BY <1>1, InvIsInvariant, RegistryInit, PTL DEF Spec, ImplementsRegistry, Registry!Spec
=============================================================================
