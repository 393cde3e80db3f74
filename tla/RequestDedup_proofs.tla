------------------------- MODULE RequestDedup_proofs -------------------------
(***************************************************************************)
(* Proofs about RequestDedup for any requests, accounts and prompts and any  *)
(* size of the map.                                                          *)
(***************************************************************************)
EXTENDS RequestDedup, SequenceTheorems, TLAPS

-----------------------------------------------------------------------------
(* The map as a list *)

\* p lists what q lists, r excepted, nobody twice.
Without(p, q, r) ==
    /\ p \in Seq(Requests) /\ Len(p) <= Len(q)
    /\ \A k \in DOMAIN p : p[k] # r /\ \E i \in DOMAIN q : p[k] = q[i]
    /\ \A k, l \in DOMAIN p : p[k] = p[l] => k = l
    /\ \A i \in DOMAIN q : q[i] # r => \E k \in DOMAIN p : p[k] = q[i]

LEMMA ListShape ==
  ASSUME NEW q \in Seq(Requests)
  PROVE  /\ Len(q) \in Nat /\ DOMAIN q = 1..Len(q)
         /\ \A i \in 1..Len(q) : q[i] \in Requests
  BY LenProperties

\* Removing an element shifts those behind it.
LEMMA RemoveShape ==
  ASSUME NEW q \in Seq(Requests), NEW k \in 1..Len(q)
  PROVE  /\ RemoveAt(q, k) \in Seq(Requests)
         /\ Len(RemoveAt(q, k)) = Len(q) - 1
         /\ \A i \in 1..(Len(q) - 1) :
                RemoveAt(q, k)[i] = IF i < k THEN q[i] ELSE q[i + 1]
<1> DEFINE before == SubSeq(q, 1, k - 1)
<1> DEFINE after == SubSeq(q, k + 1, Len(q))
<1>1. Len(q) \in Nat /\ k \in Nat /\ \A i \in 1..Len(q) : q[i] \in Requests
  BY ListShape
<1>2. /\ before \in Seq(Requests) /\ Len(before) = k - 1
      /\ \A i \in 1..(k - 1) : before[i] = q[i]
  <2>1. /\ before \in Seq(Requests)
        /\ Len(before) = IF 1 <= k - 1 THEN (k - 1) - 1 + 1 ELSE 0
        /\ \A i \in 1..((k - 1) - 1 + 1) : before[i] = q[1 + i - 1]
    BY <1>1, SubSeqProperties
  <2> QED BY <1>1, <2>1
<1>3. /\ after \in Seq(Requests) /\ Len(after) = Len(q) - k
      /\ \A i \in 1..(Len(q) - k) : after[i] = q[k + i]
  <2>1. /\ after \in Seq(Requests)
        /\ Len(after) = IF k + 1 <= Len(q) THEN Len(q) - (k + 1) + 1 ELSE 0
        /\ \A i \in 1..(Len(q) - (k + 1) + 1) : after[i] = q[k + 1 + i - 1]
    BY <1>1, SubSeqProperties
  <2> QED BY <1>1, <2>1
<1>4. RemoveAt(q, k) = before \o after
  BY DEF RemoveAt
<1> HIDE DEF before, after
<1>5. /\ before \o after \in Seq(Requests)
      /\ Len(before \o after) = Len(before) + Len(after)
      /\ \A i \in 1..(Len(before) + Len(after)) :
             (before \o after)[i] = IF i <= Len(before) THEN before[i]
                                    ELSE after[i - Len(before)]
  BY <1>2, <1>3, ConcatProperties
<1>6. Len(before) + Len(after) = Len(q) - 1
  BY <1>1, <1>2, <1>3
<1>7. ASSUME NEW i \in 1..(Len(q) - 1)
      PROVE  (before \o after)[i] = IF i < k THEN q[i] ELSE q[i + 1]
  <2>1. CASE i < k
    <3>1. i \in 1..(k - 1) /\ i <= Len(before) /\ i \in 1..(Len(before) + Len(after))
      BY <1>1, <1>2, <1>6, <2>1
    <3> QED BY <1>2, <1>5, <2>1, <3>1
  <2>2. CASE ~ (i < k)
    <3>1. /\ ~ (i <= Len(before)) /\ i \in 1..(Len(before) + Len(after))
          /\ i - Len(before) \in 1..(Len(q) - k) /\ k + (i - Len(before)) = i + 1
      BY <1>1, <1>2, <1>6, <2>2
    <3>2. (before \o after)[i] = after[i - Len(before)]
      BY <1>5, <3>1
    <3>3. after[i - Len(before)] = q[k + (i - Len(before))]
      BY <1>3, <3>1
    <3> QED BY <2>2, <3>1, <3>2, <3>3
  <2> QED BY <2>1, <2>2
<1> QED BY <1>4, <1>5, <1>6, <1>7

Once(q) == \A i, j \in DOMAIN q : q[i] = q[j] => i = j

\* Removing the element at k leaves the others.
LEMMA RemoveLeavesOthers ==
  ASSUME NEW q \in Seq(Requests), Once(q), NEW k \in DOMAIN q
  PROVE  Without(RemoveAt(q, k), q, q[k])
<1> DEFINE p == RemoveAt(q, k)
<1> DEFINE Was(i) == IF i < k THEN i ELSE i + 1
<1>1. Len(q) \in Nat /\ DOMAIN q = 1..Len(q) /\ k \in 1..Len(q)
  BY ListShape
<1>2. /\ p \in Seq(Requests) /\ Len(p) = Len(q) - 1 /\ DOMAIN p = 1..Len(p)
      /\ \A i \in 1..(Len(q) - 1) : p[i] = IF i < k THEN q[i] ELSE q[i + 1]
  BY <1>1, RemoveShape, ListShape
<1> HIDE DEF p
<1>3. \A i \in DOMAIN p : Was(i) \in DOMAIN q /\ Was(i) # k /\ p[i] = q[Was(i)]
  BY <1>1, <1>2
<1>4. \A i, j \in DOMAIN p : Was(i) = Was(j) => i = j
  BY <1>1, <1>2
<1>5. ASSUME NEW i \in DOMAIN q, q[i] # q[k]
      PROVE  \E j \in DOMAIN p : p[j] = q[i]
  <2> DEFINE j == IF i < k THEN i ELSE i - 1
  <2>1. i # k
    BY <1>5
  <2>2. j \in DOMAIN p /\ Was(j) = i
    BY <1>1, <1>2, <2>1
  <2> HIDE DEF j, Was
  <2> QED BY <1>3, <2>2
<1> HIDE DEF Was
<1>6. \A i \in DOMAIN p : p[i] # q[k] /\ \E j \in DOMAIN q : p[i] = q[j]
  BY <1>3 DEF Once
<1>7. \A i, j \in DOMAIN p : p[i] = p[j] => i = j
  BY <1>3, <1>4 DEF Once
<1> QED BY <1>1, <1>2, <1>5, <1>6, <1>7 DEF Without, p

\* The entry of a call goes, if there is one, and no other.
LEMMA DelistedFacts ==
  ASSUME inflight \in Seq(Requests), Once(inflight), NEW r \in Requests
  PROVE  Without(Delisted(r), inflight, r)
<1>1. CASE \E i \in DOMAIN inflight : inflight[i] = r
  <2> DEFINE k == CHOOSE i \in DOMAIN inflight : inflight[i] = r
  <2>1. k \in DOMAIN inflight /\ inflight[k] = r
    BY <1>1
  <2>2. Delisted(r) = RemoveAt(inflight, k)
    BY <1>1 DEF Delisted
  <2> HIDE DEF k
  <2> QED BY <2>1, <2>2, RemoveLeavesOthers
<1>2. CASE ~ \E i \in DOMAIN inflight : inflight[i] = r
  <2>1. Delisted(r) = inflight
    BY <1>2 DEF Delisted
  <2>2. Len(inflight) \in Nat
    BY ListShape
  <2> QED BY <1>2, <2>1, <2>2 DEF Without, Once
<1> QED BY <1>1, <1>2

\* What makes room keeps a part of the list, with room for one more.
LEMMA RoomFacts ==
  ASSUME TypeOK, Once(inflight)
  PROVE  /\ Room \in Seq(Requests) /\ Len(Room) < MaxInflight
         /\ \A k \in DOMAIN Room : \E i \in DOMAIN inflight : Room[k] = inflight[i]
         /\ Once(Room)
<1>1. /\ inflight \in Seq(Requests) /\ Len(inflight) <= MaxInflight
      /\ MaxInflight \in Nat \ {0}
      /\ Len(inflight) \in Nat /\ DOMAIN inflight = 1..Len(inflight)
  BY ListShape, DedupAssumption DEF TypeOK
<1>2. CASE Len(inflight) >= MaxInflight
  <2>1. Len(inflight) # 0 /\ inflight # <<>>
    BY <1>1, <1>2, EmptySeq
  <2>2. /\ Tail(inflight) \in Seq(Requests)
        /\ Len(Tail(inflight)) = Len(inflight) - 1
        /\ \A i \in 1..Len(Tail(inflight)) : Tail(inflight)[i] = inflight[i + 1]
    BY <1>1, <2>1, HeadTailProperties
  <2>3. Room = Tail(inflight)
    BY <1>2 DEF Room
  <2>4. DOMAIN Room = 1..(Len(inflight) - 1)
    BY <2>2, <2>3, ListShape
  <2>5. \A k \in DOMAIN Room : k + 1 \in DOMAIN inflight /\ Room[k] = inflight[k + 1]
    BY <1>1, <2>2, <2>3, <2>4
  <2>6. Once(Room)
    <3> SUFFICES ASSUME NEW k \in DOMAIN Room, NEW l \in DOMAIN Room, Room[k] = Room[l]
                 PROVE  k = l
      BY DEF Once
    <3>1. k + 1 = l + 1
      BY <2>5 DEF Once
    <3> QED BY <1>1, <2>4, <3>1
  <2> QED BY <1>1, <2>2, <2>3, <2>5, <2>6
<1>3. CASE ~ (Len(inflight) >= MaxInflight)
  BY <1>1, <1>3 DEF Room
<1> QED BY <1>2, <1>3

-----------------------------------------------------------------------------
(* The invariant *)

\* A call that was not dropped is listed.
LeadersAreListed ==
    \A r \in Leading :
        r \notin lapsed \cup evicted => \E i \in DOMAIN inflight : inflight[i] = r

IInv == TypeOK /\ ListedIsRunning /\ LeadersAreListed /\ FollowersAreAttached

\* No call is listed twice, since no prompt is.
LEMMA ListedOnce == ListedIsRunning => Once(inflight)
  BY DEF ListedIsRunning, Once, Hash

LEMMA InitHolds == Init => IInv
<1> SUFFICES ASSUME Init PROVE IInv
  OBVIOUS
<1>1. inflight \in Seq(Requests) /\ Len(inflight) = 0 /\ DOMAIN inflight = {}
  BY EmptySeq, ListShape DEF Init
<1>2. \A r \in Requests : request[r].pc = "new"
  BY DEF Init, New
<1>3. TypeOK
  BY <1>1, DedupAssumption DEF Init, TypeOK, New, Positions, Phases
<1> QED
  BY <1>1, <1>2, <1>3
  DEF IInv, ListedIsRunning, LeadersAreListed, FollowersAreAttached, Leading, Waiting

\* A list made of listed calls that still run keeps the map sound.
LEMMA PartOfTheList ==
  ASSUME ListedIsRunning, NEW p, Once(p),
         \A k \in DOMAIN p : \E i \in DOMAIN inflight : p[k] = inflight[i],
         inflight' = p,
         \A k \in DOMAIN p : request'[p[k]].pc = "leading"
  PROVE  ListedIsRunning'
<1>1. ASSUME NEW k \in DOMAIN p, NEW l \in DOMAIN p, Hash(p[k]) = Hash(p[l])
      PROVE  k = l
  <2>1. PICK i \in DOMAIN inflight : p[k] = inflight[i]
    OBVIOUS
  <2>2. PICK j \in DOMAIN inflight : p[l] = inflight[j]
    OBVIOUS
  <2>3. i = j
    BY <1>1, <2>1, <2>2 DEF ListedIsRunning
  <2> QED BY <2>1, <2>2, <2>3 DEF Once
<1> QED BY <1>1 DEF ListedIsRunning, Hash

LEMMA JoinsKeeps ==
  ASSUME IInv, NEW r \in Requests, NEW a \in Accounts,
         request[r].pc = "new", Joins(r, a), UNCHANGED <<unusable, guilty>>
  PROVE  IInv'
<1>1. PICK i \in Listed(r) :
        request' = [request EXCEPT ![r] =
                       [pc |-> "following", on |-> {a}, call |-> {inflight[i]}]]
  BY DEF Joins
<1>2. /\ i \in DOMAIN inflight /\ Prompt[inflight[i]] = Prompt[r]
      /\ inflight[i] \in Requests /\ request[inflight[i]].pc = "leading"
  BY <1>1, ListShape DEF Listed, Hash, IInv, TypeOK, ListedIsRunning
<1>3. UNCHANGED <<inflight, lapsed, evicted, unusable, guilty>>
  BY DEF Joins
<1>4. /\ request \in [Requests -> Positions]
      /\ \A q \in Requests : q # r => request'[q] = request[q]
      /\ request'[r] = [pc |-> "following", on |-> {a}, call |-> {inflight[i]}]
  BY <1>1 DEF IInv, TypeOK
<1>5. TypeOK'
  <2>1. request'[r] \in Positions
    BY <1>2, <1>4 DEF Positions, Phases
  <2>2. request' \in [Requests -> Positions]
    BY <1>1, <1>4, <2>1
  <2> QED BY <1>3, <2>2 DEF IInv, TypeOK
<1>6. Leading' = Leading /\ Waiting' = Waiting \cup {r}
  BY <1>4 DEF Leading, Waiting
<1>7. ListedIsRunning'
  <2>1. \A j \in DOMAIN inflight : inflight[j] \in Leading
    BY ListShape DEF IInv, TypeOK, ListedIsRunning, Leading
  <2> QED BY <1>3, <1>6, <2>1 DEF IInv, ListedIsRunning, Leading, Hash
<1>8. LeadersAreListed'
  BY <1>3, <1>6 DEF IInv, LeadersAreListed
<1>9. FollowersAreAttached'
  <2>1. inflight[i] \in Leading
    BY <1>2 DEF Leading
  <2> QED BY <1>2, <1>4, <1>6, <2>1 DEF IInv, FollowersAreAttached, Waiting
<1> QED BY <1>5, <1>7, <1>8, <1>9 DEF IInv

LEMMA LeadsKeeps ==
  ASSUME IInv, NEW r \in Requests, NEW a \in Accounts,
         request[r].pc = "new", Leads(r, a), UNCHANGED <<unusable, guilty>>
  PROVE  IInv'
<1>1. /\ request \in [Requests -> Positions]
      /\ request' = [request EXCEPT ![r] = [pc |-> "leading", on |-> {a}, call |-> {r}]]
      /\ \A q \in Requests : q # r => request'[q] = request[q]
      /\ request'[r] = [pc |-> "leading", on |-> {a}, call |-> {r}]
  BY DEF Leads, IInv, TypeOK
<1>2. /\ Room \in Seq(Requests) /\ Len(Room) < MaxInflight /\ Once(Room)
      /\ \A k \in DOMAIN Room : \E i \in DOMAIN inflight : Room[k] = inflight[i]
  BY RoomFacts, ListedOnce DEF IInv
<1>3. /\ inflight' = Append(Room, r) /\ lapsed' = lapsed
      /\ evicted' = evicted \cup (ToSet(inflight) \ ToSet(Room))
  BY DEF Leads
<1>4. /\ inflight' \in Seq(Requests) /\ Len(inflight') = Len(Room) + 1
      /\ \A k \in 1..Len(Room) : inflight'[k] = Room[k]
      /\ inflight'[Len(Room) + 1] = r
  BY <1>2, <1>3, AppendProperties
<1>5. /\ Len(Room) \in Nat /\ DOMAIN Room = 1..Len(Room)
      /\ DOMAIN inflight' = DOMAIN Room \cup {Len(Room) + 1}
      /\ Len(Room) + 1 \notin DOMAIN Room
  BY <1>2, <1>4, ListShape
<1>6. \A i \in DOMAIN inflight : inflight[i] \in Requests /\ inflight[i] \in Leading
  BY ListShape DEF IInv, TypeOK, ListedIsRunning, Leading
<1>7. Leading' = Leading \cup {r} /\ Waiting' = Waiting /\ r \notin Waiting
  BY <1>1 DEF Leading, Waiting
<1>8. TypeOK'
  <2>1. Len(inflight') <= MaxInflight
    BY <1>2, <1>4, <1>5, DedupAssumption
  <2>2. evicted' \subseteq Requests
    BY <1>3, <1>6 DEF IInv, TypeOK, ToSet
  <2>3. request'[r] \in Positions
    BY <1>1 DEF Positions, Phases
  <2>4. request' \in [Requests -> Positions]
    BY <1>1, <2>3
  <2> QED BY <1>3, <1>4, <2>1, <2>2, <2>4 DEF IInv, TypeOK
<1>9. ListedIsRunning'
  <2>1. \A i \in DOMAIN inflight : Hash(inflight[i]) # Hash(r)
    BY DEF Leads, Listed
  <2>2. \A k \in DOMAIN Room : Hash(Room[k]) # Hash(r) /\ Room[k] \in Leading
    BY <1>2, <1>6, <2>1
  <2>3. ASSUME NEW k \in DOMAIN Room, NEW l \in DOMAIN Room, Hash(Room[k]) = Hash(Room[l])
        PROVE  k = l
    <3>1. PICK i \in DOMAIN inflight : Room[k] = inflight[i]
      BY <1>2
    <3>2. PICK j \in DOMAIN inflight : Room[l] = inflight[j]
      BY <1>2
    <3>3. i = j
      BY <2>3, <3>1, <3>2 DEF IInv, ListedIsRunning
    <3> QED BY <1>2, <3>1, <3>2, <3>3 DEF Once
  <2>4. \A k \in DOMAIN inflight' : inflight'[k] \in Leading'
    BY <1>4, <1>5, <1>7, <2>2
  <2>5. \A k, l \in DOMAIN inflight' : Hash(inflight'[k]) = Hash(inflight'[l]) => k = l
    BY <1>4, <1>5, <2>2, <2>3
  <2> QED BY <2>4, <2>5 DEF ListedIsRunning, Leading, Hash
<1>10. LeadersAreListed'
  <2> SUFFICES ASSUME NEW s \in Leading', s \notin lapsed', s \notin evicted'
               PROVE  \E k \in DOMAIN inflight' : inflight'[k] = s
    BY DEF LeadersAreListed
  <2>1. CASE s = r
    BY <1>4, <1>5, <2>1
  <2>2. CASE s # r
    <3>1. s \in Leading /\ s \notin lapsed \cup evicted
      BY <1>3, <1>7, <2>2
    <3>2. PICK i \in DOMAIN inflight : inflight[i] = s
      BY <3>1 DEF IInv, LeadersAreListed
    <3>3. s \in ToSet(inflight)
      BY <3>2 DEF ToSet
    <3>4. s \in ToSet(Room)
      BY <1>3, <3>3
    <3>5. PICK k \in DOMAIN Room : Room[k] = s
      BY <3>4 DEF ToSet
    <3> QED BY <1>4, <1>5, <3>5
  <2> QED BY <2>1, <2>2
<1>11. FollowersAreAttached'
  BY <1>1, <1>7 DEF IInv, FollowersAreAttached, Waiting, Leading
<1> QED BY <1>8, <1>9, <1>10, <1>11 DEF IInv

LEMMA TimerKeeps ==
  ASSUME IInv, NEW r \in Requests, TimerFires(r)
  PROVE  IInv'
<1>1. Without(inflight', inflight, r)
  BY DelistedFacts, ListedOnce DEF IInv, TypeOK, TimerFires
<1>2. UNCHANGED <<evicted, request, unusable, guilty>> /\ lapsed' = lapsed \cup {r}
  BY DEF TimerFires
<1>3. Len(inflight) \in Nat /\ Len(inflight') \in Nat /\ MaxInflight \in Nat
  BY <1>1, ListShape, DedupAssumption DEF IInv, TypeOK, Without
<1>4. TypeOK'
  BY <1>1, <1>2, <1>3 DEF IInv, TypeOK, Without
<1>5. ListedIsRunning'
  <2>1. \A k \in DOMAIN inflight' : request'[inflight'[k]].pc = "leading"
    BY <1>1, <1>2 DEF IInv, ListedIsRunning, Without
  <2>2. Once(inflight')
    BY <1>1 DEF Without, Once
  <2> QED BY <1>1, <2>1, <2>2, PartOfTheList DEF IInv, Without
<1>6. LeadersAreListed'
  BY <1>1, <1>2 DEF IInv, LeadersAreListed, Leading, Without
<1>7. FollowersAreAttached'
  BY <1>2 DEF IInv, FollowersAreAttached, Leading, Waiting
<1> QED BY <1>4, <1>5, <1>6, <1>7 DEF IInv

LEMMA SettleKeeps ==
  ASSUME IInv, NEW r \in Requests, NEW pc \in {"new", "answered", "failed"},
         request[r].pc = "leading", Settle(r, pc),
         unusable' \subseteq Accounts, guilty' \subseteq Accounts
  PROVE  IInv'
<1>1. Without(inflight', inflight, r)
  BY DelistedFacts, ListedOnce DEF IInv, TypeOK, Settle
<1>2. /\ lapsed' = lapsed \ {r} /\ evicted' = evicted \ {r}
      /\ request' = [q \in Requests |->
                        IF q \in Sharers(r) THEN [New EXCEPT !.pc = pc] ELSE request[q]]
  BY DEF Settle
<1>3. Len(inflight) \in Nat /\ Len(inflight') \in Nat /\ MaxInflight \in Nat
  BY <1>1, ListShape, DedupAssumption DEF IInv, TypeOK, Without
<1>4. /\ \A q \in Requests : q \in Sharers(r) => request'[q].pc = pc
      /\ \A q \in Requests : q \notin Sharers(r) => request'[q] = request[q]
      /\ \A q \in Requests : [New EXCEPT !.pc = pc].pc = pc
  BY <1>2 DEF New
<1>5. \A q \in Leading : q # r => q \notin Sharers(r)
  BY DEF Leading, Sharers, Waiting
<1>6. /\ Leading' = Leading \ {r}
      /\ Waiting' = {f \in Waiting : request[f].call # {r}}
      /\ \A q \in Leading' \cup Waiting' : request'[q] = request[q]
  BY <1>4, <1>5 DEF Leading, Waiting, Sharers
<1>7. TypeOK'
  <2>1. request' \in [Requests -> Positions]
    <3>1. [New EXCEPT !.pc = pc] \in Positions
      BY DEF New, Positions, Phases
    <3> QED BY <1>2, <3>1 DEF IInv, TypeOK
  <2>2. inflight' \in Seq(Requests) /\ Len(inflight') <= MaxInflight
    BY <1>1, <1>3 DEF IInv, TypeOK, Without
  <2> QED BY <1>2, <2>1, <2>2 DEF IInv, TypeOK
<1>8. ListedIsRunning'
  <2>1. \A i \in DOMAIN inflight : inflight[i] \in Leading
    BY ListShape DEF IInv, TypeOK, ListedIsRunning, Leading
  <2>2. \A k \in DOMAIN inflight' : inflight'[k] \in Leading'
    BY <1>1, <1>6, <2>1 DEF Without
  <2>3. Once(inflight')
    BY <1>1 DEF Without, Once
  <2> QED BY <1>1, <2>2, <2>3, PartOfTheList DEF IInv, Without, Leading
<1>9. LeadersAreListed'
  BY <1>1, <1>2, <1>6 DEF IInv, LeadersAreListed, Without
<1>10. FollowersAreAttached'
  <2> SUFFICES ASSUME NEW f \in Waiting'
               PROVE  \E s \in Leading' : request'[f].call = {s} /\ Prompt[s] = Prompt[f]
    BY DEF FollowersAreAttached
  <2>1. f \in Waiting /\ request[f].call # {r} /\ request'[f] = request[f]
    BY <1>6
  <2>2. PICK s \in Leading : request[f].call = {s} /\ Prompt[s] = Prompt[f]
    BY <2>1 DEF IInv, FollowersAreAttached
  <2> QED BY <1>6, <2>1, <2>2
<1> QED BY <1>7, <1>8, <1>9, <1>10 DEF IInv

\* A request that gives up leads and follows nothing.
LEMMA GivesUpKeeps ==
  ASSUME IInv, NEW r \in Requests, GivesUp(r)
  PROVE  IInv'
<1>1. /\ request \in [Requests -> Positions]
      /\ request' = [request EXCEPT ![r].pc = "failed"] /\ request[r].pc = "new"
      /\ UNCHANGED <<inflight, lapsed, evicted, unusable, guilty>>
  BY DEF GivesUp, IInv, TypeOK
<1>2. /\ \A q \in Requests : q # r => request'[q] = request[q]
      /\ request'[r].pc = "failed"
  BY <1>1
<1>3. Leading' = Leading /\ Waiting' = Waiting /\ r \notin Leading /\ r \notin Waiting
  BY <1>1, <1>2 DEF Leading, Waiting
<1>4. TypeOK'
  <2>1. request'[r] \in Positions
    BY <1>1 DEF Positions, Phases
  <2>2. request' \in [Requests -> Positions]
    BY <1>1, <1>2, <2>1
  <2> QED BY <1>1, <2>2 DEF IInv, TypeOK
<1>5. ListedIsRunning'
  <2>1. \A i \in DOMAIN inflight : inflight[i] \in Leading
    BY ListShape DEF IInv, TypeOK, ListedIsRunning, Leading
  <2> QED BY <1>1, <1>3, <2>1 DEF IInv, ListedIsRunning, Leading, Hash
<1>6. LeadersAreListed'
  BY <1>1, <1>3 DEF IInv, LeadersAreListed
<1>7. FollowersAreAttached'
  BY <1>2, <1>3 DEF IInv, FollowersAreAttached, Waiting
<1> QED BY <1>4, <1>5, <1>6, <1>7 DEF IInv

LEMMA StepHolds == IInv /\ [Next]_vars => IInv'
<1> SUFFICES ASSUME IInv, [Next]_vars PROVE IInv'
  OBVIOUS
<1>1. ASSUME NEW r \in Requests, Start(r) PROVE IInv'
  <2>1. PICK a \in Accounts : Joins(r, a) \/ Leads(r, a)
    BY <1>1 DEF Start
  <2>2. request[r].pc = "new" /\ UNCHANGED <<unusable, guilty>>
    BY <1>1 DEF Start
  <2> QED BY <2>1, <2>2, JoinsKeeps, LeadsKeeps
<1>2. ASSUME NEW r \in Requests, GivesUp(r) PROVE IInv'
  BY <1>2, GivesUpKeeps
<1>3. ASSUME NEW r \in Requests, TimerFires(r) PROVE IInv'
  BY <1>3, TimerKeeps
<1>4. ASSUME NEW r \in Requests, Answers(r) PROVE IInv'
  BY <1>4, SettleKeeps DEF Answers, IInv, TypeOK
<1>5. ASSUME NEW r \in Requests, Throws(r) PROVE IInv'
  BY <1>5, SettleKeeps DEF Throws, IInv, TypeOK
<1>6. ASSUME NEW r \in Requests, Rejects(r) PROVE IInv'
  <2>1. \A q \in Requests : request[q].on \subseteq Accounts
    BY DEF IInv, TypeOK, Positions
  <2>2. Sharers(r) \subseteq Requests
    BY DEF Sharers, Waiting
  <2>3. unusable' \subseteq Accounts /\ guilty' \subseteq Accounts
    BY <1>6, <2>1, <2>2 DEF Rejects, IInv, TypeOK
  <2> QED BY <1>6, <2>3, SettleKeeps DEF Rejects
<1>7. CASE UNCHANGED vars
  BY <1>7 DEF vars, IInv, TypeOK, ListedIsRunning, LeadersAreListed,
              FollowersAreAttached, Leading, Waiting, Hash
<1> QED BY <1>1, <1>2, <1>3, <1>4, <1>5, <1>6, <1>7 DEF Next, Done

-----------------------------------------------------------------------------
(* Results *)

\* The map, the calls and the requests keep their types; the map its bound.
THEOREM DedupTypes == Spec => []TypeOK
<1>1. IInv => TypeOK
  BY DEF IInv
<1> QED BY <1>1, InitHolds, StepHolds, PTL DEF Spec

\* deduplicate lists only running calls, one for a prompt.
THEOREM ListedIsRunningAlways == Spec => []ListedIsRunning
<1>1. IInv => ListedIsRunning
  BY DEF IInv
<1> QED BY <1>1, InitHolds, StepHolds, PTL DEF Spec

\* Two calls for one prompt run together only if one of them was dropped.
THEOREM OneCallHolds == Spec => []OneCallPerPrompt
<1>1. IInv => OneCallPerPrompt
  BY DEF IInv, ListedIsRunning, LeadersAreListed, OneCallPerPrompt
<1> QED BY <1>1, InitHolds, StepHolds, PTL DEF Spec

\* A follower's promise is that of a running call for its own prompt.
THEOREM FollowersHold == Spec => []FollowersAreAttached
<1>1. IInv => FollowersAreAttached
  BY DEF IInv
<1> QED BY <1>1, InitHolds, StepHolds, PTL DEF Spec
=============================================================================
