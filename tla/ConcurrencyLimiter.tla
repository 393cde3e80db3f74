-------------------------- MODULE ConcurrencyLimiter --------------------------
(***************************************************************************)
(* What a per-account concurrency limiter promises its callers, with no    *)
(* gates, timers or cooldowns: no call is let in beyond the cap in force   *)
(* when it is let in, those that wait are let in from the front of the     *)
(* queue, and each caller is in one place at a time.  A lowered cap evicts *)
(* nobody, and a newcomer may find a slot before the queue does.           *)
(***************************************************************************)
EXTENDS Naturals, FiniteSets, Sequences, SequencesExt

CONSTANT Clients

VARIABLES
    inside,    \* calls holding a slot
    waiting,   \* calls waiting, first come first
    cap        \* the configured maximum

lvars == <<inside, waiting, cap>>

Init ==
    /\ inside = {}
    /\ waiting = <<>>
    /\ cap \in Nat

\* inside' is reached from `base' by letting the first n waiters in.
LetIn(base, n) ==
    /\ inside' = base \cup ToSet(SubSeq(waiting, 1, n))
    /\ waiting' = SubSeq(waiting, n + 1, Len(waiting))
    /\ n > 0 => Cardinality(inside') <= cap

Enter(c) ==
    /\ c \notin inside \cup ToSet(waiting)
    /\ cap' \in Nat
    /\ \/ inside' = inside \cup {c} /\ Cardinality(inside') <= cap' /\ UNCHANGED waiting
       \/ waiting' = Append(waiting, c) /\ UNCHANGED inside
       \/ UNCHANGED <<inside, waiting>>        \* turned away

Leave(c) ==
    /\ c \in inside
    /\ UNCHANGED cap
    /\ \E n \in 0..Len(waiting) : LetIn(inside \ {c}, n)

GiveUp(c) ==
    /\ \E i \in DOMAIN waiting : waiting[i] = c /\ waiting' = RemoveAt(waiting, i)
    /\ UNCHANGED <<inside, cap>>

Admit == UNCHANGED cap /\ \E n \in 0..Len(waiting) : LetIn(inside, n)

\* The limiter may change or forget its configuration when nobody waits.
Configure == cap' \in Nat /\ waiting = <<>> /\ UNCHANGED <<inside, waiting>>

Next ==
    \/ \E c \in Clients : Enter(c) \/ Leave(c) \/ GiveUp(c)
    \/ Admit
    \/ Configure

Spec == Init /\ [][Next]_lvars
=============================================================================
