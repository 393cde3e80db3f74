----------------------------- MODULE LeaseRegistry -----------------------------
(***************************************************************************)
(* What exclusive connection leases promise, with no table, no clock and   *)
(* no calls under way: an owner holds one connection at most and a         *)
(* connection has one holder at most; a generation is granted once; a      *)
(* lease moves only to a connection nobody holds, and keeps owner, key and *)
(* generation; and a request is passed on to an executor only under the    *)
(* lease it names, while that is held.  What the executor does later, when *)
(* the lease may have ended or moved, is no part of the promise.           *)
(***************************************************************************)
EXTENDS Naturals

CONSTANTS Owners, Keys, Connections, Calls

Lease == [owner : Owners, key : Keys, connection : Connections, generation : Nat \ {0}]

VARIABLES
    held,        \* the leases in force
    granted,     \* every owner with each generation it was ever granted
    passed       \* requests an executor works on, each with the lease it names

rvars == <<held, granted, passed>>

Init == held = {} /\ granted = {} /\ passed = {}

Unheld(c) == \A l \in held : l.connection # c

Grant(l) ==
    /\ l \in Lease
    /\ Unheld(l.connection) /\ \A m \in held : m.owner # l.owner
    /\ \A p \in granted : p[1] = l.owner => p[2] < l.generation
    /\ held' = held \cup {l}
    /\ granted' = granted \cup {<<l.owner, l.generation>>}
    /\ UNCHANGED passed

Move(l, c) ==
    /\ Unheld(c)
    /\ held' = (held \ {l}) \cup {[l EXCEPT !.connection = c]}
    /\ UNCHANGED <<granted, passed>>

\* Leases are released or invalidated, or their time is over.
End == held' \subseteq held /\ UNCHANGED <<granted, passed>>

Pass(r, l) ==
    /\ \A p \in passed : p[1] # r
    /\ passed' = passed \cup {<<r, l>>}
    /\ UNCHANGED <<held, granted>>

\* Requests come back, or their process dies.
Return == passed' \subseteq passed /\ UNCHANGED <<held, granted>>

Next ==
    \/ End
    \/ Return
    \/ \E l \in held : \/ \E r \in Calls : Pass(r, l)
                       \/ \E c \in Connections : Move(l, c)
    \/ \E l \in held' : Grant(l)

Spec == Init /\ [][Next]_rvars
=============================================================================
