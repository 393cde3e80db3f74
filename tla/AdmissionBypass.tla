-------------------------- MODULE AdmissionBypass --------------------------
(***************************************************************************)
(* Admission with the history of each waiting request: how many later        *)
(* arrivals were admitted before it.                                         *)
(***************************************************************************)
EXTENDS Admission

CONSTANT MaxBypassed    \* the bound under test; the history stops one above it

VARIABLE bypassed

NotAfter(r) == ToSet(SubSeq(queue.line, 1, SelectInSeq(queue.line, LAMBDA s : s = r)))

Overtakers(r) == (active' \ active) \ NotAfter(r)

BypassInit == Init /\ bypassed = [r \in Requests |-> 0]

BypassStep ==
    bypassed' = [r \in Requests |->
        IF r \notin Waiting' \cap Waiting THEN 0
        ELSE IF bypassed[r] > MaxBypassed THEN bypassed[r]
        ELSE bypassed[r] + Cardinality(Overtakers(r))]

BypassNext == Next /\ BypassStep

BypassSpec == BypassInit /\ [][BypassNext]_<<vars, bypassed>>

(* "bounds starvation of an older unfittable cost-6 behind a stream of cost-2  *)
(* work" (adaptive-admission-controller.test.ts:636): a request does not wait  *)
(* while more than MaxBypassed requests that came after it are admitted.       *)
BypassIsBounded == \A r \in Requests : bypassed[r] <= MaxBypassed

=============================================================================
