---------------------------- MODULE MCCoalescing ----------------------------
(***************************************************************************)
(* Instances of Coalescing for TLC, and the properties they are checked    *)
(* against.                                                                *)
(***************************************************************************)
EXTENDS CoalescingProperties, TLC

CONSTANTS r1, r2, r3, w1, w2

\* Two requests at one worker, the third at the other.
TwoWorkers == [r \in Requests |-> IF r = r3 THEN w2 ELSE w1]
OneWorker == [r \in Requests |-> w1]

\* Requests of the same worker are interchangeable.
SameWorker == Permutations({r1, r2})
AnyRequest == Permutations(Requests)
=============================================================================
