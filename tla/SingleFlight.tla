---------------------------- MODULE SingleFlight ----------------------------
(***************************************************************************)
(* What request coalescing promises for one cache key, whatever locks,     *)
(* leases, promises and retries are behind it: at any time at most one     *)
(* request may fetch the resource or write the entry, and the copy that    *)
(* such refreshes leave in the cache never goes back to an older version.  *)
(***************************************************************************)
EXTENDS Integers

CONSTANTS Requests, Versions, None

VARIABLES
  refresher,   \* the request entitled to fetch and to write, or None
  copy         \* the version of the body in the cache, or None

vars == <<refresher, copy>>

Init == refresher = None /\ copy = None

Begin(r) == refresher = None /\ refresher' = r /\ UNCHANGED copy

Write(v) == /\ refresher # None
            /\ copy = None \/ v >= copy
            /\ copy' = v
            /\ UNCHANGED refresher

Remove == copy' = None /\ UNCHANGED refresher

End == refresher' = None /\ UNCHANGED copy

Next ==
  \/ \E r \in Requests : Begin(r)
  \/ \E v \in Versions : Write(v)
  \/ Remove
  \/ End

Spec == Init /\ [][Next]_vars
=============================================================================
