------------------------ MODULE CoalescingProperties ------------------------
(***************************************************************************)
(* What the refresh of one key has to guarantee (Coalescing).              *)
(***************************************************************************)
EXTENDS Coalescing

\* ------------------------------- invariants -------------------------------

\* The lock of _acquireLock() excludes: two requests, of any workers, never
\* both hold it between the reply to SET NX and the release that follows the
\* last cache write.  (Leases longer than a refresh, no wildcard purge.)
MutualExclusion ==
  \A r, q \in Requests : Critical(r) /\ Critical(q) => r = q

\* README, "Request coalescing": identical requests are not sent to the origin
\* simultaneously, whatever the instance they reached.
OriginRequests == {r \in Requests : fetch[r].state = "sent"}
OneOriginRequest == \A r, q \in OriginRequests : r = q

\* With local coalescing alone the promise holds within a worker: looking the
\* key up in ongoingFetch and publishing the promise is not interrupted.
OnePerWorker ==
  \A r, q \in OriginRequests : WorkerOf[r] = WorkerOf[q] => r = q

\* Why both hold (the inductive invariant of their proofs): a request that was
\* granted the lock is its owner until it releases it, and a fetch under way
\* belongs to a request that awaits it, under the lock if there is one and in
\* the Map if the Map alone keeps the others away.
LockHeld ==
  \A r \in Requests : locked[r] =>
    /\ pc[r] \in Holding \cup {"release", "abort"}
    /\ pc[r] \in Holding => lock = r
FetchOwned ==
  \A r \in Requests : fetch[r].state \in {"sent", "answered"} =>
    /\ pc[r] = "fetch" /\ Fetcher(r)
    /\ Distributed => locked[r]
    /\ Local /\ ~Distributed => ongoingFetch[WorkerOf[r]] = r
LockedOnlyIfDistributed ==
  \A r \in Requests : /\ locked[r] => Distributed
                      /\ pc[r] = "abort" => locked[r]
RefreshInv == LockHeld /\ FetchOwned /\ LockedOnlyIfDistributed

\* A validator is never attached to another version's body, neither in Redis
\* (a JSON.MERGE after a 304 touches the headers only) nor in an answer (a
\* follower combines its own cached body with the headers of a shared 304).
NoMixedEntry ==
  /\ entry # None => entry.body \in {None, entry.etag}
  /\ \A r \in Requests : resp[r].body \in {None, resp[r].etag}

\* ongoingFetch only holds promises that are still being worked on: a dead one
\* would be joined by every later request for the key.
NoDeadPromise ==
  \A w \in Workers : ongoingFetch[w] # None =>
    LET f == ongoingFetch[w]
    IN WorkerOf[f] = w /\ pc[f] \in {"fetch", "abort"}

\* As long as commands and workers do not fail, every path of _get() through a
\* held lock releases it: it does not stay until its lease ends.
NoLeakedLock == lock # None => Critical(lock)

\* A complete entry is either given an expiry or about to be: a refresh that
\* overlaps another's two commands never leaves one without (ttl > 0).
EntryExpires ==
  entry # None /\ entry.body # None =>
    entry.ttl \/ \E r \in Requests : pc[r] = "write"

\* doc/CacheStatus.md: CACHE_HIT_REVALIDATED_304 is the cached entry, which the
\* origin has confirmed by its 304 to be the current representation.
NotModifiedIsCurrent ==
  \A r \in Requests :
    resp[r].status = "CACHE_HIT_REVALIDATED_304" => resp[r].body = resp[r].etag

\* ---------------------------- action properties ---------------------------

\* No request takes a lock away from another, not even one that has outlived
\* its lease and releases late, when a successor holds the lock: a lock is
\* removed by the release of its owner, from its critical section, or not by a
\* request at all but by the end of its lease or by a wildcard purge, whose
\* pattern matches <key>.lock whoever holds it (where Purges allows that one).
OnlyOwnerUnlocks ==
  [][lock # None /\ lock' # lock =>
       \/ Critical(lock) /\ pc'[lock] \in {"release", "abort"}
       \/ LockExpires
       \/ PurgeLock]_vars

\* ------------------------------- liveness ---------------------------------

\* Whatever happens to the fetch it waits for (an origin that never answers, a
\* rejected promise, a lock nobody releases), a request is answered.
Served == \A r \in Requests : pc[r] = "get" ~> pc[r] \in {"done", "crashed"}

\* ------------------------------- refinement -------------------------------

\* The detailed design implements SingleFlight: the refresher is the request in
\* its critical section, the copy is the body of the entry.
refresher == IF \E r \in Requests : Critical(r)
             THEN CHOOSE r \in Requests : Critical(r) ELSE None
Abstract == INSTANCE SingleFlight WITH
  copy <- IF entry = None THEN None ELSE entry.body
ImplementsSingleFlight == Abstract!Spec
=============================================================================
