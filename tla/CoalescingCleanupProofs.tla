----------------------- MODULE CoalescingCleanupProofs -----------------------
(***************************************************************************)
(* Proofs about what a refresh leaves behind (Coalescing): its promise in  *)
(* the Map, its lock in Redis, its entry without an expiry.                *)
(***************************************************************************)
EXTENDS CoalescingProofs

-----------------------------------------------------------------------------
(* The promise *)

\* A promise in the Map is that of a request of the worker that awaits it, or
\* awaits the release of the lock before it deletes it.
PromiseHeld ==
  \A w \in Workers : ongoingFetch[w] # None =>
    LET f == ongoingFetch[w]
    IN f \in Requests /\ WorkerOf[f] = w /\ pc[f] \in {"fetch", "abort"} /\ Fetcher(f) /\ Local

\* A handler of r leaves the Map alone, publishes r's own promise, or takes the
\* worker's promise out, as it must if r stops waiting.
LEMMA HandlerPromise ==
  ASSUME TypeOK, PromiseHeld, NEW r \in Requests, Handle(r)
  PROVE  /\ \/ /\ ongoingFetch' = ongoingFetch
               /\ ongoingFetch[WorkerOf[r]] = r => pc'[r] \in {"fetch", "abort"} /\ fetchOf'[r] = r
            \/ /\ Local /\ ongoingFetch' = [ongoingFetch EXCEPT ![WorkerOf[r]] = r]
               /\ pc'[r] = "fetch" /\ fetchOf'[r] = r
            \/ ongoingFetch' = [ongoingFetch EXCEPT ![WorkerOf[r]] = None]
         /\ \A q \in Requests \ {r} : pc'[q] = pc[q] /\ fetchOf'[q] = fetchOf[q]
<1>0. /\ WorkerOf[r] \in Workers
      /\ ongoingFetch[WorkerOf[r]] = r => pc[r] \in {"fetch", "abort"} /\ Fetcher(r) /\ Local
  BY WorkersAssumption DEF PromiseHeld
<1> USE DEF TypeOK, Issue, Leave, Respond, Awaiting, Fetcher
<1>1. CASE ServeFromCache(r) \/ Join(r) \/ TryLock(r)
  BY <1>0, <1>1 DEF ServeFromCache, Join, TryLock
<1>2. CASE StartFetch(r) \/ GotLock(r)
  BY <1>0, <1>2 DEF StartFetch, GotLock, Launch
<1>3. CASE NoLock(r) \/ GiveUp(r) \/ Retry(r)
  BY <1>0, <1>3 DEF NoLock, GiveUp, Retry, Get
<1>4. CASE RejectLocked(r) \/ Aborted(r)
  BY <1>0, <1>4 DEF RejectLocked, Aborted, Forget, Resuming
<1>5. CASE RejectUnlocked(r) \/ Throws(r)
  BY <1>0, <1>5 DEF RejectUnlocked, Throws, Forget
<1>6. CASE Store(r) \/ Unlink(r)
  BY <1>0, <1>6 DEF Store, Unlink, Forget
<1>7. CASE SetExpiry(r) \/ Released(r)
  BY <1>0, <1>7 DEF SetExpiry, Released
<1>8. CASE PassOn(r) \/ Updated(r)
  <2>1. ReleaseOrRespond(r)
    BY <1>8 DEF PassOn, Updated
  <2>2. \A q \in Requests \ {r} : pc'[q] = pc[q]
    BY <2>1 DEF ReleaseOrRespond
  <2>3. CASE PassOn(r)
    <3>1. fetchOf' = fetchOf /\ Forget(r)
      BY <2>3 DEF PassOn
    <3> QED BY <1>0, <2>2, <3>1 DEF Forget
  <2>4. CASE Updated(r)
    <3>1. fetchOf' = fetchOf /\ ongoingFetch' = ongoingFetch /\ pc[r] = "update"
      BY <2>4 DEF Updated
    <3> QED BY <1>0, <2>2, <3>1
  <2> QED BY <1>8, <2>3, <2>4
<1> QED BY <1>1, <1>2, <1>3, <1>4, <1>5, <1>6, <1>7, <1>8 DEF Handle

LEMMA PromiseStep ==
  ASSUME TypeOK, PromiseHeld, [Next]_vars
  PROVE  PromiseHeld'
<1>1. ASSUME NEW r \in Requests, Handle(r) PROVE PromiseHeld'
  <2> SUFFICES ASSUME NEW w \in Workers, NEW f, f = ongoingFetch'[w], f # None
               PROVE  /\ f \in Requests /\ WorkerOf[f] = w /\ Local
                      /\ pc'[f] \in {"fetch", "abort"} /\ fetchOf'[f] = f
    BY DEF PromiseHeld, Fetcher
  <2>1. WorkerOf[r] \in Workers
    BY WorkersAssumption
  <2>2. \A v \in Workers : ongoingFetch[v] # None =>
          /\ ongoingFetch[v] \in Requests /\ WorkerOf[ongoingFetch[v]] = v /\ Local
          /\ pc[ongoingFetch[v]] \in {"fetch", "abort"} /\ fetchOf[ongoingFetch[v]] = ongoingFetch[v]
    BY DEF PromiseHeld, Fetcher
  <2>3. ongoingFetch \in [Workers -> Requests \cup {None}]
    BY DEF TypeOK
  <2>4. CASE /\ ongoingFetch' = ongoingFetch
             /\ ongoingFetch[WorkerOf[r]] = r => pc'[r] \in {"fetch", "abort"} /\ fetchOf'[r] = r
    BY <1>1, <2>2, <2>4, HandlerPromise
  <2>5. CASE /\ Local /\ ongoingFetch' = [ongoingFetch EXCEPT ![WorkerOf[r]] = r]
             /\ pc'[r] = "fetch" /\ fetchOf'[r] = r
    <3>1. CASE w = WorkerOf[r]
      <4>1. f = r
        BY <2>1, <2>3, <2>5, <3>1
      <4> QED BY <1>1, <2>5, <3>1, <4>1, Zenon
    <3>2. CASE w # WorkerOf[r]
      <4>1. f = ongoingFetch[w]
        BY <2>1, <2>3, <2>5, <3>2
      <4>2. f # r
        BY <2>2, <3>2, <4>1
      <4> QED BY <1>1, <2>2, <4>1, <4>2, HandlerPromise
    <3> QED BY <3>1, <3>2
  <2>6. CASE ongoingFetch' = [ongoingFetch EXCEPT ![WorkerOf[r]] = None]
    <3>1. w # WorkerOf[r] /\ f = ongoingFetch[w]
      BY <2>1, <2>3, <2>6
    <3> QED BY <1>1, <2>2, <3>1, HandlerPromise
  <2> QED BY <1>1, <2>4, <2>5, <2>6, HandlerPromise
<1>2. ASSUME NEW r \in Requests, Arrive(r) PROVE PromiseHeld'
  BY <1>2 DEF Arrive, Get, Issue, PromiseHeld, Fetcher, TypeOK
<1>3. ASSUME NEW r \in Requests, OriginAnswer(r) \/ FetchFails(r) PROVE PromiseHeld'
  BY <1>3 DEF OriginAnswer, FetchFails, PromiseHeld, Fetcher
<1>4. CASE OriginChange \/ Age \/ ExpireEntry \/ PurgeEntry
  BY <1>4 DEF OriginChange, Age, ExpireEntry, PurgeEntry, Removed, PromiseHeld, Fetcher
<1>5. CASE LockExpires \/ PurgeLock
  BY <1>5 DEF LockExpires, PurgeLock, LockGone, PromiseHeld, Fetcher
<1>6. ASSUME NEW w \in Workers, Crash(w) PROVE PromiseHeld'
  BY <1>6 DEF Crash, PromiseHeld, Fetcher, TypeOK
<1>7. CASE Terminated \/ UNCHANGED vars
  BY <1>7 DEF Terminated, PromiseHeld, Fetcher, vars
<1> QED BY <1>1, <1>2, <1>3, <1>4, <1>5, <1>6, <1>7 DEF Next

\* Nothing joins a dead promise: not with faults, crashes, leases that end early
\* or a wildcard purge, whatever coalescing is configured.
THEOREM PromisesAlive == Spec => []NoDeadPromise
<1>1. Init => PromiseHeld
  BY DEF Init, PromiseHeld
<1>2. TypeOK /\ PromiseHeld /\ [Next]_vars => PromiseHeld'
  BY PromiseStep
<1>3. PromiseHeld => NoDeadPromise
  BY DEF PromiseHeld, NoDeadPromise
<1> QED BY <1>1, <1>2, <1>3, TypeCorrect, PTL DEF Spec

-----------------------------------------------------------------------------
(* The expiry *)

\* A request between its two commands stays there until it sets the expiry.
LEMMA WritersStay ==
  ASSUME TypeOK, NEW r \in Requests, Handle(r), ~SetExpiry(r),
         NEW q \in Requests, pc[q] = "write"
  PROVE  pc'[q] = "write"
<1>1. q # r
  BY DEF Handle, ServeFromCache, Join, TryLock, StartFetch, GotLock, NoLock, GiveUp, Retry,
     RejectLocked, Aborted, RejectUnlocked, Throws, Store, Unlink, PassOn, Accepted,
     Resuming, Updated, Released, Awaiting
<1> QED BY <1>1, OthersKeepLock

LEMMA StoreExpires ==
  ASSUME HasTTL, ~RedisFaults, TypeOK, EntryExpires, NEW r \in Requests, Store(r)
  PROVE  EntryExpires'
<1>1. PICK o \in Outcomes :
        /\ IF Executed(o) THEN entry' \in NewEntries(r) ELSE UNCHANGED entry
        /\ Issue(r, IF o = "ok" /\ Expiring(r) THEN "write" ELSE "update")
  BY DEF Store
<1>2. o = "ok" /\ entry' \in NewEntries(r)
  BY <1>1 DEF Outcomes, Executed
<1>3. CASE Expiring(r)
  BY <1>1, <1>2, <1>3 DEF Issue, TypeOK, EntryExpires
<1>4. CASE ~Expiring(r)
  <2>1. Result(r).code = "304"
    BY <1>4 DEF Expiring
  <2>2. entry' = [body |-> IF entry = None THEN None ELSE entry.body,
                  etag |-> Result(r).version, fresh |-> TRUE,
                  mustRevalidate |-> Result(r).policy = "must-revalidate",
                  ttl |-> entry # None /\ entry.ttl]
    BY <1>2, <2>1 DEF NewEntries
  <2>3. CASE entry = None
    BY <2>2, <2>3 DEF EntryExpires
  <2>4. CASE entry # None
    <3>1. CASE entry.ttl
      BY <2>2, <2>4, <3>1 DEF EntryExpires
    <3>2. CASE ~entry.ttl /\ entry.body # None
      <4>1. PICK q \in Requests : pc[q] = "write"
        BY <2>4, <3>2 DEF EntryExpires
      <4>2. ~SetExpiry(r)
        BY DEF Store, Accepted, Resuming, SetExpiry, Awaiting
      <4>3. pc'[q] = "write"
        BY <4>1, <4>2, WritersStay DEF Handle
      <4> QED BY <4>3 DEF EntryExpires
    <3>3. CASE entry.body = None
      BY <2>2, <2>4, <3>3 DEF EntryExpires
    <3> QED BY <3>1, <3>2, <3>3
  <2> QED BY <2>3, <2>4
<1> QED BY <1>3, <1>4

LEMMA ExpiryStep ==
  ASSUME HasTTL, ~RedisFaults, ~Crashes, TypeOK, EntryExpires, [Next]_vars
  PROVE  EntryExpires'
<1>1. ASSUME NEW r \in Requests, Handle(r) PROVE EntryExpires'
  <2>1. CASE Store(r)
    BY <2>1, StoreExpires
  <2>2. CASE SetExpiry(r)
    <3>1. entry' = IF entry # None THEN [entry EXCEPT !.ttl = TRUE] ELSE entry
      BY <2>2 DEF SetExpiry, Outcomes, Executed
    <3> QED BY <3>1 DEF EntryExpires, TypeOK, Entries
  <2>3. CASE Unlink(r)
    <3>1. entry' = None
      BY <2>3 DEF Unlink, Outcomes, Executed
    <3> QED BY <3>1 DEF EntryExpires
  <2>4. CASE ~Store(r) /\ ~SetExpiry(r) /\ ~Unlink(r)
    <3>1. entry' = entry
      BY <1>1, <2>4 DEF Handle, ServeFromCache, Join, TryLock, StartFetch, GotLock, Launch,
         NoLock, GiveUp, Retry, RejectLocked, Aborted, RejectUnlocked, Throws, PassOn,
         Updated, Released, redis
    <3> QED BY <1>1, <2>4, <3>1, WritersStay DEF EntryExpires
  <2> QED BY <2>1, <2>2, <2>3, <2>4
<1>2. ASSUME NEW r \in Requests, Arrive(r) PROVE EntryExpires'
  BY <1>2 DEF Arrive, Get, Issue, EntryExpires, TypeOK, redis
<1>3. ASSUME NEW r \in Requests, OriginAnswer(r) \/ FetchFails(r) PROVE EntryExpires'
  BY <1>3 DEF OriginAnswer, FetchFails, EntryExpires, redis
<1>4. CASE OriginChange \/ LockExpires \/ PurgeLock
  BY <1>4 DEF OriginChange, LockExpires, PurgeLock, LockGone, EntryExpires, redis
<1>5. CASE Age
  <2>1. entry' = [entry EXCEPT !.fresh = FALSE] /\ entry # None /\ pc' = pc
    BY <1>5 DEF Age, Stale
  <2> QED BY <2>1 DEF EntryExpires, TypeOK, Entries
<1>6. CASE ExpireEntry \/ PurgeEntry
  BY <1>6 DEF ExpireEntry, PurgeEntry, Removed, EntryExpires
<1>7. ASSUME NEW w \in Workers, Crash(w) PROVE EntryExpires'
  BY <1>7 DEF Crash
<1>8. CASE Terminated \/ UNCHANGED vars
  BY <1>8 DEF Terminated, EntryExpires, vars
<1> QED BY <1>1, <1>2, <1>3, <1>4, <1>5, <1>6, <1>7, <1>8 DEF Next

\* With a ttl and without faults no complete entry is left without an expiry,
\* however the commands of refreshes, purges and expiries interleave.
THEOREM EntriesExpire ==
  ASSUME HasTTL, ~RedisFaults, ~Crashes
  PROVE  Spec => []EntryExpires
<1>1. Init => EntryExpires
  BY DEF Init, EntryExpires
<1>2. TypeOK /\ EntryExpires /\ [Next]_vars => EntryExpires'
  BY ExpiryStep
<1> QED BY <1>1, <1>2, TypeCorrect, PTL DEF Spec

-----------------------------------------------------------------------------
(* The lock *)

\* The code of a request removes no lock but its own, from its critical section:
\* with faults, crashes, leases that end at any time and purges, what else
\* removes a lock is the end of its lease or a wildcard purge.
THEOREM OwnersUnlock == Spec => OnlyOwnerUnlocks
<1> DEFINE OwnRelease == Critical(lock) /\ pc'[lock] \in {"release", "abort"}
<1> DEFINE Unlocks ==
      lock # None /\ lock' # lock => OwnRelease \/ LockExpires \/ PurgeLock
<1>1. TypeOK /\ [Next]_vars => [Unlocks]_vars
  <2> SUFFICES ASSUME TypeOK, Next, lock # None, lock' # lock
               PROVE  OwnRelease \/ LockExpires \/ PurgeLock
    OBVIOUS
  <2>1. ASSUME NEW r \in Requests, Handle(r)
        PROVE  OwnRelease
    <3>1. CASE RejectLocked(r)
      BY <3>1 DEF RejectLocked, Release, Resuming, Issue, Critical, Holding, TypeOK
    <3>2. CASE PassOn(r) \/ Updated(r)
      <4>1. ReleaseOrRespond(r) /\ pc[r] \in Holding
        BY <3>2 DEF PassOn, Updated, Accepted, Resuming, Awaiting, Holding
      <4>2. locked[r] /\ Release(r) /\ Issue(r, "release")
        BY <4>1 DEF ReleaseOrRespond
      <4> QED BY <4>1, <4>2 DEF Release, Issue, Critical, TypeOK
    <3>3. CASE ~RejectLocked(r) /\ ~PassOn(r) /\ ~Updated(r)
      <4>1. lock' = lock
        BY <2>1, <3>3 DEF Handle, ServeFromCache, Join, TryLock, NX, StartFetch, GotLock,
           Launch, NoLock, GiveUp, Retry, Aborted, RejectUnlocked, Throws, Store,
           SetExpiry, Unlink, Released, redis
      <4> QED BY <4>1
    <3> QED BY <3>1, <3>2, <3>3
  <2>2. ASSUME NEW r \in Requests, Arrive(r) \/ OriginAnswer(r) \/ FetchFails(r)
        PROVE  FALSE
    BY <2>2 DEF Arrive, OriginAnswer, FetchFails, redis
  <2>3. CASE LockExpires \/ PurgeLock
    BY <2>3
  <2>4. CASE OriginChange \/ Age \/ ExpireEntry \/ PurgeEntry \/ Terminated
    <3>1. lock' = lock
      BY <2>4 DEF OriginChange, Age, ExpireEntry, PurgeEntry, Removed, Terminated, redis, vars
    <3> QED BY <3>1
  <2>5. ASSUME NEW w \in Workers, Crash(w) PROVE FALSE
    BY <2>5 DEF Crash, redis
  <2> QED BY <2>1, <2>2, <2>3, <2>4, <2>5 DEF Next
<1> QED BY <1>1, TypeCorrect, PTL DEF Spec, OnlyOwnerUnlocks

\* A request that was granted the lock uses it, awaiting its own fetch.
LockUsed ==
  \A r \in Requests : locked[r] =>
    /\ pc[r] \in Holding \cup {"release", "abort"}
    /\ pc[r] = "fetch" => Fetcher(r)

\* If clients send no validator, a fetch is conditional, and answered with a
\* 304, only for a request that has read an entry.
Conditional ==
  \A r \in Requests :
    /\ request[r].ifNoneMatch = None
    /\ fetch[r].state = "sent" /\ fetch[r].ifNoneMatch # None => cachedResponse[r] # None
    /\ fetch[r].state = "answered" /\ fetch[r].res.code = "304" => cachedResponse[r] # None

\* The inductive invariant, without the types.
LockInv == /\ NoLeakedLock /\ LockUsed /\ Conditional
           /\ FetchOwned /\ LockedOnlyIfDistributed

LEMMA UsedStep ==
  ASSUME TypeOK, LockUsed, NEW r \in Requests, Handle(r), locked'[r]
  PROVE  /\ pc'[r] \in Holding \cup {"release", "abort"}
         /\ pc'[r] = "fetch" => fetchOf'[r] = r
<1> USE DEF TypeOK, Issue, Leave, Respond, redis, client, Holding, Awaiting
<1>1. CASE ServeFromCache(r) \/ GiveUp(r) \/ Aborted(r) \/ Released(r)
  BY <1>1 DEF ServeFromCache, GiveUp, Aborted, Released
<1>2. CASE Join(r) \/ NoLock(r) \/ Retry(r)
  BY <1>2 DEF Join, NoLock, Retry, Get, LockUsed
<1>3. CASE TryLock(r)
  BY <1>3 DEF TryLock
<1>4. CASE StartFetch(r) \/ GotLock(r)
  BY <1>4 DEF StartFetch, GotLock, Launch
<1>5. CASE RejectLocked(r) \/ RejectUnlocked(r) \/ Throws(r)
  BY <1>5 DEF RejectLocked, RejectUnlocked, Throws
<1>6. CASE Store(r) \/ SetExpiry(r) \/ Unlink(r)
  BY <1>6 DEF Store, SetExpiry, Unlink
<1>7. CASE PassOn(r) \/ Updated(r)
  <2>1. ReleaseOrRespond(r)
    BY <1>7 DEF PassOn, Updated
  <2>2. CASE locked[r]
    BY <2>1, <2>2 DEF ReleaseOrRespond
  <2>3. CASE ~locked[r]
    BY <2>1, <2>3 DEF ReleaseOrRespond
  <2> QED BY <2>2, <2>3
<1> QED BY <1>1, <1>2, <1>3, <1>4, <1>5, <1>6, <1>7 DEF Handle

\* What the others have read, asked and joined is not a handler's business.
LEMMA OthersKeepReads ==
  ASSUME TypeOK, NEW r \in Requests, Handle(r), NEW q \in Requests \ {r}
  PROVE  /\ cachedResponse'[q] = cachedResponse[q] /\ fetchOf'[q] = fetchOf[q]
         /\ fetch'[q].state \in UnderWay => fetch'[q] = fetch[q]
<1> USE DEF TypeOK, Respond, redis, client
<1>1. CASE ServeFromCache(r) \/ Join(r) \/ TryLock(r) \/ NoLock(r) \/ GiveUp(r)
  BY <1>1 DEF ServeFromCache, Join, TryLock, NoLock, GiveUp
<1>2. CASE Retry(r) \/ StartFetch(r) \/ GotLock(r)
  BY <1>2 DEF Retry, Get, StartFetch, GotLock, Launch
<1>3. ASSUME Settle(r), fetchOf' = fetchOf,
             cachedResponse' = cachedResponse
               \/ cachedResponse' = [cachedResponse EXCEPT ![r] = None]
      PROVE  /\ cachedResponse'[q] = cachedResponse[q] /\ fetchOf'[q] = fetchOf[q]
             /\ fetch'[q].state \in UnderWay => fetch'[q] = fetch[q]
  BY <1>3 DEF Settle, UnderWay, Fetches
<1>4. CASE RejectLocked(r) \/ RejectUnlocked(r) \/ Throws(r) \/ Store(r) \/ Unlink(r)
  BY <1>3, <1>4 DEF RejectLocked, RejectUnlocked, Throws, Store, Unlink
<1>5. CASE PassOn(r)
  BY <1>3, <1>5 DEF PassOn, ReleaseOrRespond
<1>6. CASE Aborted(r) \/ SetExpiry(r) \/ Released(r)
  BY <1>6 DEF Aborted, SetExpiry, Released
<1>7. CASE Updated(r)
  BY <1>7 DEF Updated, ReleaseOrRespond
<1> QED BY <1>1, <1>2, <1>4, <1>5, <1>6, <1>7 DEF Handle

LEMMA ConditionalStep ==
  ASSUME Validators = {}, TypeOK, FetchOwned, Conditional, [Next]_vars
  PROVE  Conditional'
<1>1. ASSUME NEW r \in Requests, Handle(r) PROVE Conditional'
  <2>1. request' = request
    BY <1>1 DEF Handle, ServeFromCache, Join, TryLock, StartFetch, GotLock, Launch, NoLock,
       GiveUp, Retry, RejectLocked, Aborted, RejectUnlocked, Throws, Store, SetExpiry,
       Unlink, PassOn, Updated, Released, client
  <2>2. ASSUME NEW q \in Requests, fetch'[q].state \in UnderWay
        PROVE  /\ fetch'[q].state = "sent" /\ fetch'[q].ifNoneMatch # None
                    => cachedResponse'[q] # None
               /\ fetch'[q].state = "answered" /\ fetch'[q].res.code = "304"
                    => cachedResponse'[q] # None
    <3>1. CASE q = r /\ Launch(r)
      BY <3>1 DEF Launch, Validator, Conditional, TypeOK
    <3>2. CASE q # r
      BY <1>1, <2>2, <3>2, OthersKeepReads DEF Conditional
    <3> QED BY <1>1, <2>2, <3>1, <3>2, HandlerFetch
  <2> QED BY <2>1, <2>2 DEF Conditional, UnderWay
<1>2. ASSUME NEW r \in Requests, Arrive(r) PROVE Conditional'
  <2>1. /\ fetch' = fetch /\ pc[r] = "idle"
        /\ \A q \in Requests \ {r} : /\ cachedResponse'[q] = cachedResponse[q]
                                     /\ request'[q] = request[q]
        /\ request'[r].ifNoneMatch = None
    BY <1>2 DEF Arrive, Get, TypeOK
  <2>2. fetch[r].state \notin {"sent", "answered"}
    BY <2>1 DEF FetchOwned
  <2> QED BY <2>1, <2>2 DEF Conditional
<1>3. ASSUME NEW r \in Requests, OriginAnswer(r) PROVE Conditional'
  <2>1. PICK p \in Policies :
          fetch' = [fetch EXCEPT ![r] = Answered(
                      [code |-> IF fetch[r].ifNoneMatch = origin THEN "304" ELSE "200",
                       version |-> origin, policy |-> p])]
    BY <1>3 DEF OriginAnswer
  <2>2. fetch[r].ifNoneMatch = origin => cachedResponse[r] # None
    BY <1>3, VersionsAssumption DEF OriginAnswer, Conditional, TypeOK
  <2>3. cachedResponse' = cachedResponse /\ request' = request
    BY <1>3 DEF OriginAnswer, client
  <2> QED BY <1>3, <2>1, <2>2, <2>3 DEF Answered, Conditional, TypeOK
<1>4. ASSUME NEW r \in Requests, FetchFails(r) PROVE Conditional'
  BY <1>4 DEF FetchFails, Answered, NoResult, Conditional, TypeOK, client
<1>5. CASE Age
  <2>1. \A q \in Requests : cachedResponse[q] # None => cachedResponse'[q] # None
    <3>1. ASSUME NEW e \in Entries PROVE Stale(e) \in Entries /\ (e # None => Stale(e) # None)
      BY EntriesAssumption DEF Stale, Entries
    <3> QED BY <1>5, <3>1 DEF Age, TypeOK
  <2> QED BY <1>5, <2>1 DEF Age, Conditional, client
<1>6. CASE OriginChange \/ ExpireEntry \/ PurgeEntry \/ LockExpires \/ PurgeLock
  BY <1>6 DEF OriginChange, ExpireEntry, PurgeEntry, Removed, LockExpires, PurgeLock,
     LockGone, Conditional, client
<1>7. ASSUME NEW w \in Workers, Crash(w) PROVE Conditional'
  BY <1>7 DEF Crash, NoFetch, Conditional, client
<1>8. CASE Terminated \/ UNCHANGED vars
  BY <1>8 DEF Terminated, Conditional, vars
<1> QED BY <1>1, <1>2, <1>3, <1>4, <1>5, <1>6, <1>7, <1>8 DEF Next

\* The owner's handler stays critical or releases.
LEMMA OwnerReleases ==
  ASSUME ~RedisFaults, TypeOK, LockInv, NEW r \in Requests, Handle(r), lock = r
  PROVE  lock' # None => lock' = r /\ Critical(r)'
<1>0. locked[r] /\ pc[r] \in Holding
  BY WorkersAssumption DEF LockInv, NoLeakedLock, Critical
<1> USE DEF TypeOK, Issue, Leave, Respond, redis, client, Holding, Awaiting, Critical
<1>1. ~Throws(r)
  BY <1>0 DEF Throws, Resuming, Result, LockInv, LockUsed, Conditional, Fetcher
<1>2. ~ServeFromCache(r) /\ ~Join(r) /\ ~TryLock(r) /\ ~StartFetch(r) /\ ~NoLock(r)
      /\ ~GiveUp(r) /\ ~Retry(r) /\ ~Aborted(r) /\ ~RejectUnlocked(r) /\ ~Released(r)
  BY <1>0 DEF ServeFromCache, Join, TryLock, StartFetch, NoLock, GiveUp, Retry, Aborted,
     RejectUnlocked, Released
<1>3. CASE GotLock(r)
  BY <1>0, <1>3 DEF GotLock, Launch
<1>4. CASE RejectLocked(r)
  BY <1>4 DEF RejectLocked, Release, Outcomes, Executed
<1>5. CASE Store(r) \/ SetExpiry(r) \/ Unlink(r)
  BY <1>0, <1>5 DEF Store, SetExpiry, Unlink
<1>6. CASE PassOn(r) \/ Updated(r)
  BY <1>0, <1>6 DEF PassOn, Updated, ReleaseOrRespond, Release, Outcomes, Executed
<1> QED BY <1>1, <1>2, <1>3, <1>4, <1>5, <1>6 DEF Handle

LEMMA LeakStep ==
  ASSUME ~RedisFaults, ~Crashes, TypeOK, LockInv, [Next]_vars
  PROVE  NoLeakedLock' /\ LockUsed'
<1> USE DEF LockInv
<1>1. ASSUME NEW r \in Requests, Handle(r) PROVE NoLeakedLock' /\ LockUsed'
  <2>1. LockUsed'
    <3> SUFFICES ASSUME NEW q \in Requests, locked'[q]
                 PROVE  /\ pc'[q] \in Holding \cup {"release", "abort"}
                        /\ pc'[q] = "fetch" => fetchOf'[q] = q
      BY DEF LockUsed, Fetcher
    <3>1. CASE q = r
      BY <1>1, <3>1, UsedStep
    <3>2. CASE q # r
      BY <1>1, <3>2, OthersKeepLock, OthersKeepReads DEF LockUsed, Fetcher
    <3> QED BY <3>1, <3>2
  <2>2. NoLeakedLock'
    <3>1. CASE lock = None
      <4>1. CASE TryLock(r)
        <5>1. /\ lock' = IF NX /\ Executed("ok") THEN r ELSE lock
              /\ locked' = [locked EXCEPT ![r] = NX /\ "ok" = "ok"]
          BY <4>1 DEF TryLock, Outcomes
        <5>2. lock' = r
          BY <3>1, <5>1 DEF NX, Executed
        <5>3. locked'[r]
          BY <1>1, <3>1, <5>1 DEF NX, TypeOK
        <5>4. pc'[r] = "lock"
          BY <1>1, <4>1 DEF TryLock, Issue, TypeOK
        <5> QED BY <5>2, <5>3, <5>4 DEF NoLeakedLock, Critical, Holding
      <4>2. CASE ~TryLock(r)
        <5>1. lock' = None
          BY <1>1, <3>1, <4>2 DEF Handle, ServeFromCache, Join, StartFetch, GotLock, Launch,
             NoLock, GiveUp, Retry, RejectLocked, Aborted, RejectUnlocked, Throws, Store,
             SetExpiry, Unlink, PassOn, Updated, ReleaseOrRespond, Release, Released, redis
        <5> QED BY <5>1 DEF NoLeakedLock
      <4> QED BY <4>1, <4>2
    <3>2. CASE lock = r
      BY <1>1, <3>2, OwnerReleases DEF NoLeakedLock
    <3>3. CASE lock # None /\ lock # r
      <4>1. lock \in Requests \ {r} /\ locked[lock] /\ pc[lock] \in Holding
        BY <3>3 DEF TypeOK, NoLeakedLock, Critical
      <4>2. lock' = lock /\ pc'[lock] = pc[lock] /\ locked'[lock] = locked[lock]
        BY <1>1, <4>1, OthersKeepLock
      <4> QED BY <4>1, <4>2 DEF NoLeakedLock, Critical
    <3> QED BY <3>1, <3>2, <3>3
  <2> QED BY <2>1, <2>2
<1> USE DEF NoLeakedLock, LockUsed, Critical, Fetcher
<1>2. ASSUME NEW r \in Requests, Arrive(r) PROVE NoLeakedLock' /\ LockUsed'
  BY <1>2 DEF Arrive, Get, Issue, Holding, TypeOK, redis
<1>3. ASSUME NEW r \in Requests, OriginAnswer(r) \/ FetchFails(r)
      PROVE NoLeakedLock' /\ LockUsed'
  BY <1>3 DEF OriginAnswer, FetchFails, redis
<1>4. CASE OriginChange \/ Age \/ ExpireEntry \/ PurgeEntry
  BY <1>4 DEF OriginChange, Age, ExpireEntry, PurgeEntry, Removed, redis
<1>5. CASE LockExpires \/ PurgeLock
  BY <1>5 DEF LockExpires, PurgeLock, LockGone
<1>6. ASSUME NEW w \in Workers, Crash(w) PROVE NoLeakedLock' /\ LockUsed'
  BY <1>6 DEF Crash
<1>7. CASE Terminated \/ UNCHANGED vars
  BY <1>7 DEF Terminated, vars
<1> QED BY <1>1, <1>2, <1>3, <1>4, <1>5, <1>6, <1>7 DEF Next

\* Without faults and without validators of clients, whose 304 would make _get
\* throw under the lock, every path through a lock ends in its release.
THEOREM LocksReleased ==
  ASSUME ~RedisFaults, ~Crashes, Validators = {}
  PROVE  Spec => []NoLeakedLock
<1>1. Init => LockInv
  BY DEF Init, LockInv, NoLeakedLock, LockUsed, Conditional, FetchOwned,
     LockedOnlyIfDistributed, NoFetch
<1>2. TypeOK /\ LockInv /\ [Next]_vars => LockInv'
  BY LeakStep, ConditionalStep, FetchStep, DistributedStep DEF LockInv
<1>3. LockInv => NoLeakedLock
  BY DEF LockInv
<1> QED BY <1>1, <1>2, <1>3, TypeCorrect, PTL DEF Spec
=============================================================================
