----------------------------- MODULE Coalescing -----------------------------
(***************************************************************************)
(* The refresh of ONE cache key by concurrent requests: getCacheable(),    *)
(* _get(), _acquireLock() and _releaseLock() of src/src/modules/cache.js,  *)
(* run by several worker processes that share Redis.                       *)
(*                                                                         *)
(* A worker is a Node.js event loop.  Between two awaits a request runs    *)
(* without interruption, so an action is the code from one await to the    *)
(* next: it consumes the reply of the request's last command and issues    *)
(* the next one.  A command takes effect at Redis when it is issued and    *)
(* its reply arrives later; the replies of one worker come back in the     *)
(* order of the commands (one pipelined connection), in `replies'.  When a *)
(* fetch settles, the requests awaiting the same promise all run before    *)
(* the worker's next event (promise reactions are microtasks): Quiet.      *)
(*                                                                         *)
(* A response is the version of the resource it carries, which is also its *)
(* ETag; the freshness computations are reduced to a flag that the passage *)
(* of time (Age) clears.                                                   *)
(***************************************************************************)
EXTENDS Integers, Sequences, FiniteSets

CONSTANTS
  Requests,            \* client requests for this key, each handled once
  Workers,             \* worker processes
  WorkerOf,            \* the worker each request reaches
  None,                \* the absent value (null)
  MaxVersion,          \* BOUND: versions of the resource at the origin
  Local,               \* opts.cache.localRequestsCoalescing
  Distributed,         \* opts.cache.distributedRequestsCoalescing
  RetryCount,          \* distributedRequestsCoalescingOptions.retryCount
  LeaseOutlivesFetch,  \* lockTTL exceeds the time a fetcher holds the lock
  HasTTL,              \* cacheSettings.ttl > 0
  Policies,            \* what the origin's Cache-Control may say
  Directives,          \* what the request's Cache-Control may say
  Validators,          \* versions a client may send as If-None-Match
  Purges,              \* what purge requests may unlink
  RedisFaults,         \* Redis commands may fail or lose their reply
  Crashes              \* worker processes may die (and be replaced)

Versions == 0 .. MaxVersion
AllPolicies == {"cacheable", "must-revalidate", "forbidden", "unstorable"}
AllDirectives == {"none", "no-cache", "no-store", "only-if-cached"}

ASSUME WorkersAssumption ==
  /\ WorkerOf \in [Requests -> Workers]
  /\ None \notin Requests
ASSUME VersionsAssumption == MaxVersion \in Nat /\ None \notin Versions
ASSUME OptionsAssumption ==
  /\ Local \in BOOLEAN /\ Distributed \in BOOLEAN
  /\ RetryCount \in Nat
  /\ LeaseOutlivesFetch \in BOOLEAN /\ HasTTL \in BOOLEAN
  /\ RedisFaults \in BOOLEAN /\ Crashes \in BOOLEAN
ASSUME InputsAssumption ==
  /\ Policies \subseteq AllPolicies
  /\ Directives \subseteq AllDirectives
  /\ Validators \subseteq Versions
  /\ Purges \subseteq {"entry", "lock"}

VARIABLES
  origin,          \* current version of the resource
  entry,           \* the JSON document stored under the key, or None
  lock,            \* owner of <key>.lock, or None
  ongoingFetch,    \* per worker: the request whose promise the Map holds
  replies,         \* per worker: requests whose Redis reply is in flight
  pc,              \* per request: the await it is suspended at
  request,         \* per request: [ifNoneMatch, cc] sent by the client
  tries,           \* per request: tries of getCacheable
  cachedResponse,  \* per request: cachedResponse of _get
  locked,          \* per request: locked of _get
  fetchOf,         \* per request: whose fetch promise it awaits
  fetch,           \* per request: the fetch it launched
  resp             \* per request: the answer given to the client

redis == <<entry, lock>>
client == <<request, tries>>
vars == <<origin, entry, lock, ongoingFetch, replies, pc, request, tries,
          cachedResponse, locked, fetchOf, fetch, resp>>

\* A stored document.  body = None: a document made by JSON.MERGE alone, which
\* has neither body, statusCode nor ttl.  ttl: the key has an expiry.
Entries == [body : Versions \cup {None}, etag : Versions, fresh : BOOLEAN,
            mustRevalidate : BOOLEAN, ttl : BOOLEAN]
ASSUME EntriesAssumption == None \notin Entries
Results == [code : {"200", "304", "error"}, version : Versions,
            policy : AllPolicies]
NoResult == [code |-> "error", version |-> 0, policy |-> "unstorable"]
Fetches == [state : {"none", "sent", "answered", "settled"},
            ifNoneMatch : Versions \cup {None}, res : Results]
NoFetch == [state |-> "none", ifNoneMatch |-> None, res |-> NoResult]
Statuses == {"NONE", "CACHE_HIT", "CACHE_HIT_REVALIDATED",
             "CACHE_HIT_REVALIDATED_304", "CACHE_HIT_NOT_REVALIDATED",
             "CACHE_HIT_NOT_REVALIDATED_STALE", "CACHE_MISS",
             "CACHE_MISS_504", "CACHE_FAILED_MISS", "CACHE_NO_LOCK",
             "CACHE_ERROR_500"}
Answer(status, body, etag) == [status |-> status, body |-> body, etag |-> etag]
Answers == [status : Statuses, body : Versions \cup {None},
            etag : Versions \cup {None}]

\* The awaits of a Redis reply: JSON.GET; SET NX; JSON.SET or JSON.MERGE with an
\* EXPIRE to follow; the last write or UNLINK; the release script after a
\* response; the release script after a failed fetch.
Suspended == {"get", "lock", "write", "update", "release", "abort"}
Places == Suspended \cup {"idle", "retry", "fetch", "done", "crashed"}

TypeOK ==
  /\ origin \in Versions
  /\ entry \in Entries \cup {None}
  /\ lock \in Requests \cup {None}
  /\ ongoingFetch \in [Workers -> Requests \cup {None}]
  /\ replies \in [Workers -> Seq(Requests)]
  /\ pc \in [Requests -> Places]
  /\ request \in [Requests -> [ifNoneMatch : Versions \cup {None},
                               cc : AllDirectives]]
  /\ tries \in [Requests -> Nat]
  /\ cachedResponse \in [Requests -> Entries \cup {None}]
  /\ locked \in [Requests -> BOOLEAN]
  /\ fetchOf \in [Requests -> Requests]
  /\ fetch \in [Requests -> Fetches]
  /\ resp \in [Requests -> Answers]

Init ==
  /\ origin = 0
  /\ entry = None
  /\ lock = None
  /\ ongoingFetch = [w \in Workers |-> None]
  /\ replies = [w \in Workers |-> <<>>]
  /\ pc = [r \in Requests |-> "idle"]
  /\ request = [r \in Requests |-> [ifNoneMatch |-> None, cc |-> "none"]]
  /\ tries = [r \in Requests |-> 0]
  /\ cachedResponse = [r \in Requests |-> None]
  /\ locked = [r \in Requests |-> FALSE]
  /\ fetchOf = [r \in Requests |-> r]
  /\ fetch = [r \in Requests |-> NoFetch]
  /\ resp = [r \in Requests |-> Answer("NONE", None, None)]

-----------------------------------------------------------------------------
(* The event loop *)

Fetcher(r) == fetchOf[r] = r                    \* amITheFetcher
Result(r) == fetch[fetchOf[r]].res              \* originResponse

\* Requests of w that await a promise already settled by its fetcher.
Reactions(w) == {r \in Requests : /\ WorkerOf[r] = w
                                  /\ pc[r] = "fetch"
                                  /\ ~Fetcher(r)
                                  /\ fetch[fetchOf[r]].state = "settled"}
Quiet(r) == Reactions(WorkerOf[r]) = {}

\* The reply of r's command is the next one its worker handles.
Awaiting(r, place) == /\ pc[r] = place
                      /\ replies[WorkerOf[r]] # <<>>
                      /\ Head(replies[WorkerOf[r]]) = r
                      /\ Quiet(r)

\* r's await of `fetch' resumes: the fetcher's as an event of its own, the
\* followers' right after it.
Resuming(r) == /\ pc[r] = "fetch"
               /\ IF Fetcher(r)
                  THEN fetch[r].state = "answered" /\ Quiet(r)
                  ELSE fetch[fetchOf[r]].state = "settled"

Queue(r) == IF pc[r] \in Suspended THEN Tail(replies[WorkerOf[r]])
                                   ELSE replies[WorkerOf[r]]
Leave(r, place) ==
  /\ pc' = [pc EXCEPT ![r] = place]
  /\ replies' = [replies EXCEPT ![WorkerOf[r]] = Queue(r)]
Issue(r, place) ==
  /\ pc' = [pc EXCEPT ![r] = place]
  /\ replies' = [replies EXCEPT ![WorkerOf[r]] = Append(Queue(r), r)]
\* getCacheable returns: the locals of the request are gone.
Respond(r, answer) ==
  /\ Leave(r, "done")
  /\ resp' = [resp EXCEPT ![r] = answer]
  /\ cachedResponse' = [cachedResponse EXCEPT ![r] = None]
  /\ locked' = [locked EXCEPT ![r] = FALSE]

\* How a Redis command ends: executed and answered; executed but the caller
\* gets an error (timeout, connection lost); not executed, with an error.
Outcomes == IF RedisFaults THEN {"ok", "lost", "failed"} ELSE {"ok"}
Executed(o) == o # "failed"

-----------------------------------------------------------------------------
(* Lookup *)

\* server.redis.json.get; an error reads as no entry.
Get(r) ==
  \E o \in Outcomes :
    /\ cachedResponse' = [cachedResponse EXCEPT ![r] =
                            IF o = "ok" THEN entry ELSE None]
    /\ Issue(r, "get")

Arrive(r) ==
  /\ pc[r] = "idle" /\ Quiet(r)
  /\ \E cc \in Directives, v \in Validators \cup {None} :
       request' = [request EXCEPT ![r] = [ifNoneMatch |-> v, cc |-> cc]]
  /\ tries' = [tries EXCEPT ![r] = 1]
  /\ Get(r)
  /\ UNCHANGED <<origin, redis, ongoingFetch, locked, fetchOf, fetch, resp>>

Usable(r) == /\ cachedResponse[r] # None
             /\ cachedResponse[r].fresh
             /\ request[r].cc # "no-cache"

ServeFromCache(r) ==
  /\ Awaiting(r, "get") /\ Usable(r)
  /\ Respond(r, Answer("CACHE_HIT", cachedResponse[r].body,
                       cachedResponse[r].etag))
  /\ UNCHANGED <<origin, redis, ongoingFetch, client, fetchOf, fetch>>

Ongoing_Unchecked(r) == FALSE             \* mutant: the Map is not looked at
Ongoing(r) == Local /\ ongoingFetch[WorkerOf[r]] # None

Join(r) ==
  /\ Awaiting(r, "get") /\ ~Usable(r) /\ Ongoing(r)
  /\ fetchOf' = [fetchOf EXCEPT ![r] = ongoingFetch[WorkerOf[r]]]
  /\ Leave(r, "fetch")
  /\ UNCHANGED <<origin, redis, ongoingFetch, client, cachedResponse, locked,
                 fetch, resp>>

\* NX: only if the key does not exist.
NX_Dropped == TRUE                        \* mutant: a plain SET
NX == lock = None

\* _acquireLock: SET <key>.lock <token> NX PX lockTTL; an error is no lock.
TryLock(r) ==
  /\ Awaiting(r, "get") /\ ~Usable(r) /\ ~Ongoing(r) /\ Distributed
  /\ \E o \in Outcomes :
       /\ lock' = IF NX /\ Executed(o) THEN r ELSE lock
       /\ locked' = [locked EXCEPT ![r] = NX /\ o = "ok"]
  /\ Issue(r, "lock")
  /\ UNCHANGED <<origin, entry, ongoingFetch, client, cachedResponse, fetchOf,
                 fetch, resp>>

\* The entry's own ETag replaces the If-None-Match forwarded from the client.
Validator(r) == IF cachedResponse[r] # None THEN cachedResponse[r].etag
                                            ELSE request[r].ifNoneMatch

\* _fetch is called and its promise published, with no await in between.
Launch(r) ==
  /\ fetch' = [fetch EXCEPT ![r] = [state |-> "sent", res |-> NoResult,
                                    ifNoneMatch |-> Validator(r)]]
  /\ fetchOf' = [fetchOf EXCEPT ![r] = r]
  /\ ongoingFetch' = IF Local THEN [ongoingFetch EXCEPT ![WorkerOf[r]] = r]
                              ELSE ongoingFetch
  /\ Leave(r, "fetch")
  /\ UNCHANGED <<origin, redis, client, cachedResponse, locked, resp>>

StartFetch(r) ==
  /\ Awaiting(r, "get") /\ ~Usable(r) /\ ~Ongoing(r) /\ ~Distributed
  /\ Launch(r)

\* mutant: the reply to SET NX is not looked at
GotLock_Unchecked(r) == Awaiting(r, "lock") /\ Launch(r)
\* The lock was granted.  ongoingFetch is not looked at a second time.
GotLock(r) == Awaiting(r, "lock") /\ locked[r] /\ Launch(r)

\* _get returned -1: wait and try again ...
NoLock(r) ==
  /\ Awaiting(r, "lock") /\ ~locked[r]
  /\ tries[r] < RetryCount
  /\ Leave(r, "retry")
  /\ UNCHANGED <<origin, redis, ongoingFetch, client, cachedResponse, locked,
                 fetchOf, fetch, resp>>

\* ... until the tries are used up, or failing commands open the Redis breaker.
GiveUp(r) ==
  /\ Awaiting(r, "lock") /\ ~locked[r]
  /\ tries[r] >= RetryCount \/ RedisFaults
  /\ Respond(r, Answer("CACHE_NO_LOCK", None, None))
  /\ UNCHANGED <<origin, redis, ongoingFetch, client, fetchOf, fetch>>

\* The retry timer fires: _get starts again from the lookup.
Retry(r) ==
  /\ pc[r] = "retry" /\ Quiet(r)
  /\ tries' = [tries EXCEPT ![r] = @ + 1]
  /\ Get(r)
  /\ UNCHANGED <<origin, redis, ongoingFetch, request, locked, fetchOf, fetch,
                 resp>>

-----------------------------------------------------------------------------
(* The fetch *)

Answered(res) == [state |-> "answered", ifNoneMatch |-> None, res |-> res]

\* The origin answers 304 to a validator that names its current version.
OriginAnswer(r) ==
  /\ fetch[r].state = "sent"
  /\ \E p \in Policies :
       fetch' = [fetch EXCEPT ![r] = Answered(
                   [code |-> IF fetch[r].ifNoneMatch = origin THEN "304" ELSE "200",
                    version |-> origin, policy |-> p])]
  /\ UNCHANGED <<origin, redis, ongoingFetch, replies, pc, client,
                 cachedResponse, locked, fetchOf, resp>>

\* mutant: no originTimeout
FetchFails_NoTimeout(r) == FALSE
\* originTimeout, a network error, an open origin breaker.
FetchFails(r) ==
  /\ fetch[r].state = "sent"
  /\ fetch' = [fetch EXCEPT ![r] = Answered(NoResult)]
  /\ UNCHANGED <<origin, redis, ongoingFetch, replies, pc, client,
                 cachedResponse, locked, fetchOf, resp>>

\* The fetcher's continuation settles the promise for its followers ...
Settle(r) == fetch' = [fetch EXCEPT ![fetchOf[r]].state = "settled"]
\* mutant: only the path after the catch deletes it
Forget_SuccessOnly(r) ==
  ongoingFetch' = IF Fetcher(r) /\ Local /\ Result(r).code # "error"
                  THEN [ongoingFetch EXCEPT ![WorkerOf[r]] = None]
                  ELSE ongoingFetch
\* ... and takes the key's promise, whoever's it is by now, out of the Map.
Forget(r) ==
  ongoingFetch' = IF Fetcher(r) /\ Local
                  THEN [ongoingFetch EXCEPT ![WorkerOf[r]] = None]
                  ELSE ongoingFetch

\* mutant: an answer with a status of its own
FailedAnswer_NewStatus(r) == Answer("CACHE_FAILED", None, None)
\* The answer after a failed fetch: the stale entry unless it must be
\* revalidated, otherwise an error.
FailedAnswer(r) ==
  IF cachedResponse[r] = None
  THEN Answer("CACHE_FAILED_MISS", None, None)
  ELSE IF cachedResponse[r].mustRevalidate
       THEN Answer("CACHE_HIT_NOT_REVALIDATED", None, None)
       ELSE Answer("CACHE_HIT_NOT_REVALIDATED_STALE", cachedResponse[r].body,
                   cachedResponse[r].etag)

\* mutants: unlink without comparing; the catch path does not release
Release_NoCompare(r) ==
  \E o \in Outcomes : lock' = IF Executed(o) THEN None ELSE lock
Release_NotOnError(r) ==
  \E o \in Outcomes : lock' = IF lock = r /\ Executed(o) /\ Result(r).code # "error"
                              THEN None ELSE lock
\* _releaseLock: EVALSHA of the compare-and-unlink script; errors are only
\* logged.  The SCRIPT EXISTS round trip before it is part of the same step.
Release(r) ==
  \E o \in Outcomes : lock' = IF lock = r /\ Executed(o) THEN None ELSE lock

\* catch of _get, holding the lock: it is released first, and the rejected
\* promise stays in the Map until the release has been answered.
RejectLocked(r) ==
  /\ Resuming(r) /\ Result(r).code = "error" /\ locked[r]
  /\ Settle(r)
  /\ Release(r)
  /\ Issue(r, "abort")
  /\ UNCHANGED <<origin, entry, ongoingFetch, client, cachedResponse, locked,
                 fetchOf, resp>>

Aborted(r) ==
  /\ Awaiting(r, "abort")
  /\ Forget(r)
  /\ Respond(r, FailedAnswer(r))
  /\ UNCHANGED <<origin, redis, client, fetchOf, fetch>>

RejectUnlocked(r) ==
  /\ Resuming(r) /\ Result(r).code = "error" /\ ~locked[r]
  /\ Settle(r)
  /\ Forget(r)
  /\ Respond(r, FailedAnswer(r))
  /\ UNCHANGED <<origin, redis, client, fetchOf>>

-----------------------------------------------------------------------------
(* The response of the origin *)

\* A 304 for a request that read no entry: cachedResponse is null, the
\* assignment to its requestTime throws, getCacheable answers 500.  The lock,
\* if held, is not released.
Throws(r) ==
  /\ Resuming(r) /\ Result(r).code = "304" /\ cachedResponse[r] = None
  /\ Settle(r)
  /\ Forget(r)
  /\ Respond(r, Answer("CACHE_ERROR_500", None, None))
  /\ UNCHANGED <<origin, redis, client, fetchOf>>

\* originResponse is processed to the end of _get.
Accepted(r) == /\ Resuming(r)
               /\ \/ Result(r).code = "200"
                  \/ Result(r).code = "304" /\ cachedResponse[r] # None
WriteCache(r) == /\ Fetcher(r)
                 /\ request[r].cc # "no-store"
                 /\ Result(r).policy \in {"cacheable", "must-revalidate"}
Forbidden(r) == Result(r).policy = "forbidden"

\* JSON.SET replaces the document (whether a TTL the key had survives it is
\* left open); JSON.MERGE updates its headers and times, and creates one of
\* just those when the key no longer exists.
NewEntries(r) ==
  LET res == Result(r)
      must == res.policy = "must-revalidate"
      old == entry # None /\ entry.ttl
  IN IF res.code = "200"
     THEN {[body |-> res.version, etag |-> res.version, fresh |-> TRUE,
            mustRevalidate |-> must, ttl |-> t] : t \in {FALSE, old}}
     ELSE {[body |-> IF entry = None THEN None ELSE entry.body,
            etag |-> res.version, fresh |-> TRUE,
            mustRevalidate |-> must, ttl |-> old]}

\* mutant: EXPIRE follows JSON.MERGE only
Expiring_MergeOnly(r) == HasTTL /\ Result(r).code = "304" /\ cachedResponse[r].body # None
\* The ttl of the document written: the configured one, or the one read with
\* the cached document.
Expiring(r) == HasTTL /\ (Result(r).code = "304" => cachedResponse[r].body # None)

Store(r) ==
  /\ Accepted(r) /\ WriteCache(r)
  /\ Settle(r)
  /\ Forget(r)
  /\ \E o \in Outcomes :
       /\ IF Executed(o) THEN entry' \in NewEntries(r) ELSE UNCHANGED entry
       /\ Issue(r, IF o = "ok" /\ Expiring(r) THEN "write" ELSE "update")
  /\ UNCHANGED <<origin, lock, client, cachedResponse, locked, fetchOf, resp>>

SetExpiry(r) ==
  /\ Awaiting(r, "write")
  /\ \E o \in Outcomes :
       entry' = IF entry # None /\ Executed(o) THEN [entry EXCEPT !.ttl = TRUE]
                                               ELSE entry
  /\ Issue(r, "update")
  /\ UNCHANGED <<origin, lock, ongoingFetch, client, cachedResponse, locked,
                 fetchOf, fetch, resp>>

\* no-store or private: every request that got the response unlinks the entry.
Unlink(r) ==
  /\ Accepted(r) /\ Forbidden(r)
  /\ Settle(r)
  /\ Forget(r)
  /\ \E o \in Outcomes : entry' = IF Executed(o) THEN None ELSE entry
  /\ Issue(r, "update")
  /\ UNCHANGED <<origin, lock, client, cachedResponse, locked, fetchOf, resp>>

\* The end of _get.
FinalAnswer(r) ==
  LET res == Result(r) IN
  IF cachedResponse[r] = None
  THEN IF request[r].cc = "only-if-cached"
       THEN Answer("CACHE_MISS_504", None, None)
       ELSE Answer("CACHE_MISS", res.version, res.version)
  ELSE IF res.code = "304"
       THEN Answer("CACHE_HIT_REVALIDATED_304", cachedResponse[r].body,
                   res.version)
       ELSE Answer("CACHE_HIT_REVALIDATED", res.version, res.version)

ReleaseOrRespond(r) ==
  IF locked[r]
  THEN /\ Release(r)
       /\ Issue(r, "release")
       /\ UNCHANGED <<resp, cachedResponse, locked>>
  ELSE Respond(r, FinalAnswer(r)) /\ UNCHANGED lock

\* Neither stored nor unlinked.
PassOn(r) ==
  /\ Accepted(r) /\ ~WriteCache(r) /\ ~Forbidden(r)
  /\ Settle(r)
  /\ Forget(r)
  /\ ReleaseOrRespond(r)
  /\ UNCHANGED <<origin, entry, client, fetchOf>>

Updated(r) ==
  /\ Awaiting(r, "update")
  /\ ReleaseOrRespond(r)
  /\ UNCHANGED <<origin, entry, ongoingFetch, client, fetchOf, fetch>>

Released(r) ==
  /\ Awaiting(r, "release")
  /\ Respond(r, FinalAnswer(r))
  /\ UNCHANGED <<origin, redis, ongoingFetch, client, fetchOf, fetch>>

-----------------------------------------------------------------------------
(* The environment *)

\* r took the lock and may still fetch or write under it.
Holding == {"lock", "fetch", "write", "update"}
Critical(r) == locked[r] /\ pc[r] \in Holding

OriginChange ==
  /\ origin < MaxVersion
  /\ origin' = origin + 1
  /\ UNCHANGED <<redis, ongoingFetch, replies, pc, client, cachedResponse,
                 locked, fetchOf, fetch, resp>>

\* The freshness lifetime of what has been stored so far runs out.
Stale(e) == IF e = None THEN None ELSE [e EXCEPT !.fresh = FALSE]
Age ==
  /\ entry # None
  /\ entry.fresh
  /\ entry' = Stale(entry)
  /\ cachedResponse' = [r \in Requests |-> Stale(cachedResponse[r])]
  /\ UNCHANGED <<origin, lock, ongoingFetch, replies, pc, client, locked,
                 fetchOf, fetch, resp>>

Removed ==
  /\ entry # None
  /\ entry' = None
  /\ UNCHANGED <<origin, lock, ongoingFetch, replies, pc, client,
                 cachedResponse, locked, fetchOf, fetch, resp>>
ExpireEntry == entry # None /\ entry.ttl /\ Removed
\* purge() unlinks the key; with a wildcard also <key>.lock, which matches it.
PurgeEntry == "entry" \in Purges /\ Removed

LockGone ==
  /\ lock # None
  /\ lock' = None
  /\ UNCHANGED <<origin, entry, ongoingFetch, replies, pc, client,
                 cachedResponse, locked, fetchOf, fetch, resp>>
LockExpires ==
  /\ lock # None
  /\ LeaseOutlivesFetch => ~Critical(lock)
  /\ LockGone
PurgeLock == "lock" \in Purges /\ LockGone

\* A worker dies and a new process takes its place.  What it asked of Redis
\* stays done; its requests are cut off.
Crash(w) ==
  LET hit == {r \in Requests :
                WorkerOf[r] = w /\ pc[r] \notin {"idle", "done", "crashed"}}
  IN /\ Crashes
     /\ hit # {}
     /\ pc' = [r \in Requests |-> IF r \in hit THEN "crashed" ELSE pc[r]]
     /\ fetch' = [r \in Requests |-> IF r \in hit THEN NoFetch ELSE fetch[r]]
     /\ ongoingFetch' = [ongoingFetch EXCEPT ![w] = None]
     /\ replies' = [replies EXCEPT ![w] = <<>>]
     /\ locked' = [r \in Requests |-> locked[r] /\ r \notin hit]
     /\ cachedResponse' = [r \in Requests |-> IF r \in hit THEN None
                                                          ELSE cachedResponse[r]]
     /\ UNCHANGED <<origin, redis, client, fetchOf, resp>>

-----------------------------------------------------------------------------
Handle(r) ==
  \/ ServeFromCache(r) \/ Join(r) \/ TryLock(r) \/ StartFetch(r) \/ GotLock(r)
  \/ NoLock(r) \/ GiveUp(r) \/ Retry(r)
  \/ RejectLocked(r) \/ Aborted(r) \/ RejectUnlocked(r)
  \/ Throws(r) \/ Store(r) \/ SetExpiry(r) \/ Unlink(r) \/ PassOn(r)
  \/ Updated(r) \/ Released(r)

AllServed == \A r \in Requests : pc[r] \in {"done", "crashed"}
Terminated == AllServed /\ UNCHANGED vars

Next ==
  \/ \E r \in Requests : Arrive(r) \/ Handle(r) \/ OriginAnswer(r) \/ FetchFails(r)
  \/ OriginChange \/ Age \/ ExpireEntry \/ PurgeEntry \/ LockExpires \/ PurgeLock
  \/ \E w \in Workers : Crash(w)
  \/ Terminated

Spec == Init /\ [][Next]_vars

\* The event loop goes on, the timers of the retry loop, of originTimeout and
\* of the lock's PX fire.  Clients need not come, the origin need not answer.
Fairness ==
  /\ \A r \in Requests : WF_vars(Handle(r)) /\ WF_vars(FetchFails(r))
  /\ WF_vars(LockExpires)
FairSpec == Spec /\ Fairness
=============================================================================
