# A verification development for Speedis

Speedis is an HTTP cache: a Fastify application that answers requests from entries kept in Redis,
refreshes them from an origin server, coalesces concurrent refreshes inside a process and across
processes, and shields origin and Redis with circuit breakers. This directory models it in TLA+,
checks the models with TLC and proves theorems about them with TLAPS. Paths below are relative to
the repository; line numbers refer to the commit beside which this directory was written.

## 1. Inventory

| Component | Source | State it keeps | Operations | Interacts with |
|---|---|---|---|---|
| Refresh of a key | `src/src/modules/cache.js` `getCacheable`, `_get` | the locals of every request: entry read, fetch awaited, lock held, tries | look up, decide, join or fetch, store / merge / unlink, serve stale on error, retry without lock | Redis, origin, Map, lock |
| Local coalescing | `cache.js:23-29,561-600,644,694` | `ongoingFetch`: Map from key to promise, one per worker | get, set, delete | requests of the same worker |
| Distributed lock | `cache.js:844-919` | `<key>.lock` in Redis, a token and a lease | SET NX PX, compare-and-unlink script | all workers |
| Purge | `cache.js:141-200,968-1023` | none of its own | token check, UNLINK of GET/HEAD keys, SCAN MATCH and UNLINK for patterns | entries and, by accident of naming, locks |
| Cache keys | `cache.js:134-214`, `authentication.js` | none | key from origin id, user id, method, fingerprint, URL | every component that names a key |
| Freshness | `utils.js`, `cache.js:289-432,477-535,922-966` | none (pure) | lifetime, age, freshness decision, storability, conditional requests | refresh of a key |
| Redis client | `redis.js` | connection, breaker state, a timer per command | commands with timeout, breaker | every Redis user |
| Origin fetch | `origin.js` | HTTP/2 session, agent, a timer per request | HTTP/1.x and HTTP/2 requests, time-outs, header rules | breaker, refresh, plain proxy |
| Origin breaker | `originBreaker.js` | open / half-open / closed, `retryAfter` | fire, events | origin fetch |
| BFF pipeline | `bff.js`, `actions/*` | actions by phase | transform at eight phases | requests, responses, entries |
| Variants tracker | `variantTracker.js` | sorted sets `vary:<key>` | normalise, fingerprint, count | responses |
| Plugin | `plugins/speedis.js`, `error.js` | hook order | purge, cache or proxy | all of the above |
| Processes | `index.js`, `app.js` | forked workers | fork once, log deaths | operating system |
| Metrics, schemas | `metrics.js`, `originConfigValidator.js`, `schemas/` | counters | observe, validate | - |

What makes it hard, and the property each component is correct by:

* **Refresh and coalescing.** Requests of one worker interleave at every `await`; workers interleave
  everywhere. One request per key may be at the origin; every waiting request must be answered; an
  entry must never combine the headers of one version with the body of another; nothing may be left
  behind (a lock, a promise in the Map, an entry without the expiry it should have).
* **Lock.** Leases end while their owner works, replies get lost after the command has run, workers
  die. The lock excludes as long as leases outlive refreshes; a late owner never unlocks its
  successor; requests do not wait for a dead owner.
* **Breakers and outages.** Calls time out but go on in the background; state changes between a
  check and its use. While a breaker is open nothing reaches the protected service; a half-open one
  lets one call through; a client is never left waiting.
* **Origin fetch.** A promise settles exactly once, on every path (end, error, time-out, a response
  cut off in the middle).
* **Freshness.** Boundaries (an age equal to the lifetime, directives that contradict each other).
* **Keys and purge.** Two requests share a key only if they may share a response; a purge reaches
  exactly the entries it names. Both hold for plain URLs only (section 3.4).
* **BFF.** Each phase of the cache and of the way out is applied once per entry or answer;
  ORIGIN_RESPONSE is applied once per request that shares the response.

`PROJECT.json` lists these hazards at their lines, with the properties that answer them; the few that
no property answers say why.

## 2. Plan

1. `Coalescing` (+ `SingleFlight`, `CoalescingProperties`, `MCCoalescing`, `CoalescingProofs`,
   `CoalescingCleanupProofs`, `CoalescingVersionProofs`): the core, its abstract specification and its
   proofs. *Done.*
2. `Freshness` (+ `FreshnessProperties`, `MCFreshness`, `FreshnessProofs`): lifetime, age and the reuse
   decision of `_get` against real time. *Done.*
3. `CircuitBreaker` (opossum, external), composed with `origin.js` as `OriginFetch` (+ `OriginFetchProofs`)
   and with `redis.js` and `cache.js` as `RedisOutage` (+ `RedisOutageProofs`). *Done.*
4. `CacheKeys`, composed with the plugin's routing and `purge()` as `CachePurge` (+ `CachePurgeProofs`).
   *Done.*
5. `Pipeline` (+ `PipelineProofs`): phases of the BFF over shared response objects, conditional requests, the
   variants tracker's ETag. *Done.*
6. Left: the date fallback of If-Modified-Since, the bodies of the BFF actions, and patterns with an
   asterisk for any keys (end of section 5).

The modules that are proved about use no RECURSIVE operator. Each component has one passing run that
carries its properties; three more runs exhibit a disagreement with the documentation.

## 3. The core model

`Coalescing.tla` models **one cache key** used by any number of requests of any number of workers.

*State.* Redis is `entry` (the JSON document) and `lock` (the request whose token `<key>.lock` holds; a
token is unique per request, so the request stands for it). A worker is `ongoingFetch[w]` and the queue
`replies[w]` of the requests whose Redis reply is on the way. A request is the `await` it is suspended
at (`pc`), what the client sent (`request`), its locals (`tries`, `cachedResponse`, `locked`, and
`fetchOf`: whose promise the local `fetch` is), the fetch it launched (`fetch`) and its answer (`resp`).
The origin is the current `origin` version. A version stands for a body and for its ETag.

*Steps.* A worker is a Node.js event loop: code between two `await`s is not interrupted, so each action is
the code from one `await` to the next. It consumes the reply of the request's last command and issues
the next command.

| Action | Code (`cache.js`) |
|---|---|
| `Arrive` | 434-475, up to the await of JSON.GET |
| `ServeFromCache`, `Join`, `TryLock`, `StartFetch` | 477-607, the four ways on from the lookup |
| `GotLock`, `NoLock` | 573-607 and 576-582 after the reply to SET NX PX |
| `GiveUp`, `Retry` | 253-273, the loop of `getCacheable` |
| `RejectLocked`, `Aborted`, `RejectUnlocked` | 628-692, the catch, with and without a lock to release first |
| `Throws` | 713-720, a 304 without a cached entry, and 274-287 |
| `Store`, `SetExpiry`, `Unlink`, `PassOn` | 694-807, JSON.SET or JSON.MERGE, EXPIRE, UNLINK, or neither |
| `Updated`, `Released` | 809-842, the release and the answer |
| `OriginAnswer`, `FetchFails`, `OriginChange`, `Age`, `ExpireEntry`, `LockExpires`, `PurgeEntry`, `PurgeLock`, `Crash` | the environment |

*Order of events.* A command takes effect at Redis when it is issued and its reply comes later; that the
commands of one connection are executed in order and the workers' commands interleave freely is all
Redis guarantees, and effects at issue time in every interleaving cover it. Replies of one connection
arrive in order (`replies` is a FIFO per worker). When a fetch settles, its fetcher and all its followers
resume as microtasks, before the worker's next event: `Quiet` keeps every other event of that worker out
until they have run. The fetcher is the first to await the promise, so it resumes first.

*What is abstracted.* Freshness is a flag of the stored document that `Age` clears, for the copies that
requests hold as well; the arithmetic is the subject of `Freshness` (section 3.1). The origin's
`Cache-Control` is one of four policies, the request's one of four directives. The time to live of an
entry is whether it has one; whether it survives JSON.SET is left open. SCRIPT EXISTS and SCRIPT LOAD
before EVALSHA are part of the release: they touch no state of the model and, when they fail, are
the outcome "failed" of the release. The BFF transformations and the answers
to conditional requests are the subject of `Pipeline`, the `disableOriginOnRedisOutage` shortcut that of
`RedisOutage`; that failing commands may open the breaker in the middle of the retry loop is in `GiveUp`. A replaced worker in `Crash` is the
restart of the container: `index.js:118` itself only logs the death.

*Failures.* With `RedisFaults` every command may fail without being executed, or be executed and lose its
reply (connection lost, `redisTimeout`). With `Crashes` a worker may die between any two steps.

`SingleFlight.tla` is what coalescing promises: one refresher at a time, and copies that never go back to
an older version. `CoalescingProperties.tla` states the properties and the refinement mapping;
`MCCoalescing.tla` the instances.

### 3.1 Freshness

`Freshness.tla` models **one entry over time**: requests come one after the other (their interleaving is
the subject of `Coalescing`), the origin answers after any delay, with its own clock and possibly
through caches of its own. `now` is real time in ticks, `Precision` of them to a second; the code sees
`Second(now)`, what `Date.now() / 1000 | 0` gives. `born`, in an answer and in the entry, is what the
code cannot know: when the origin really generated or validated the response.

| Definition | Code |
|---|---|
| `CalculateFreshnessLifetime`, `CalculateAge`, `AgeValue` | `utils.js:105-128`, `145-170` |
| `ResponseIsFresh`, `Usable`, `ServeFromCache` | `cache.js:477-535`, in the code's order: max-age, min-fresh, then max-stale, which overrules them |
| `StartFetch`, `Received` | 536-626: `requestTime`, `responseTime`, and `ensureValidDateHeader` |
| `IsStorable`, `WriteCache`, `Forbidden`, `Update` | 698-707, 729-807, 932-965 |
| `Replace`, `MergeHeaders`, `Freshen` | the 200 (763-782) and the 304 (713-761), which only overwrites the headers it brings |
| `FetchFails` | 628-692, stale-if-error unless `must-revalidate` |

`NaN` is a header field that `parseInt` or `Date.parse` cannot read: a comparison with it is false, an
unreadable `Expires` counts as none for the lifetime but as one for storability. A response's
`mustRevalidate` stands for `proxy-revalidate` as well. Writes to Redis succeed here (their failures are
in `Coalescing`), and the headers removed by `cleanUpHeader` are none of those the model has.

### 3.2 The origin: `CircuitBreaker` and `OriginFetch`

`CircuitBreaker.tla` is the library opossum reduced to what decides whether a call is admitted: closed,
open or half open, and whether the half-open breaker still has its trial call to give away. It is
external code, modelled from how `redis.js` and `originBreaker.js` configure it; its rolling
statistics, which say when failures are too many, are a free choice of `Failed`.

`OriginFetch.tla` composes it with `_fetch()`. A call is two things that need not end together: the
*promise* its caller awaits (`promise`, `code`) and the *exchange* with the origin (`exchange`: sent, its
response begun, over). `timer` is the timer that watches it, the breaker's or `_fetch`'s own.
With HTTP/2 it is a `stream` of a session; `http2Session` is the current one. A configuration `opts`
chooses protocol, breaker and `originTimeout`.

| Definition | Code |
|---|---|
| `Fetch`, `Refused` | `origin.js:173-204`, admission by the breaker, `GetValidHttp2Session` (55-80) |
| `ResponseHead`, `ResponseEnd`, `RequestError` | the listeners of both protocols (223-242, 318-336) |
| `BreakerTimeout`, `StreamTimeout`, `RequestTimeout` | `originBreaker.js:11-14`, `origin.js:341-348`, `214-221` |
| `CutOff` | a connection lost in the middle of an HTTP/1.x response: nobody listens (224-232) |
| `HalfOpen`, `SessionEnds` | resetTimeout; GOAWAY or a lost connection (65-75) |

A lost HTTP/2 session ends its streams with an error or with the timer (`Connected`); header filtering is left out.

### 3.3 Redis outages: `RedisOutage`

`RedisOutage.tla` follows each client's request through `getCacheable` and `_get`, one state per
command: JSON.GET, SET NX, the write and its EXPIRE (or UNLINK), and the three commands of the release.
Each is fired through the breaker, which may refuse it, and settles: with a reply when Redis is up, with
an error when it was caught by an outage. `AskOrigin`, `NoLock`, `Retry`, `Stored`, `Release` have the
code's decisions after each of them, `Outage` and `Arrive` the shortcut of lines 229-242. What Redis
holds is a free choice, and clients ask for different keys: they meet in the breaker only (they meet at
a key in `Coalescing`). `CACHE_FAILED_MISS` stands for every answer without the origin's, stale-if-error
included. EXPIRE follows a write only where the entry has a ttl, which is left open.

A client's own validators are forwarded to the origin. When the look-up has failed or found nothing
(`bare`), they may earn a 304 for which `_get` has no entry: line 720 throws, the client is answered
`CACHE_ERROR_500` and the lock is not released (`OriginAnswers`, third disjunct). An outage makes this
likely, as it empties every look-up. `FallsBack` and `OriginAnswerDelivered` say so: they name this answer as
the one exception, and hold it to that place. With an entry read, a 304 is an answer like any other.

### 3.4 Keys and purges: `CacheKeys` and `CachePurge`

`CacheKeys.tla` has no state: rules and hooks of `initCache` (which rule matches, who the user is, what
is refused with 401), `generateCacheKey`, and what `purge()` makes of the key of the purge request.

URLs, ids and keys are *texts*: sequences of lexemes, which are words, the marks that URLs and keys are put
together with (`:` `/` `?` `&` `=` `*`) and the escapes of these marks. On them the conversions do what the code's do: `Base` and `QueryString` drop
what follows a second question mark (line 144), `Param` decodes (148), sorted parameters are joined again
without encoding and others with (`QueryPart`, 155-165), `UrlKey` makes colons of slashes (173),
`GenerateCacheKey` joins with colons, and `Replace` finds the first occurrence anywhere in the key
(970-987). A rule's pattern is searched in the whole URL. `Glob` is Redis' MATCH. Texts are cut so finely that
"purge", "DELETE" and patterns are lexemes of their own: an id that reads "mypurge" is two.

So modelled, different requests meet: `/items:one` and `/items/one`, `?kind=red%26size%3Dbig` and
`?kind=red&size=big`, and whatever differs only behind a second question mark. `MeetingAssumption` in `MCCachePurge`
evaluates these three. The properties of keys are therefore stated of requests whose URLs need none of these
conversions (`IsPlain`), and of purges whose keys, moreover, hold "purge" and "DELETE" only where the code looks for
them (`IsPlainPurge`); that the rest are not kept apart is the code's (section 6). A purge that is not plain is part of
the run, of a user whose id ends in "purge".

`CachePurge.tla` lets clients fetch and store under these keys while purges run: an exact one unlinks
the keys of GET and HEAD at once, a wildcard purge alternates SCAN and UNLINK, any command may fail (also
after its execution) and SCAN promises only what Redis promises, the keys that were there from beginning
to end. `old` marks those. The properties are stated on *requests* (`Identity`, `Names`), not on keys: a key
is right if exactly the plain requests that may share a response share it. `PurgeReaches` is about what was there
when the purge began: the response of a request that was at the origin by then is stored after it and stays.

### 3.5 Answers: `Pipeline`

`Pipeline.tla` is about objects: one worker, one key, local coalescing. A body is the version the origin
gave it and the sequence of the BFF phases applied to it. When a fetch settles, fetcher and followers run
one after the other, and each applies `ORIGIN_RESPONSE` to the *same* object (`Shared(n)`: after n of them);
a request clones its answer at once or, if it awaits Redis first, after all of them (`Awaits`). What is
stored, returned, refreshed by a 304 or served stale follows from that, and goes through
`Conditional` (`cache.js:289-432`), `Sent` (`speedis.js:106-128`) and `Tagged` (`variantTracker.js:21-64`) on its way to a client,
which keeps a copy and may show its validators in its next request. `no-transform` is in the headers of
the versions in `Untransformed`; a target without `path` matches no anchored pattern (`Anchored`).

Headers are reduced to the validators, which identify a version; Redis is reliable here, its commands in order;
the fallback of If-Modified-Since to Date is left out. CLIENT_REQUEST, ORIGIN_REQUEST and
CACHE_KEY_GENERATION act on requests, which are not bodies here.

## 4. Runs

| Run | Instance | Shows |
|---|---|---|
| `distributed` | 3 requests on 2 workers, 2 versions, local + distributed, TTLs, purges, private responses | `MutualExclusion`, `NoLeakedLock`, `EntryExpires`, and that the design implements `SingleFlight` |
| `faults` | the same with failing commands, lost replies and crashes; cacheable responses, no TTLs | `TypeOK`, `RefreshInv` (the inductive invariant of the proofs), `OneOriginRequest`, `NoMixedEntry` |
| `local` | 3 requests of 1 worker, local coalescing only, 1 version, TTLs, three policies and every request directive | `OnePerWorker`, `NoDeadPromise` |
| `liveness` | crashes, leases that may end at any time, wildcard purges that remove the lock, fairness | `Served`; no request removes another's lock, which only its owner, the end of its lease or a wildcard purge does (`OnlyOwnerUnlocks`) |
| `ages` | ticks of half a second, two seconds, upstream ages 0 and 1, a clock one second ahead or no Date, malformed and absent fields | `TypeOK`, `AgesInv` (the inductive invariant of the proofs), `AgeIsConservative`, `HitWithinLimits`, `NotModifiedRefreshes` |
| `origin_fetch` | 2 calls for one key and 1 for another, every configuration, 2 sessions, fairness of timers | an aborted request leaves the origin, a half-open breaker has one trial and it decides, one session is usable at a time, promises settle, open breakers come to a trial |
| `outage` | 2 clients, every configuration, 2 outages at any moment, validators of clients, fairness | no request is turned away for want of Redis unless configured, the origin's answer is delivered (both but for the 304 without an entry), every request ends, the breaker closes again |
| `purge` | 2 clients, 12 requests (two users, four forms of token, three methods), 7 purges, one of them not plain | keys identify plain requests, patterns fit their entries (`PatternsFit`), purges reach what they name and spare the rest |
| `reply` | 2 clients, 2 versions, one with no-transform | what is stored went through its phases once; an answer through those of the way out once, through ORIGIN_RESPONSE at least once; a client is not told to keep an older copy |
| `shared_not_modified` | 3 requests, one may send an ETag | *violated:* a follower applies a 304 that answered another client's ETag to its own older copy and returns the old body under the new ETag |
| `cut_off` | HTTP/1.x, `originTimeout`, no breaker | *violated:* a response cut off in its middle never settles the promise, and `originTimeout` does not help |
| `unfiltered` | a `urlPattern` that names a path | *violated:* the clone to be stored has lost the path, so its CACHE_REQUEST actions are skipped |

*Bounds of `Coalescing`.* `Requests` (3): each request is handled once; three allow a fetcher, a follower of the same
worker, a competitor at the other worker, and one that comes after a refresh. `MaxVersion` (1): two
versions suffice to tell an old from a new one. `RetryCount` (2): one retry that succeeds and one that
gives up. Every passing run lets these requests finish in every way the actions allow. Requests of the
same worker are interchangeable (`SYMMETRY`, only in runs without liveness properties). Deadlock is
checked everywhere: the only state without a next step would be one where a request waits for something
that never happens (`Terminated` stutters when all are served).

*Bounds of `Freshness`.* `Precision` 2 is the smallest that lets rounding matter. `MaxTime` stops the clock
(`Done` stutters there); two seconds hold a fetch that takes more than one, a merge and a hit at the end
of a lifetime of one, and the arithmetic only has differences of times. The sets of headers and
directives take each branch of the arithmetic; what they leave out is covered by the proofs, which
bound none of them. No fairness is needed. `NotModifiedRefreshes` is stated
of entries without an Age header: with one it does not hold (section 6).

*Bounds of `OriginFetch`.* Three calls, two for the same key: a late exchange, its successor and an
independent call that opens or closes the breaker. `MaxSessions` (2) lets the second session be the last
(`SessionEnds` spares it): one replacement, with streams on both. Calls are made once, so all may be over
(`Finished` stutters; it also holds where a call waits for a promise that never settles). *Bounds of `RedisOutage`.* Clients ask again and again; `MaxOutages`
(2) allows an outage during a trial. *Bounds of `CachePurge`.* One purge at a time, any number of them;
requests and purges take each branch of key generation (a rule, none, private, a body's fingerprint,
parameters that are ignored or sorted). *Bounds of `Pipeline`.* `MaxVersion` (1), with clients that come
again and again. The 412 of a conditional POST is reached with `ReadOnly` FALSE only. Neither of the
last two has an end, so that deadlock is checked without an exception.

*Assumptions of single runs.* `LeaseOutlivesFetch` says the lease is longer than the time a request fetches
and writes under it. The code does not ensure it (the shipped `conf/origins/cache.json` has `lockTTL` 750
below `originTimeout` 1000); `liveness` shows what remains true without it. That
`RefreshInv` and `OneOriginRequest` need it can be seen by setting it to FALSE in `Faults.cfg`.
`Validators` is empty wherever a forwarded `If-None-Match` would only repeat the recorded defects; in
particular `NoMixedEntry` is false with them (`shared_not_modified`). `NoLeakedLock` is for commands
that do not fail: after a lost reply the lock stays until its lease ends, which is by design.
`ResetOutlivesTimeout` (`origin_fetch`) is what the shipped configuration has (`resetTimeout` 2000,
`originTimeout` 1000): calls that began before the breaker opened are decided before it is half open.
`RedisOutage` has the breaker configured, and its fetches settle, which over HTTP/1.x needs that a response
is not cut off (`cut_off`).

*Fairness.* `WF(Handle(r))`: the event loop keeps running the continuations that are ready, replies come
or fail, and timers of the retry loop fire. `WF(FetchFails(r))`: a fetch that is not answered ends by
`originTimeout`, which the shipped origins configure, with the breaker (`originBreaker` true) or with the
request's own timer; `cut_off` shows the path of the code that escapes it. `WF(LockExpires)`: PX. In
`OriginFetch` timers fire and `resetTimeout` passes; the origin owes nothing. In `RedisOutage` commands and
fetches settle, the event loop runs on, clients keep asking (`Recovers` needs somebody to make the
trial) and `resetTimeout` passes; that Redis comes back is the premise of `Recovers` only. Nothing is
assumed of purges, crashes or the origin.

## 5. Proofs

`CoalescingProofs.tla`, for any sets of requests and workers, any bound on versions and tries, with Redis
faults and crashes:

* `TypeCorrect`: `Spec => []TypeOK`.
* `LockExcludes`: `Spec => []MutualExclusion`, if `LeaseOutlivesFetch` and no wildcard purge
  (`"lock" \notin Purges`).
* `SingleRequest`: `Spec => []OneOriginRequest`, under the same conditions and `Distributed`.
* `SingleRequestPerWorker`: `Spec => []OnePerWorker`, with `Local /\ ~Distributed` and no other condition.

`MutualExclusion` is not inductive. Two facts must be carried along. `LockHeld`: a request whose `locked` is
true and that still fetches or writes is the owner recorded in Redis. It is an invariant because SET NX
grants the lock only when there is none, because the script unlinks only the caller's token, and because
no lease ends under a critical owner. Exclusion follows from it at once, a lock having one owner.
`FetchOwned`: an unfinished fetch belongs to a request that awaits it, holds the lock if coalescing is
distributed, and is the one in the Map if it is local only. It needs the Map to be deleted by the
fetcher only, after the fetch has settled, and `LockedOnlyIfDistributed` for the path that releases
before it deletes. Their conjunction `RefreshInv` is checked by `faults` and is the theorem `RefreshInvariant`, proved
from one lemma per group of actions (handlers that only move the control, that start a fetch, that settle
one, the environment).

`FreshnessProofs.tla`, for any precision of the clock, any headers, delays and skews and any directives:

* `FreshnessTypes`: `Spec => []TypeOK`; an entry always has a Date, a 304 always an entry to freshen.
* `ConservativeAge`: `Spec => []AgeIsConservative`: the computed age is never short by a second or more.
* `HitsKeepTheirLimits`: `Spec => HitWithinLimits`: so whatever is served from the cache is truly within
  the lifetime and the limits of the request, up to that second.
* `NotModifiedIsRefreshed`: `Spec => NotModifiedRefreshes`: a 304 that took less than a second makes an entry without Age
  fresh for what it grants (`FreshenedFields`: what the merge leaves; `NewIsFresh`: its age is zero).

The age is not conservative of itself: it takes the fact that the origin was asked no later than the
answer was generated, once the Age it arrived with is taken off (`Bounded`), for the answer on its way
and for the entry, also when a 304 leaves an older Age in place, which can only make it look older.
That is `AgesInv`, which the run `ages` checks. It is inductive only together with the types, so
`AgesInductive` proves both at once; `BoundedAge` draws the conclusion from it with two lemmas about
rounding and scaling by `Precision`. That Date is not needed is the point: the proof holds for any skew.
The assumption it rests on is that Age as received is not understated (`OriginAnswer`).

`CoalescingCleanupProofs.tla`, about what a refresh leaves behind:

* `PromisesAlive`: `Spec => []NoDeadPromise`, without any condition. The invariant `PromiseHeld` adds that the
  Map is only filled with local coalescing and that a promise's request is the fetcher of it: only a
  fetcher empties the Map, and a request that stops waiting is a fetcher or is not in it.
* `EntriesExpire`: `Spec => []EntryExpires`, with a ttl and without faults and crashes. The property is inductive
  as it stands: the one case that needs an argument is a JSON.MERGE of a document without a ttl, which leaves
  the expiry to whoever wrote the body and still is at its EXPIRE (`WritersStay`).
* `LocksReleased`: `Spec => []NoLeakedLock`, without faults, crashes and client validators. A 304 that finds no
  cached entry would throw past the release. That none does is `Conditional`: a fetch is conditional only if
  its request has read an entry. `LockUsed` adds that whoever holds the lock awaits its own fetch.
* `OwnersUnlock`: `Spec => OnlyOwnerUnlocks`, without any condition: of the code of the requests only the release of the owner
  removes a lock. What else does is the end of the lease and a wildcard purge; the latter may take a lock that is held
  (`"lock" \in Purges`), after which exclusion is lost, and is why `LockExcludes` excludes it.

`CoalescingVersionProofs.tla`, with the distributed lock, leases that outlive refreshes and no wildcard purge (as
`LockExcludes`), with Redis faults and crashes:

* `VersionsInvariant`: `Spec => []VersionInv`: the validator of a document is that of its body, no document is of a later
  version than the origin's or than an answer about to be stored, what a request has read is no newer than
  the entry, and a request with an entry asks the origin about that one. It stands on `RefreshInv`: of two writers one
  could store an older version over a newer one.
* `ImplementsAbstract`: `Spec => ImplementsSingleFlight`. The abstract refresher is the one request in its critical section
  (`refresher`). One step of the proof per kind of step: SET NX begins a refresh, JSON.SET and JSON.MERGE
  store the version it was answered with (`VersionInv`), leaving the critical section ends it, all
  else stutters, ages or removes the entry.
* `NoMixes`: `Spec => []NoMixedEntry`, with the further condition that clients send no validators where coalescing is
  also local; without it the property is false (`shared_not_modified`). Documents are right by `VersionInv`. What a
  follower answers after a 304 is its own document with the fetcher's answer, so `AnswerInv` has to show
  that both read the same version (`Confirmed`). The follower's is no older, as replies of one connection come in the
  order of their commands (`Queued`, `InOrder`): who joins a promise has read after the fetcher. And it is no newer, as
  an answer on its way under the lock is of the latest version known (`KnownUpTo`). `Promised` says who awaits which fetch, where.

`OriginFetchProofs.tla`, for any calls, keys, configurations and number of sessions:

* `TypeCorrect`, and `OneRequestPerKey`: `Spec => []OwnTimeoutAborts`. Coalescing watches promises, the property
  speaks of exchanges: `Accompanied` says that without the breaker an exchange goes on only under a
  pending promise, which every time-out has to maintain.
* `OneTrial` and `TrialAlone`: `Spec => []SingleTrial` and `Spec => TrialDecides`, if `resetTimeout` exceeds the
  calls' time-out (`ResetOutlivesTimeout`). `TrialInv` adds that a breaker which is configured away stays closed.
* `UsableSession`: `Spec => []OneSession`.

`RedisOutageProofs.tla`, for any clients, configurations, retries and outages: `TypeCorrect`, `OriginIsTheFallback`
(`Spec => []FallsBack`) and `AnswersDelivered` (`Spec => OriginAnswerDelivered`), from one invariant,
`RequestsInv`. Per request it says that one that waits to retry has tries left (without which the bound on `tries`
is not inductive), that without locks none is at SET NX or in a delay, and that one the origin has answered is
past the fetch, or has had a 304 without an entry and is answered. `CourseKept` treats the request that moves, `OthersWait` the others.

`CachePurgeProofs.tla`, for any clients, rules, requests and purges: `TypeCorrect`, `PurgesReach`
(`Spec => []PurgeReaches`) and `PurgesSpare` (`Spec => PurgeSpares`). The invariant: entries are filed under the key of
the request they answer (`EntriesFiled`); a purge in progress is authorised and holds only keys it matches, and
when it has ended no entry it matches is as old as the purge (`PurgeMatches`). The theorems assume that patterns match
the keys of what they name (`PatternsReach`) and none they must spare (`PatternsSpare`). These are statements about keys
alone, not about any interleaving, and the second half of the module proves as much of them as can be:

* `KeysTellApart`: `Spec => []KeysIdentify`. A key is a text, in which three of five parts may be missing; that all of
  them can be read back (`KeysApart`) takes that each part but the URL's ends with its only colon, and that no user id is a
  method and no digest of a body the beginning of a path (`KeyPartsFit`). The rewriting of slashes is undone for paths without
  colons, which is what being plain gives.
* `ExactPurges`: a plain purge of a single resource matches, of the entries of plain requests, just those it names. This
  follows `String.replace`, the first occurrence in the whole text, through the purge's own key: the first "purge" in it is
  the one of the path, the first "DELETE" the method (`PurgedKeys`), because what stands before them is free of the two
  words. That is part of `IsPlainPurge`; without it the claim is false.
* `GlobsSuffice`: so `PatternsReach` and `PatternsSpare` need to be shown of patterns with an asterisk only, and with these
  (`GlobsFit`) `PurgesFit`: `Spec => []PatternsFit`.

The hypotheses on parts, requests and purge paths are assumed in `MCCachePurge`, so that TLC evaluates them with the
run `purge`. Those on patterns are what its invariant `PatternsFit` checks of every entry that its requests can make,
exact purges included, which is how the run and these theorems support each other.
`Texts` stands for the lexemes that keys are made of, STRING in that run. One hypothesis is in place of an
induction: queries that are parsed, filtered, sorted and joined again are the same just if their parameters are
relevant alike (`QueriesFit`).

`PipelineProofs.tla`, for any clients, versions and patterns:

* `StoredOnce`: `Spec => []EntryPhases`. `EntryHistory` lists the two histories a stored body can have; followers do not
  matter because the clone is of `Shared(1)`.
* `PipelineTypes`: `Spec => []TypeOK`; `AnswersOwnPhases`: `Spec => []AnswerPhases`, which counts ORIGIN_RESPONSE exactly
  for answers from the cache and from `proxy()` and bounds it from below only for those of a shared fetch; `KeptNotOlder`: `Spec => []KeptIsNoOlder`.
  They follow from one invariant, `PipeInv`. `QueuesFit`: a request that looks stands once in the queue of replies,
  one that waits once with the fetch, one that awaits Redis has its answer ready. `EntryFits` and `ReadsFit`: a body is
  of its validator's version, with the history of its kind. `InOrder`: nobody who looks or waits has read an older
  version than the one the fetch was started with, so that on a 304 every waiter has read just the version
  confirmed. `ClientsFit` and `AnswersFit`: what clients keep is a version they were sent, under the tag they were
  sent, and the last answer was right for its client. Histories are counted phase by phase: one lemma says what
  `transform` adds (`PhaseAdded`), so no induction over their length is needed.

*Only model-checked*: all liveness (`Served`, `Settles`, `TrialEnds`, `Answered`, `Recovers`), which with
fairness and ENABLED is out of the prover's reach. Every safety and action property of the passing runs is stated by
a theorem, some under the conditions named above. What remains with TLC of these is what a recursive function computes:
that patterns with an asterisk match what they name (`Glob`), and that parsing, sorting and joining parameters makes
queries comparable (`QueryPart`); both are hypotheses that the run `purge` evaluates.

## 6. Not modelled

* Metrics (they only observe), the JSON schemas (declarative; their constraints appear as the assumptions
  on the constants), the mock origin, the deployment files, CORS and content-type parsers (framework
  configuration).
* Start-up: a sequence of awaited initialisations that aborts on the first error. `index.js` forks its
  workers once and logs a death; what a dead worker leaves behind is `Crash` in `Coalescing`.
* Header filtering (`getForwardedHeaders`, `transformHeadersForHttp2`, `cleanUpHeader`): pure selections of fields.
* The bodies of the BFF actions, the counters of the variants tracker, the cryptography of tokens.
* Vary: a key takes the fields of the *request's* Vary header, which clients do not send; responses with Vary are not stored.

Where code and documentation disagree without a run of its own, met while modelling:

* `cache.js:743`: JSON.MERGE recreates a key that expired or was purged meanwhile, with headers only; the
  next request finds it fresh and gets a response without status, a 500, where `CacheStatus.md:11` has a
  CACHE_HIT "served directly" (`Pipeline`: an entry whose `body` is None, and `Sent`).
* `cache.js:607,720`: a request without a cached entry that gets a 304 (its own validator was forwarded,
  or it follows a revalidation) is answered 500, where `CacheStatus.md:16` says the response is forwarded as it is. If it
  held the lock, that stays until its lease ends (`Throws`). While Redis is out every conditional request
  may end so (`RedisOutage`).
* `cache.js:144-173,216`: keys of different requests meet: a colon in a path is a slash's, an escaped `&` or `=`
  in a sorted parameter a real one's, and the text behind a second `?` counts for nothing.
* `cache.js:970-987`: an origin id or a user id that ends in "purge" or "DELETE" is hit by `String.replace` before the path or
  the method, and the purge removes nothing or something else.
* `cache.js:1000`: a wildcard purge unlinks `<key>.lock` with the entries it matches, also when it is held.
* `cache.js:725`: the Age an entry was stored with stays when a 304 without Age refreshes it, so that it is stale again at once.
* `cache.js:507`: a client's max-stale overrules must-revalidate (`CacheStatus.md:14`, `test/modules/cache.test.js:875`).
* `cache.js:573`: the entry is not read again under the lock, so a request that waited for it fetches what
  another has just stored (`README.md:55`).
* `cache.js:229`: only an open breaker counts as an outage; while it is half open, requests reach the
  origin although Redis is down (`README.md:77-79`).
* `originBreaker.js:12`: the breaker's timeout rejects but does not abort the request
  (`Configuration.md:198`), so a key may have a second request at the origin (`OneAtOrigin` holds without the breaker only).
* `Requests.md:73`: without the user header "no private entry will match"; the wildcard `purge/*` has no user
  part and matches private entries as well (`Names` takes it as naming everything).
* `Configuration.md:511`: without a lock the origin is not asked; with distributed coalescing and Redis gone, clients get CACHE_NO_LOCK.
* `bff.js:142`: `no-transform` is looked for in the object to be transformed, not in "either the request or the
  response" (`Configuration.md:327`).
* `cache.js:732`: after a 304 the fetcher's client is sent the body that went through CACHE_REQUEST, and
  header changes of CACHE_RESPONSE are written back; followers' answers have ORIGIN_RESPONSE applied several times.
* `cache.js:429`: answers carry a new Date, with which If-Modified-Since is compared when there is no
  Last-Modified (417).
