----------------------------- MODULE RedisOutage -----------------------------
(***************************************************************************)
(* The requests of one worker while Redis comes and goes: getCacheable()   *)
(* and _get() of src/src/modules/cache.js, each command they fire through  *)
(* the circuit breaker of src/src/modules/redis.js, the outage policy, the *)
(* retries without a lock.  Requests are for different keys, so that they  *)
(* meet in the breaker only; what Redis holds is a free choice.            *)
(***************************************************************************)
EXTENDS CircuitBreaker

CONSTANTS
  Clients,     \* connections, each with one request at a time
  Options,     \* configurations considered
  RetryCount,  \* distributedRequestsCoalescingOptions.retryCount
  MaxOutages   \* BOUND: times Redis goes down

\* disableOrigin: disableOriginOnRedisOutage; distributed: distributedRequestsCoalescing.
AllOptions == [disableOrigin : BOOLEAN, distributed : BOOLEAN]

ASSUME OptionsAssumption == Options \subseteq AllOptions
ASSUME BoundsAssumption == RetryCount \in Nat \ {0} /\ MaxOutages \in Nat

VARIABLES
  opts,     \* the configuration
  up,       \* Redis can be reached
  outages,  \* outages so far
  breaker,  \* server.redisBreaker
  pc,       \* per client: idle, delay, fetch, or the command it awaits
  cmd,      \* per client: none, sent, lost (caught by an outage), ok, error
  tries,    \* per client: calls of _get for the request
  locked,   \* per client: _acquireLock returned true
  got,      \* per client: the origin has answered the request
  bare,     \* per client: it asks the origin with the client's own validators, and
            \* the look-up has failed or found no entry
  status    \* per client: x-speedis-cache-status of the last answer

env == <<up, outages>>
local == <<tries, locked, status>>
asked == <<got, bare>>
vars == <<opts, env, breaker, pc, cmd, asked, local>>

\* The commands, in the order in which a request may need them.
Commands == {"json.get", "set", "json.set", "expire", "unlink",
             "script exists", "script load", "evalsha"}
Statuses == {"none", "CACHE_HIT", "CACHE_MISS", "CACHE_FAILED_MISS", "CACHE_NO_LOCK",
             "CACHE_REDIS_OUTAGE", "CACHE_ERROR_500"}

TypeOK ==
  /\ opts \in Options
  /\ up \in BOOLEAN /\ outages \in 0 .. MaxOutages
  /\ breaker \in Breakers
  /\ pc \in [Clients -> {"idle", "delay", "fetch"} \cup Commands]
  /\ cmd \in [Clients -> {"none", "sent", "lost", "ok", "error"}]
  /\ tries \in [Clients -> 0 .. RetryCount]
  /\ locked \in [Clients -> BOOLEAN]
  /\ got \in [Clients -> BOOLEAN] /\ bare \in [Clients -> BOOLEAN]
  /\ status \in [Clients -> Statuses]

Init ==
  /\ opts \in Options
  /\ up = TRUE /\ outages = 0
  /\ breaker = Closed
  /\ pc = [c \in Clients |-> "idle"]
  /\ cmd = [c \in Clients |-> "none"]
  /\ tries = [c \in Clients |-> 0]
  /\ locked = [c \in Clients |-> FALSE]
  /\ got = [c \in Clients |-> FALSE]
  /\ bare = [c \in Clients |-> FALSE]
  /\ status = [c \in Clients |-> "none"]

-----------------------------------------------------------------------------
(* Commands *)

\* redisBreaker.fire(command): a breaker that does not admit it rejects at once.
Fire(c, command) ==
  /\ pc' = [pc EXCEPT ![c] = command]
  /\ IF Admits(breaker)
     THEN /\ breaker' = Admitted(breaker)
          /\ cmd' = [cmd EXCEPT ![c] = IF up THEN "sent" ELSE "lost"]
     ELSE /\ cmd' = [cmd EXCEPT ![c] = "error"]
          /\ UNCHANGED breaker

InFlight(c) == cmd[c] \in {"sent", "lost"}

\* Redis replies: also to a command that waited for the connection to come back.
Reply(c) ==
  /\ InFlight(c) /\ up
  /\ cmd' = [cmd EXCEPT ![c] = "ok"]
  /\ breaker' = Succeeded(breaker)
  /\ UNCHANGED <<opts, env, pc, asked, local>>

\* mutant: a command that times out is not settled
TimesOut_Never(c) == FALSE
\* The connection was lost, redisTimeout aborts the command, or the breaker's
\* own timeout gives it up.
TimesOut(c) == cmd[c] = "lost"
Fail(c) ==
  /\ TimesOut(c)
  /\ cmd' = [cmd EXCEPT ![c] = "error"]
  /\ breaker' \in Failed(breaker)
  /\ UNCHANGED <<opts, env, pc, asked, local>>

\* The reply to `command' is there: the code after the await runs.
Resumes(c, command) == pc[c] = command /\ cmd[c] \in {"ok", "error"}

-----------------------------------------------------------------------------
(* A request *)

\* getCacheable returns; the connection is free for another request.
Answer(c, s) ==
  /\ pc' = [pc EXCEPT ![c] = "idle"]
  /\ cmd' = [cmd EXCEPT ![c] = "none"]
  /\ tries' = [tries EXCEPT ![c] = 0]
  /\ locked' = [locked EXCEPT ![c] = FALSE]
  /\ status' = [status EXCEPT ![c] = s]
  /\ UNCHANGED breaker

\* mutant: a breaker that is to be tried counts as an outage too
Outage_NotClosed == breaker.state # "closed" /\ opts.disableOrigin
Outage == breaker.state = "open" /\ opts.disableOrigin

\* A request arrives: 503 in an outage, otherwise _get looks it up.
Arrive(c) ==
  /\ pc[c] = "idle"
  /\ got' = [got EXCEPT ![c] = FALSE]
  /\ bare' = [bare EXCEPT ![c] = FALSE]
  /\ IF Outage THEN Answer(c, "CACHE_REDIS_OUTAGE")
     ELSE /\ Fire(c, "json.get")
          /\ tries' = [tries EXCEPT ![c] = 1]
          /\ status' = [status EXCEPT ![c] = "none"]
          /\ UNCHANGED locked
  /\ UNCHANGED <<opts, env>>

ToOrigin(c) ==
  /\ pc' = [pc EXCEPT ![c] = "fetch"]
  /\ cmd' = [cmd EXCEPT ![c] = "none"]
  /\ UNCHANGED breaker

\* An entry that can be used is served.
Hit(c) ==
  /\ Resumes(c, "json.get") /\ cmd[c] = "ok"
  /\ Answer(c, "CACHE_HIT")
  /\ UNCHANGED <<opts, env, asked>>

\* The origin has to be asked, under the lock if there is one.
AskOrigin(c) ==
  /\ IF opts.distributed THEN Fire(c, "set") ELSE ToOrigin(c)
  /\ UNCHANGED local

\* mutant: the error of the lookup is not caught in _get
LookupFailed_Thrown(c) == Answer(c, "CACHE_ERROR_500")
\* An error of the lookup is as good as no entry.
LookupFailed(c) == AskOrigin(c)
\* There is no entry, or none that can be used before it is refreshed, with the
\* entry's validators in the place of the client's.
Miss(c) ==
  /\ Resumes(c, "json.get")
  /\ IF cmd[c] = "ok" THEN AskOrigin(c) ELSE LookupFailed(c)
  /\ \E own \in BOOLEAN : bare' = [bare EXCEPT ![c] = own]
  /\ UNCHANGED <<opts, env, got>>

\* SET NX took the lock.
Lock(c) ==
  /\ Resumes(c, "set") /\ cmd[c] = "ok"
  /\ locked' = [locked EXCEPT ![c] = TRUE]
  /\ ToOrigin(c)
  /\ UNCHANGED <<opts, env, asked, tries, status>>

\* mutant: a request waits as long as the lock is taken
MayRetry_Always(c) == TRUE
MayRetry(c) == tries[c] < RetryCount /\ breaker.state # "open"

\* Another request has the lock, or the command failed: _get returns -1.
NoLock(c) ==
  /\ Resumes(c, "set")
  /\ IF MayRetry(c)
     THEN /\ pc' = [pc EXCEPT ![c] = "delay"]
          /\ cmd' = [cmd EXCEPT ![c] = "none"]
          /\ UNCHANGED <<breaker, local>>
     ELSE Answer(c, "CACHE_NO_LOCK")
  /\ UNCHANGED <<opts, env, asked>>

\* The delay is over; whether the breaker has opened meanwhile is not asked.
Retry(c) ==
  /\ pc[c] = "delay"
  /\ Fire(c, "json.get")
  /\ tries' = [tries EXCEPT ![c] = @ + 1]
  /\ UNCHANGED <<opts, env, asked, locked, status>>

\* What a request that has been to the origin is answered with.
Outcome(c) == IF got[c] THEN "CACHE_MISS" ELSE "CACHE_FAILED_MISS"
\* _releaseLock, if there is a lock, before the answer s.
Release(c, s) ==
  IF locked[c] THEN Fire(c, "script exists") /\ UNCHANGED local
               ELSE Answer(c, s)

\* The origin answers: with something to store, with something that must not be
\* stored and is removed if it is, with neither; with a 304 that finds no entry
\* to refresh, which throws outside every try, the lock unreleased.
OriginAnswers(c) ==
  /\ pc[c] = "fetch"
  /\ \/ \E command \in {"json.set", "unlink"} :
          Fire(c, command) /\ UNCHANGED local
     \/ Release(c, "CACHE_MISS")
     \/ bare[c] /\ Answer(c, "CACHE_ERROR_500")
  /\ got' = [got EXCEPT ![c] = TRUE]
  /\ UNCHANGED <<opts, env, bare>>
OriginFails(c) ==
  /\ pc[c] = "fetch"
  /\ Release(c, "CACHE_FAILED_MISS")
  /\ UNCHANGED <<opts, env, asked>>

\* mutant: an error of the write is not caught
Stored_Thrown(c) == IF cmd[c] = "ok" THEN Fire(c, "expire") /\ UNCHANGED local
                                     ELSE Answer(c, "CACHE_ERROR_500")
\* The second command follows only if the first succeeded and there is a ttl.
Stored(c) ==
  \/ cmd[c] = "ok" /\ Fire(c, "expire") /\ UNCHANGED local
  \/ Release(c, Outcome(c))
Store(c) ==
  Resumes(c, "json.set") /\ Stored(c) /\ UNCHANGED <<opts, env, asked>>
Updated(c) ==
  /\ Resumes(c, "expire") \/ Resumes(c, "unlink")
  /\ Release(c, Outcome(c))
  /\ UNCHANGED <<opts, env, asked>>

\* Redis has the script, or not, and loads it; an error ends the release.
Exists(c) ==
  /\ Resumes(c, "script exists")
  /\ IF cmd[c] = "error" THEN Answer(c, Outcome(c))
     ELSE /\ \E script \in {"script load", "evalsha"} : Fire(c, script)
          /\ UNCHANGED local
  /\ UNCHANGED <<opts, env, asked>>
Loaded(c) ==
  /\ Resumes(c, "script load")
  /\ IF cmd[c] = "error" THEN Answer(c, Outcome(c))
     ELSE Fire(c, "evalsha") /\ UNCHANGED local
  /\ UNCHANGED <<opts, env, asked>>
Unlocked(c) ==
  Resumes(c, "evalsha") /\ Answer(c, Outcome(c)) /\ UNCHANGED <<opts, env, asked>>

-----------------------------------------------------------------------------
(* Redis and the breaker's clock *)

GoesDown ==
  /\ up /\ outages < MaxOutages
  /\ up' = FALSE /\ outages' = outages + 1
  /\ cmd' = [c \in Clients |-> IF cmd[c] = "sent" THEN "lost" ELSE cmd[c]]
  /\ UNCHANGED <<opts, breaker, pc, asked, local>>
ComesUp ==
  /\ ~up /\ up' = TRUE
  /\ UNCHANGED <<opts, outages, breaker, pc, cmd, asked, local>>

HalfOpen ==
  /\ ResetDue(breaker)
  /\ breaker' = HalfOpened
  /\ UNCHANGED <<opts, env, pc, cmd, asked, local>>

-----------------------------------------------------------------------------
Settled(c) == Reply(c) \/ Fail(c)
Fetched(c) == OriginAnswers(c) \/ OriginFails(c)
Step(c) == \/ Hit(c) \/ Miss(c) \/ Lock(c) \/ NoLock(c) \/ Retry(c)
           \/ Store(c) \/ Updated(c) \/ Exists(c) \/ Loaded(c) \/ Unlocked(c)

Next ==
  \/ \E c \in Clients : Arrive(c) \/ Settled(c) \/ Fetched(c) \/ Step(c)
  \/ GoesDown \/ ComesUp \/ HalfOpen

Spec == Init /\ [][Next]_vars

\* Commands and fetches settle (by their timeouts at the latest), the event loop
\* runs on, clients keep asking, resetTimeout passes.  Redis owes nothing.
Fairness ==
  /\ \A c \in Clients : /\ WF_vars(Settled(c)) /\ WF_vars(Fetched(c))
                        /\ WF_vars(Step(c)) /\ WF_vars(Arrive(c))
  /\ WF_vars(HalfOpen)
FairSpec == Spec /\ Fairness
=============================================================================
