------------------------ MODULE RedisOutageProperties ------------------------
(***************************************************************************)
(* What the cache promises when Redis cannot be relied on (RedisOutage).   *)
(***************************************************************************)
EXTENDS RedisOutage

\* doc/Configuration.md, redisBreaker: without disableOriginOnRedisOutage Speedis
\* falls back to the origin.  Unless a lock must be had from Redis, no request
\* is turned away for want of it, wherever the outage catches it.  The exception
\* is one that the code makes: when the look-up has failed or found nothing, a
\* client's own validators may earn a 304, for which _get has no entry.
FallsBack ==
  ~opts.disableOrigin /\ ~opts.distributed =>
    \A c \in Clients :
      \/ status[c] \in {"none", "CACHE_HIT", "CACHE_MISS", "CACHE_FAILED_MISS"}
      \/ status[c] = "CACHE_ERROR_500" /\ got[c] /\ bare[c]

\* The client gets what the origin has answered: the writes and the release that
\* follow may fail, one after the other, or be refused.  Only the 304 that there
\* is no entry for is lost, before any of them.
OriginAnswerDelivered ==
  [][\A c \in Clients :
       got'[c] /\ pc[c] # "idle" /\ pc'[c] = "idle" =>
         \/ status'[c] = "CACHE_MISS"
         \/ status'[c] = "CACHE_ERROR_500" /\ pc[c] = "fetch" /\ bare[c]]_vars

\* Every request is answered, however often Redis comes and goes meanwhile and
\* although nobody may get the lock.
Answered == \A c \in Clients : pc[c] # "idle" ~> pc[c] = "idle"

\* doc/CircuitBreaker.md: once Redis is back the breaker closes again, whatever
\* it refused in between: somebody gets to make the trial.
Recovers == (<>[]up) => (<>[](breaker = Closed))
=============================================================================
