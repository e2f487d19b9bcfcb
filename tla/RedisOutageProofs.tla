-------------------------- MODULE RedisOutageProofs --------------------------
(***************************************************************************)
(* Proofs about RedisOutage, for any clients, configurations, numbers of   *)
(* retries and outages.                                                    *)
(***************************************************************************)
EXTENDS RedisOutageProperties, TLAPS

USE OptionsAssumption, BoundsAssumption

-----------------------------------------------------------------------------
(* Types *)

\* Calls and their outcomes take a breaker from state to state.
LEMMA BreakerTypes ==
  /\ Closed \in Breakers /\ Opened \in Breakers /\ HalfOpened \in Breakers
  /\ \A b \in Breakers : /\ Admitted(b) \in Breakers
                         /\ Succeeded(b) \in Breakers
                         /\ Failed(b) \subseteq Breakers
<1>1. Closed \in Breakers /\ Opened \in Breakers /\ HalfOpened \in Breakers
  BY DEF Breakers, States, Closed, Opened, HalfOpened
<1>2. \A b \in Breakers : Failed(b) \subseteq {b, Opened}
  BY DEF Breakers, States, Failed
<1> QED BY <1>1, <1>2 DEF Breakers, Admitted, Succeeded

LEMMA FireTypes ==
  ASSUME TypeOK, NEW c \in Clients, NEW command \in Commands, Fire(c, command)
  PROVE  /\ pc' \in [Clients -> {"idle", "delay", "fetch"} \cup Commands]
         /\ cmd' \in [Clients -> {"none", "sent", "lost", "ok", "error"}]
         /\ breaker' \in Breakers
<1>1. Admitted(breaker) \in Breakers
  BY BreakerTypes DEF TypeOK
<1> QED BY <1>1 DEF TypeOK, Fire

LEMMA AnswerTypes ==
  ASSUME TypeOK, NEW c \in Clients, NEW s \in Statuses, Answer(c, s)
  PROVE  /\ pc' \in [Clients -> {"idle", "delay", "fetch"} \cup Commands]
         /\ cmd' \in [Clients -> {"none", "sent", "lost", "ok", "error"}]
         /\ tries' \in [Clients -> 0 .. RetryCount]
         /\ locked' \in [Clients -> BOOLEAN]
         /\ status' \in [Clients -> Statuses]
         /\ breaker' \in Breakers
  BY DEF TypeOK, Answer

\* What a step of a request leaves well typed, apart from opts, env and asked.
RequestOK ==
  /\ breaker \in Breakers
  /\ pc \in [Clients -> {"idle", "delay", "fetch"} \cup Commands]
  /\ cmd \in [Clients -> {"none", "sent", "lost", "ok", "error"}]
  /\ tries \in [Clients -> 0 .. RetryCount]
  /\ locked \in [Clients -> BOOLEAN]
  /\ status \in [Clients -> Statuses]

LEMMA OutcomeTypes ==
  \A c \in Clients : /\ Outcome(c) \in Statuses
                     /\ Outcome(c) \in {"CACHE_MISS", "CACHE_FAILED_MISS"}
  BY DEF Outcome, Statuses

LEMMA FireOK ==
  ASSUME TypeOK, NEW c \in Clients, NEW command \in Commands,
         Fire(c, command), UNCHANGED local
  PROVE  RequestOK'
  BY FireTypes DEF TypeOK, RequestOK, local

LEMMA AnswerOK ==
  ASSUME TypeOK, NEW c \in Clients, NEW s \in Statuses, Answer(c, s)
  PROVE  RequestOK'
  BY AnswerTypes DEF RequestOK

LEMMA ReleaseOK ==
  ASSUME TypeOK, NEW c \in Clients, NEW s \in Statuses, Release(c, s)
  PROVE  RequestOK'
<1>1. CASE locked[c]
  <2>1. "script exists" \in Commands
    BY DEF Commands
  <2> QED BY <1>1, <2>1, FireOK DEF Release
<1>2. CASE ~locked[c]
  BY <1>2, AnswerOK DEF Release
<1> QED BY <1>1, <1>2

LEMMA ToOriginOK ==
  ASSUME TypeOK, NEW c \in Clients, ToOrigin(c), UNCHANGED <<tries, status>>,
         locked' \in [Clients -> BOOLEAN]
  PROVE  RequestOK'
  BY DEF TypeOK, RequestOK, ToOrigin

LEMMA AskOriginOK ==
  ASSUME TypeOK, NEW c \in Clients, AskOrigin(c)
  PROVE  RequestOK'
<1>1. CASE opts.distributed
  <2>1. "set" \in Commands
    BY DEF Commands
  <2> QED BY <1>1, <2>1, FireOK DEF AskOrigin
<1>2. CASE ~opts.distributed
  BY <1>2, ToOriginOK DEF AskOrigin, local, TypeOK
<1> QED BY <1>1, <1>2

LEMMA ArriveTypes ==
  ASSUME TypeOK, NEW c \in Clients, Arrive(c)
  PROVE  RequestOK'
<1>1. CASE Outage
  <2>1. "CACHE_REDIS_OUTAGE" \in Statuses
    BY DEF Statuses
  <2> QED BY <1>1, <2>1, AnswerOK DEF Arrive
<1>2. CASE ~Outage
  <2>1. "json.get" \in Commands /\ "none" \in Statuses
    BY DEF Commands, Statuses
  <2>2. Fire(c, "json.get") /\ tries' = [tries EXCEPT ![c] = 1]
        /\ status' = [status EXCEPT ![c] = "none"] /\ UNCHANGED locked
    BY <1>2 DEF Arrive
  <2> QED BY <2>1, <2>2, FireTypes DEF TypeOK, RequestOK
<1> QED BY <1>1, <1>2

LEMMA StepTypes ==
  ASSUME TypeOK, NEW c \in Clients, Step(c),
         pc[c] = "delay" => tries[c] < RetryCount
  PROVE  RequestOK'
<1> USE OutcomeTypes
<1>0. Commands \cap {"set", "json.get", "expire", "evalsha", "script exists",
                     "script load"}
        = {"set", "json.get", "expire", "evalsha", "script exists", "script load"}
  BY DEF Commands
<1>1. CASE Hit(c)
  <2>1. "CACHE_HIT" \in Statuses
    BY DEF Statuses
  <2> QED BY <1>1, <2>1, AnswerOK DEF Hit
<1>2. CASE Miss(c)
  BY <1>2, AskOriginOK DEF Miss, LookupFailed
<1>3. CASE Lock(c)
  BY <1>3, ToOriginOK DEF Lock, TypeOK
<1>4. CASE NoLock(c)
  <2>1. "CACHE_NO_LOCK" \in Statuses
    BY DEF Statuses
  <2>2. CASE MayRetry(c)
    BY <1>4, <2>2 DEF NoLock, TypeOK, RequestOK, local
  <2>3. CASE ~MayRetry(c)
    BY <1>4, <2>1, <2>3, AnswerOK DEF NoLock
  <2> QED BY <2>2, <2>3
<1>5. CASE Retry(c)
  <2>1. Fire(c, "json.get")
    BY <1>5 DEF Retry
  <2>2. tries' \in [Clients -> 0 .. RetryCount]
    BY <1>5 DEF Retry, TypeOK
  <2> QED BY <1>0, <1>5, <2>1, <2>2, FireTypes DEF Retry, TypeOK, RequestOK
<1>6. CASE Store(c)
  BY <1>0, <1>6, FireOK, ReleaseOK DEF Store, Stored
<1>7. CASE Updated(c)
  BY <1>7, ReleaseOK DEF Updated
<1>8. CASE Exists(c)
  BY <1>0, <1>8, FireOK, AnswerOK DEF Exists
<1>9. CASE Loaded(c)
  BY <1>0, <1>9, FireOK, AnswerOK DEF Loaded
<1>10. CASE Unlocked(c)
  BY <1>10, AnswerOK DEF Unlocked
<1> QED BY <1>1, <1>2, <1>3, <1>4, <1>5, <1>6, <1>7, <1>8, <1>9, <1>10 DEF Step

LEMMA FetchedTypes ==
  ASSUME TypeOK, NEW c \in Clients, Fetched(c)
  PROVE  RequestOK'
<1>1. {"json.set", "unlink"} \subseteq Commands
      /\ {"CACHE_MISS", "CACHE_FAILED_MISS", "CACHE_ERROR_500"} \subseteq Statuses
  BY DEF Commands, Statuses
<1>2. CASE OriginAnswers(c)
  <2>1. CASE Release(c, "CACHE_MISS")
    BY <1>1, <2>1, ReleaseOK
  <2>2. ASSUME NEW command \in {"json.set", "unlink"},
               Fire(c, command), UNCHANGED local
        PROVE  RequestOK'
    BY <1>1, <2>2, FireOK
  <2>3. CASE Answer(c, "CACHE_ERROR_500")
    BY <1>1, <2>3, AnswerOK
  <2> QED BY <1>2, <2>1, <2>2, <2>3 DEF OriginAnswers
<1>3. CASE OriginFails(c)
  BY <1>1, <1>3, ReleaseOK DEF OriginFails
<1> QED BY <1>2, <1>3 DEF Fetched

LEMMA SettledTypes ==
  ASSUME TypeOK, NEW c \in Clients, Settled(c)
  PROVE  RequestOK'
<1>1. Succeeded(breaker) \in Breakers /\ Failed(breaker) \subseteq Breakers
  BY BreakerTypes DEF TypeOK
<1>2. CASE Reply(c)
  BY <1>1, <1>2 DEF TypeOK, Reply, RequestOK, local
<1>3. CASE Fail(c)
  BY <1>1, <1>3 DEF TypeOK, Fail, RequestOK, local
<1> QED BY <1>2, <1>3 DEF Settled

-----------------------------------------------------------------------------
(* The course of a request *)

\* Where the answer of the origin takes a request.
AfterOrigin == {"json.set", "expire", "unlink", "script exists", "script load", "evalsha"}
Served == {"none", "CACHE_HIT", "CACHE_MISS", "CACHE_FAILED_MISS"}

\* The one answer of the origin that is lost, a 304 that there is no entry for.
Lost(c) == status[c] = "CACHE_ERROR_500" /\ got[c] /\ bare[c]

\* A request that waits to try again may do so; without locks none waits, and
\* none is turned away; an answer of the origin is not forgotten on the way.
OnCourse(c) ==
  /\ pc[c] = "delay" => tries[c] < RetryCount
  /\ pc[c] # "idle" => status[c] = "none"
  /\ ~opts.disableOrigin /\ ~opts.distributed =>
       pc[c] \notin {"set", "delay"} /\ (status[c] \in Served \/ Lost(c))
  /\ got[c] => pc[c] \in {"idle"} \cup AfterOrigin

\* The inductive invariant.
RequestsInv == TypeOK /\ \A c \in Clients : OnCourse(c)

Delivered(c) ==
  got'[c] /\ pc[c] # "idle" /\ pc'[c] = "idle" =>
    \/ status'[c] = "CACHE_MISS"
    \/ status'[c] = "CACHE_ERROR_500" /\ pc[c] = "fetch" /\ bare[c]

\* A step of a request leaves the others alone.
Moves(c) == Arrive(c) \/ Settled(c) \/ Fetched(c) \/ Step(c)
LEMMA OthersWait ==
  ASSUME TypeOK, NEW c \in Clients, Moves(c), NEW d \in Clients, d # c
  PROVE  /\ pc'[d] = pc[d] /\ tries'[d] = tries[d]
         /\ status'[d] = status[d] /\ got'[d] = got[d] /\ bare'[d] = bare[d]
<1>0. /\ pc = [e \in Clients |-> pc[e]] /\ tries = [e \in Clients |-> tries[e]]
      /\ status = [e \in Clients |-> status[e]] /\ got = [e \in Clients |-> got[e]]
      /\ bare = [e \in Clients |-> bare[e]]
  BY DEF TypeOK
<1> USE <1>0 DEF Fire, Answer, ToOrigin, Release, local, asked
<1>1. CASE Arrive(c)
  BY <1>1 DEF Arrive
<1>2. CASE Settled(c)
  BY <1>2 DEF Settled, Reply, Fail
<1>3. CASE Fetched(c)
  BY <1>3 DEF Fetched, OriginAnswers, OriginFails
<1>4. CASE Step(c)
  <2>1. CASE Hit(c)
    BY <2>1 DEF Hit
  <2>2. CASE Miss(c)
    BY <2>2 DEF Miss, LookupFailed, AskOrigin
  <2>3. CASE Lock(c)
    BY <2>3 DEF Lock
  <2>4. CASE NoLock(c)
    BY <2>4 DEF NoLock
  <2>5. CASE Retry(c)
    BY <2>5 DEF Retry
  <2>6. CASE Store(c)
    BY <2>6 DEF Store, Stored
  <2>7. CASE Updated(c)
    BY <2>7 DEF Updated
  <2>8. CASE Exists(c)
    BY <2>8 DEF Exists
  <2>9. CASE Loaded(c)
    BY <2>9 DEF Loaded
  <2>10. CASE Unlocked(c)
    BY <2>10 DEF Unlocked
  <2> QED BY <1>4, <2>1, <2>2, <2>3, <2>4, <2>5, <2>6, <2>7, <2>8, <2>9, <2>10 DEF Step
<1> QED BY <1>1, <1>2, <1>3, <1>4 DEF Moves

\* A request changes neither the configuration nor Redis.
LEMMA ConfigStays ==
  ASSUME NEW c \in Clients, Moves(c)
  PROVE  opts' = opts /\ env' = env
  BY DEF Moves, Arrive, Settled, Reply, Fail, Fetched, OriginAnswers, OriginFails,
         Step, Hit, Miss, Lock, NoLock, Retry, Store, Updated, Exists, Loaded, Unlocked

\* The request that moves stays on its course, and an answer is delivered.
LEMMA CourseKept ==
  ASSUME TypeOK, NEW c \in Clients, Moves(c), OnCourse(c)
  PROVE  OnCourse(c)' /\ Delivered(c)
<1>0. opts' = opts
  BY ConfigStays
<1> USE <1>0 DEF Fire, Answer, ToOrigin, Release, local, asked, TypeOK, OnCourse, Lost,
        Delivered, AfterOrigin, Served, Outcome, Resumes
<1>1. CASE Arrive(c)
  BY <1>1 DEF Arrive, Outage
<1>2. CASE Settled(c)
  BY <1>2 DEF Settled, Reply, Fail
<1>3. CASE Fetched(c)
  BY <1>3 DEF Fetched, OriginAnswers, OriginFails
<1>4. CASE Step(c)
  <2>1. CASE Hit(c)
    BY <2>1 DEF Hit
  <2>2. CASE Miss(c)
    BY <2>2 DEF Miss, LookupFailed, AskOrigin
  <2>3. CASE Lock(c)
    BY <2>3 DEF Lock
  <2>4. CASE NoLock(c)
    BY <2>4 DEF NoLock, MayRetry
  <2>5. CASE Retry(c)
    BY <2>5 DEF Retry
  <2>6. CASE Store(c)
    BY <2>6 DEF Store, Stored
  <2>7. CASE Updated(c)
    BY <2>7 DEF Updated
  <2>8. CASE Exists(c)
    BY <2>8 DEF Exists
  <2>9. CASE Loaded(c)
    BY <2>9 DEF Loaded
  <2>10. CASE Unlocked(c)
    BY <2>10 DEF Unlocked
  <2> QED BY <1>4, <2>1, <2>2, <2>3, <2>4, <2>5, <2>6, <2>7, <2>8, <2>9, <2>10 DEF Step
<1> QED BY <1>1, <1>2, <1>3, <1>4 DEF Moves

LEMMA EnvironmentStep ==
  ASSUME RequestsInv, GoesDown \/ ComesUp \/ HalfOpen \/ UNCHANGED vars
  PROVE  /\ RequestsInv'
         /\ \A c \in Clients : Delivered(c)
<1> USE DEF RequestsInv, TypeOK, OnCourse, Lost, Delivered, local, env, asked
<1>1. HalfOpened \in Breakers
  BY BreakerTypes
<1>2. CASE GoesDown
  <2>1. TypeOK'
    <3>1. cmd' \in [Clients -> {"none", "sent", "lost", "ok", "error"}]
      <4> DEFINE caught == [c \in Clients |-> IF cmd[c] = "sent" THEN "lost" ELSE cmd[c]]
      <4>1. \A c \in Clients : cmd[c] \in {"none", "sent", "lost", "ok", "error"}
        OBVIOUS
      <4>2. \A c \in Clients : caught[c] \in {"none", "sent", "lost", "ok", "error"}
        BY <4>1
      <4>3. caught \in [Clients -> {"none", "sent", "lost", "ok", "error"}]
        BY <4>2
      <4> QED BY <1>2, <4>3 DEF GoesDown
    <3>2. up' \in BOOLEAN /\ outages' \in 0 .. MaxOutages
      <4>1. up' = FALSE /\ outages < MaxOutages /\ outages' = outages + 1
        BY <1>2, Zenon DEF GoesDown
      <4>2. outages \in 0 .. MaxOutages
        OBVIOUS
      <4> HIDE DEF RequestsInv, TypeOK
      <4>3. up' \in BOOLEAN
        BY <4>1, Zenon
      <4>4. outages' \in 0 .. MaxOutages
        BY <4>1, <4>2
      <4> QED BY <4>3, <4>4
    <3>3. UNCHANGED <<opts, breaker, pc, tries, locked, got, bare, status>>
      BY <1>2 DEF GoesDown
    <3> QED BY <3>1, <3>2, <3>3
  <2>2. pc' = pc /\ tries' = tries /\ status' = status /\ got' = got /\ bare' = bare
        /\ opts' = opts
    BY <1>2 DEF GoesDown
  <2> QED BY <2>1, <2>2
<1>3. CASE ComesUp
  BY <1>3 DEF ComesUp
<1>4. CASE HalfOpen
  BY <1>1, <1>4 DEF HalfOpen
<1>5. CASE UNCHANGED vars
  BY <1>5 DEF vars
<1> QED BY <1>2, <1>3, <1>4, <1>5

LEMMA RequestStep ==
  ASSUME RequestsInv, NEW c \in Clients, Moves(c)
  PROVE  /\ RequestsInv'
         /\ \A d \in Clients : Delivered(d)
<1>0. TypeOK /\ \A d \in Clients : OnCourse(d)
  BY DEF RequestsInv
<1>1. opts' = opts /\ env' = env
  BY ConfigStays
<1>2. RequestOK'
  BY <1>0, ArriveTypes, SettledTypes, FetchedTypes, StepTypes DEF Moves, OnCourse
<1>3. got' \in [Clients -> BOOLEAN] /\ bare' \in [Clients -> BOOLEAN]
  BY <1>0 DEF TypeOK, asked, Moves, Arrive, Settled, Reply, Fail, Fetched, OriginAnswers,
     OriginFails, Step, Hit, Miss, Lock, NoLock, Retry, Store, Updated, Exists, Loaded,
     Unlocked
<1>4. TypeOK'
  BY <1>0, <1>1, <1>2, <1>3 DEF TypeOK, RequestOK, env
<1>5. ASSUME NEW d \in Clients
      PROVE  OnCourse(d)' /\ Delivered(d)
  <2>1. CASE d = c
    BY <1>0, <2>1, CourseKept
  <2>2. CASE d # c
    BY <1>0, <1>1, <2>2, OthersWait DEF OnCourse, Lost, Delivered
  <2> QED BY <2>1, <2>2
<1> QED BY <1>4, <1>5 DEF RequestsInv

\* Every request is on its course in every reachable state.
THEOREM RequestsOnCourse == Spec => []RequestsInv
<1>1. Init => RequestsInv
  <2> SUFFICES ASSUME Init PROVE RequestsInv
    OBVIOUS
  <2>1. TypeOK
    BY BreakerTypes DEF Init, TypeOK, Statuses
  <2>2. \A c \in Clients : OnCourse(c)
    BY DEF Init, OnCourse, Lost, Served
  <2> QED BY <2>1, <2>2 DEF RequestsInv
<1>2. RequestsInv /\ [Next]_vars => RequestsInv'
  BY RequestStep, EnvironmentStep DEF Next, Moves
<1> QED BY <1>1, <1>2, PTL DEF Spec

\* Every reachable state of RedisOutage is well typed; that a request calls _get
\* at most RetryCount times needs the first conjunct of OnCourse.
THEOREM TypeCorrect == Spec => []TypeOK
<1>1. RequestsInv => TypeOK
  BY DEF RequestsInv
<1> QED BY <1>1, RequestsOnCourse, PTL

\* Without locks and without disableOriginOnRedisOutage, Redis may go down when
\* it likes: no request is turned away, but for one whose client's own validators
\* earn a 304 that _get, without an entry, cannot use.
THEOREM OriginIsTheFallback == Spec => []FallsBack
<1>1. RequestsInv => FallsBack
  BY DEF RequestsInv, OnCourse, Lost, FallsBack, Served
<1> QED BY <1>1, RequestsOnCourse, PTL

\* Whatever fails after the origin has answered, the client gets the answer; only
\* a 304 that there is no entry for is turned into an error, and at once.
THEOREM AnswersDelivered == Spec => OriginAnswerDelivered
<1>1. RequestsInv /\ [Next]_vars => [\A c \in Clients : Delivered(c)]_vars
  BY RequestStep, EnvironmentStep DEF Next, Moves
<1> QED BY <1>1, RequestsOnCourse, PTL DEF Spec, OriginAnswerDelivered, Delivered
=============================================================================
