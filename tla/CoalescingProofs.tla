-------------------------- MODULE CoalescingProofs --------------------------
(***************************************************************************)
(* Proofs about the refresh of one key, for any number of requests and     *)
(* workers, any number of tries and any choice of options.                 *)
(***************************************************************************)
EXTENDS CoalescingProperties, TLAPS

\* Types of the answers built by the handlers.
LEMMA AnswerTypes ==
  ASSUME TypeOK, NEW r \in Requests
  PROVE  /\ FailedAnswer(r) \in Answers
         /\ FinalAnswer(r) \in Answers
<1>1. cachedResponse[r] \in Entries \cup {None} /\ Result(r) \in Results
  BY DEF TypeOK, Result, Fetches
<1> QED BY <1>1 DEF FailedAnswer, FinalAnswer, Answer, Answers, Statuses, Entries, Results

\* Suspending, resuming and answering keep pc and replies well typed.
LEMMA LeaveTypes ==
  ASSUME TypeOK, NEW r \in Requests, NEW place \in Places,
         pc[r] \in Suspended => replies[WorkerOf[r]] # <<>>,
         Leave(r, place) \/ Issue(r, place)
  PROVE  /\ pc' \in [Requests -> Places]
         /\ replies' \in [Workers -> Seq(Requests)]
<1>1. WorkerOf[r] \in Workers /\ replies[WorkerOf[r]] \in Seq(Requests)
  BY WorkersAssumption DEF TypeOK
<1>2. Queue(r) \in Seq(Requests)
  BY <1>1 DEF Queue
<1>3. Append(Queue(r), r) \in Seq(Requests)
  BY <1>2
<1>4. pc \in [Requests -> Places] /\ replies \in [Workers -> Seq(Requests)]
  BY DEF TypeOK
<1>5. CASE Leave(r, place)
  BY <1>1, <1>2, <1>4, <1>5 DEF Leave
<1>6. CASE Issue(r, place)
  BY <1>1, <1>3, <1>4, <1>6 DEF Issue
<1> QED BY <1>5, <1>6

LEMMA RespondTypes ==
  ASSUME TypeOK, NEW r \in Requests, NEW answer \in Answers,
         pc[r] \in Suspended => replies[WorkerOf[r]] # <<>>,
         Respond(r, answer)
  PROVE  /\ pc' \in [Requests -> Places]
         /\ replies' \in [Workers -> Seq(Requests)]
         /\ resp' \in [Requests -> Answers]
         /\ cachedResponse' \in [Requests -> Entries \cup {None}]
         /\ locked' \in [Requests -> BOOLEAN]
<1>1. "done" \in Places /\ Leave(r, "done")
  BY DEF Places, Respond
<1>2. /\ pc' \in [Requests -> Places]
      /\ replies' \in [Workers -> Seq(Requests)]
  BY <1>1, LeaveTypes
<1> QED BY <1>2 DEF TypeOK, Respond

\* The effect of a resumption on the fetch and on the Map.
LEMMA SettleTypes ==
  ASSUME TypeOK, NEW r \in Requests
  PROVE  /\ Settle(r) => fetch' \in [Requests -> Fetches]
         /\ Forget(r) => ongoingFetch' \in [Workers -> Requests \cup {None}]
         /\ Release(r) => lock' \in Requests \cup {None}
<1>1. WorkerOf[r] \in Workers /\ fetchOf[r] \in Requests
  BY WorkersAssumption DEF TypeOK
<1>2. Settle(r) => fetch' \in [Requests -> Fetches]
  <2>1. fetch[fetchOf[r]] \in Fetches
    BY <1>1 DEF TypeOK
  <2>2. [fetch[fetchOf[r]] EXCEPT !.state = "settled"] \in Fetches
    BY <2>1 DEF Fetches
  <2> QED BY <1>1, <2>2 DEF TypeOK, Settle
<1>3. Forget(r) => ongoingFetch' \in [Workers -> Requests \cup {None}]
  BY <1>1 DEF TypeOK, Forget
<1>4. Release(r) => lock' \in Requests \cup {None}
  BY DEF TypeOK, Release
<1> QED BY <1>2, <1>3, <1>4

LEMMA NewEntryTypes ==
  ASSUME TypeOK, NEW r \in Requests
  PROVE  NewEntries(r) \subseteq Entries
<1>1. Result(r) \in Results
  BY DEF TypeOK, Result, Fetches
<1>2. Result(r).version \in Versions
  BY <1>1 DEF Results
<1>3. entry # None => entry.body \in Versions \cup {None} /\ entry.ttl \in BOOLEAN
  BY DEF TypeOK, Entries
<1>4. ASSUME NEW body \in Versions \cup {None}, NEW must \in BOOLEAN, NEW ttl \in BOOLEAN
      PROVE  [body |-> body, etag |-> Result(r).version, fresh |-> TRUE,
              mustRevalidate |-> must, ttl |-> ttl] \in Entries
  BY <1>2, <1>4 DEF Entries
<1>5. ASSUME NEW e \in NewEntries(r) PROVE e \in Entries
  <2> DEFINE must == Result(r).policy = "must-revalidate"
             old == entry # None /\ entry.ttl
  <2>1. must \in BOOLEAN /\ old \in BOOLEAN
    OBVIOUS
  <2>2. CASE Result(r).code = "200"
    <3>1. PICK t \in {FALSE, old} :
            e = [body |-> Result(r).version, etag |-> Result(r).version,
                 fresh |-> TRUE, mustRevalidate |-> must, ttl |-> t]
      BY <1>5, <2>2 DEF NewEntries
    <3> QED BY <1>2, <1>4, <2>1, <3>1
  <2>3. CASE Result(r).code # "200"
    <3>1. e = [body |-> IF entry = None THEN None ELSE entry.body,
               etag |-> Result(r).version, fresh |-> TRUE,
               mustRevalidate |-> must, ttl |-> old]
      BY <1>5, <2>3 DEF NewEntries
    <3> QED BY <1>3, <1>4, <2>1, <3>1
  <2> QED BY <2>2, <2>3
<1> QED BY <1>5

\* A resumption is not the handling of a Redis reply.
LEMMA Running ==
  ASSUME NEW r \in Requests
  PROVE  /\ Resuming(r) => pc[r] \notin Suspended
         /\ Accepted(r) => Resuming(r)
BY DEF Resuming, Accepted, Suspended

\* The program keeps its variables in their types.
LEMMA TypeStep == TypeOK /\ [Next]_vars => TypeOK'
<1> SUFFICES ASSUME TypeOK, [Next]_vars PROVE TypeOK'
  OBVIOUS
<1>0. Suspended \subseteq Places /\ {"retry", "fetch", "done", "crashed"} \subseteq Places
  BY DEF Places
<1>1. ASSUME NEW r \in Requests, Arrive(r) PROVE TypeOK'
  <2>1. Issue(r, "get") /\ pc[r] \notin Suspended
    BY <1>1 DEF Arrive, Get, Suspended
  <2>2. pc' \in [Requests -> Places] /\ replies' \in [Workers -> Seq(Requests)]
    BY <2>1, <1>0, LeaveTypes DEF Suspended
  <2>3. cachedResponse' \in [Requests -> Entries \cup {None}]
    BY <1>1 DEF Arrive, Get, TypeOK
  <2>4. request' \in [Requests -> [ifNoneMatch : Versions \cup {None}, cc : AllDirectives]]
    BY <1>1, InputsAssumption DEF Arrive, TypeOK
  <2> QED BY <1>1, <2>2, <2>3, <2>4 DEF Arrive, TypeOK, redis
<1>2. ASSUME NEW r \in Requests, ServeFromCache(r) PROVE TypeOK'
  <2>1. Answer("CACHE_HIT", cachedResponse[r].body, cachedResponse[r].etag) \in Answers
    BY <1>2 DEF ServeFromCache, Usable, TypeOK, Entries, Answer, Answers, Statuses
  <2> QED BY <1>2, <2>1, RespondTypes DEF ServeFromCache, Awaiting, TypeOK, redis, client
<1>3. ASSUME NEW r \in Requests, Join(r) PROVE TypeOK'
  <2>1. ongoingFetch[WorkerOf[r]] \in Requests
    BY <1>3, WorkersAssumption DEF Join, Ongoing, TypeOK
  <2> QED BY <1>3, <2>1, <1>0, LeaveTypes DEF Join, Awaiting, TypeOK, redis, client
<1>4. ASSUME NEW r \in Requests, TryLock(r) PROVE TypeOK'
  BY <1>4, <1>0, LeaveTypes DEF TryLock, Awaiting, TypeOK, client, Suspended, NX
<1>5. ASSUME NEW r \in Requests, StartFetch(r) \/ GotLock(r) PROVE TypeOK'
  <2>1. Launch(r) /\ replies[WorkerOf[r]] # <<>>
    BY <1>5 DEF StartFetch, GotLock, Awaiting
  <2>2. Validator(r) \in Versions \cup {None}
    BY DEF TypeOK, Validator, Entries
  <2>3. NoResult \in Results
    BY VersionsAssumption DEF NoResult, Results, AllPolicies, Versions
  <2>4. fetch' \in [Requests -> Fetches]
    BY <2>1, <2>2, <2>3 DEF Launch, TypeOK, Fetches
  <2>5. ongoingFetch' \in [Workers -> Requests \cup {None}]
    BY <2>1, WorkersAssumption DEF Launch, TypeOK
  <2> QED BY <2>1, <2>4, <2>5, <1>0, LeaveTypes DEF Launch, TypeOK, redis, client
<1>6. ASSUME NEW r \in Requests, NoLock(r) PROVE TypeOK'
  BY <1>6, <1>0, LeaveTypes DEF NoLock, Awaiting, TypeOK, redis, client
<1>7. ASSUME NEW r \in Requests, GiveUp(r) PROVE TypeOK'
  <2>1. Answer("CACHE_NO_LOCK", None, None) \in Answers
    BY DEF Answer, Answers, Statuses
  <2> QED BY <1>7, <2>1, RespondTypes DEF GiveUp, Awaiting, TypeOK, redis, client
<1>8. ASSUME NEW r \in Requests, Retry(r) PROVE TypeOK'
  <2>1. Issue(r, "get") /\ pc[r] \notin Suspended
    BY <1>8 DEF Retry, Get, Suspended
  <2>2. pc' \in [Requests -> Places] /\ replies' \in [Workers -> Seq(Requests)]
    BY <2>1, <1>0, LeaveTypes DEF Suspended
  <2>3. cachedResponse' \in [Requests -> Entries \cup {None}]
    BY <1>8 DEF Retry, Get, TypeOK
  <2>4. tries' \in [Requests -> Nat]
    BY <1>8 DEF Retry, TypeOK
  <2> QED BY <1>8, <2>2, <2>3, <2>4 DEF Retry, TypeOK, redis
<1>9. ASSUME NEW r \in Requests, OriginAnswer(r) \/ FetchFails(r) PROVE TypeOK'
  <2>1. NoResult \in Results
    BY VersionsAssumption DEF NoResult, Results, AllPolicies, Versions
  <2>2. PICK res \in Results : fetch' = [fetch EXCEPT ![r] = Answered(res)]
    BY <1>9, <2>1, InputsAssumption DEF OriginAnswer, FetchFails, TypeOK, Results
  <2>3. Answered(res) \in Fetches
    BY DEF Answered, Fetches
  <2> QED BY <1>9, <2>2, <2>3 DEF OriginAnswer, FetchFails, TypeOK, redis, client
<1>10. ASSUME NEW r \in Requests, RejectLocked(r) PROVE TypeOK'
  <2>1. pc' \in [Requests -> Places] /\ replies' \in [Workers -> Seq(Requests)]
    BY <1>10, <1>0, Running, LeaveTypes DEF RejectLocked, Suspended
  <2> QED BY <1>10, <2>1, SettleTypes DEF RejectLocked, TypeOK, client
<1>11. ASSUME NEW r \in Requests, Aborted(r) PROVE TypeOK'
  BY <1>11, AnswerTypes, RespondTypes, SettleTypes
  DEF Aborted, Awaiting, TypeOK, redis, client
<1>12. ASSUME NEW r \in Requests, RejectUnlocked(r) PROVE TypeOK'
  <2>1. pc[r] \notin Suspended
    BY <1>12, Running DEF RejectUnlocked
  <2> QED BY <1>12, <2>1, AnswerTypes, RespondTypes, SettleTypes
    DEF RejectUnlocked, TypeOK, redis, client
<1>13. ASSUME NEW r \in Requests, Throws(r) PROVE TypeOK'
  <2>1. pc[r] \notin Suspended
    BY <1>13, Running DEF Throws
  <2>2. Answer("CACHE_ERROR_500", None, None) \in Answers
    BY DEF Answer, Answers, Statuses
  <2> QED BY <1>13, <2>1, <2>2, RespondTypes, SettleTypes
    DEF Throws, TypeOK, redis, client
<1>14. ASSUME NEW r \in Requests, Store(r) PROVE TypeOK'
  <2>1. entry' \in Entries \cup {None}
    BY <1>14, NewEntryTypes DEF Store, TypeOK
  <2>2. pc' \in [Requests -> Places] /\ replies' \in [Workers -> Seq(Requests)]
    <3>1. pc[r] \notin Suspended
      BY <1>14, Running DEF Store
    <3>2. Issue(r, "write") \/ Issue(r, "update")
      BY <1>14 DEF Store
    <3> QED BY <3>1, <3>2, <1>0, LeaveTypes DEF Suspended
  <2> QED BY <1>14, <2>1, <2>2, SettleTypes DEF Store, TypeOK, client
<1>15. ASSUME NEW r \in Requests, SetExpiry(r) PROVE TypeOK'
  <2>1. entry' \in Entries \cup {None}
    BY <1>15 DEF SetExpiry, TypeOK, Entries
  <2>2. pc' \in [Requests -> Places] /\ replies' \in [Workers -> Seq(Requests)]
    BY <1>15, <1>0, LeaveTypes DEF SetExpiry, Awaiting, Suspended
  <2> QED BY <1>15, <2>1, <2>2 DEF SetExpiry, TypeOK, client
<1>16. ASSUME NEW r \in Requests, Unlink(r) PROVE TypeOK'
  <2>1. pc' \in [Requests -> Places] /\ replies' \in [Workers -> Seq(Requests)]
    BY <1>16, <1>0, Running, LeaveTypes DEF Unlink, Suspended
  <2>2. entry' \in Entries \cup {None}
    BY <1>16 DEF Unlink, TypeOK
  <2> QED BY <1>16, <2>1, <2>2, SettleTypes DEF Unlink, TypeOK, client
<1>17. ASSUME NEW r \in Requests, PassOn(r) \/ Updated(r) PROVE TypeOK'
  <2>1. ReleaseOrRespond(r) /\ (pc[r] \in Suspended => replies[WorkerOf[r]] # <<>>)
    BY <1>17, Running DEF PassOn, Updated, Awaiting
  <2>2. /\ lock' \in Requests \cup {None}
        /\ pc' \in [Requests -> Places]
        /\ replies' \in [Workers -> Seq(Requests)]
        /\ resp' \in [Requests -> Answers]
        /\ cachedResponse' \in [Requests -> Entries \cup {None}]
        /\ locked' \in [Requests -> BOOLEAN]
    <3>1. CASE locked[r]
      <4>1. Release(r) /\ Issue(r, "release") /\ UNCHANGED <<resp, cachedResponse, locked>>
        BY <2>1, <3>1 DEF ReleaseOrRespond
      <4> QED BY <4>1, <2>1, <1>0, LeaveTypes, SettleTypes DEF TypeOK, Suspended
    <3>2. CASE ~locked[r]
      <4>1. Respond(r, FinalAnswer(r)) /\ UNCHANGED lock
        BY <2>1, <3>2 DEF ReleaseOrRespond
      <4> QED BY <4>1, <2>1, AnswerTypes, RespondTypes DEF TypeOK
    <3> QED BY <3>1, <3>2
  <2>3. fetch' \in [Requests -> Fetches] /\ ongoingFetch' \in [Workers -> Requests \cup {None}]
    BY <1>17, SettleTypes DEF PassOn, Updated, TypeOK
  <2> QED BY <1>17, <2>2, <2>3 DEF PassOn, Updated, TypeOK, client
<1>18. ASSUME NEW r \in Requests, Released(r) PROVE TypeOK'
  BY <1>18, AnswerTypes, RespondTypes DEF Released, Awaiting, TypeOK, redis, client
<1>19. CASE OriginChange
  BY <1>19, VersionsAssumption DEF OriginChange, TypeOK, Versions, redis, client
<1>20. CASE Age
  <2>1. ASSUME NEW e \in Entries \cup {None} PROVE Stale(e) \in Entries \cup {None}
    BY DEF Stale, Entries
  <2> QED BY <1>20, <2>1 DEF Age, TypeOK, client
<1>21. CASE ExpireEntry \/ PurgeEntry
  BY <1>21 DEF ExpireEntry, PurgeEntry, Removed, TypeOK, client
<1>22. CASE LockExpires \/ PurgeLock
  BY <1>22 DEF LockExpires, PurgeLock, LockGone, TypeOK, client
<1>23. ASSUME NEW w \in Workers, Crash(w) PROVE TypeOK'
  <2>1. NoFetch \in Fetches
    BY VersionsAssumption DEF NoFetch, NoResult, Fetches, Results, AllPolicies, Versions
  <2> QED BY <1>23, <2>1, <1>0 DEF Crash, TypeOK, redis, client
<1>24. CASE Terminated \/ UNCHANGED vars
  BY <1>24 DEF Terminated, TypeOK, vars
<1> QED
  BY <1>1, <1>2, <1>3, <1>4, <1>5, <1>6, <1>7, <1>8, <1>9, <1>10, <1>11, <1>12,
     <1>13, <1>14, <1>15, <1>16, <1>17, <1>18, <1>19, <1>20, <1>21, <1>22,
     <1>23, <1>24
  DEF Next, Handle

\* Type correctness of the specification.
THEOREM TypeCorrect == Spec => []TypeOK
<1>1. Init => TypeOK
  <2>1. NoFetch \in Fetches /\ 0 \in Versions
    BY VersionsAssumption DEF NoFetch, NoResult, Fetches, Results, AllPolicies, Versions
  <2> QED BY <2>1 DEF Init, TypeOK, Places, Answer, Answers, Statuses, AllDirectives
<1>2. TypeOK /\ [Next]_vars => TypeOK'
  BY TypeStep
<1> QED BY <1>1, <1>2, PTL DEF Spec

-----------------------------------------------------------------------------
(* The lock *)

\* A handler of r leaves the place, the lock flag and the lock of any other
\* request alone.
LEMMA OthersKeepLock ==
  ASSUME TypeOK, NEW r \in Requests, Handle(r), NEW q \in Requests \ {r}
  PROVE  /\ pc'[q] = pc[q] /\ locked'[q] = locked[q]
         /\ lock = q => lock' = q
<1> USE DEF TypeOK, Issue, Leave, Respond, Release, redis, client
<1>1. CASE ServeFromCache(r) \/ Join(r)
  BY <1>1 DEF ServeFromCache, Join
<1>2. CASE TryLock(r)
  <2>1. /\ pc' = [pc EXCEPT ![r] = "lock"]
        /\ \E b : locked' = [locked EXCEPT ![r] = b]
        /\ lock # None => lock' = lock
    BY <1>2 DEF TryLock, NX
  <2>2. q # None
    BY WorkersAssumption
  <2> QED BY <2>1, <2>2
<1>3. CASE StartFetch(r) \/ GotLock(r) \/ NoLock(r) \/ GiveUp(r) \/ Retry(r)
  BY <1>3 DEF StartFetch, GotLock, Launch, NoLock, GiveUp, Retry, Get
<1>4. CASE RejectLocked(r) \/ Aborted(r) \/ RejectUnlocked(r) \/ Throws(r)
  BY <1>4 DEF RejectLocked, Aborted, RejectUnlocked, Throws
<1>5. CASE Store(r) \/ SetExpiry(r) \/ Unlink(r)
  BY <1>5 DEF Store, SetExpiry, Unlink
<1>6. CASE PassOn(r) \/ Updated(r)
  <2>1. ReleaseOrRespond(r)
    BY <1>6 DEF PassOn, Updated
  <2>2. CASE locked[r]
    BY <2>1, <2>2 DEF ReleaseOrRespond
  <2>3. CASE ~locked[r]
    BY <2>1, <2>3 DEF ReleaseOrRespond
  <2> QED BY <2>2, <2>3
<1>7. CASE Released(r)
  BY <1>7 DEF Released
<1> QED BY <1>1, <1>2, <1>3, <1>4, <1>5, <1>6, <1>7 DEF Handle

\* r itself has the lock flag only where LockHeld allows it.
LEMMA OwnerKeepsLock ==
  ASSUME TypeOK, LockHeld, NEW r \in Requests, Handle(r), locked'[r]
  PROVE  /\ pc'[r] \in Holding \cup {"release", "abort"}
         /\ pc'[r] \in Holding => lock' = r
<1> USE DEF TypeOK, Issue, Leave, Respond, Release, redis, client, Holding, Awaiting
<1>1. CASE ServeFromCache(r)
  BY <1>1 DEF ServeFromCache
<1>2. CASE Join(r)
  <2>1. pc[r] = "get" /\ locked[r]
    BY <1>2 DEF Join
  <2> QED BY <2>1 DEF LockHeld
<1>3. CASE TryLock(r)
  <2>1. PICK o \in Outcomes :
          /\ lock' = IF NX /\ Executed(o) THEN r ELSE lock
          /\ locked' = [locked EXCEPT ![r] = NX /\ o = "ok"]
    BY <1>3 DEF TryLock
  <2>2. NX /\ o = "ok"
    BY <2>1
  <2>3. lock' = r
    BY <2>1, <2>2 DEF Executed
  <2>4. pc' = [pc EXCEPT ![r] = "lock"]
    BY <1>3 DEF TryLock
  <2> QED BY <2>3, <2>4
<1>4. CASE StartFetch(r) \/ GotLock(r) \/ NoLock(r) \/ GiveUp(r) \/ Retry(r)
  BY <1>4 DEF StartFetch, GotLock, Launch, NoLock, GiveUp, Retry, Get, LockHeld
<1>5. CASE RejectLocked(r) \/ Aborted(r) \/ RejectUnlocked(r) \/ Throws(r)
  BY <1>5 DEF RejectLocked, Aborted, RejectUnlocked, Throws
<1>6. CASE Store(r) \/ SetExpiry(r) \/ Unlink(r)
  BY <1>6 DEF Store, SetExpiry, Unlink, Accepted, Resuming, LockHeld
<1>7. CASE PassOn(r) \/ Updated(r)
  <2>1. ReleaseOrRespond(r)
    BY <1>7 DEF PassOn, Updated
  <2>2. CASE locked[r]
    BY <2>1, <2>2 DEF ReleaseOrRespond
  <2>3. CASE ~locked[r]
    BY <2>1, <2>3 DEF ReleaseOrRespond
  <2> QED BY <2>2, <2>3
<1>8. CASE Released(r)
  BY <1>8 DEF Released
<1> QED BY <1>1, <1>2, <1>3, <1>4, <1>5, <1>6, <1>7, <1>8 DEF Handle

\* The environment takes no lock away from a request that may still use it.
LEMMA LockStep ==
  ASSUME LeaseOutlivesFetch, "lock" \notin Purges,
         TypeOK, LockHeld, [Next]_vars
  PROVE  LockHeld'
<1>1. ASSUME NEW r \in Requests, Handle(r) PROVE LockHeld'
  <2> SUFFICES ASSUME NEW q \in Requests, locked'[q]
               PROVE  /\ pc'[q] \in Holding \cup {"release", "abort"}
                      /\ pc'[q] \in Holding => lock' = q
    BY DEF LockHeld
  <2>1. CASE q = r
    BY <1>1, <2>1, OwnerKeepsLock
  <2>2. CASE q # r
    BY <1>1, <2>2, OthersKeepLock DEF LockHeld
  <2> QED BY <2>1, <2>2
<1>2. ASSUME NEW r \in Requests, Arrive(r) PROVE LockHeld'
  BY <1>2 DEF Arrive, Get, Issue, LockHeld, Holding, TypeOK, redis
<1>3. ASSUME NEW r \in Requests, OriginAnswer(r) \/ FetchFails(r) PROVE LockHeld'
  BY <1>3 DEF OriginAnswer, FetchFails, LockHeld, redis
<1>4. CASE OriginChange \/ Age \/ ExpireEntry \/ PurgeEntry
  BY <1>4 DEF OriginChange, Age, ExpireEntry, PurgeEntry, Removed, LockHeld, redis
<1>5. CASE LockExpires \/ PurgeLock
  BY <1>5 DEF LockExpires, PurgeLock, LockGone, Critical, LockHeld
<1>6. ASSUME NEW w \in Workers, Crash(w) PROVE LockHeld'
  BY <1>6 DEF Crash, LockHeld, TypeOK, redis
<1>7. CASE Terminated \/ UNCHANGED vars
  BY <1>7 DEF Terminated, LockHeld, vars
<1> QED BY <1>1, <1>2, <1>3, <1>4, <1>5, <1>6, <1>7 DEF Next

\* Mutual exclusion of the distributed lock, provided that its lease outlives a
\* refresh and that no wildcard purge removes it.
THEOREM LockExcludes ==
  ASSUME LeaseOutlivesFetch, "lock" \notin Purges
  PROVE  Spec => []MutualExclusion
<1>1. Init => LockHeld
  BY DEF Init, LockHeld
<1>2. TypeOK /\ LockHeld /\ [Next]_vars => LockHeld'
  BY LockStep
<1>3. LockHeld => MutualExclusion
  BY DEF LockHeld, MutualExclusion, Critical
<1> QED BY <1>1, <1>2, <1>3, TypeCorrect, PTL DEF Spec

-----------------------------------------------------------------------------
(* The fetch *)

UnderWay == {"sent", "answered"}

\* A fetch that is under way after a step of r's handler is the one r has just
\* launched, or was already under way for another request.
LEMMA HandlerFetch ==
  ASSUME TypeOK, FetchOwned, NEW r \in Requests, Handle(r),
         NEW q \in Requests, fetch'[q].state \in UnderWay
  PROVE  \/ q = r /\ Launch(r) /\ (Distributed => locked[r])
         \/ /\ q # r
            /\ fetch[q].state \in UnderWay
            /\ fetchOf'[q] = fetchOf[q]
<1>1. CASE StartFetch(r) \/ GotLock(r)
  BY <1>1 DEF StartFetch, GotLock, Launch, TypeOK
<1>2. ASSUME fetch' = fetch, pc[r] # "fetch",
             fetchOf' = fetchOf \/ \E f : fetchOf' = [fetchOf EXCEPT ![r] = f]
      PROVE  q # r /\ fetch[q].state \in UnderWay /\ fetchOf'[q] = fetchOf[q]
  BY <1>2 DEF FetchOwned, TypeOK, UnderWay
<1>3. CASE ServeFromCache(r) \/ Join(r) \/ TryLock(r)
  BY <1>2, <1>3 DEF ServeFromCache, Join, TryLock, Awaiting
<1>4. CASE NoLock(r) \/ GiveUp(r) \/ Retry(r) \/ Aborted(r)
  BY <1>2, <1>4 DEF NoLock, GiveUp, Retry, Aborted, Awaiting
<1>5. CASE SetExpiry(r) \/ Updated(r) \/ Released(r)
  BY <1>2, <1>5 DEF SetExpiry, Updated, Released, Awaiting
<1>6. CASE RejectLocked(r) \/ RejectUnlocked(r) \/ Throws(r) \/ Store(r)
           \/ Unlink(r) \/ PassOn(r)
  <2>1. Settle(r) /\ fetchOf' = fetchOf
    BY <1>6 DEF RejectLocked, RejectUnlocked, Throws, Store, Unlink, PassOn
  <2>2. q # fetchOf[r] /\ fetch'[q] = fetch[q]
    BY <2>1 DEF Settle, TypeOK, UnderWay, Fetches
  <2>3. q # r
    BY <2>2 DEF FetchOwned, Fetcher, UnderWay
  <2> QED BY <2>1, <2>2, <2>3
<1> QED BY <1>1, <1>3, <1>4, <1>5, <1>6 DEF Handle

\* With local coalescing alone, r's handler does not take the promise of a
\* fetch under way for another request out of the Map.
LEMMA HandlerMap ==
  ASSUME TypeOK, FetchOwned, LockedOnlyIfDistributed, Local, ~Distributed,
         NEW r \in Requests, Handle(r),
         NEW q \in Requests \ {r}, fetch[q].state \in UnderWay
  PROVE  ongoingFetch'[WorkerOf[q]] = q
<1>1. ongoingFetch[WorkerOf[q]] = q /\ q # None /\ WorkerOf[q] \in Workers
  BY WorkersAssumption DEF FetchOwned, UnderWay
<1>2. ~locked[r] /\ pc[r] # "abort"
  BY DEF LockedOnlyIfDistributed
<1>3. CASE ongoingFetch' = ongoingFetch
  BY <1>1, <1>3
<1>4. CASE StartFetch(r)
  <2>1. WorkerOf[r] # WorkerOf[q]
    BY <1>1, <1>4 DEF StartFetch, Ongoing
  <2> QED BY <1>1, <1>4, <2>1 DEF StartFetch, Launch, TypeOK
<1>5. CASE RejectUnlocked(r) \/ Throws(r) \/ Store(r) \/ Unlink(r) \/ PassOn(r)
  <2>1. Forget(r) /\ Resuming(r)
    BY <1>5 DEF RejectUnlocked, Throws, Store, Unlink, PassOn, Accepted
  <2>2. CASE Fetcher(r)
    <3>1. ongoingFetch[WorkerOf[r]] = r
      BY <2>1, <2>2 DEF Resuming, FetchOwned
    <3>2. WorkerOf[r] # WorkerOf[q]
      BY <1>1, <3>1
    <3> QED BY <1>1, <2>1, <3>2 DEF Forget, TypeOK
  <2>3. CASE ~Fetcher(r)
    BY <1>1, <2>1, <2>3 DEF Forget
  <2> QED BY <2>2, <2>3
<1>6. CASE ServeFromCache(r) \/ Join(r) \/ TryLock(r) \/ NoLock(r) \/ GiveUp(r)
           \/ Retry(r) \/ RejectLocked(r) \/ SetExpiry(r) \/ Updated(r) \/ Released(r)
  BY <1>3, <1>6 DEF ServeFromCache, Join, TryLock, NoLock, GiveUp, Retry,
                    RejectLocked, SetExpiry, Updated, Released
<1>7. ~GotLock(r) /\ ~Aborted(r)
  BY <1>2 DEF GotLock, Aborted, Awaiting
<1> QED BY <1>4, <1>5, <1>6, <1>7 DEF Handle

LEMMA DistributedStep ==
  ASSUME TypeOK, LockedOnlyIfDistributed, [Next]_vars
  PROVE  LockedOnlyIfDistributed'
<1>1. ASSUME NEW r \in Requests, Handle(r) PROVE LockedOnlyIfDistributed'
  <2>1. /\ locked'[r] => Distributed
        /\ pc'[r] = "abort" => locked'[r]
    <3> USE DEF TypeOK, Issue, Leave, Respond, redis, client, LockedOnlyIfDistributed
    <3>1. CASE ServeFromCache(r) \/ Join(r) \/ StartFetch(r) \/ GotLock(r)
      BY <1>1, <3>1 DEF ServeFromCache, Join, StartFetch, GotLock, Launch
    <3>2. CASE TryLock(r)
      BY <3>2 DEF TryLock
    <3>3. CASE NoLock(r) \/ GiveUp(r) \/ Retry(r)
      BY <3>3 DEF NoLock, GiveUp, Retry, Get
    <3>4. CASE RejectLocked(r) \/ Aborted(r) \/ RejectUnlocked(r) \/ Throws(r)
      BY <3>4 DEF RejectLocked, Aborted, RejectUnlocked, Throws
    <3>5. CASE Store(r) \/ SetExpiry(r) \/ Unlink(r) \/ Released(r)
      BY <3>5 DEF Store, SetExpiry, Unlink, Released
    <3>6. CASE PassOn(r) \/ Updated(r)
      <4>1. ReleaseOrRespond(r)
        BY <3>6 DEF PassOn, Updated
      <4> QED BY <4>1 DEF ReleaseOrRespond
    <3> QED BY <1>1, <3>1, <3>2, <3>3, <3>4, <3>5, <3>6 DEF Handle
  <2>2. \A q \in Requests \ {r} : pc'[q] = pc[q] /\ locked'[q] = locked[q]
    BY <1>1, OthersKeepLock
  <2> QED BY <2>1, <2>2 DEF LockedOnlyIfDistributed
<1>2. ASSUME NEW r \in Requests, Arrive(r) PROVE LockedOnlyIfDistributed'
  BY <1>2 DEF Arrive, Get, Issue, LockedOnlyIfDistributed, TypeOK
<1>3. ASSUME NEW r \in Requests, OriginAnswer(r) \/ FetchFails(r)
      PROVE  LockedOnlyIfDistributed'
  BY <1>3 DEF OriginAnswer, FetchFails, LockedOnlyIfDistributed
<1>4. CASE OriginChange \/ Age \/ ExpireEntry \/ PurgeEntry \/ LockExpires \/ PurgeLock
  BY <1>4 DEF OriginChange, Age, ExpireEntry, PurgeEntry, Removed, LockExpires,
              PurgeLock, LockGone, LockedOnlyIfDistributed
<1>5. ASSUME NEW w \in Workers, Crash(w) PROVE LockedOnlyIfDistributed'
  BY <1>5 DEF Crash, LockedOnlyIfDistributed, TypeOK
<1>6. CASE Terminated \/ UNCHANGED vars
  BY <1>6 DEF Terminated, LockedOnlyIfDistributed, vars
<1> QED BY <1>1, <1>2, <1>3, <1>4, <1>5, <1>6 DEF Next

LEMMA FetchStep ==
  ASSUME TypeOK, FetchOwned, LockedOnlyIfDistributed, [Next]_vars
  PROVE  FetchOwned'
<1>1. ASSUME NEW r \in Requests, Handle(r) PROVE FetchOwned'
  <2> SUFFICES ASSUME NEW q \in Requests, fetch'[q].state \in UnderWay
               PROVE  /\ pc'[q] = "fetch" /\ fetchOf'[q] = q
                      /\ Distributed => locked'[q]
                      /\ Local /\ ~Distributed => ongoingFetch'[WorkerOf[q]] = q
    BY DEF FetchOwned, Fetcher, UnderWay
  <2>1. CASE q = r /\ Launch(r) /\ (Distributed => locked[r])
    BY <2>1, WorkersAssumption DEF Launch, Leave, TypeOK
  <2>2. CASE /\ q # r
             /\ fetch[q].state \in UnderWay
             /\ fetchOf'[q] = fetchOf[q]
    <3>1. /\ pc[q] = "fetch" /\ fetchOf[q] = q
          /\ Distributed => locked[q]
      BY <2>2 DEF FetchOwned, Fetcher, UnderWay
    <3> QED BY <1>1, <2>2, <3>1, OthersKeepLock, HandlerMap
  <2> QED BY <1>1, <2>1, <2>2, HandlerFetch
<1>2. ASSUME NEW r \in Requests, Arrive(r) PROVE FetchOwned'
  BY <1>2 DEF Arrive, Get, Issue, FetchOwned, Fetcher, TypeOK
<1>3. ASSUME NEW r \in Requests, OriginAnswer(r) \/ FetchFails(r) PROVE FetchOwned'
  BY <1>3 DEF OriginAnswer, FetchFails, Answered, FetchOwned, Fetcher, TypeOK
<1>4. CASE OriginChange \/ Age \/ ExpireEntry \/ PurgeEntry \/ LockExpires \/ PurgeLock
  BY <1>4 DEF OriginChange, Age, ExpireEntry, PurgeEntry, Removed, LockExpires,
              PurgeLock, LockGone, FetchOwned, Fetcher
<1>5. ASSUME NEW w \in Workers, Crash(w) PROVE FetchOwned'
  BY <1>5, WorkersAssumption DEF Crash, NoFetch, FetchOwned, Fetcher, TypeOK
<1>6. CASE Terminated \/ UNCHANGED vars
  BY <1>6 DEF Terminated, FetchOwned, Fetcher, vars
<1> QED BY <1>1, <1>2, <1>3, <1>4, <1>5, <1>6 DEF Next

\* The strengthening of LockExcludes and SingleRequest is inductive.
THEOREM RefreshInvariant ==
  ASSUME LeaseOutlivesFetch, "lock" \notin Purges
  PROVE  Spec => []RefreshInv
<1>1. Init => RefreshInv
  BY DEF Init, RefreshInv, LockHeld, FetchOwned, LockedOnlyIfDistributed, NoFetch
<1>2. TypeOK /\ RefreshInv /\ [Next]_vars => RefreshInv'
  BY LockStep, FetchStep, DistributedStep DEF RefreshInv
<1> QED BY <1>1, <1>2, TypeCorrect, PTL DEF Spec

\* What request coalescing is for: with the distributed lock the origin has at
\* most one request for the key, whatever the number of workers and requests.
THEOREM SingleRequest ==
  ASSUME Distributed, LeaseOutlivesFetch, "lock" \notin Purges
  PROVE  Spec => []OneOriginRequest
<1>1. RefreshInv => OneOriginRequest
  BY DEF RefreshInv, LockHeld, FetchOwned, OneOriginRequest, OriginRequests, Holding
<1> QED BY <1>1, RefreshInvariant, PTL

\* With local coalescing alone it has at most one per worker, whatever the
\* leases and purges, which concern the lock only.
THEOREM SingleRequestPerWorker ==
  ASSUME Local, ~Distributed
  PROVE  Spec => []OnePerWorker
<1>1. Init => FetchOwned /\ LockedOnlyIfDistributed
  BY DEF Init, FetchOwned, LockedOnlyIfDistributed, NoFetch
<1>2. TypeOK /\ FetchOwned /\ LockedOnlyIfDistributed /\ [Next]_vars
        => (FetchOwned /\ LockedOnlyIfDistributed)'
  BY FetchStep, DistributedStep
<1>3. FetchOwned => OnePerWorker
  BY DEF FetchOwned, OnePerWorker, OriginRequests
<1> QED BY <1>1, <1>2, <1>3, TypeCorrect, PTL DEF Spec
=============================================================================
