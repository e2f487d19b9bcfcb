----------------------- MODULE CoalescingVersionProofs -----------------------
(***************************************************************************)
(* Proofs about the versions that a refresh reads, stores and answers with *)
(* (Coalescing), and that the design implements SingleFlight.              *)
(***************************************************************************)
EXTENDS CoalescingCleanupProofs

-----------------------------------------------------------------------------
(* What is known of the versions *)

\* A document whose validator is that of its body.
Matched(e) == e # None => e.body \in {None, e.etag}

\* d is not of a later version than e.
NotNewer(d, e) == d # None /\ e # None => d.etag <= e.etag

\* Neither Redis nor a request has a document of a version later than v.
UpTo(v) ==
  /\ entry # None => entry.etag <= v
  /\ \A r \in Requests : cachedResponse[r] # None => cachedResponse[r].etag <= v

\* The origin's version, and that of an answer about to be stored, are the latest.
KnownUpTo ==
  /\ UpTo(origin)
  /\ \A x \in Requests :
       fetch[x].state = "answered" /\ fetch[x].res.code # "error" =>
         fetch[x].res.version <= origin /\ UpTo(fetch[x].res.version)

\* What a request has read does not get newer than the entry.
ReadBefore == \A r \in Requests : NotNewer(cachedResponse[r], entry)

\* A request that has read an entry asks the origin about that one.
OwnValidator ==
  \A x \in Requests : cachedResponse[x] # None =>
    /\ fetch[x].state = "sent" => fetch[x].ifNoneMatch = cachedResponse[x].etag
    /\ fetch[x].state = "answered" /\ fetch[x].res.code = "304" =>
         fetch[x].res.version = cachedResponse[x].etag

DocumentsMatched == Matched(entry) /\ \A r \in Requests : Matched(cachedResponse[r])

\* The invariant of the versions; it needs that of the lock.
VersionInv == KnownUpTo /\ ReadBefore /\ OwnValidator /\ DocumentsMatched

LEMMA DocumentTypes ==
  ASSUME TypeOK
  PROVE  /\ origin \in Nat
         /\ entry # None => entry \in Entries /\ entry.etag \in Nat
         /\ \A r \in Requests : cachedResponse[r] # None =>
              cachedResponse[r] \in Entries /\ cachedResponse[r].etag \in Nat
         /\ \A x \in Requests : fetch[x] \in Fetches /\ fetch[x].res.version \in Nat
<1>1. Versions \subseteq Nat
  BY VersionsAssumption DEF Versions
<1>2. \A e \in Entries : e.etag \in Nat
  BY <1>1 DEF Entries
<1>3. \A f \in Fetches : f.res.version \in Nat
  BY <1>1 DEF Fetches, Results
<1> QED BY <1>1, <1>2, <1>3 DEF TypeOK

\* Time does not change what a document is of.
LEMMA StaleKeeps ==
  ASSUME NEW e \in Entries \cup {None}
  PROVE  /\ Stale(e) = None <=> e = None
         /\ e # None => Stale(e).etag = e.etag /\ Stale(e).body = e.body
<1>1. CASE e = None
  BY <1>1 DEF Stale
<1>2. CASE e # None
  <2>1. Stale(e) \in Entries /\ Stale(e).etag = e.etag /\ Stale(e).body = e.body
    BY <1>2 DEF Stale, Entries
  <2> QED BY <1>2, <2>1, EntriesAssumption
<1> QED BY <1>1, <1>2

Same(d, e) == e # None /\ d.etag = e.etag /\ d.body = e.body

\* A step that stores no answer: the entry stays or goes, reads are of the entry.
KeepsDocuments ==
  /\ entry' # None => Same(entry', entry)
  /\ \A q \in Requests : cachedResponse'[q] # None =>
       \/ Same(cachedResponse'[q], cachedResponse[q])
       \/ cachedResponse'[q] = entry /\ entry' = entry

\* ... and in which the origin answers nothing.
KeepsAnswers ==
  /\ origin' \in Nat /\ origin <= origin'
  /\ \A x \in Requests : fetch'[x].state = "answered" => fetch'[x] = fetch[x]

\* Such a step keeps what is known of the versions.
LEMMA KeptVersions ==
  ASSUME TypeOK, VersionInv, KeepsDocuments
  PROVE  /\ \A v \in Nat : UpTo(v) => UpTo(v)'
         /\ KeepsAnswers => KnownUpTo'
         /\ ReadBefore' /\ DocumentsMatched'
<1>1. ASSUME NEW v \in Nat, UpTo(v) PROVE UpTo(v)'
  BY <1>1, DocumentTypes DEF UpTo, KeepsDocuments, Same
<1>2. ASSUME KeepsAnswers PROVE KnownUpTo'
  <2>1. UpTo(origin) /\ origin \in Nat /\ origin <= origin' /\ origin' \in Nat
    BY <1>2, DocumentTypes DEF VersionInv, KnownUpTo, KeepsAnswers
  <2>2. UpTo(origin')
    BY <2>1, DocumentTypes DEF UpTo
  <2>3. UpTo(origin)'
    BY <1>1, <2>1, <2>2 DEF UpTo
  <2>4. ASSUME NEW x \in Requests,
               fetch'[x].state = "answered" /\ fetch'[x].res.code # "error"
        PROVE  fetch'[x].res.version <= origin' /\ UpTo(fetch[x].res.version)'
    <3>1. fetch'[x] = fetch[x]
      BY <1>2, <2>4 DEF KeepsAnswers
    <3>2. fetch[x].res.version <= origin /\ UpTo(fetch[x].res.version)
      BY <2>4, <3>1 DEF VersionInv, KnownUpTo
    <3>3. fetch[x].res.version \in Nat
      BY DocumentTypes
    <3>4. fetch'[x].res.version <= origin'
      BY <2>1, <3>1, <3>2, <3>3
    <3> QED BY <1>1, <3>1, <3>2, <3>3, <3>4
  <2> QED BY <2>3, <2>4 DEF KnownUpTo, KeepsAnswers, UpTo
<1>3. ReadBefore'
  BY DocumentTypes DEF VersionInv, ReadBefore, NotNewer, KeepsDocuments, Same
<1>4. DocumentsMatched'
  BY DEF VersionInv, DocumentsMatched, Matched, KeepsDocuments, Same
<1> QED BY <1>1, <1>2, <1>3, <1>4

\* A handler that does not store keeps the documents.
LEMMA HandlerDocuments ==
  ASSUME TypeOK, NEW r \in Requests, Handle(r), ~Store(r)
  PROVE  KeepsDocuments
<1> USE DEF TypeOK, Respond, redis, KeepsDocuments, Same
<1>1. CASE ServeFromCache(r) \/ GiveUp(r) \/ Aborted(r) \/ RejectUnlocked(r)
           \/ Throws(r) \/ Released(r)
  BY <1>1 DEF ServeFromCache, GiveUp, Aborted, RejectUnlocked, Throws, Released
<1>2. CASE Join(r) \/ TryLock(r) \/ StartFetch(r) \/ GotLock(r) \/ NoLock(r)
           \/ RejectLocked(r)
  BY <1>2 DEF Join, TryLock, StartFetch, GotLock, Launch, NoLock, RejectLocked
<1>3. CASE Retry(r)
  BY <1>3 DEF Retry, Get
<1>4. CASE SetExpiry(r)
  BY <1>4 DEF SetExpiry, Entries
<1>5. CASE Unlink(r)
  BY <1>5 DEF Unlink
<1>6. CASE PassOn(r) \/ Updated(r)
  BY <1>6 DEF PassOn, Updated, ReleaseOrRespond
<1> QED BY <1>1, <1>2, <1>3, <1>4, <1>5, <1>6 DEF Handle

\* A handler leaves the answers of the others to them, and its own validator is
\* that of the entry it read.
LEMMA HandlerAnswers ==
  ASSUME TypeOK, RefreshInv, OwnValidator, NEW r \in Requests, Handle(r)
  PROVE  /\ \A x \in Requests : fetch'[x].state = "answered" => fetch'[x] = fetch[x]
         /\ OwnValidator'
<1>1. FetchOwned
  BY DEF RefreshInv
<1>2. ASSUME NEW x \in Requests, fetch'[x].state \in UnderWay
      PROVE  \/ x = r /\ Launch(r)
             \/ x # r /\ fetch'[x] = fetch[x] /\ cachedResponse'[x] = cachedResponse[x]
  BY <1>1, <1>2, HandlerFetch, OthersKeepReads
<1>3. ASSUME Launch(r)
      PROVE  /\ fetch'[r].state = "sent" /\ fetch'[r].ifNoneMatch = Validator(r)
             /\ cachedResponse' = cachedResponse
  BY <1>3 DEF Launch, TypeOK
<1>4. \A x \in Requests : fetch'[x].state = "answered" => fetch'[x] = fetch[x]
  BY <1>2, <1>3 DEF UnderWay
<1>5. ASSUME NEW x \in Requests, cachedResponse'[x] # None
      PROVE  /\ fetch'[x].state = "sent" => fetch'[x].ifNoneMatch = cachedResponse'[x].etag
             /\ fetch'[x].state = "answered" /\ fetch'[x].res.code = "304" =>
                  fetch'[x].res.version = cachedResponse'[x].etag
  BY <1>2, <1>3, <1>5 DEF UnderWay, OwnValidator, Validator
<1> QED BY <1>4, <1>5 DEF OwnValidator

LEMMA HandlerOrigin ==
  ASSUME NEW r \in Requests, Handle(r)
  PROVE  origin' = origin
  BY DEF Handle, ServeFromCache, Join, TryLock, StartFetch, GotLock, Launch, NoLock, GiveUp,
     Retry, RejectLocked, Aborted, RejectUnlocked, Throws, Store, SetExpiry, Unlink, PassOn,
     Updated, Released

\* What is stored: an answer whose fetcher holds the lock, of a version that is
\* the latest known, with the body of that version.
LEMMA Stored ==
  ASSUME Distributed, TypeOK, RefreshInv, VersionInv, NEW r \in Requests, Store(r)
  PROVE  /\ Critical(r) /\ fetch[r].state = "answered" /\ Result(r) = fetch[r].res
         /\ Result(r).version \in Versions
         /\ Result(r).version <= origin /\ UpTo(Result(r).version)
         /\ cachedResponse' = cachedResponse
         /\ \/ entry' = entry
            \/ /\ entry' # None /\ entry'.etag = Result(r).version
               /\ \/ entry'.body = Result(r).version
                  \/ entry'.body = IF entry = None THEN None ELSE entry.body
               /\ Matched(entry')
<1>1. /\ Resuming(r) /\ Fetcher(r) /\ Result(r).code \in {"200", "304"}
      /\ Result(r).code = "304" => cachedResponse[r] # None
  BY DEF Store, Accepted, WriteCache
<1>2. /\ pc[r] = "fetch" /\ fetch[r].state = "answered" /\ Result(r) = fetch[r].res
  BY <1>1 DEF Resuming, Fetcher, Result
<1>3. Critical(r)
  BY <1>2 DEF RefreshInv, FetchOwned, Critical, Holding
<1>4. /\ Result(r).version \in Versions /\ Result(r).version \in Nat
      /\ Result(r).version <= origin /\ UpTo(Result(r).version)
  BY <1>1, <1>2, DocumentTypes DEF VersionInv, KnownUpTo, Fetches, Results
<1>5. cachedResponse' = cachedResponse
  BY DEF Store
<1>6. entry' = entry \/ entry' \in NewEntries(r)
  BY DEF Store
<1>7. ASSUME entry' \in NewEntries(r)
      PROVE  /\ entry' # None /\ entry'.etag = Result(r).version
             /\ \/ entry'.body = Result(r).version
                \/ entry'.body = IF entry = None THEN None ELSE entry.body
             /\ Matched(entry')
  <2>1. entry' \in Entries /\ entry' # None
    BY <1>7, NewEntryTypes, EntriesAssumption
  <2>2. CASE Result(r).code = "200"
    <3>1. entry'.body = Result(r).version /\ entry'.etag = Result(r).version
      BY <1>7, <2>2 DEF NewEntries
    <3> QED BY <2>1, <3>1 DEF Matched
  <2>3. CASE Result(r).code = "304"
    <3>1. /\ entry'.body = IF entry = None THEN None ELSE entry.body
          /\ entry'.etag = Result(r).version
      BY <1>7, <2>3 DEF NewEntries
    <3>2. CASE entry = None
      BY <2>1, <3>1, <3>2 DEF Matched
    <3>3. CASE entry # None
      <4>1. Result(r).version = cachedResponse[r].etag /\ cachedResponse[r] # None
        BY <1>1, <1>2, <2>3 DEF VersionInv, OwnValidator
      <4>2. cachedResponse[r].etag <= entry.etag
        BY <3>3, <4>1 DEF VersionInv, ReadBefore, NotNewer
      <4>3. entry.etag <= Result(r).version
        BY <1>4, <3>3 DEF UpTo
      <4>4. entry.etag = Result(r).version
        BY <3>3, <4>1, <4>2, <4>3, DocumentTypes
      <4>5. entry.body \in {None, entry.etag}
        BY <3>3 DEF VersionInv, DocumentsMatched, Matched
      <4> QED BY <2>1, <3>1, <3>3, <4>4, <4>5 DEF Matched
    <3> QED BY <3>2, <3>3
  <2> QED BY <1>1, <2>2, <2>3
<1> QED BY <1>2, <1>3, <1>4, <1>5, <1>6, <1>7

LEMMA StoreVersions ==
  ASSUME Distributed, TypeOK, RefreshInv, VersionInv, NEW r \in Requests, Store(r)
  PROVE  KnownUpTo' /\ ReadBefore' /\ DocumentsMatched'
<1> DEFINE v == Result(r).version
<1>1. /\ Critical(r) /\ fetch[r].state = "answered"
      /\ v \in Nat /\ v <= origin /\ UpTo(v)
      /\ cachedResponse' = cachedResponse
      /\ entry' = entry \/ (entry' # None /\ entry'.etag = v /\ Matched(entry'))
  BY Stored, DocumentTypes
<1>2. origin' = origin
  BY HandlerOrigin DEF Handle
<1>3. UpTo(origin)'
  BY <1>1, <1>2, DocumentTypes DEF UpTo, VersionInv, KnownUpTo
<1>4. ASSUME NEW x \in Requests PROVE fetch'[x].state # "answered"
  <2>1. CASE x = r
    <3>1. Settle(r) /\ fetchOf[r] = r
      BY DEF Store, WriteCache, Fetcher
    <3> QED BY <2>1, <3>1 DEF Settle, TypeOK, Fetches
  <2>2. CASE x # r /\ fetch'[x].state = "answered"
    <3>1. fetch[x].state = "answered"
      BY <2>2, HandlerAnswers DEF Handle, VersionInv
    <3>2. Critical(x)
      BY <3>1 DEF RefreshInv, FetchOwned, Critical, Holding
    <3> QED BY <1>1, <2>2, <3>2 DEF RefreshInv, LockHeld, Critical
  <2> QED BY <2>1, <2>2
<1>5. KnownUpTo'
  BY <1>3, <1>4 DEF KnownUpTo, UpTo
<1>6. ReadBefore'
  BY <1>1 DEF ReadBefore, NotNewer, VersionInv, UpTo
<1>7. DocumentsMatched'
  BY <1>1 DEF DocumentsMatched, Matched, VersionInv
<1> QED BY <1>5, <1>6, <1>7

LEMMA AnswerVersions ==
  ASSUME TypeOK, VersionInv, NEW x \in Requests, OriginAnswer(x) \/ FetchFails(x)
  PROVE  VersionInv'
<1>1. UNCHANGED <<origin, entry, cachedResponse>>
  BY DEF OriginAnswer, FetchFails, redis
<1>2. PICK res \in Results :
        /\ fetch' = [fetch EXCEPT ![x] = Answered(res)]
        /\ \/ res.code = "error"
           \/ /\ res.version = origin
              /\ res.code = "304" => fetch[x].state = "sent" /\ fetch[x].ifNoneMatch = origin
  <2>1. CASE OriginAnswer(x)
    <3>1. PICK p \in Policies :
            fetch' = [fetch EXCEPT ![x] = Answered(
                        [code |-> IF fetch[x].ifNoneMatch = origin THEN "304" ELSE "200",
                         version |-> origin, policy |-> p])]
      BY <2>1 DEF OriginAnswer
    <3>2. [code |-> IF fetch[x].ifNoneMatch = origin THEN "304" ELSE "200",
           version |-> origin, policy |-> p] \in Results
      BY <3>1, InputsAssumption DEF Results, TypeOK
    <3> QED BY <2>1, <3>1, <3>2 DEF OriginAnswer
  <2>2. CASE FetchFails(x)
    <3>1. NoResult \in Results /\ NoResult.code = "error"
      BY VersionsAssumption DEF NoResult, Results, AllPolicies, Versions
    <3> QED BY <2>2, <3>1 DEF FetchFails
  <2> QED BY <2>1, <2>2
<1>3. /\ fetch'[x].state = "answered" /\ fetch'[x].res = res
      /\ \A y \in Requests \ {x} : fetch'[y] = fetch[y]
  BY <1>2 DEF TypeOK, Answered
<1>4. KnownUpTo'
  BY <1>1, <1>2, <1>3, DocumentTypes DEF VersionInv, KnownUpTo, UpTo
<1>5. OwnValidator'
  BY <1>1, <1>2, <1>3 DEF VersionInv, OwnValidator
<1> QED BY <1>1, <1>4, <1>5 DEF VersionInv, ReadBefore, NotNewer, DocumentsMatched, Matched

\* The other steps of the environment keep documents, and fetches or drop them.
Environment ==
  \/ \E r \in Requests : Arrive(r)
  \/ OriginChange \/ Age \/ ExpireEntry \/ PurgeEntry \/ LockExpires \/ PurgeLock
  \/ \E w \in Workers : Crash(w)
  \/ Terminated \/ UNCHANGED vars
Gentle ==
  /\ KeepsDocuments /\ origin' \in Nat /\ origin <= origin'
  /\ \A x \in Requests : fetch'[x] \in {fetch[x], NoFetch}
  /\ \A x \in Requests : \/ cachedResponse'[x] = None
                         \/ Same(cachedResponse'[x], cachedResponse[x])
                         \/ pc[x] = "idle"

LEMMA EnvironmentGentle ==
  ASSUME TypeOK, Environment
  PROVE  Gentle
<1> USE DEF Gentle, KeepsDocuments, Same
<1>0. origin \in Nat /\ origin <= origin
  BY DocumentTypes
<1>1. ASSUME NEW r \in Requests, Arrive(r) PROVE Gentle
  BY <1>0, <1>1 DEF Arrive, Get, TypeOK, redis
<1>2. CASE OriginChange
  BY <1>0, <1>2 DEF OriginChange, redis
<1>3. CASE Age
  <2>1. \A e \in Entries \cup {None} :
          /\ Stale(e) = None <=> e = None
          /\ e # None => Stale(e).etag = e.etag /\ Stale(e).body = e.body
    BY StaleKeeps
  <2>2. /\ entry' = Stale(entry) /\ UNCHANGED <<origin, fetch>>
        /\ \A q \in Requests : cachedResponse'[q] = Stale(cachedResponse[q])
    BY <1>3 DEF Age
  <2>3. entry \in Entries \cup {None} /\ \A q \in Requests : cachedResponse[q] \in Entries \cup {None}
    BY DEF TypeOK
  <2> QED BY <1>0, <2>1, <2>2, <2>3
<1>4. CASE ExpireEntry \/ PurgeEntry
  BY <1>0, <1>4 DEF ExpireEntry, PurgeEntry, Removed
<1>5. CASE LockExpires \/ PurgeLock
  BY <1>0, <1>5 DEF LockExpires, PurgeLock, LockGone
<1>6. ASSUME NEW w \in Workers, Crash(w) PROVE Gentle
  BY <1>0, <1>6 DEF Crash, redis
<1>7. CASE Terminated \/ UNCHANGED vars
  BY <1>0, <1>7 DEF Terminated, vars
<1> QED BY <1>1, <1>2, <1>3, <1>4, <1>5, <1>6, <1>7 DEF Environment

LEMMA NextSteps ==
  ASSUME [Next]_vars
  PROVE  \/ \E r \in Requests : Handle(r)
         \/ \E r \in Requests : OriginAnswer(r) \/ FetchFails(r)
         \/ Environment
  BY DEF Next, Environment

LEMMA VersionStep ==
  ASSUME Distributed, TypeOK, RefreshInv, VersionInv, [Next]_vars
  PROVE  VersionInv'
<1>1. ASSUME NEW r \in Requests, Handle(r) PROVE VersionInv'
  <2>1. /\ \A x \in Requests : fetch'[x].state = "answered" => fetch'[x] = fetch[x]
        /\ OwnValidator'
    BY <1>1, HandlerAnswers DEF VersionInv
  <2>2. KnownUpTo' /\ ReadBefore' /\ DocumentsMatched'
    <3>1. CASE Store(r)
      BY <3>1, StoreVersions
    <3>2. CASE ~Store(r)
      <4>1. KeepsDocuments
        BY <1>1, <3>2, HandlerDocuments
      <4>2. KeepsAnswers
        BY <1>1, <2>1, HandlerOrigin, DocumentTypes DEF KeepsAnswers
      <4> QED BY <4>1, <4>2, KeptVersions
    <3> QED BY <3>1, <3>2
  <2> QED BY <2>1, <2>2 DEF VersionInv
<1>2. ASSUME NEW r \in Requests, OriginAnswer(r) \/ FetchFails(r) PROVE VersionInv'
  BY <1>2, AnswerVersions
<1>3. CASE Environment
  <2>1. Gentle
    BY <1>3, EnvironmentGentle
  <2>2. KeepsAnswers
    BY <2>1 DEF Gentle, KeepsAnswers, NoFetch
  <2>3. KnownUpTo' /\ ReadBefore' /\ DocumentsMatched'
    BY <2>1, <2>2, KeptVersions DEF Gentle
  <2>4. OwnValidator'
    <3> SUFFICES ASSUME NEW x \in Requests, cachedResponse'[x] # None, fetch'[x].state \in UnderWay
                 PROVE  /\ fetch'[x] = fetch[x] /\ cachedResponse[x] # None
                        /\ cachedResponse'[x].etag = cachedResponse[x].etag
      BY DEF VersionInv, OwnValidator, UnderWay
    <3>1. fetch'[x] = fetch[x]
      BY <2>1 DEF Gentle, NoFetch, UnderWay
    <3>2. pc[x] # "idle"
      BY <3>1 DEF RefreshInv, FetchOwned, UnderWay
    <3> QED BY <2>1, <3>1, <3>2 DEF Gentle, Same
  <2> QED BY <2>3, <2>4 DEF VersionInv
<1> QED BY <1>1, <1>2, <1>3, NextSteps

\* What a document in Redis says of itself is true: its validator is that of its
\* body, and no reader, fetch or write under way is ahead of it.
THEOREM VersionsInvariant ==
  ASSUME Distributed, LeaseOutlivesFetch, "lock" \notin Purges
  PROVE  Spec => []VersionInv
<1>1. Init => VersionInv
  BY VersionsAssumption DEF Init, VersionInv, KnownUpTo, UpTo, ReadBefore, NotNewer,
     OwnValidator, DocumentsMatched, Matched, NoFetch
<1>2. TypeOK /\ RefreshInv /\ VersionInv /\ [Next]_vars => VersionInv'
  BY VersionStep
<1> QED BY <1>1, <1>2, TypeCorrect, RefreshInvariant, PTL DEF Spec

-----------------------------------------------------------------------------
(* The refinement of SingleFlight *)

copyOf == IF entry = None THEN None ELSE entry.body

\* The refresher is the one request in its critical section.
LEMMA RefresherIs ==
  /\ LockHeld => /\ \A r \in Requests : Critical(r) => refresher = r
                 /\ (\A r \in Requests : ~Critical(r)) => refresher = None
  /\ LockHeld' => /\ \A r \in Requests : Critical(r)' => refresher' = r
                  /\ (\A r \in Requests : ~Critical(r)') => refresher' = None
<1>1. LockHeld => \A r, q \in Requests : Critical(r) /\ Critical(q) => r = q
  BY DEF LockHeld, Critical
<1>2. LockHeld' => \A r, q \in Requests : Critical(r)' /\ Critical(q)' => r = q
  BY DEF LockHeld, Critical
<1> QED BY <1>1, <1>2 DEF refresher

\* Only SET NX makes a request critical.
LEMMA CriticalGained ==
  ASSUME TypeOK, LockHeld, NEW r \in Requests, Handle(r), ~TryLock(r), Critical(r)'
  PROVE  Critical(r)
<1> USE DEF TypeOK, Issue, Leave, Respond, redis, client, Holding, Awaiting, Critical, LockHeld
<1>1. CASE ServeFromCache(r) \/ GiveUp(r) \/ Aborted(r) \/ RejectUnlocked(r)
           \/ Throws(r) \/ Released(r)
  BY <1>1 DEF ServeFromCache, GiveUp, Aborted, RejectUnlocked, Throws, Released
<1>2. CASE Join(r) \/ NoLock(r) \/ Retry(r) \/ RejectLocked(r)
  BY <1>2 DEF Join, NoLock, Retry, Get, RejectLocked
<1>3. CASE StartFetch(r) \/ GotLock(r)
  BY <1>3 DEF StartFetch, GotLock, Launch
<1>4. CASE Store(r) \/ SetExpiry(r) \/ Unlink(r)
  BY <1>4 DEF Store, SetExpiry, Unlink, Accepted, Resuming
<1>5. CASE PassOn(r) \/ Updated(r)
  BY <1>5 DEF PassOn, Updated, ReleaseOrRespond
<1> QED BY <1>1, <1>2, <1>3, <1>4, <1>5 DEF Handle

\* If nobody becomes critical, the abstract refresher stays or ends.
LEMMA RefresherStaysOrEnds ==
  ASSUME LockHeld, LockHeld', \A r \in Requests : Critical(r)' => Critical(r)
  PROVE  refresher' = refresher \/ refresher' = None
  BY RefresherIs

LEMMA HandlerRefines ==
  ASSUME Distributed, TypeOK, RefreshInv, VersionInv, LockHeld',
         NEW r \in Requests, Handle(r)
  PROVE  [Abstract!Next]_<<refresher, copyOf>>
<1> USE DEF Abstract!Next, Abstract!Begin, Abstract!Write, Abstract!Remove, Abstract!End
<1>1. LockHeld
  BY DEF RefreshInv
<1>2. \A q \in Requests \ {r} : pc'[q] = pc[q] /\ locked'[q] = locked[q]
  BY OthersKeepLock
<1>3. ASSUME ~TryLock(r), NEW q \in Requests, Critical(q)' PROVE Critical(q)
  BY <1>1, <1>2, <1>3, CriticalGained DEF Critical
<1>4. CASE TryLock(r)
  <2>1. UNCHANGED entry
    BY <1>4 DEF TryLock
  <2>2. CASE Critical(r)'
    <3>1. lock = None
      BY <1>4, <2>2 DEF TryLock, NX, Critical, TypeOK
    <3>2. \A q \in Requests : ~Critical(q)
      BY <1>1, <3>1, WorkersAssumption DEF LockHeld, Critical
    <3>3. refresher = None /\ refresher' = r
      BY <1>1, <2>2, <3>2, RefresherIs
    <3> QED BY <2>1, <3>3 DEF copyOf
  <2>3. CASE ~Critical(r)'
    <3>1. \A q \in Requests : Critical(q)' => Critical(q)
      BY <1>2, <2>3 DEF Critical
    <3> QED BY <1>1, <2>1, <3>1, RefresherStaysOrEnds DEF copyOf
  <2> QED BY <2>2, <2>3
<1>5. CASE Store(r)
  <2>1. Critical(r)
    BY <1>5, Stored
  <2>2. Critical(r)'
    BY <1>5, <2>1 DEF Store, Issue, Critical, Holding, TypeOK
  <2>3. refresher = r /\ refresher' = r /\ r # None
    BY <1>1, <2>1, <2>2, RefresherIs, WorkersAssumption
  <2>4. PICK v \in Versions :
          /\ UpTo(v)
          /\ \/ entry' = entry
             \/ /\ entry' # None
                /\ \/ entry'.body = v
                   \/ entry'.body = IF entry = None THEN None ELSE entry.body
    BY <1>5, Stored
  <2>5. copyOf # None => copyOf <= v
    BY <2>4 DEF copyOf, UpTo, VersionInv, DocumentsMatched, Matched
  <2>6. copyOf' = copyOf \/ copyOf' = v
    BY <2>4 DEF copyOf
  <2>7. copyOf = None \/ v >= copyOf
    <3>1. v \in Nat /\ (copyOf # None => copyOf \in Nat)
      BY VersionsAssumption DEF copyOf, TypeOK, Entries, Versions
    <3> QED BY <2>5, <3>1
  <2> QED BY <2>3, <2>4, <2>6, <2>7 DEF copyOf
<1>6. CASE Unlink(r)
  <2>1. /\ pc[r] = "fetch" /\ pc'[r] = "update" /\ locked' = locked
        /\ entry' = None \/ entry' = entry
    BY <1>6 DEF Unlink, Accepted, Resuming, Issue, TypeOK
  <2>2. \A q \in Requests : Critical(q)' <=> Critical(q)
    BY <1>2, <2>1 DEF Critical, Holding
  <2>3. refresher' = refresher
    BY <1>1, <2>2, RefresherIs
  <2>4. copyOf' = None \/ copyOf' = copyOf
    BY <2>1 DEF copyOf
  <2> QED BY <2>3, <2>4 DEF copyOf
<1>7. CASE SetExpiry(r)
  <2>1. /\ pc[r] = "write" /\ pc'[r] = "update" /\ locked' = locked
        /\ entry' = entry \/ (entry # None /\ entry' = [entry EXCEPT !.ttl = TRUE])
    BY <1>7 DEF SetExpiry, Awaiting, Issue, TypeOK
  <2>2. entry # None => [entry EXCEPT !.ttl = TRUE] \in Entries
                        /\ [entry EXCEPT !.ttl = TRUE].body = entry.body
    BY DEF TypeOK, Entries
  <2>3. copyOf' = copyOf
    BY <2>1, <2>2, EntriesAssumption DEF copyOf
  <2>4. \A q \in Requests : Critical(q)' <=> Critical(q)
    BY <1>2, <2>1 DEF Critical, Holding
  <2>5. refresher' = refresher
    BY <1>1, <2>4, RefresherIs
  <2> QED BY <2>3, <2>5
<1>8. CASE ~TryLock(r) /\ ~Store(r) /\ ~Unlink(r) /\ ~SetExpiry(r)
  <2>1. entry' = entry
    BY <1>8 DEF Handle, ServeFromCache, Join, StartFetch, GotLock, Launch, NoLock, GiveUp,
       Retry, RejectLocked, Aborted, RejectUnlocked, Throws, PassOn, Updated, Released, redis
  <2> QED BY <1>1, <1>3, <1>8, <2>1, RefresherStaysOrEnds DEF copyOf
<1> QED BY <1>4, <1>5, <1>6, <1>7, <1>8

LEMMA OthersRefine ==
  ASSUME TypeOK, LockHeld, LockHeld',
         \/ \E r \in Requests : OriginAnswer(r) \/ FetchFails(r)
         \/ Environment
  PROVE  [Abstract!Next]_<<refresher, copyOf>>
<1> USE DEF Abstract!Next, Abstract!Remove, Abstract!End
<1>1. ASSUME UNCHANGED <<pc, locked>>, copyOf' = copyOf \/ copyOf' = None
      PROVE  [Abstract!Next]_<<refresher, copyOf>>
  <2>1. refresher' = refresher
    BY <1>1 DEF refresher, Critical
  <2> QED BY <1>1, <2>1 DEF copyOf
<1>2. ASSUME NEW r \in Requests, OriginAnswer(r) \/ FetchFails(r)
      PROVE  [Abstract!Next]_<<refresher, copyOf>>
  BY <1>1, <1>2 DEF OriginAnswer, FetchFails, redis, copyOf
<1>3. ASSUME NEW r \in Requests, Arrive(r)
      PROVE  [Abstract!Next]_<<refresher, copyOf>>
  <2>1. \A q \in Requests : Critical(q)' => Critical(q)
    BY <1>3 DEF Arrive, Get, Issue, Critical, Holding, LockHeld, TypeOK
  <2>2. copyOf' = copyOf
    BY <1>3 DEF Arrive, redis, copyOf
  <2> QED BY <2>1, <2>2, RefresherStaysOrEnds DEF copyOf
<1>4. CASE Age
  <2>1. copyOf' = copyOf
    BY <1>4, StaleKeeps DEF Age, copyOf, TypeOK
  <2> QED BY <1>1, <1>4, <2>1 DEF Age
<1>5. CASE OriginChange \/ ExpireEntry \/ PurgeEntry \/ LockExpires \/ PurgeLock
  BY <1>1, <1>5 DEF OriginChange, ExpireEntry, PurgeEntry, Removed, LockExpires, PurgeLock,
     LockGone, redis, copyOf
<1>6. ASSUME NEW w \in Workers, Crash(w)
      PROVE  [Abstract!Next]_<<refresher, copyOf>>
  <2>1. \A q \in Requests : Critical(q)' => Critical(q)
    BY <1>6 DEF Crash, Critical, Holding
  <2>2. copyOf' = copyOf
    BY <1>6 DEF Crash, redis, copyOf
  <2> QED BY <2>1, <2>2, RefresherStaysOrEnds DEF copyOf
<1>7. CASE Terminated \/ UNCHANGED vars
  BY <1>1, <1>7 DEF Terminated, vars, copyOf
<1> QED BY <1>2, <1>3, <1>4, <1>5, <1>6, <1>7 DEF Environment

\* The detailed design, with its locks, leases, promises, retries, faults and
\* crashes, implements the abstract promise of request coalescing.
THEOREM ImplementsAbstract ==
  ASSUME Distributed, LeaseOutlivesFetch, "lock" \notin Purges
  PROVE  Spec => ImplementsSingleFlight
<1>1. Init => Abstract!Init
  BY DEF Init, Abstract!Init, refresher, Critical
<1>2. TypeOK /\ RefreshInv /\ RefreshInv' /\ VersionInv /\ [Next]_vars
        => [Abstract!Next]_Abstract!vars
  BY HandlerRefines, OthersRefine, NextSteps DEF RefreshInv, Abstract!vars, copyOf
<1> QED BY <1>1, <1>2, TypeCorrect, RefreshInvariant, VersionsInvariant, PTL
        DEF Spec, ImplementsSingleFlight, Abstract!Spec

-----------------------------------------------------------------------------
(* The order of reads, and the answers *)

Older(x, r) == NotNewer(cachedResponse[x], cachedResponse[r])

\* The replies of one worker come in the order of the commands.
Before(x, r) ==
  LET q == replies[WorkerOf[x]]
  IN \E i, j \in 1 .. Len(q) : i < j /\ q[i] = x /\ q[j] = r
Queued ==
  \A w \in Workers : LET q == replies[w] IN
    /\ \A i \in 1 .. Len(q) : WorkerOf[q[i]] = w /\ pc[q[i]] \in Suspended
    /\ \A i, j \in 1 .. Len(q) : i # j => q[i] # q[j]
    /\ \A r \in Requests : WorkerOf[r] = w /\ pc[r] \in Suspended =>
         \E i \in 1 .. Len(q) : q[i] = r

\* A promise is awaited while it is worked on, on the same worker, and by the
\* way out at most until then.
Answering == {"write", "update", "release"}
Behind == {"fetch", "abort", "done", "crashed"} \cup Answering
Promised ==
  \A r \in Requests :
    /\ Fetcher(r) => /\ pc[r] = "fetch" => fetch[r].state \in UnderWay
                     /\ pc[r] = "abort" => fetch[r].res.code = "error"
    /\ ~Fetcher(r) => Local /\ WorkerOf[fetchOf[r]] = WorkerOf[r]
    /\ pc[r] = "fetch" \/ pc[r] \in Answering => pc[fetchOf[r]] \in Behind
    /\ pc[r] \in Answering => fetch[fetchOf[r]].state \notin UnderWay

\* A request that may still join x, or has joined it, has not read an older
\* entry than x.
InOrder ==
  \A x, r \in Requests :
    /\ x # r /\ WorkerOf[x] = WorkerOf[r]
    /\ \/ pc[x] = "get" /\ pc[r] = "get" /\ Before(x, r)
       \/ (pc[x] = "lock" \/ fetch[x].state \in UnderWay) /\ pc[r] = "get"
       \/ fetch[x].state \in UnderWay /\ pc[r] = "fetch" /\ fetchOf[r] = x
    => Older(x, r)

\* A 304 that is going to be answered with confirms what the request has read.
Confirmed ==
  \A r \in Requests :
    /\ pc[r] \in Answering \/ (pc[r] = "fetch" /\ fetch[fetchOf[r]].state = "settled")
    /\ Result(r).code = "304" /\ cachedResponse[r] # None
    => Result(r).version = cachedResponse[r].etag

AnswersMatched == \A r \in Requests : resp[r].body \in {None, resp[r].etag}

\* A handler of r leaves the fetches of the others alone.
LEMMA OthersKeepFetch ==
  ASSUME TypeOK, NEW r \in Requests, Handle(r), NEW q \in Requests,
         q # r \/ (~Launch(r) /\ fetch[r].state \notin UnderWay)
  PROVE  fetch'[q] = fetch[q] \/ (fetchOf[r] = r /\ q = r)
<1> USE DEF TypeOK, redis, client
<1>1. ASSUME Settle(r), Resuming(r) PROVE fetch'[q] = fetch[q] \/ (fetchOf[r] = r /\ q = r)
  <2>1. CASE fetchOf[r] = r
    BY <1>1, <2>1 DEF Settle
  <2>2. CASE fetchOf[r] # r
    <3>1. fetch[fetchOf[r]].state = "settled" /\ fetch[fetchOf[r]] \in Fetches
      BY <1>1, <2>2 DEF Resuming, Fetcher
    <3>2. [fetch[fetchOf[r]] EXCEPT !.state = "settled"] = fetch[fetchOf[r]]
      BY <3>1 DEF Fetches
    <3> QED BY <1>1, <3>2 DEF Settle
  <2> QED BY <2>1, <2>2
<1>2. CASE RejectLocked(r) \/ RejectUnlocked(r) \/ Throws(r) \/ Store(r) \/ Unlink(r) \/ PassOn(r)
  BY <1>1, <1>2 DEF RejectLocked, RejectUnlocked, Throws, Store, Unlink, PassOn, Accepted
<1>3. CASE StartFetch(r) \/ GotLock(r)
  BY <1>3 DEF StartFetch, GotLock, Launch
<1>4. CASE ServeFromCache(r) \/ Join(r) \/ TryLock(r) \/ NoLock(r) \/ GiveUp(r) \/ Retry(r)
           \/ Aborted(r) \/ SetExpiry(r) \/ Updated(r) \/ Released(r)
  BY <1>4 DEF ServeFromCache, Join, TryLock, NoLock, GiveUp, Retry, Aborted, SetExpiry,
     Updated, Released
<1> QED BY <1>2, <1>3, <1>4 DEF Handle

\* A step of r by its handler, or its arrival: the reply of its last command,
\* if it awaits one, is taken from the queue and that of the next one added.
Moves(r) ==
  /\ pc[r] \in Suspended => replies[WorkerOf[r]] # <<>> /\ Head(replies[WorkerOf[r]]) = r
  /\ \E place \in Places : \/ place \notin Suspended /\ Leave(r, place)
                           \/ place \in Suspended /\ Issue(r, place)

LEMMA HandlerMoves ==
  ASSUME NEW r \in Requests, Handle(r) \/ Arrive(r)
  PROVE  Moves(r)
<1>0. /\ {"lock", "get", "write", "update", "release", "abort"} \subseteq Places \cap Suspended
      /\ {"fetch", "retry", "done"} \subseteq Places /\ {"fetch", "retry", "done", "idle"} \cap Suspended = {}
  BY DEF Places, Suspended
<1> USE DEF Moves, Respond, Awaiting
<1>1. CASE ServeFromCache(r) \/ GiveUp(r) \/ Aborted(r) \/ Released(r)
  BY <1>0, <1>1 DEF ServeFromCache, GiveUp, Aborted, Released
<1>2. CASE Join(r) \/ NoLock(r) \/ StartFetch(r) \/ GotLock(r)
  BY <1>0, <1>2 DEF Join, NoLock, StartFetch, GotLock, Launch
<1>3. CASE TryLock(r) \/ SetExpiry(r)
  BY <1>0, <1>3 DEF TryLock, SetExpiry
<1>4. CASE Retry(r) \/ Arrive(r)
  BY <1>0, <1>4 DEF Retry, Arrive, Get
<1>5. CASE RejectLocked(r) \/ RejectUnlocked(r) \/ Throws(r)
  BY <1>0, <1>5 DEF RejectLocked, RejectUnlocked, Throws, Resuming
<1>6. CASE Store(r) \/ Unlink(r)
  <2>1. pc[r] \notin Suspended /\ (Issue(r, "write") \/ Issue(r, "update"))
    BY <1>6, Running DEF Store, Unlink
  <2> QED BY <1>0, <2>1
<1>7. CASE PassOn(r) \/ Updated(r)
  <2>1. /\ pc[r] \in Suspended => replies[WorkerOf[r]] # <<>> /\ Head(replies[WorkerOf[r]]) = r
        /\ Issue(r, "release") \/ Leave(r, "done")
    BY <1>7, Running DEF PassOn, Updated, ReleaseOrRespond
  <2> QED BY <1>0, <2>1
<1> QED BY <1>1, <1>2, <1>3, <1>4, <1>5, <1>6, <1>7 DEF Handle

\* The replies still in flight when r runs: those of the others, in their order.
LEMMA QueueRest ==
  ASSUME TypeOK, Queued, NEW r \in Requests, Moves(r)
  PROVE  LET q == replies[WorkerOf[r]] IN
         /\ Queue(r) \in Seq(Requests)
         /\ \E d \in {0, 1} :
              /\ Len(Queue(r)) = Len(q) - d
              /\ \A i \in 1 .. Len(Queue(r)) : Queue(r)[i] = q[i + d] /\ Queue(r)[i] # r
              /\ \A i \in 1 .. Len(q) : q[i] # r => i - d \in 1 .. Len(Queue(r))
<1> DEFINE q == replies[WorkerOf[r]]
<1>1. /\ WorkerOf[r] \in Workers /\ q \in Seq(Requests)
      /\ \A i \in 1 .. Len(q) : pc[q[i]] \in Suspended
      /\ \A i, j \in 1 .. Len(q) : i # j => q[i] # q[j]
  BY WorkersAssumption DEF TypeOK, Queued
<1>2. CASE pc[r] \in Suspended
  <2>1. q # <<>> /\ Head(q) = r /\ Queue(r) = Tail(q)
    BY <1>2 DEF Moves, Queue
  <2>2. /\ Len(q) \in Nat /\ Len(q) >= 1 /\ q[1] = r
        /\ Tail(q) \in Seq(Requests) /\ Len(Tail(q)) = Len(q) - 1
        /\ \A i \in 1 .. Len(Tail(q)) : Tail(q)[i] = q[i + 1]
    BY <1>1, <2>1
  <2>3. \A i \in 1 .. Len(Tail(q)) : i + 1 \in 1 .. Len(q) /\ 1 \in 1 .. Len(q) /\ i + 1 # 1
    BY <2>2
  <2>4. \A i \in 1 .. Len(Tail(q)) : Tail(q)[i] # r
    BY <1>1, <2>2, <2>3
  <2>5. \A i \in 1 .. Len(q) : q[i] # r => i - 1 \in 1 .. Len(Tail(q))
    BY <2>2
  <2> QED BY <2>1, <2>2, <2>4, <2>5
<1>3. CASE pc[r] \notin Suspended
  <2>1. Queue(r) = q /\ Len(q) \in Nat
    BY <1>1, <1>3 DEF Queue
  <2>2. \A i \in 1 .. Len(q) : q[i] # r /\ i + 0 = i /\ i - 0 = i
    BY <1>1, <1>3, <2>1
  <2> QED BY <1>1, <2>1, <2>2
<1> QED BY <1>2, <1>3

LEMMA QueueStep ==
  ASSUME TypeOK, Queued, NEW r \in Requests, Moves(r)
  PROVE  /\ Queued'
         /\ \A x, y \in Requests : Before(x, y)' => x # r /\ (y = r \/ Before(x, y))
<1> DEFINE w0 == WorkerOf[r]
           q == replies[w0]
           p == Queue(r)
           s == replies'[w0]
<1>1. /\ w0 \in Workers /\ q \in Seq(Requests)
      /\ \A i \in 1 .. Len(q) : q[i] \in Requests /\ WorkerOf[q[i]] = w0 /\ pc[q[i]] \in Suspended
      /\ \A i, j \in 1 .. Len(q) : i # j => q[i] # q[j]
      /\ \A x \in Requests : WorkerOf[x] = w0 /\ pc[x] \in Suspended =>
           \E i \in 1 .. Len(q) : q[i] = x
  BY WorkersAssumption DEF TypeOK, Queued
<1>2. PICK d \in {0, 1} :
        /\ p \in Seq(Requests) /\ Len(p) = Len(q) - d
        /\ \A i \in 1 .. Len(p) : p[i] = q[i + d] /\ p[i] # r
        /\ \A i \in 1 .. Len(q) : q[i] # r => i - d \in 1 .. Len(p)
  BY QueueRest
<1>3. PICK place \in Places : \/ place \notin Suspended /\ Leave(r, place)
                              \/ place \in Suspended /\ Issue(r, place)
  BY DEF Moves
<1>4. /\ pc'[r] = place
      /\ \A x \in Requests \ {r} : pc'[x] = pc[x]
      /\ \A w \in Workers \ {w0} : replies'[w] = replies[w]
      /\ \/ place \notin Suspended /\ s = p
         \/ place \in Suspended /\ s = Append(p, r)
  BY <1>1, <1>3 DEF Leave, Issue, TypeOK
<1>5. /\ Len(p) \in Nat /\ Len(q) \in Nat /\ Len(s) \in Nat
      /\ \A i \in 1 .. Len(p) : s[i] = p[i] /\ s[i] # r /\ i + d \in 1 .. Len(q)
      /\ \/ place \notin Suspended /\ Len(s) = Len(p)
         \/ place \in Suspended /\ Len(s) = Len(p) + 1 /\ s[Len(s)] = r
  <2>1. Len(p) \in Nat /\ Len(q) \in Nat /\ Len(p) = Len(q) - d
    BY <1>1, <1>2
  <2>2. \A i \in 1 .. Len(p) : i + d \in 1 .. Len(q)
    BY <2>1
  <2>3. CASE s = p
    BY <1>2, <1>4, <2>1, <2>2, <2>3
  <2>4. CASE place \in Suspended /\ s = Append(p, r)
    <3>1. /\ Len(s) = Len(p) + 1 /\ s[Len(p) + 1] = r
          /\ \A i \in 1 .. Len(p) : s[i] = p[i]
      BY <1>2, <2>4
    <3> QED BY <1>2, <2>1, <2>2, <2>4, <3>1
  <2> QED BY <1>2, <1>4, <2>1, <2>2, <2>3, <2>4
<1>6. \A i \in 1 .. Len(s) : \/ i \in 1 .. Len(p) /\ s[i] = q[i + d] /\ s[i] # r /\ i + d \in 1 .. Len(q)
                             \/ i = Len(s) /\ s[i] = r /\ pc'[r] \in Suspended
  BY <1>2, <1>4, <1>5
<1>7. \A i \in 1 .. Len(s) : WorkerOf[s[i]] = w0 /\ pc'[s[i]] \in Suspended
  BY <1>1, <1>4, <1>6
<1>8. ASSUME NEW i \in 1 .. Len(s), NEW j \in 1 .. Len(s), i # j PROVE s[i] # s[j]
  <2>1. CASE s[i] = r \/ s[j] = r
    BY <1>5, <1>6, <1>8, <2>1
  <2>2. CASE s[i] # r /\ s[j] # r
    <3>1. /\ s[i] = q[i + d] /\ s[j] = q[j + d]
          /\ i + d \in 1 .. Len(q) /\ j + d \in 1 .. Len(q)
      BY <1>6, <2>2
    <3>2. i + d # j + d
      BY <1>8
    <3> QED BY <1>1, <3>1, <3>2
  <2> QED BY <2>1, <2>2
<1>9. ASSUME NEW x \in Requests, WorkerOf[x] = w0, pc'[x] \in Suspended
      PROVE  \E i \in 1 .. Len(s) : s[i] = x
  <2>1. CASE x = r
    BY <1>4, <1>5, <1>9, <2>1
  <2>2. CASE x # r
    <3>1. PICK i \in 1 .. Len(q) : q[i] = x
      BY <1>1, <1>4, <1>9, <2>2
    <3> DEFINE j == i - d
    <3>2. j \in 1 .. Len(p) /\ j + d = i
      BY <1>2, <2>2, <3>1
    <3> HIDE DEF j
    <3>3. p[j] = x
      BY <1>2, <3>1, <3>2
    <3> HIDE DEF p, q, s
    <3>4. s[j] = x /\ j \in 1 .. Len(s)
      BY <1>5, <3>2, <3>3
    <3> QED BY <3>4
  <2> QED BY <2>1, <2>2
<1>10. ASSUME NEW w \in Workers, w # w0
       PROVE  LET z == replies'[w] IN
              /\ \A i \in 1 .. Len(z) : WorkerOf[z[i]] = w /\ pc'[z[i]] \in Suspended
              /\ \A i, j \in 1 .. Len(z) : i # j => z[i] # z[j]
              /\ \A x \in Requests : WorkerOf[x] = w /\ pc'[x] \in Suspended =>
                   \E i \in 1 .. Len(z) : z[i] = x
  <2>1. replies'[w] = replies[w] /\ replies[w] \in Seq(Requests)
    BY <1>4, <1>10 DEF TypeOK
  <2>2. \A i \in 1 .. Len(replies[w]) : replies[w][i] \in Requests \ {r}
    BY <1>10, <2>1 DEF Queued
  <2> QED BY <1>4, <1>10, <2>1, <2>2 DEF Queued
<1>11. Queued'
  BY <1>7, <1>8, <1>9, <1>10 DEF Queued
<1>12. ASSUME NEW x \in Requests, NEW y \in Requests, Before(x, y)'
       PROVE  x # r /\ (y = r \/ Before(x, y))
  <2>1. CASE WorkerOf[x] # w0
    <3>1. replies'[WorkerOf[x]] = replies[WorkerOf[x]]
      BY <1>4, <2>1, WorkersAssumption
    <3> QED BY <1>12, <2>1, <3>1 DEF Before
  <2>2. CASE WorkerOf[x] = w0
    <3>1. PICK i \in 1 .. Len(s), j \in 1 .. Len(s) : i < j /\ s[i] = x /\ s[j] = y
      BY <1>12, <2>2 DEF Before
    <3>2. i \in 1 .. Len(p) /\ x = q[i + d] /\ x # r /\ i + d \in 1 .. Len(q)
      BY <1>5, <1>6, <3>1
    <3>3. CASE y # r
      <4>1. y = q[j + d] /\ j + d \in 1 .. Len(q) /\ i + d < j + d
        BY <1>6, <3>1, <3>3
      <4> QED BY <2>2, <3>2, <4>1 DEF Before
    <3> QED BY <3>2, <3>3
  <2> QED BY <2>1, <2>2
<1> QED BY <1>11, <1>12

\* The one whose reply is handled has read before all others that wait.
LEMMA HeadFirst ==
  ASSUME TypeOK, Queued, NEW r \in Requests, Moves(r), pc[r] \in Suspended,
         NEW x \in Requests \ {r}, WorkerOf[x] = WorkerOf[r], pc[x] \in Suspended
  PROVE  Before(r, x)
<1> DEFINE q == replies[WorkerOf[r]]
<1>1. /\ WorkerOf[r] \in Workers /\ q \in Seq(Requests) /\ q # <<>> /\ Head(q) = r
  BY WorkersAssumption DEF TypeOK, Moves
<1>2. q[1] = r /\ Len(q) \in Nat /\ 1 \in 1 .. Len(q)
  BY <1>1
<1>3. PICK i \in 1 .. Len(q) : q[i] = x
  BY <1>1 DEF Queued
<1>4. 1 < i
  BY <1>2, <1>3
<1> QED BY <1>2, <1>3, <1>4 DEF Before

\* How a step of r changes what r has read and awaits, and what it fetches.
Reads(r) ==
  /\ pc[r] \in {"idle", "retry"} /\ pc'[r] = "get"
  /\ cachedResponse'[r] \in {entry, None}
  /\ fetchOf'[r] = fetchOf[r] /\ fetch' = fetch
Joins(r) ==
  /\ pc[r] = "get" /\ pc'[r] = "fetch" /\ Ongoing(r)
  /\ fetchOf'[r] = ongoingFetch[WorkerOf[r]]
  /\ cachedResponse'[r] = cachedResponse[r] /\ fetch' = fetch
Locks(r) ==
  /\ pc[r] = "get" /\ pc'[r] = "lock"
  /\ cachedResponse'[r] = cachedResponse[r]
  /\ fetchOf'[r] = fetchOf[r] /\ fetch' = fetch
Launches(r) == pc[r] = "lock" /\ pc'[r] = "fetch" /\ fetchOf'[r] = r /\ Launch(r)
Settles(r) ==
  /\ Resuming(r) /\ Settle(r) /\ fetchOf'[r] = fetchOf[r]
  /\ \/ pc'[r] = "done"
     \/ pc'[r] = "abort" /\ Result(r).code = "error"
     \/ pc'[r] \in Answering /\ cachedResponse'[r] = cachedResponse[r]
Ends(r) ==
  /\ fetch' = fetch /\ fetchOf'[r] = fetchOf[r]
  /\ \/ pc[r] \in {"get", "lock", "abort"} \cup Answering /\ pc'[r] = "done"
     \/ pc[r] = "lock" /\ pc'[r] = "retry"
     \/ /\ pc[r] \in Answering /\ pc'[r] \in Answering
        /\ cachedResponse'[r] = cachedResponse[r]

LEMMA HandlerKinds ==
  ASSUME Distributed, TypeOK, NEW r \in Requests, Handle(r)
  PROVE  Reads(r) \/ Joins(r) \/ Locks(r) \/ Launches(r) \/ Settles(r) \/ Ends(r)
<1> USE DEF TypeOK, Issue, Leave, Respond, Awaiting, Answering
<1>1. CASE ServeFromCache(r) \/ GiveUp(r) \/ NoLock(r) \/ Aborted(r) \/ Released(r)
  BY <1>1 DEF ServeFromCache, GiveUp, NoLock, Aborted, Released, Ends
<1>2. CASE Join(r)
  BY <1>2 DEF Join, Joins
<1>3. CASE TryLock(r)
  BY <1>3 DEF TryLock, Locks
<1>4. CASE StartFetch(r) \/ GotLock(r)
  BY <1>4 DEF StartFetch, GotLock, Launch, Launches
<1>5. CASE Retry(r)
  BY <1>5 DEF Retry, Get, Reads
<1>6. CASE RejectLocked(r)
  BY <1>6 DEF RejectLocked, Settles
<1>7. CASE RejectUnlocked(r) \/ Throws(r)
  BY <1>7 DEF RejectUnlocked, Throws, Settles
<1>8. CASE Store(r) \/ Unlink(r)
  BY <1>8 DEF Store, Unlink, Accepted, Settles
<1>9. CASE SetExpiry(r)
  BY <1>9 DEF SetExpiry, Ends
<1>10. CASE PassOn(r)
  <2>1. /\ \/ pc'[r] = "done"
           \/ pc'[r] = "release" /\ cachedResponse'[r] = cachedResponse[r]
        /\ Resuming(r) /\ Settle(r) /\ fetchOf' = fetchOf
    BY <1>10 DEF PassOn, Accepted, ReleaseOrRespond
  <2> QED BY <2>1 DEF Settles
<1>11. CASE Updated(r)
  <2>1. /\ \/ pc'[r] = "done"
           \/ pc'[r] = "release" /\ cachedResponse'[r] = cachedResponse[r]
        /\ pc[r] = "update" /\ fetchOf' = fetchOf /\ fetch' = fetch
    BY <1>11 DEF Updated, ReleaseOrRespond
  <2> QED BY <2>1 DEF Ends
<1> QED BY <1>1, <1>2, <1>3, <1>4, <1>5, <1>6, <1>7, <1>8, <1>9, <1>10, <1>11 DEF Handle

\* What the steps of r leave to the others.
LEMMA OthersKeep ==
  ASSUME TypeOK, NEW r \in Requests, Handle(r), NEW q \in Requests \ {r}
  PROVE  /\ pc'[q] = pc[q] /\ cachedResponse'[q] = cachedResponse[q]
         /\ fetchOf'[q] = fetchOf[q] /\ fetch'[q] = fetch[q]
  BY OthersKeepLock, OthersKeepReads, OthersKeepFetch

\* What a settling r does to the fetch it awaits.
LEMMA SettledFetch ==
  ASSUME TypeOK, NEW r \in Requests, Settles(r)
  PROVE  /\ fetchOf[r] \in Requests /\ pc[r] = "fetch"
         /\ fetch'[fetchOf[r]].state = "settled"
         /\ fetch'[fetchOf[r]].res = fetch[fetchOf[r]].res
         /\ IF Fetcher(r) THEN fetch[r].state = "answered"
                          ELSE fetch[fetchOf[r]].state = "settled"
<1>1. fetchOf[r] \in Requests /\ fetch[fetchOf[r]] \in Fetches
  BY DEF TypeOK
<1>2. fetch'[fetchOf[r]] = [fetch[fetchOf[r]] EXCEPT !.state = "settled"]
  BY <1>1 DEF Settles, Settle, TypeOK
<1> QED BY <1>1, <1>2 DEF Settles, Resuming, Fetches

\* The Map's promise is that of another request than the one that looks it up.
LEMMA JoinedFetch ==
  ASSUME TypeOK, PromiseHeld, NEW r \in Requests, Joins(r)
  PROVE  /\ fetchOf'[r] \in Requests \ {r} /\ Local
         /\ WorkerOf[fetchOf'[r]] = WorkerOf[r]
         /\ pc[fetchOf'[r]] \in {"fetch", "abort"} /\ Fetcher(fetchOf'[r])
  BY WorkersAssumption DEF Joins, Ongoing, PromiseHeld

LEMMA PromisedHandled ==
  ASSUME Distributed, TypeOK, FetchOwned, PromiseHeld, Promised, NEW a \in Requests, Handle(a)
  PROVE  Promised'
<1>0. Reads(a) \/ Joins(a) \/ Locks(a) \/ Launches(a) \/ Settles(a) \/ Ends(a)
  BY HandlerKinds
<1>1. ASSUME NEW r \in Requests \ {a}
      PROVE  pc'[r] = pc[r] /\ fetchOf'[r] = fetchOf[r] /\ fetch'[r] = fetch[r]
  BY OthersKeep
<1>2. \A r \in Requests : fetchOf[r] \in Requests
  BY DEF TypeOK
<1>3. pc[a] \in Behind => pc'[a] \in Behind
  BY <1>0 DEF Reads, Joins, Locks, Launches, Settles, Ends, Resuming, Behind, Answering
<1>4. ASSUME NEW f \in Requests, pc[f] \in Behind, fetch'[f].state \in UnderWay
      PROVE  fetch[f].state \in UnderWay
  <2>1. CASE f # a
    BY <1>1, <1>4, <2>1
  <2>2. CASE f = a /\ Settles(a)
    <3>1. fetchOf[a] # a
      BY <1>4, <2>2, SettledFetch DEF UnderWay
    <3>2. fetch'[a] = fetch[a]
      BY <2>2, <3>1 DEF Settles, Settle, TypeOK
    <3> QED BY <1>4, <2>2, <3>2
  <2>3. CASE f = a /\ ~Settles(a)
    BY <1>0, <1>4, <2>3 DEF Reads, Joins, Locks, Launches, Ends, Behind, Answering
  <2> QED BY <2>1, <2>2, <2>3
<1>5. ASSUME NEW r \in Requests, fetchOf'[r] = r
      PROVE  /\ pc'[r] = "fetch" => fetch'[r].state \in UnderWay
             /\ pc'[r] = "abort" => fetch'[r].res.code = "error"
  <2>1. CASE r # a
    BY <1>1, <1>5, <2>1 DEF Promised, Fetcher
  <2>2. CASE r = a
    <3>1. CASE Launches(a)
      BY <2>2, <3>1 DEF Launches, Launch, TypeOK, UnderWay
    <3>2. CASE Joins(a)
      BY <1>5, <2>2, <3>2, JoinedFetch
    <3>3. CASE Settles(a)
      BY <1>5, <2>2, <3>3, SettledFetch DEF Settles, Result, Answering
    <3>4. CASE Reads(a) \/ Locks(a) \/ Ends(a)
      BY <2>2, <3>4 DEF Reads, Locks, Ends, Answering
    <3> QED BY <1>0, <3>1, <3>2, <3>3, <3>4
  <2> QED BY <2>1, <2>2
<1>6. ASSUME NEW r \in Requests, fetchOf'[r] # r
      PROVE  Local /\ WorkerOf[fetchOf'[r]] = WorkerOf[r]
  <2>1. CASE fetchOf'[r] = fetchOf[r]
    BY <1>6, <2>1 DEF Promised, Fetcher
  <2>2. CASE fetchOf'[r] # fetchOf[r]
    <3>1. r = a /\ Joins(a)
      BY <1>0, <1>1, <1>6, <2>2 DEF Reads, Locks, Launches, Settles, Ends
    <3> QED BY <3>1, JoinedFetch
  <2> QED BY <2>1, <2>2
<1>7. ASSUME NEW r \in Requests, pc'[r] = "fetch" \/ pc'[r] \in Answering
      PROVE  /\ pc'[fetchOf'[r]] \in Behind
             /\ pc'[r] \in Answering => fetch'[fetchOf'[r]].state \notin UnderWay
  <2>1. CASE \/ r # a
             \/ r = a /\ (pc[a] \in Answering \/ Settles(a)) /\ fetchOf'[a] = fetchOf[a]
    <3>1. pc[r] = "fetch" \/ pc[r] \in Answering
      BY <1>1, <1>7, <2>1, SettledFetch
    <3>2. fetchOf'[r] = fetchOf[r] /\ fetchOf[r] \in Requests /\ pc[fetchOf[r]] \in Behind
      BY <1>1, <1>2, <2>1, <3>1 DEF Promised
    <3>3. pc'[fetchOf[r]] \in Behind
      BY <1>1, <1>3, <3>2
    <3>4. ASSUME pc'[r] \in Answering PROVE fetch'[fetchOf[r]].state \notin UnderWay
      <4>1. CASE pc[r] \in Answering
        BY <1>4, <3>2, <4>1 DEF Promised
      <4>2. CASE r = a /\ Settles(a)
        BY <4>2, SettledFetch DEF UnderWay
      <4> QED BY <1>1, <2>1, <3>4, <4>1, <4>2
    <3> QED BY <3>2, <3>3, <3>4
  <2>2. CASE r = a /\ Joins(a)
    <3>1. fetchOf'[a] \in Requests \ {a} /\ pc[fetchOf'[a]] \in {"fetch", "abort"}
      BY <2>2, JoinedFetch
    <3>2. pc'[a] = "fetch"
      BY <2>2 DEF Joins
    <3> QED BY <1>1, <2>2, <3>1, <3>2 DEF Behind, Answering
  <2>3. CASE r = a /\ Launches(a)
    BY <2>3 DEF Launches, Behind, Answering
  <2>4. CASE r = a /\ (Reads(a) \/ Locks(a) \/ Ends(a))
    BY <1>7, <2>1, <2>4 DEF Reads, Locks, Ends, Answering
  <2> QED BY <1>0, <2>1, <2>2, <2>3, <2>4 DEF Settles
<1> QED BY <1>5, <1>6, <1>7 DEF Promised, Fetcher

\* What the request that launches r's fetch, or takes the lock for it, has read
\* is no newer than what r has read.
LEMMA InOrderHandled ==
  ASSUME Distributed, TypeOK, FetchOwned, PromiseHeld, ReadBefore, Promised, Queued, InOrder,
         NEW a \in Requests, Handle(a)
  PROVE  InOrder'
<1>0. Reads(a) \/ Joins(a) \/ Locks(a) \/ Launches(a) \/ Settles(a) \/ Ends(a)
  BY HandlerKinds
<1>1. ASSUME NEW q \in Requests \ {a}
      PROVE  /\ pc'[q] = pc[q] /\ cachedResponse'[q] = cachedResponse[q]
             /\ fetchOf'[q] = fetchOf[q] /\ fetch'[q] = fetch[q]
  BY OthersKeep
<1>2. \A x, y \in Requests : Before(x, y)' => x # a /\ (y = a \/ Before(x, y))
  BY HandlerMoves, QueueStep
<1>3. fetch'[a].state \in UnderWay => Launches(a)
  <2>1. fetch'[a].state \in UnderWay => fetch'[a].state = "sent" /\ Launch(a)
    BY HandlerFetch DEF Launch, TypeOK
  <2>2. Launch(a) => pc'[a] = "fetch"
    BY DEF Launch, Leave, TypeOK
  <2>3. ~(Launch(a) /\ Joins(a))
    BY JoinedFetch DEF Launch, TypeOK
  <2> QED BY <1>0, <2>1, <2>2, <2>3 DEF Reads, Locks, Settles, Ends, Answering
<1> SUFFICES ASSUME NEW x \in Requests, NEW r \in Requests,
                    x # r /\ WorkerOf[x] = WorkerOf[r],
                    \/ pc'[x] = "get" /\ pc'[r] = "get" /\ Before(x, r)'
                    \/ (pc'[x] = "lock" \/ fetch'[x].state \in UnderWay) /\ pc'[r] = "get"
                    \/ fetch'[x].state \in UnderWay /\ pc'[r] = "fetch" /\ fetchOf'[r] = x
             PROVE  NotNewer(cachedResponse'[x], cachedResponse'[r])
  BY DEF InOrder, Older, NotNewer
<1>4. CASE x # a /\ r # a
  BY <1>1, <1>2, <1>4 DEF InOrder, Older
<1>5. CASE r = a
  <2>1. CASE Reads(a)
    BY <1>1, <1>5, <2>1 DEF Reads, ReadBefore, NotNewer
  <2>2. CASE Joins(a)
    <3>1. fetch[x].state \in UnderWay /\ pc[a] = "get"
      BY <1>1, <1>5, <2>2 DEF Joins
    <3> QED BY <1>1, <1>5, <2>2, <3>1 DEF Joins, InOrder, Older
  <2>3. ~Reads(a) => pc'[a] # "get"
    BY <1>0 DEF Joins, Locks, Launches, Settles, Ends, Answering
  <2>4. ~Joins(a) => pc'[a] # "fetch" \/ fetchOf'[a] = a
    BY <1>0 DEF Reads, Locks, Launches, Settles, Ends, Answering
  <2> QED BY <1>5, <2>1, <2>2, <2>3, <2>4
<1>6. CASE x = a
  <2>1. pc'[r] = pc[r] /\ fetchOf'[r] = fetchOf[r] /\ cachedResponse'[r] = cachedResponse[r]
    BY <1>1, <1>6
  <2>2. CASE pc'[a] = "lock"
    <3>1. Locks(a)
      BY <1>0, <2>2 DEF Reads, Joins, Launches, Settles, Ends, Answering
    <3>2. pc[r] = "get"
      BY <1>2, <1>3, <1>6, <2>1, <2>2 DEF Launches
    <3>3. Before(a, r)
      BY <1>6, <3>1, <3>2, HandlerMoves, HeadFirst DEF Locks, Suspended
    <3> QED BY <1>6, <2>1, <3>1, <3>2, <3>3 DEF Locks, InOrder, Older
  <2>3. CASE fetch'[a].state \in UnderWay
    <3>1. Launches(a) /\ cachedResponse' = cachedResponse
      BY <1>3, <2>3 DEF Launches, Launch
    <3>2. ~(pc[r] = "fetch" /\ fetchOf[r] = a)
      BY <3>1 DEF Launches, Promised, Behind, Answering
    <3>3. pc[r] = "get"
      BY <1>2, <1>6, <2>1, <3>2
    <3> QED BY <1>6, <3>1, <3>3 DEF Launches, InOrder, Older
  <2> QED BY <1>2, <1>6, <2>2, <2>3
<1> QED BY <1>4, <1>5, <1>6

\* The 304 that a request has been answered with, or has joined, is about the
\* version that the request has read: not an older one, as the fetcher read
\* before it, and not a newer one, as the answer is the latest known.
LEMMA ConfirmedHandled ==
  ASSUME Distributed, TypeOK, RefreshInv, VersionInv, PromiseHeld, Local => Conditional,
         Promised, InOrder, Confirmed, NEW a \in Requests, Handle(a)
  PROVE  Confirmed'
<1>0. Reads(a) \/ Joins(a) \/ Locks(a) \/ Launches(a) \/ Settles(a) \/ Ends(a)
  BY HandlerKinds
<1>1. ASSUME NEW q \in Requests \ {a}
      PROVE  /\ pc'[q] = pc[q] /\ cachedResponse'[q] = cachedResponse[q]
             /\ fetchOf'[q] = fetchOf[q] /\ fetch'[q] = fetch[q]
  BY OthersKeep
<1> SUFFICES ASSUME NEW r \in Requests,
                    \/ pc'[r] \in Answering
                    \/ pc'[r] = "fetch" /\ fetch'[fetchOf'[r]].state = "settled",
                    fetch'[fetchOf'[r]].res.code = "304", cachedResponse'[r] # None
             PROVE  fetch'[fetchOf'[r]].res.version = cachedResponse'[r].etag
  BY DEF Confirmed, Result
<1>2. CASE r # a
  <2> DEFINE f == fetchOf[r]
  <2>1. /\ pc'[r] = pc[r] /\ cachedResponse'[r] = cachedResponse[r]
        /\ fetchOf'[r] = f /\ f \in Requests
    BY <1>1, <1>2 DEF TypeOK
  <2>2. CASE fetch'[f] = fetch[f]
    BY <2>1, <2>2 DEF Confirmed, Result
  <2>3. CASE fetch'[f] # fetch[f]
    <3>1. f = a
      BY <1>1, <2>1, <2>3
    <3>2. pc[a] \in Behind
      BY <2>1, <3>1 DEF Promised
    <3>3. Settles(a)
      BY <1>0, <2>3, <3>1, <3>2 DEF Reads, Joins, Locks, Launches, Ends, Behind, Answering
    <3>4. fetchOf[a] = a
      BY <2>3, <3>1, <3>3 DEF Settles, Settle, TypeOK
    <3>5. fetch[a].state = "answered" /\ fetch'[a].res = fetch[a].res
      BY <3>3, <3>4, SettledFetch DEF Fetcher
    <3>6. pc[r] = "fetch"
      BY <2>1, <3>1, <3>5 DEF Promised, UnderWay
    <3>7. Local /\ WorkerOf[r] = WorkerOf[a]
      BY <1>2, <3>1 DEF Promised, Fetcher
    <3>8. cachedResponse[a] # None /\ fetch[a].res.version = cachedResponse[a].etag
      BY <2>1, <3>1, <3>5, <3>7 DEF Conditional, VersionInv, OwnValidator
    <3>9. cachedResponse[a].etag <= cachedResponse[r].etag
      BY <1>2, <2>1, <3>1, <3>5, <3>6, <3>7, <3>8 DEF InOrder, Older, NotNewer, UnderWay
    <3>10. cachedResponse[r].etag <= fetch[a].res.version
      BY <2>1, <3>1, <3>5 DEF VersionInv, KnownUpTo, UpTo
    <3>11. cachedResponse[a].etag \in Nat /\ cachedResponse[r].etag \in Nat
      BY <2>1, <3>8, DocumentTypes
    <3>12. fetch[a].res.version = cachedResponse[r].etag
      BY <3>8, <3>9, <3>10, <3>11
    <3> QED BY <2>1, <3>1, <3>5, <3>12
  <2> QED BY <2>2, <2>3
<1>3. CASE r = a
  <2>1. CASE Settles(a)
    <3>1. fetchOf'[a] = fetchOf[a] /\ cachedResponse'[a] = cachedResponse[a]
      BY <1>3, <2>1 DEF Settles, Answering
    <3>2. fetch'[fetchOf[a]].res = fetch[fetchOf[a]].res /\ pc[a] = "fetch"
      BY <2>1, SettledFetch
    <3>3. CASE Fetcher(a)
      BY <1>3, <2>1, <3>1, <3>2, <3>3, SettledFetch DEF VersionInv, OwnValidator, Fetcher
    <3>4. CASE ~Fetcher(a)
      BY <1>3, <2>1, <3>1, <3>2, <3>4, SettledFetch DEF Confirmed, Result
    <3> QED BY <3>3, <3>4
  <2>2. CASE Joins(a)
    <3> DEFINE f == fetchOf'[a]
    <3>1. f \in Requests \ {a} /\ pc[f] \in {"fetch", "abort"} /\ Fetcher(f)
      BY <2>2, JoinedFetch
    <3>2. fetch'[f] = fetch[f] /\ fetch[f].state = "settled" /\ fetch[f].res.code = "304"
      BY <1>1, <1>3, <2>2, <3>1 DEF Joins, Answering
    <3> QED BY <3>1, <3>2 DEF Promised, UnderWay
  <2>3. CASE Launches(a)
    <3>1. fetch'[a].state = "sent"
      BY <2>3 DEF Launches, Launch, TypeOK
    <3> QED BY <1>3, <2>3, <3>1 DEF Launches, Answering
  <2>4. CASE Reads(a) \/ Locks(a)
    BY <1>3, <2>4 DEF Reads, Locks, Answering
  <2>5. CASE Ends(a)
    BY <1>3, <2>5 DEF Ends, Answering, Confirmed, Result
  <2> QED BY <1>0, <2>1, <2>2, <2>3, <2>4, <2>5
<1> QED BY <1>2, <1>3

\* Every answer is of one version.
LEMMA AnswersHandled ==
  ASSUME TypeOK, VersionInv, Confirmed, AnswersMatched, NEW a \in Requests, Handle(a)
  PROVE  AnswersMatched'
<1>1. Matched(cachedResponse[a])
  BY DEF VersionInv, DocumentsMatched
<1>2. ASSUME resp' = resp \/ resp'[a].body \in {None, resp'[a].etag},
             \A r \in Requests \ {a} : resp'[r] = resp[r]
      PROVE  AnswersMatched'
  BY <1>2 DEF AnswersMatched
<1>3. ASSUME NEW answer, Respond(a, answer)
      PROVE  resp'[a] = answer /\ \A r \in Requests \ {a} : resp'[r] = resp[r]
  BY <1>3 DEF Respond, TypeOK
<1>4. ASSUME pc[a] \in Answering \/ Accepted(a)
      PROVE  FinalAnswer(a).body \in {None, FinalAnswer(a).etag}
  <2>1. Result(a).code = "304" /\ cachedResponse[a] # None =>
          Result(a).version = cachedResponse[a].etag
    <3>1. CASE pc[a] \in Answering
      BY <3>1 DEF Confirmed
    <3>2. CASE Accepted(a) /\ Fetcher(a)
      BY <3>2 DEF Accepted, Resuming, Fetcher, Result, VersionInv, OwnValidator
    <3>3. CASE Accepted(a) /\ ~Fetcher(a)
      BY <3>3 DEF Accepted, Resuming, Confirmed
    <3> QED BY <1>4, <3>1, <3>2, <3>3
  <2> QED BY <1>1, <2>1 DEF FinalAnswer, Answer, Matched
<1>5. CASE ServeFromCache(a)
  <2> DEFINE answer == Answer("CACHE_HIT", cachedResponse[a].body, cachedResponse[a].etag)
  <2>1. answer.body \in {None, answer.etag}
    BY <1>1, <1>5 DEF ServeFromCache, Usable, Matched, Answer
  <2>2. Respond(a, answer)
    BY <1>5 DEF ServeFromCache
  <2> HIDE DEF answer
  <2> QED BY <1>2, <1>3, <2>1, <2>2
<1>6. CASE Aborted(a) \/ RejectUnlocked(a)
  <2>1. FailedAnswer(a).body \in {None, FailedAnswer(a).etag}
    BY <1>1 DEF FailedAnswer, Answer, Matched
  <2>2. Respond(a, FailedAnswer(a))
    BY <1>6 DEF Aborted, RejectUnlocked
  <2> QED BY <1>2, <1>3, <2>1, <2>2
<1>7. ASSUME NEW status, Respond(a, Answer(status, None, None)) PROVE AnswersMatched'
  <2> DEFINE answer == Answer(status, None, None)
  <2>1. answer.body \in {None, answer.etag}
    BY DEF Answer
  <2>2. Respond(a, answer)
    BY <1>7
  <2> HIDE DEF answer
  <2> QED BY <1>2, <1>3, <2>1, <2>2
<1>8. CASE GiveUp(a) \/ Throws(a)
  BY <1>7, <1>8 DEF GiveUp, Throws
<1>9. CASE PassOn(a) \/ Updated(a) \/ Released(a)
  <2>1. pc[a] \in Answering \/ Accepted(a)
    BY <1>9 DEF PassOn, Updated, Released, Awaiting, Answering
  <2>2. resp' = resp \/ Respond(a, FinalAnswer(a))
    BY <1>9 DEF PassOn, Updated, Released, ReleaseOrRespond
  <2> QED BY <1>2, <1>3, <1>4, <2>1, <2>2
<1>10. CASE Join(a) \/ TryLock(a) \/ StartFetch(a) \/ GotLock(a) \/ NoLock(a) \/ Retry(a)
            \/ RejectLocked(a) \/ Store(a) \/ SetExpiry(a) \/ Unlink(a)
  <2>1. resp' = resp
    BY <1>10 DEF Join, TryLock, StartFetch, GotLock, Launch, NoLock, Retry, RejectLocked,
       Store, SetExpiry, Unlink
  <2> QED BY <2>1 DEF AnswersMatched
<1> QED BY <1>5, <1>6, <1>8, <1>9, <1>10 DEF Handle

\* The inductive invariant of the answers; it needs those of the lock, of the
\* Map and of the versions.
AnswerInv == Queued /\ Promised /\ InOrder /\ Confirmed /\ AnswersMatched

\* A step in which no request is woken, and no fetch starts or settles.
Calm ==
  /\ UNCHANGED <<pc, replies, fetchOf, resp>>
  /\ \A x \in Requests : \/ fetch'[x] = fetch[x]
                         \/ fetch[x].state \in UnderWay /\ fetch'[x].state \in UnderWay
  /\ \A x \in Requests : \/ cachedResponse'[x] = cachedResponse[x]
                         \/ cachedResponse[x] # None /\ Same(cachedResponse[x], cachedResponse'[x])

LEMMA CalmStep ==
  ASSUME TypeOK, FetchOwned, AnswerInv, Calm
  PROVE  AnswerInv'
<1>1. /\ pc' = pc /\ replies' = replies /\ fetchOf' = fetchOf /\ resp' = resp
      /\ \A x \in Requests : fetchOf[x] \in Requests
      /\ \A x \in Requests : fetch'[x].state \in UnderWay <=> fetch[x].state \in UnderWay
      /\ \A x \in Requests : fetch[x].state \notin UnderWay => fetch'[x] = fetch[x]
  BY DEF Calm, TypeOK
<1>2. Queued' /\ AnswersMatched'
  BY <1>1 DEF AnswerInv, Queued, AnswersMatched
<1>3. Promised'
  BY <1>1 DEF AnswerInv, Promised, Fetcher, FetchOwned, UnderWay
<1>4. \A x, y \in Requests : Older(x, y) => NotNewer(cachedResponse'[x], cachedResponse'[y])
  BY DEF Calm, Same, Older, NotNewer
<1>5. InOrder'
  BY <1>1, <1>4 DEF AnswerInv, InOrder, Before, Older, NotNewer
<1>6. Confirmed'
  <2> SUFFICES ASSUME NEW r \in Requests,
                      \/ pc[r] \in Answering
                      \/ pc[r] = "fetch" /\ fetch'[fetchOf[r]].state = "settled",
                      fetch'[fetchOf[r]].res.code = "304", cachedResponse'[r] # None
               PROVE  fetch'[fetchOf[r]].res.version = cachedResponse'[r].etag
    BY <1>1 DEF Confirmed, Result
  <2>1. fetch'[fetchOf[r]] = fetch[fetchOf[r]]
    BY <1>1 DEF AnswerInv, Promised, UnderWay
  <2>2. cachedResponse[r] # None /\ cachedResponse'[r].etag = cachedResponse[r].etag
    BY DEF Calm, Same
  <2> QED BY <2>1, <2>2 DEF AnswerInv, Confirmed, Result
<1> QED BY <1>2, <1>3, <1>5, <1>6 DEF AnswerInv

\* A request that arrives reads the newest entry.
LEMMA ArriveStep ==
  ASSUME TypeOK, FetchOwned, ReadBefore, AnswerInv, NEW a \in Requests, Arrive(a)
  PROVE  AnswerInv'
<1>1. /\ pc[a] = "idle" /\ pc'[a] = "get" /\ cachedResponse'[a] \in {entry, None}
      /\ fetch' = fetch /\ fetchOf' = fetchOf /\ resp' = resp
      /\ \A q \in Requests \ {a} : pc'[q] = pc[q] /\ cachedResponse'[q] = cachedResponse[q]
      /\ \A q \in Requests : fetchOf[q] \in Requests
  BY DEF Arrive, Get, Issue, TypeOK
<1>2. /\ Queued'
      /\ \A x, y \in Requests : Before(x, y)' => x # a /\ (y = a \/ Before(x, y))
  BY HandlerMoves, QueueStep DEF AnswerInv
<1>3. fetch[a].state \notin UnderWay
  BY <1>1 DEF FetchOwned, UnderWay
<1>4. Promised'
  BY <1>1 DEF AnswerInv, Promised, Fetcher, Behind, Answering
<1>5. InOrder'
  <2> SUFFICES ASSUME NEW x \in Requests, NEW r \in Requests,
                      x # r /\ WorkerOf[x] = WorkerOf[r],
                      \/ pc'[x] = "get" /\ pc'[r] = "get" /\ Before(x, r)'
                      \/ (pc'[x] = "lock" \/ fetch[x].state \in UnderWay) /\ pc'[r] = "get"
                      \/ fetch[x].state \in UnderWay /\ pc'[r] = "fetch" /\ fetchOf[r] = x
               PROVE  NotNewer(cachedResponse'[x], cachedResponse'[r])
    BY <1>1 DEF InOrder, Older, NotNewer
  <2>1. x # a
    BY <1>1, <1>2, <1>3
  <2>2. CASE r = a
    BY <1>1, <2>1, <2>2 DEF ReadBefore, NotNewer
  <2>3. CASE r # a
    BY <1>1, <1>2, <2>1, <2>3 DEF AnswerInv, InOrder, Older
  <2> QED BY <2>2, <2>3
<1>6. Confirmed'
  BY <1>1 DEF AnswerInv, Confirmed, Result, Answering
<1>7. AnswersMatched'
  BY <1>1 DEF AnswerInv, AnswersMatched
<1> QED BY <1>2, <1>4, <1>5, <1>6, <1>7 DEF AnswerInv

\* A worker that dies takes all that its requests wait for with it.
LEMMA CrashStep ==
  ASSUME TypeOK, FetchOwned, AnswerInv, NEW w \in Workers, Crash(w)
  PROVE  AnswerInv'
<1> DEFINE hit == {r \in Requests : WorkerOf[r] = w /\ pc[r] \notin {"idle", "done", "crashed"}}
<1>1. /\ \A r \in hit : /\ pc'[r] = "crashed" /\ fetch'[r] = NoFetch
                        /\ cachedResponse'[r] = None
      /\ \A r \in Requests \ hit : /\ pc'[r] = pc[r] /\ fetch'[r] = fetch[r]
                                   /\ cachedResponse'[r] = cachedResponse[r]
      /\ replies' = [replies EXCEPT ![w] = <<>>]
      /\ fetchOf' = fetchOf /\ resp' = resp
      /\ \A r \in Requests : fetchOf[r] \in Requests
  BY DEF Crash, TypeOK
<1>2. replies'[w] = <<>> /\ \A v \in Workers \ {w} : replies'[v] = replies[v]
  BY <1>1 DEF TypeOK
<1>3. \A r \in Requests : WorkerOf[r] = w => pc'[r] \in {"idle", "done", "crashed"}
  BY <1>1
<1>4. "crashed" \notin Suspended /\ {"idle", "done"} \cap Suspended = {}
  BY DEF Suspended
<1>5. Queued'
  <2> SUFFICES ASSUME NEW v \in Workers
               PROVE  LET q == replies'[v] IN
                      /\ \A i \in 1 .. Len(q) : WorkerOf[q[i]] = v /\ pc'[q[i]] \in Suspended
                      /\ \A i, j \in 1 .. Len(q) : i # j => q[i] # q[j]
                      /\ \A r \in Requests : WorkerOf[r] = v /\ pc'[r] \in Suspended =>
                           \E i \in 1 .. Len(q) : q[i] = r
    BY DEF Queued
  <2>1. CASE v = w
    BY <1>2, <1>3, <1>4, <2>1
  <2>2. CASE v # w
    <3>1. replies'[v] = replies[v] /\ replies[v] \in Seq(Requests)
      BY <1>2, <2>2 DEF TypeOK
    <3>2. \A r \in Requests : WorkerOf[r] = v => pc'[r] = pc[r]
      BY <1>1, <2>2
    <3>3. \A i \in 1 .. Len(replies[v]) : replies[v][i] \in Requests /\ WorkerOf[replies[v][i]] = v
      BY <3>1 DEF AnswerInv, Queued
    <3> QED BY <3>1, <3>2, <3>3 DEF AnswerInv, Queued
  <2> QED BY <2>1, <2>2
<1>6. \A x, y \in Requests : Before(x, y)' => WorkerOf[x] # w /\ Before(x, y)
  <2>1. \A x \in Requests : WorkerOf[x] \in Workers
    BY WorkersAssumption
  <2> QED BY <1>2, <2>1 DEF Before
<1>7. Promised'
  <2>1. {"fetch", "abort"} \cup Answering \subseteq Behind /\ "crashed" \in Behind
        /\ {"done", "crashed"} \cap ({"fetch", "abort"} \cup Answering) = {}
    BY DEF Behind, Answering
  <2>2. \A r \in Requests : pc'[r] \in {"fetch", "abort"} \cup Answering =>
          /\ r \notin hit /\ pc'[r] = pc[r] /\ fetch'[r] = fetch[r]
    BY <1>1, <2>1
  <2>3. NoFetch.state \notin UnderWay
    BY DEF NoFetch, UnderWay
  <2>4. \A f \in Requests : /\ pc[f] \in Behind => pc'[f] \in Behind
                            /\ fetch[f].state \notin UnderWay => fetch'[f].state \notin UnderWay
    BY <1>1, <2>1, <2>3
  <2> QED BY <1>1, <2>2, <2>4 DEF AnswerInv, Promised, Fetcher
<1>8. NoFetch.state \notin UnderWay /\ NoFetch.state # "settled"
  BY DEF NoFetch, UnderWay
<1>9. InOrder'
  BY <1>1, <1>6, <1>8 DEF AnswerInv, InOrder, Older, NotNewer
<1>10. Confirmed'
  <2> SUFFICES ASSUME NEW r \in Requests,
                      \/ pc'[r] \in Answering
                      \/ pc'[r] = "fetch" /\ fetch'[fetchOf[r]].state = "settled",
                      fetch'[fetchOf[r]].res.code = "304", cachedResponse'[r] # None
               PROVE  fetch'[fetchOf[r]].res.version = cachedResponse'[r].etag
    BY <1>1 DEF Confirmed, Result
  <2>1. r \notin hit /\ pc'[r] = pc[r] /\ cachedResponse'[r] = cachedResponse[r]
    BY <1>1
  <2>2. fetch'[fetchOf[r]] = fetch[fetchOf[r]]
    BY <1>1 DEF NoFetch, NoResult
  <2> QED BY <2>1, <2>2 DEF AnswerInv, Confirmed, Result
<1>11. AnswersMatched'
  BY <1>1 DEF AnswerInv, AnswersMatched
<1> QED BY <1>5, <1>7, <1>9, <1>10, <1>11 DEF AnswerInv

LEMMA AnswerStep ==
  ASSUME Distributed, TypeOK, RefreshInv, VersionInv, PromiseHeld, Local => Conditional,
         AnswerInv, [Next]_vars
  PROVE  AnswerInv'
<1>0. FetchOwned /\ ReadBefore
  BY DEF RefreshInv, VersionInv
<1>1. ASSUME NEW r \in Requests, Handle(r) PROVE AnswerInv'
  <2>1. Queued'
    BY <1>1, HandlerMoves, QueueStep DEF AnswerInv
  <2>2. Promised' /\ InOrder' /\ Confirmed' /\ AnswersMatched'
    BY <1>0, <1>1, PromisedHandled, InOrderHandled, ConfirmedHandled, AnswersHandled DEF AnswerInv
  <2> QED BY <2>1, <2>2 DEF AnswerInv
<1>2. ASSUME NEW r \in Requests, Arrive(r) PROVE AnswerInv'
  BY <1>0, <1>2, ArriveStep
<1>3. ASSUME NEW w \in Workers, Crash(w) PROVE AnswerInv'
  BY <1>0, <1>3, CrashStep
<1>4. ASSUME NEW r \in Requests, OriginAnswer(r) \/ FetchFails(r) PROVE AnswerInv'
  <2>1. Calm
    BY <1>4 DEF OriginAnswer, FetchFails, Answered, Calm, UnderWay, TypeOK
  <2> QED BY <1>0, <2>1, CalmStep
<1>5. CASE Age
  <2>1. /\ \A x \in Requests : cachedResponse'[x] = Stale(cachedResponse[x])
        /\ UNCHANGED <<pc, replies, fetchOf, resp, fetch>>
    BY <1>5 DEF Age
  <2>2. \A x \in Requests : /\ cachedResponse[x] \in Entries \cup {None}
                            /\ Stale(None) = None
    BY DEF TypeOK, Stale
  <2>3. Calm
    BY <2>1, <2>2, StaleKeeps DEF Calm, Same
  <2> QED BY <1>0, <2>3, CalmStep
<1>6. CASE OriginChange \/ ExpireEntry \/ PurgeEntry \/ LockExpires \/ PurgeLock \/ Terminated
           \/ UNCHANGED vars
  <2>1. Calm
    BY <1>6 DEF OriginChange, ExpireEntry, PurgeEntry, Removed, LockExpires, PurgeLock,
       LockGone, Terminated, vars, Calm
  <2> QED BY <1>0, <2>1, CalmStep
<1> QED BY <1>1, <1>2, <1>3, <1>4, <1>5, <1>6 DEF Next

\* With the distributed lock, no answer and no stored document combines one
\* version's body with another's validator: whatever fails, dies, is purged or
\* expires.  Local coalescing needs clients that send no validators: a 304 to a
\* client's own validator is shared with followers that have an older copy.
THEOREM NoMixes ==
  ASSUME Distributed, LeaseOutlivesFetch, "lock" \notin Purges, Local => Validators = {}
  PROVE  Spec => []NoMixedEntry
<1> DEFINE Inv == PromiseHeld /\ (Local => Conditional) /\ AnswerInv
<1>1. Init => Inv
  <2>1. Init => PromiseHeld /\ (Local => Conditional)
    BY DEF Init, PromiseHeld, Conditional, NoFetch
  <2>2. Init => AnswerInv
    BY DEF Init, AnswerInv, Queued, Promised, Fetcher, InOrder, Confirmed, AnswersMatched,
       Answering, Suspended, NoFetch, UnderWay, Answer
  <2> QED BY <2>1, <2>2
<1>2. TypeOK /\ RefreshInv /\ VersionInv /\ Inv /\ [Next]_vars => Inv'
  BY PromiseStep, ConditionalStep, AnswerStep DEF RefreshInv
<1>3. VersionInv /\ Inv => NoMixedEntry
  BY DEF VersionInv, DocumentsMatched, Matched, AnswerInv, AnswersMatched, NoMixedEntry
<1> QED BY <1>1, <1>2, <1>3, TypeCorrect, RefreshInvariant, VersionsInvariant, PTL DEF Spec
=============================================================================
