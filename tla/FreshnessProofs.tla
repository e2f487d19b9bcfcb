---------------------------- MODULE FreshnessProofs ----------------------------
(***************************************************************************)
(* Proofs about the age of a stored response and what is served from the   *)
(* cache, for any precision of the clock, any headers and any directives.  *)
(***************************************************************************)
EXTENDS FreshnessProperties, TLAPS

\* What rounding down to seconds loses is less than a second.
LEMMA SecondBounds ==
  ASSUME NEW t \in Nat
  PROVE  /\ Second(t) \in Nat
         /\ Precision * Second(t) <= t
         /\ t < Precision * (Second(t) + 1)
BY TimeAssumption DEF Second

\* Multiplication by Precision, for the provers.
LEMMA Scaled ==
  ASSUME NEW a \in Int, NEW b \in Int
  PROVE  /\ Precision * a \in Int
         /\ Precision * (a + b) = Precision * a + Precision * b
         /\ a <= b => Precision * a <= Precision * b
BY TimeAssumption

LEMMA HeaderTypes ==
  ASSUME NEW hdr \in Headers
  PROVE  /\ AgeValue(hdr) \in Nat
         /\ Directives(hdr) \in CacheControl
         /\ hdr.date # None =>
              CalculateFreshnessLifetime(hdr) \in Int \cup {NaN}
<1>1. AgeValue(hdr) \in Nat
  BY DEF AgeValue, Headers, Seconds
<1>2. Directives(hdr) \in CacheControl
  BY DEF Directives, NoControl, Headers, CacheControl, Seconds, Directive
<1>3. hdr.date # None => CalculateFreshnessLifetime(hdr) \in Int \cup {NaN}
  BY <1>2 DEF CalculateFreshnessLifetime, Headers, CacheControl, Seconds
<1> QED BY <1>1, <1>2, <1>3

LEMMA AgeTypes ==
  ASSUME TypeOK, NEW e \in Entries
  PROVE  CalculateAge(e) \in Int
<1>1. Second(now) \in Nat /\ AgeValue(e.hdr) \in Nat
  BY SecondBounds, HeaderTypes DEF TypeOK, Entries, DatedHeaders
<1>2. e.hdr.date \in Int /\ e.requestTime \in Int /\ e.responseTime \in Int
  BY DEF Entries, DatedHeaders, Headers
<1> QED BY <1>1, <1>2 DEF CalculateAge, Larger

\* What becomes of an answer is a well-typed entry.
LEMMA ReceivedTypes ==
  ASSUME TypeOK, pc = "answered", answer # None
  PROVE  /\ answer \in Responses
         /\ Received \in Entries
         /\ entry # None => Freshened \in Entries
<1>1. answer \in Responses /\ answer.hdr \in Headers
  BY DEF TypeOK, Responses
<1>2. Second(now) \in Nat
  BY SecondBounds DEF TypeOK
<1>3. [answer.hdr EXCEPT !.date = IF @ = None THEN Second(now) ELSE @]
        \in DatedHeaders
  BY <1>1, <1>2, AbsentAssumption DEF DatedHeaders, Headers
<1>4. Received \in Entries
  BY <1>1, <1>2, <1>3 DEF TypeOK, Received, Entries, Responses
<1>5. ASSUME entry # None
      PROVE  Freshened \in Entries
  <2>1. entry.hdr \in DatedHeaders /\ Received.hdr \in DatedHeaders
    BY <1>4, <1>5 DEF TypeOK, Entries
  <2>2. MergeHeaders(entry.hdr, Received.hdr) \in DatedHeaders
    BY <2>1 DEF MergeHeaders, DatedHeaders, Headers
  <2> QED BY <1>4, <2>2 DEF Freshened, Entries
<1> QED BY <1>1, <1>4, <1>5

\* How the code's answers are typed, one operation at a time.
LEMMA RespondTypes ==
  ASSUME TypeOK, NEW status \in Statuses, NEW age \in Int \cup {None},
         Respond(status, age)
  PROVE  /\ now' \in Nat /\ pc' = "idle" /\ sent' \in Nat
         /\ request' \in RequestControl /\ answer' = None
         /\ resp' \in [status : Statuses, age : Int \cup {None}]
BY DEF Respond, TypeOK, AnyRequest, RequestControl, Seconds

LEMMA OriginAnswerTypes ==
  ASSUME TypeOK, OriginAnswer
  PROVE  answer' \in Responses
<1>1. PICK code \in {"200", "304"}, cc \in Controls, expiresIn \in ExpiresIn,
           upstream \in UpstreamAges, skew \in Skews, vary \in BOOLEAN :
        LET born == now - Precision * upstream
            date == IF skew = None THEN None ELSE Second(born) + skew
        IN /\ expiresIn \notin {None, NaN} => date # None
           /\ answer' = [code |-> code, vary |-> vary, born |-> born,
                         hdr |-> [cc |-> cc, date |-> date,
                                  age |-> IF upstream = 0 THEN None ELSE upstream,
                                  expires |-> IF expiresIn \in {None, NaN} THEN expiresIn
                                              ELSE date + expiresIn]]
  BY DEF OriginAnswer
<1> DEFINE born == now - Precision * upstream
           date == IF skew = None THEN None ELSE Second(born) + skew
           age == IF upstream = 0 THEN None ELSE upstream
           expires == IF expiresIn \in {None, NaN} THEN expiresIn ELSE date + expiresIn
<1>2. now \in Nat /\ upstream \in Nat /\ Precision \in Nat \ {0}
  BY HeadersAssumption, TimeAssumption DEF TypeOK
<1>3. born \in Int
  BY <1>2
<1>4. Second(born) \in Int
  BY <1>2, <1>3 DEF Second
<1>5. date \in Int \cup {None} /\ (expiresIn \notin {None, NaN} => date # None)
  BY <1>1, <1>4, HeadersAssumption
<1>6. expires \in Int \cup {None, NaN}
  BY <1>5, HeadersAssumption
<1>7. age \in Seconds /\ cc \in CacheControl \cup {None}
  BY <1>2, HeadersAssumption DEF Seconds
<1> HIDE DEF date, age, expires, born
<1>8. [cc |-> cc, date |-> date, age |-> age, expires |-> expires] \in Headers
  BY <1>5, <1>6, <1>7 DEF Headers
<1>9. answer' = [code |-> code, vary |-> vary, born |-> born,
                 hdr |-> [cc |-> cc, date |-> date, age |-> age, expires |-> expires]]
  BY <1>1 DEF date, age, expires, born
<1> QED BY <1>3, <1>8, <1>9 DEF Responses

LEMMA UpdateTypes ==
  ASSUME TypeOK, NEW e \in Entries, Update(e)
  PROVE  entry' \in Entries \cup {None}
BY DEF Update, TypeOK

\* Every operation keeps the variables well typed, once an answer is there when
\* it is dealt with.
LEMMA TypeStep ==
  ASSUME TypeOK, AgesInv, [Next]_vars
  PROVE  TypeOK'
<1>1. CASE Arrive
  <2>1. request' \in RequestControl
    BY <1>1, HeadersAssumption DEF Arrive
  <2> QED BY <1>1, <2>1 DEF Arrive, TypeOK, NoAnswer, Statuses
<1>2. CASE ServeFromCache
  <2>1. entry \in Entries
    BY <1>2 DEF ServeFromCache, Usable, TypeOK
  <2>2. CalculateAge(entry) \in Int
    BY <2>1, AgeTypes
  <2>3. "CACHE_HIT" \in Statuses /\ Respond("CACHE_HIT", CalculateAge(entry))
    BY <1>2 DEF ServeFromCache, Statuses
  <2> QED BY <1>2, <2>1, <2>2, <2>3, RespondTypes DEF ServeFromCache, TypeOK
<1>3. CASE StartFetch
  BY <1>3, SecondBounds DEF StartFetch, TypeOK
<1>4. CASE OriginAnswer
  <2>1. answer' \in Responses
    BY <1>4, OriginAnswerTypes
  <2>2. /\ pc' = "answered"
        /\ UNCHANGED <<now, request, sent, entry, resp>>
    BY <1>4 DEF OriginAnswer
  <2> QED BY <2>1, <2>2 DEF TypeOK
<1>5. CASE Replace
  <2>1. pc = "answered" /\ answer # None
    BY <1>5 DEF Replace, AgesInv
  <2>2. answer \in Responses /\ Received \in Entries
    BY <2>1, ReceivedTypes
  <2>3. entry' \in Entries \cup {None}
    BY <1>5, <2>2, UpdateTypes DEF Replace
  <2>4. answer.hdr.age \in Int \cup {None}
    BY <2>2 DEF Responses, Headers, Seconds
  <2>5. PICK status \in Statuses : Respond(status, answer.hdr.age)
    BY <1>5 DEF Replace, Statuses
  <2> QED BY <2>3, <2>4, <2>5, RespondTypes DEF TypeOK
<1>6. CASE Freshen
  <2>1. pc = "answered" /\ answer # None
    BY <1>6 DEF Freshen, AgesInv
  <2>2. entry # None
    BY <1>6, <2>1 DEF Freshen, AgesInv
  <2>3. Freshened \in Entries
    BY <2>1, <2>2, ReceivedTypes
  <2>4. entry' \in Entries \cup {None}
    BY <1>6, <2>3, UpdateTypes DEF Freshen
  <2>5. Freshened.hdr.age \in Int \cup {None}
    BY <2>3 DEF Entries, DatedHeaders, Headers, Seconds
  <2>6. /\ "CACHE_HIT_REVALIDATED_304" \in Statuses
        /\ Respond("CACHE_HIT_REVALIDATED_304", Freshened.hdr.age)
    BY <1>6 DEF Freshen, Statuses
  <2> QED BY <2>4, <2>5, <2>6, RespondTypes DEF TypeOK
<1>7. CASE FetchFails
  <2>1. PICK status \in Statuses, age \in Int \cup {None} : Respond(status, age)
    BY <1>7, AgeTypes DEF FetchFails, Statuses, TypeOK
  <2>2. entry' = entry
    BY <1>7 DEF FetchFails
  <2> QED BY <2>1, <2>2, RespondTypes DEF TypeOK
<1>8. CASE Tick
  BY <1>8 DEF Tick, TypeOK
<1>9. CASE UNCHANGED vars
  BY <1>9 DEF vars, TypeOK
<1> QED BY <1>1, <1>2, <1>3, <1>4, <1>5, <1>6, <1>7, <1>8, <1>9 DEF Next, Done

\* ensureValidDateHeader touches the Date only.
LEMMA ReceivedFields ==
  ASSUME answer \in Responses
  PROVE  /\ Received.hdr.age = answer.hdr.age
         /\ Received.requestTime = sent
         /\ Received.born = answer.born
<1>1. answer.hdr \in Headers
  BY DEF Responses
<1>2. \A d : [answer.hdr EXCEPT !.date = d].age = answer.hdr.age
  BY <1>1 DEF Headers
<1> QED BY <1>2 DEF Received

\* A 304 without Age leaves the entry's, which only makes it older.
LEMMA MergedAge ==
  ASSUME TypeOK, answer \in Responses, entry \in Entries,
         Bounded(answer.hdr, sent, answer.born)
  PROVE  Bounded(Freshened.hdr, Freshened.requestTime, Freshened.born)
<1>1. /\ Freshened.requestTime = sent /\ Freshened.born = answer.born
      /\ Freshened.hdr.age = IF answer.hdr.age = None THEN entry.hdr.age
                             ELSE answer.hdr.age
  <2>1. Freshened = [Received EXCEPT
                       !.hdr = MergeHeaders(entry.hdr, Received.hdr)]
    BY DEF Freshened
  <2>2. \A h : /\ [Received EXCEPT !.hdr = h].hdr = h
              /\ [Received EXCEPT !.hdr = h].requestTime = Received.requestTime
              /\ [Received EXCEPT !.hdr = h].born = Received.born
    BY DEF Received
  <2>3. MergeHeaders(entry.hdr, Received.hdr).age
          = IF Received.hdr.age = None THEN entry.hdr.age ELSE Received.hdr.age
    BY DEF MergeHeaders
  <2> QED BY <2>1, <2>2, <2>3, ReceivedFields
<1>2. answer.hdr \in Headers /\ entry.hdr \in Headers /\ answer.born \in Int
  BY DEF Responses, Entries, DatedHeaders
<1>3. AgeValue(answer.hdr) \in Nat /\ AgeValue(entry.hdr) \in Nat
  BY <1>2, HeaderTypes
<1>4. AgeValue(Freshened.hdr) = IF answer.hdr.age = None THEN AgeValue(entry.hdr)
                                ELSE AgeValue(answer.hdr)
  BY <1>1 DEF AgeValue
<1>5. AgeValue(answer.hdr) <= AgeValue(Freshened.hdr)
  BY <1>3, <1>4 DEF AgeValue
<1>6. Precision * AgeValue(answer.hdr) <= Precision * AgeValue(Freshened.hdr)
  <2> DEFINE before == AgeValue(answer.hdr)
             after == AgeValue(Freshened.hdr)
  <2>1. before \in Int /\ after \in Int /\ before <= after
    BY <1>3, <1>4, <1>5
  <2> HIDE DEF before, after
  <2>2. Precision * before <= Precision * after
    BY <2>1, Scaled
  <2> QED BY <2>2 DEF before, after
<1>7. /\ Precision * AgeValue(answer.hdr) \in Int
      /\ Precision * AgeValue(Freshened.hdr) \in Int
      /\ Precision * sent \in Int
  BY <1>3, <1>4, Scaled DEF TypeOK
<1> QED BY <1>1, <1>2, <1>6, <1>7 DEF Bounded

\* The operations keep the bound on the age.
LEMMA AgesStep ==
  ASSUME TypeOK, AgesInv, [Next]_vars
  PROVE  AgesInv'
<1>1. CASE Arrive
  BY <1>1 DEF Arrive, AgesInv
<1>2. CASE ServeFromCache
  BY <1>2 DEF ServeFromCache, Respond, AgesInv
<1>3. CASE StartFetch
  <2>1. Precision * sent' <= now'
    BY <1>3, SecondBounds DEF StartFetch, TypeOK
  <2> QED BY <1>3, <2>1 DEF StartFetch, AgesInv
<1>4. CASE OriginAnswer
  <2>1. answer' \in Responses /\ answer' # None
    BY <1>4, OriginAnswerTypes, HeadersAssumption
  <2>2. Bounded(answer'.hdr, sent', answer'.born)
    <3>1. PICK upstream \in UpstreamAges :
            /\ answer'.born = now - Precision * upstream
            /\ answer'.hdr.age = IF upstream = 0 THEN None ELSE upstream
      BY <1>4 DEF OriginAnswer
    <3>2. upstream \in Nat /\ now \in Nat /\ sent \in Nat
      BY HeadersAssumption DEF TypeOK
    <3>3. AgeValue(answer'.hdr) = upstream
      BY <3>1, <3>2, AbsentAssumption DEF AgeValue
    <3>4. Precision * sent <= now /\ sent' = sent
      BY <1>4 DEF OriginAnswer, AgesInv
    <3>5. Precision * upstream \in Int /\ Precision * sent \in Int
      BY <3>2, Scaled
    <3> QED BY <3>1, <3>2, <3>3, <3>4, <3>5 DEF Bounded
  <2>3. answer'.code = "304" => entry' # None
    BY <1>4 DEF OriginAnswer
  <2> QED BY <1>4, <2>1, <2>2, <2>3 DEF OriginAnswer, AgesInv
<1>5. CASE Replace
  <2>1. Bounded(Received.hdr, Received.requestTime, Received.born)
    <3>1. answer \in Responses /\ Bounded(answer.hdr, sent, answer.born)
      BY <1>5 DEF Replace, AgesInv, TypeOK
    <3> QED BY <3>1, ReceivedFields DEF Bounded, AgeValue
  <2>2. entry' # None => Bounded(entry'.hdr, entry'.requestTime, entry'.born)
    BY <1>5, <2>1 DEF Replace, Update, AgesInv
  <2> QED BY <1>5, <2>2 DEF Replace, Respond, AgesInv
<1>6. CASE Freshen
  <2>1. /\ pc = "answered" /\ answer \in Responses /\ entry \in Entries
        /\ Bounded(answer.hdr, sent, answer.born)
    BY <1>6 DEF Freshen, AgesInv, TypeOK
  <2>2. Bounded(Freshened.hdr, Freshened.requestTime, Freshened.born)
    BY <2>1, MergedAge
  <2>3. entry' # None => Bounded(entry'.hdr, entry'.requestTime, entry'.born)
    BY <1>6, <2>2 DEF Freshen, Update, AgesInv
  <2> QED BY <1>6, <2>3 DEF Freshen, Respond, AgesInv
<1>7. CASE FetchFails
  BY <1>7 DEF FetchFails, Respond, AgesInv
<1>8. CASE Tick
  <2>1. Precision * sent \in Int /\ now \in Nat /\ sent' = sent /\ now' = now + 1
    BY <1>8, Scaled DEF Tick, TypeOK
  <2>2. pc \in {"fetch", "answered"} => Precision * sent' <= now'
    BY <2>1 DEF AgesInv
  <2> QED BY <1>8, <2>2 DEF Tick, AgesInv
<1>9. CASE UNCHANGED vars
  BY <1>9 DEF vars, AgesInv
<1> QED BY <1>1, <1>2, <1>3, <1>4, <1>5, <1>6, <1>7, <1>8, <1>9 DEF Next, Done

\* The invariant in one: the types and the bound need each other.
THEOREM AgesInductive == Spec => [](TypeOK /\ AgesInv)
<1>1. Init => TypeOK /\ AgesInv
  BY DEF Init, TypeOK, AgesInv, AnyRequest, RequestControl, Seconds, NoAnswer,
         Statuses
<1>2. TypeOK /\ AgesInv /\ [Next]_vars => (TypeOK /\ AgesInv)'
  BY TypeStep, AgesStep
<1> QED BY <1>1, <1>2, PTL DEF Spec

\* Every reachable state of Freshness is well typed, and a stored response always
\* has a Date.
THEOREM FreshnessTypes == Spec => []TypeOK
BY AgesInductive, PTL

\* The age cannot be understated: an entry that keeps to the bound is given at
\* least the whole seconds that have really passed.
LEMMA BoundedAge ==
  ASSUME TypeOK, AgesInv
  PROVE  AgeIsConservative
<1> SUFFICES ASSUME entry # None
             PROVE  Precision * (CalculateAge(entry) + 1) > TrueAge(entry)
  BY DEF AgeIsConservative
<1> DEFINE age == AgeValue(entry.hdr)
           request0 == entry.requestTime
           second == Second(now)
<1>1. /\ entry \in Entries /\ entry.hdr \in Headers /\ request0 \in Int
      /\ entry.responseTime \in Int /\ entry.hdr.date \in Int
      /\ entry.born \in Int /\ now \in Nat
  BY DEF TypeOK, Entries, DatedHeaders, Headers
<1>2. age \in Nat /\ CalculateAge(entry) \in Int /\ second \in Nat
  BY <1>1, HeaderTypes, AgeTypes, SecondBounds
<1>3. CalculateAge(entry) + 1 >= age + (second + 1) + (-request0)
  BY <1>1, <1>2 DEF CalculateAge, Larger
<1>4. now < Precision * (second + 1)
  BY <1>1, SecondBounds
<1>5. Precision * request0 <= entry.born + Precision * age
  BY DEF AgesInv, Bounded
<1> HIDE DEF age, request0, second
<1>6. Precision * (CalculateAge(entry) + 1)
        >= Precision * (age + (second + 1) + (-request0))
  BY <1>1, <1>2, <1>3, Scaled
<1>7. Precision * (age + (second + 1) + (-request0))
        = Precision * age + Precision * (second + 1) - Precision * request0
  BY <1>1, <1>2, TimeAssumption
<1>8. /\ Precision * age \in Int /\ Precision * (second + 1) \in Int
      /\ Precision * request0 \in Int
      /\ Precision * (CalculateAge(entry) + 1) \in Int
  BY <1>1, <1>2, TimeAssumption
<1> QED BY <1>1, <1>4, <1>5, <1>6, <1>7, <1>8 DEF TrueAge

\* The age the code computes never falls short of the true one by a second or
\* more, for any clock precision, headers, delays and skew of the origin's clock.
THEOREM ConservativeAge == Spec => []AgeIsConservative
BY AgesInductive, BoundedAge, PTL

\* An entry whose computed age is within a limit is truly within it.
LEMMA WithinLimit ==
  ASSUME TypeOK, AgesInv, entry # None, NEW limit \in Int,
         CalculateAge(entry) <= limit
  PROVE  TrueAge(entry) < Precision * (limit + 1)
<1>1. Precision * (CalculateAge(entry) + 1) > TrueAge(entry)
  BY BoundedAge DEF AgeIsConservative
<1>2. /\ entry \in Entries /\ CalculateAge(entry) \in Int
      /\ TrueAge(entry) \in Int
  BY AgeTypes DEF TypeOK, TrueAge, Entries
<1>3. Precision * (CalculateAge(entry) + 1) <= Precision * (limit + 1)
  BY <1>2, Scaled
<1>4. /\ Precision * (CalculateAge(entry) + 1) \in Int
      /\ Precision * (limit + 1) \in Int
  BY <1>2, TimeAssumption
<1> QED BY <1>1, <1>2, <1>3, <1>4

\* What makes ResponseIsFresh true bounds the age of what is served.
LEMMA HitIsBounded ==
  ASSUME TypeOK, AgesInv, ServeFromCache
  PROVE  WithinLimits
<1> DEFINE lifetime == CalculateFreshnessLifetime(entry.hdr)
           age == CalculateAge(entry)
<1>1. entry # None /\ entry \in Entries /\ ResponseIsFresh(entry, request)
  BY DEF ServeFromCache, Usable, TypeOK
<1>2. age \in Int /\ lifetime \in Int
  <2>1. lifetime \in Int \cup {NaN}
    BY <1>1, HeaderTypes DEF Entries, DatedHeaders
  <2> QED BY <1>1, <2>1, AgeTypes DEF ResponseIsFresh
<1>3. /\ request.maxStale \in Nat \cup {None}
      /\ request.maxAge \in Nat \cup {None}
      /\ request.minFresh \in Nat \cup {None}
  BY DEF TypeOK, RequestControl, Seconds
<1>4. \/ /\ lifetime - age >= 0
         /\ request.maxAge # None => age <= request.maxAge
         /\ request.minFresh # None => lifetime - age >= request.minFresh
      \/ request.maxStale # None /\ -request.maxStale <= lifetime - age
  BY <1>1 DEF ResponseIsFresh
<1> HIDE DEF lifetime, age
<1>5. \A limit \in Int : age <= limit => TrueAge(entry) < Precision * (limit + 1)
  BY <1>1, WithinLimit DEF age
<1>6. CASE request.maxStale # None /\ -request.maxStale <= lifetime - age
  <2>1. /\ lifetime + request.maxStale \in Int
        /\ age <= lifetime + request.maxStale
    BY <1>2, <1>3, <1>6
  <2> QED BY <1>5, <1>6, <2>1 DEF WithinLimits, lifetime
<1>7. CASE /\ lifetime - age >= 0
           /\ request.maxAge # None => age <= request.maxAge
           /\ request.minFresh # None => lifetime - age >= request.minFresh
  <2>1. age <= lifetime
    BY <1>2, <1>7
  <2>2. ASSUME request.maxAge # None
        PROVE  request.maxAge \in Int /\ age <= request.maxAge
    BY <1>3, <1>7, <2>2
  <2>3. ASSUME request.minFresh # None
        PROVE  /\ lifetime - request.minFresh \in Int
               /\ age <= lifetime - request.minFresh
    BY <1>2, <1>3, <1>7, <2>3
  <2> QED BY <1>2, <1>5, <2>1, <2>2, <2>3 DEF WithinLimits, lifetime
<1> QED BY <1>4, <1>6, <1>7

\* What is served from the cache keeps, to less than a second, to the lifetime the
\* origin granted and to max-stale, or else to max-age and min-fresh.
THEOREM HitsKeepTheirLimits == Spec => HitWithinLimits
<1>1. ASSUME TypeOK, AgesInv, [Next]_vars, Hit
      PROVE  ServeFromCache
  BY <1>1 DEF Next, Hit, vars, Arrive, StartFetch, OriginAnswer, Replace,
             Freshen, FetchFails, Tick, Done
<1>2. TypeOK /\ AgesInv /\ [Next]_vars =>
        [Hit => WithinLimits]_vars
  BY <1>1, HitIsBounded
<1> QED BY <1>2, AgesInductive, PTL DEF Spec, HitWithinLimits

\* What a 304 without Age leaves of an entry without one: the times and the date
\* of the new answer, and no Age.
LEMMA FreshenedFields ==
  ASSUME TypeOK, pc = "answered", answer # None, entry # None,
         answer.hdr.age = None, entry.hdr.age = None
  PROVE  /\ Freshened \in Entries
         /\ Freshened.requestTime = sent /\ Freshened.responseTime = Second(now)
         /\ Freshened.hdr.age = None
<1>1. /\ Received.requestTime = sent /\ Received.responseTime = Second(now)
      /\ Received.hdr.age = None
  <2>1. answer.hdr \in Headers
    BY DEF TypeOK, Responses
  <2> QED BY <2>1, AbsentAssumption DEF Received, Headers
<1>2. MergeHeaders(entry.hdr, Received.hdr).age = None
  BY <1>1 DEF MergeHeaders
<1>3. Freshened \in Entries
  BY ReceivedTypes
<1> HIDE DEF Received
<1>4. Received \in Entries
  BY ReceivedTypes
<1> QED BY <1>1, <1>2, <1>3, <1>4 DEF Freshened, Entries

\* An entry without Age, asked for, dated and received in the current second, has
\* no age and is fresh for whatever lifetime it was granted.
LEMMA NewIsFresh ==
  ASSUME TypeOK, NEW e \in Entries, e.hdr.age = None,
         e.requestTime = Second(now), e.responseTime = Second(now),
         e.hdr.date = Second(now), CalculateFreshnessLifetime(e.hdr) \in Nat
  PROVE  ResponseIsFresh(e, AnyRequest)
<1>1. Second(now) \in Nat
  BY SecondBounds DEF TypeOK
<1>2. CalculateAge(e) = 0
  BY <1>1 DEF CalculateAge, AgeValue, Larger
<1>3. CalculateFreshnessLifetime(e.hdr) # NaN
  BY AbsentAssumption
<1> QED BY <1>2, <1>3 DEF ResponseIsFresh, AnyRequest

\* After a 304 that comes straight from the origin the entry is fresh again, for
\* a request without limits of its own, whatever its headers were before.
THEOREM NotModifiedIsRefreshed == Spec => NotModifiedRefreshes
<1> DEFINE Refreshed ==
      /\ pc = "answered" /\ answer # None /\ answer.code = "304"
      /\ answer.hdr.age = None
      /\ entry # None /\ entry.hdr.age = None
      /\ resp'.status = "CACHE_HIT_REVALIDATED_304"
      /\ entry' # None /\ entry' = Freshened
      /\ entry'.hdr.date = sent /\ Second(now) = sent
      /\ CalculateFreshnessLifetime(entry'.hdr) \in Nat
<1>1. ASSUME TypeOK, Refreshed
      PROVE  ResponseIsFresh(entry', AnyRequest)
  <2>1. /\ Freshened \in Entries
        /\ Freshened.requestTime = sent /\ Freshened.responseTime = Second(now)
        /\ Freshened.hdr.age = None
    BY <1>1, FreshenedFields
  <2> HIDE DEF Freshened
  <2>2. ResponseIsFresh(Freshened, AnyRequest)
    BY <1>1, <2>1, NewIsFresh
  <2> QED BY <1>1, <2>2
<1>2. TypeOK => [Refreshed => ResponseIsFresh(entry', AnyRequest)]_vars
  BY <1>1
<1> QED BY <1>2, FreshnessTypes, PTL DEF NotModifiedRefreshes
=============================================================================
