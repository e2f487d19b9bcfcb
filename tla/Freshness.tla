------------------------------- MODULE Freshness -------------------------------
(***************************************************************************)
(* How old a stored response is, and when it may be served: the age and    *)
(* freshness arithmetic of utils.js and its use by _get() of cache.js, for *)
(* one cache entry, requests that come one after the other (Coalescing has *)
(* the concurrent ones) and an origin behind caches of its own.            *)
(*                                                                         *)
(* `now' is real time in ticks, Precision ticks to a second.  The code     *)
(* only sees whole seconds (`| 0'), and dates stamped by other clocks.     *)
(* `born' is bookkeeping of the model: when the origin really generated or *)
(* validated what is stored.                                               *)
(***************************************************************************)
EXTENDS Integers

CONSTANTS
  Precision,     \* ticks per second
  MaxTime,       \* BOUND: last tick
  None,          \* absent header, directive or entry
  NaN,           \* what parseInt and Date.parse make of a malformed value
  Controls,      \* what the origin may send as Cache-Control
  ExpiresIn,     \* its Expires, in seconds after its Date (NaN: no date)
  UpstreamAges,  \* seconds a response may have spent in caches before Speedis
  Skews,         \* seconds by which the origin's clock is off, None: no Date
  Requests       \* what a client may send as Cache-Control

Seconds == Nat \cup {None}
Directive == {"no", "fields", "all"}     \* absent, qualified, unqualified
CacheControl == [sMaxAge : Seconds \cup {NaN}, maxAge : Seconds \cup {NaN},
                 noCache : Directive, private : Directive, noStore : BOOLEAN,
                 public : BOOLEAN, mustRevalidate : BOOLEAN]
RequestControl == [maxAge : Seconds, minFresh : Seconds, maxStale : Seconds,
                   noCache : BOOLEAN, noStore : BOOLEAN]
Headers == [cc : CacheControl \cup {None}, expires : Int \cup {None, NaN},
            age : Seconds, date : Int \cup {None}]
Responses == [code : {"200", "304"}, hdr : Headers, vary : BOOLEAN, born : Int]
DatedHeaders == {hdr \in Headers : hdr.date # None}
Entries == [hdr : DatedHeaders, requestTime : Int, responseTime : Int, born : Int]

ASSUME TimeAssumption == Precision \in Nat \ {0} /\ MaxTime \in Nat
ASSUME AbsentAssumption == None \notin Int /\ NaN \notin Int /\ NaN # None
ASSUME HeadersAssumption ==
  /\ Controls \subseteq CacheControl \cup {None}
  /\ None \notin CacheControl
  /\ ExpiresIn \subseteq Int \cup {None, NaN}
  /\ UpstreamAges \subseteq Nat
  /\ Skews \subseteq Int \cup {None}
  /\ Requests \subseteq RequestControl
  /\ None \notin Entries \cup Responses

VARIABLES
  now,       \* real time
  pc,        \* what is being done for the current request
  request,   \* its Cache-Control
  sent,      \* requestTime: the second in which the origin was asked
  answer,    \* the origin's response on its way back
  entry,     \* the stored response
  resp       \* status and Age header of the answer to the client

vars == <<now, pc, request, sent, answer, entry, resp>>

AnyRequest == [maxAge |-> None, minFresh |-> None, maxStale |-> None,
               noCache |-> FALSE, noStore |-> FALSE]
Statuses == {"NONE", "CACHE_HIT", "CACHE_HIT_REVALIDATED",
             "CACHE_HIT_REVALIDATED_304", "CACHE_HIT_NOT_REVALIDATED",
             "CACHE_HIT_NOT_REVALIDATED_STALE", "CACHE_MISS",
             "CACHE_FAILED_MISS"}
NoAnswer == [status |-> "NONE", age |-> None]

TypeOK ==
  /\ now \in Nat
  /\ pc \in {"idle", "lookup", "fetch", "answered"}
  /\ request \in RequestControl
  /\ sent \in Nat
  /\ answer \in Responses \cup {None}
  /\ entry \in Entries \cup {None}
  /\ resp \in [status : Statuses, age : Int \cup {None}]

Init ==
  /\ now = 0
  /\ pc = "idle"
  /\ request = AnyRequest
  /\ sent = 0
  /\ answer = None
  /\ entry = None
  /\ resp = NoAnswer

-----------------------------------------------------------------------------
(* The arithmetic of utils.js *)

Second(t) == t \div Precision             \* Date.now() / 1000 | 0
Larger(a, b) == IF a >= b THEN a ELSE b

NoControl == [sMaxAge |-> None, maxAge |-> None, noCache |-> "no",
              private |-> "no", noStore |-> FALSE, public |-> FALSE,
              mustRevalidate |-> FALSE]
Directives(hdr) == IF hdr.cc = None THEN NoControl ELSE hdr.cc

CalculateFreshnessLifetime(hdr) ==
  LET cc == Directives(hdr) IN
  IF cc.sMaxAge # None THEN cc.sMaxAge
  ELSE IF cc.maxAge # None THEN cc.maxAge
  ELSE IF hdr.expires \notin {None, NaN} THEN hdr.expires - hdr.date
  ELSE 0

AgeValue(hdr) == IF hdr.age = None THEN 0 ELSE hdr.age

\* mutant: the time the request and its response took is not counted
CalculateAge_NoDelay(e) ==
  Larger(Larger(0, e.responseTime - e.hdr.date), AgeValue(e.hdr))
    + (Second(now) - e.responseTime)
CalculateAge(e) ==
  LET apparentAge == Larger(0, e.responseTime - e.hdr.date)
      responseDelay == e.responseTime - e.requestTime
      residentTime == Second(now) - e.responseTime
  IN Larger(apparentAge, AgeValue(e.hdr) + responseDelay) + residentTime

\* mutant: min-fresh compared with the age instead of what is left
ResponseIsFresh_MinFresh(e, rq) ==
  LET lifetime == CalculateFreshnessLifetime(e.hdr)
      age == CalculateAge(e)
  IN /\ lifetime # NaN
     /\ \/ /\ lifetime >= age
           /\ rq.maxAge # None => age <= rq.maxAge
           /\ rq.minFresh # None => age >= rq.minFresh
        \/ rq.maxStale # None /\ -rq.maxStale <= lifetime - age
\* The freshness test of _get(): a comparison with NaN is false, and max-stale
\* overrules the others.
ResponseIsFresh(e, rq) ==
  LET lifetime == CalculateFreshnessLifetime(e.hdr)
      age == CalculateAge(e)
  IN /\ lifetime # NaN
     /\ \/ /\ lifetime - age >= 0
           /\ rq.maxAge # None => age <= rq.maxAge
           /\ rq.minFresh # None => lifetime - age >= rq.minFresh
        \/ rq.maxStale # None /\ -rq.maxStale <= lifetime - age

Usable == /\ entry # None
          /\ ResponseIsFresh(entry, request)
          /\ ~request.noCache
          /\ Directives(entry.hdr).noCache # "all"

\* isStorableResponse(): its condition on Authorization reads the response's
\* headers, where no origin sends it.
IsStorable(hdr) ==
  LET cc == Directives(hdr) IN
  /\ ~cc.noStore
  /\ cc.private # "all"
  /\ \/ cc.public
     \/ hdr.expires # None
     \/ cc.maxAge # None
     \/ cc.sMaxAge # None

-----------------------------------------------------------------------------
(* A request *)

Arrive ==
  /\ pc = "idle"
  /\ \E rq \in Requests : request' = rq
  /\ pc' = "lookup"
  /\ resp' = NoAnswer
  /\ UNCHANGED <<now, sent, answer, entry>>

Respond(status, age) ==
  /\ pc' = "idle"
  /\ resp' = [status |-> status, age |-> age]
  /\ request' = AnyRequest /\ sent' = 0 /\ answer' = None
  /\ UNCHANGED now

ServeFromCache ==
  /\ pc = "lookup" /\ Usable
  /\ Respond("CACHE_HIT", CalculateAge(entry))
  /\ UNCHANGED entry

StartFetch ==
  /\ pc = "lookup" /\ ~Usable
  /\ pc' = "fetch"
  /\ sent' = Second(now)
  /\ UNCHANGED <<now, request, answer, entry, resp>>

\* A response that left the origin `upstream' seconds ago, with the Date and
\* the Age its way here gave it.  304 answers the entry's validator.
OriginAnswer ==
  /\ pc = "fetch"
  /\ \E code \in {"200", "304"}, cc \in Controls, expiresIn \in ExpiresIn,
        upstream \in UpstreamAges, skew \in Skews, vary \in BOOLEAN :
       LET born == now - Precision * upstream
           date == IF skew = None THEN None ELSE Second(born) + skew
       IN /\ code = "304" => entry # None
          /\ expiresIn \notin {None, NaN} => date # None
          /\ answer' = [code |-> code, vary |-> vary, born |-> born,
                        hdr |-> [cc |-> cc, date |-> date,
                                 age |-> IF upstream = 0 THEN None ELSE upstream,
                                 expires |-> IF expiresIn \in {None, NaN} THEN expiresIn
                                             ELSE date + expiresIn]]
  /\ pc' = "answered"
  /\ UNCHANGED <<now, request, sent, entry, resp>>

WriteCache == ~request.noStore /\ IsStorable(answer.hdr) /\ ~answer.vary
Forbidden == \/ Directives(answer.hdr).noStore
             \/ Directives(answer.hdr).private = "all"

\* mutant: a response without Date is kept without one
Received_NoDate ==
  [hdr |-> answer.hdr, requestTime |-> sent, responseTime |-> Second(now),
   born |-> answer.born]
\* mutant: requestTime is taken when the response is there
Received_Late ==
  [hdr |-> [answer.hdr EXCEPT !.date = IF @ = None THEN Second(now) ELSE @],
   requestTime |-> Second(now), responseTime |-> Second(now),
   born |-> answer.born]
\* ensureValidDateHeader, requestTime and responseTime.
Received ==
  [hdr |-> [answer.hdr EXCEPT !.date = IF @ = None THEN Second(now) ELSE @],
   requestTime |-> sent, responseTime |-> Second(now), born |-> answer.born]
\* The headers of a 304 replace those of the entry; what it does not send stays.
MergeHeaders(old, new) ==
  [cc |-> IF new.cc = None THEN old.cc ELSE new.cc,
   expires |-> IF new.expires = None THEN old.expires ELSE new.expires,
   age |-> IF new.age = None THEN old.age ELSE new.age,
   date |-> new.date]
\* mutant: the times of the first response are kept
Freshened_OldTimes == [entry EXCEPT !.hdr = MergeHeaders(entry.hdr, Received.hdr)]
Freshened == [Received EXCEPT !.hdr = MergeHeaders(entry.hdr, Received.hdr)]

Update(e) == entry' = IF Forbidden THEN None
                      ELSE IF WriteCache THEN e ELSE entry

Replace ==
  /\ pc = "answered" /\ answer.code = "200"
  /\ Update(Received)
  /\ Respond(IF entry = None THEN "CACHE_MISS" ELSE "CACHE_HIT_REVALIDATED",
             answer.hdr.age)

Freshen ==
  /\ pc = "answered" /\ answer.code = "304"
  /\ Update(Freshened)
  /\ Respond("CACHE_HIT_REVALIDATED_304", Freshened.hdr.age)

\* No answer, or one that gets lost on its way.
FetchFails ==
  /\ pc \in {"fetch", "answered"}
  /\ IF entry = None THEN Respond("CACHE_FAILED_MISS", None)
     ELSE IF Directives(entry.hdr).mustRevalidate
          THEN Respond("CACHE_HIT_NOT_REVALIDATED", None)
          ELSE Respond("CACHE_HIT_NOT_REVALIDATED_STALE", CalculateAge(entry))
  /\ UNCHANGED entry

Tick == now < MaxTime /\ now' = now + 1
        /\ UNCHANGED <<pc, request, sent, answer, entry, resp>>

Done == now = MaxTime /\ UNCHANGED vars

Next == \/ Arrive \/ ServeFromCache \/ StartFetch \/ OriginAnswer
        \/ Replace \/ Freshen \/ FetchFails \/ Tick \/ Done

Spec == Init /\ [][Next]_vars
=============================================================================
