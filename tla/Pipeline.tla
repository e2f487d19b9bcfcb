------------------------------ MODULE Pipeline ------------------------------
(***************************************************************************)
(* The life of a response in one worker, for one key: who holds the        *)
(* object, who transforms it and when it is cloned                         *)
(* (src/modules/cache.js getCacheable and _get, src/modules/bff.js         *)
(* transform, src/plugins/speedis.js, src/modules/variantTracker.js).      *)
(*                                                                         *)
(* A body is the version the origin gave it and the sequence `done' of the *)
(* phases whose actions have been applied to it.  Headers are reduced to   *)
(* the validators, which identify a version.                               *)
(* Local coalescing is on, so one fetch of the key is under way at a time. *)
(* When it settles, the fetcher and its followers run one after the other  *)
(* before anything else happens in the worker: that is one step here.      *)
(* Redis commands of the worker travel on one connection, in order: a      *)
(* command takes effect in the step that issues it, its reply comes later. *)
(***************************************************************************)
EXTENDS Naturals, Sequences, FiniteSets, SequencesExt

CONSTANTS
    Requests,      \* the clients, each with one request at a time
    None,
    Fingerprint,   \* the W/"md5" that the variants tracker makes of a payload
    MaxVersion,    \* bound on the versions of the resource at the origin
    Untransformed, \* the versions sent with Cache-Control: no-transform
    ReadOnly,      \* the key's method is GET or HEAD
    Anchored       \* the urlPattern names a path, so it needs target.path

ASSUME PipelineAssumption ==
    /\ {None, Fingerprint} \cap Nat = {} /\ None # Fingerprint
    /\ MaxVersion \in Nat
    /\ Untransformed \subseteq 0 .. MaxVersion
    /\ {ReadOnly, Anchored} \subseteq BOOLEAN

VARIABLES
    version,   \* what the origin serves now
    entry,     \* the key in Redis: [etag, body, stale] or None
    flight,    \* server.ongoingFetch: [by, cond, waiting] or None
    looking,   \* requests whose JSON.GET is under way, in order
    pc,
    asked,     \* [cond, tracked] of each request
    cached,    \* cachedResponse of each request, or None
    held,      \* the object a request clones when Redis has replied, or None
    answer,    \* what each client was sent by the last step, or None
    copy       \* what each client keeps: [version, tag] or None

vars == <<version, entry, flight, looking, pc, asked, cached, held, answer, copy>>

Fresh == {"CACHE_MISS", "CACHE_HIT_REVALIDATED", "CACHE_NOT_ENABLED"}
FromEntry == {"CACHE_HIT", "CACHE_HIT_REVALIDATED_304", "CACHE_HIT_NOT_REVALIDATED_STALE"}
Conditions == {"none", "etag", "since", "star", "stars"}
Policies == {"store", "lost", "skip", "unlink"}
Phases == {"OriginResponse", "CacheRequest", "CacheResponse", "ClientResponse"}
Kinds == Fresh \cup FromEntry \cup
         {"CACHE_FAILED_MISS", "CACHE_HIT_NOT_REVALIDATED", "CACHE_ERROR_400",
          "CACHE_ERROR_500", None}

\* a stored entry, one that has been read, a fetch and a response
Versions == 0 .. MaxVersion
Bodies == [version : Versions, done : Seq(Phases)]
Entries == [etag : Versions, body : Bodies \cup {None}, stale : BOOLEAN]
Reads == [status : {200, None}, kind : {"CACHE_HIT"}, etag : Versions,
          body : Bodies \cup {None}, stale : BOOLEAN]
Flights == [by : Requests, cond : Versions \cup {None}, waiting : Seq(Requests)]
Responses == [status : {200, 500, None}, kind : Kinds, etag : Versions \cup {None},
              body : Bodies \cup {None}]
ASSUME AbsentAssumption == None \notin Flights \cup Responses

-----------------------------------------------------------------------------
(* Responses                                                               *)

Error(kind) == [status |-> 500, kind |-> kind, etag |-> None, body |-> None]

\* a bug: a directive without a value is taken for an absent one
Through_Truthy(phase, rsp, hasPath) ==
    IF rsp.body = None \/ (Anchored /\ ~hasPath)
    THEN rsp
    ELSE [rsp EXCEPT !.body.done = Append(@, phase)]

\* transform(): no-transform is read from the target; a target without a
\* path matches no pattern that names one
Through(phase, rsp, hasPath) ==
    IF rsp.body = None \/ rsp.etag \in Untransformed \/ (Anchored /\ ~hasPath)
    THEN rsp
    ELSE [rsp EXCEPT !.body.done = Append(@, phase)]

\* the origin's response object after n requests have resumed with it, each
\* applying ORIGIN_RESPONSE to it
Shared(n) ==
    [status |-> 200, kind |-> "CACHE_MISS", etag |-> version,
     body |-> [version |-> version,
               done |-> IF version \in Untransformed THEN <<>>
                        ELSE [i \in 1 .. n |-> "OriginResponse"]]]

\* what JSON.GET gives: an entry that JSON.MERGE created has no statusCode
Loaded(e) ==
    IF e = None THEN None
    ELSE [status |-> IF e.body = None THEN None ELSE 200,
          kind |-> "CACHE_HIT", etag |-> e.etag, body |-> e.body, stale |-> e.stale]

Response(rsp, kind) ==
    [status |-> rsp.status, kind |-> kind, etag |-> rsp.etag, body |-> rsp.body]

\* a bug: the entry is taken from the shared object after the followers have
\* resumed
Stored_Late ==
    LET last == Through("CacheRequest", Shared(1 + Len(flight.waiting)), FALSE)
    IN  [etag |-> last.etag, body |-> last.body, stale |-> FALSE]

\* JSON.SET of the clone the fetcher made when it resumed: a clone has no path
Stored ==
    LET clone == Through("CacheRequest", Shared(1), FALSE)
    IN  [etag |-> clone.etag, body |-> clone.body, stale |-> FALSE]

\* JSON.MERGE of headers and times creates the key if it is gone
Merged(etag) ==
    [etag |-> etag, stale |-> FALSE, body |-> IF entry = None THEN None ELSE entry.body]

-----------------------------------------------------------------------------
(* Conditional requests, and the way out                                   *)

Plain == [cond |-> "none", tracked |-> FALSE]

\* a bug: the dates are compared the other way round
Matches_Swapped(q, rsp, kept) ==
    CASE q.cond = "star"  -> rsp.kind \in {"CACHE_HIT", "CACHE_HIT_REVALIDATED_304"}
      [] q.cond = "etag"  -> rsp.etag # None /\ rsp.etag = kept.tag
      [] q.cond = "since" -> ReadOnly /\ rsp.etag # None /\ kept.version <= rsp.etag
      [] OTHER            -> FALSE

Matches(q, rsp, kept) ==
    CASE q.cond = "star"  -> rsp.kind \in {"CACHE_HIT", "CACHE_HIT_REVALIDATED_304"}
      [] q.cond = "etag"  -> rsp.etag # None /\ rsp.etag = kept.tag
      [] q.cond = "since" -> ReadOnly /\ rsp.etag # None /\ rsp.etag <= kept.version
      [] OTHER            -> FALSE

\* the response getCacheable() resolves with; one without a body remembers
\* the version of the body it stands for, and on what condition
Conditional(q, rsp, kept) ==
    LET plain == [status |-> rsp.status, kind |-> rsp.kind, etag |-> rsp.etag,
                  body |-> rsp.body, of |-> None, cond |-> "none"]
        bare(status) == [plain EXCEPT !.status = status, !.etag = None, !.body = None]
    IN  IF rsp.kind = "CACHE_ERROR_500" THEN plain
        ELSE IF q.cond = "stars" THEN [bare(400) EXCEPT !.kind = "CACHE_ERROR_400"]
        ELSE IF Matches(q, rsp, kept)
        THEN [bare(IF ReadOnly THEN 304 ELSE 412) EXCEPT
                !.cond = q.cond, !.of = IF rsp.body = None THEN None ELSE rsp.body.version]
        ELSE plain

\* a bug: a missing statusCode is sent on
Sent_Unchecked(rsp) == Through("ClientResponse", rsp, TRUE)

\* the route: the plugin sets the path, and a response without a statusCode
\* makes reply.code() throw
Sent(rsp) ==
    IF rsp.status = None
    THEN [rsp EXCEPT !.status = 500, !.body = None]
    ELSE Through("ClientResponse", rsp, TRUE)

\* onSend hook: works on a copy of the payload and replaces the ETag
Tagged(q, rsp) ==
    IF q.tracked /\ rsp.body # None
    THEN [rsp EXCEPT !.etag = Fingerprint]
    ELSE rsp

Kept(old, rsp) ==
    IF rsp.status = 200 /\ rsp.body # None
    THEN [version |-> rsp.body.version, tag |-> rsp.etag]
    ELSE old

\* the requests in the domain of `out' are answered with their response there
Answered(out) ==
    LET reply == [r \in DOMAIN out |->
                    Tagged(asked[r], Sent(Conditional(asked[r], out[r], copy[r])))]
    IN  /\ answer' = [r \in Requests |-> IF r \in DOMAIN out THEN reply[r] ELSE None]
        /\ copy' = [r \in Requests |-> IF r \in DOMAIN out THEN Kept(copy[r], reply[r]) ELSE copy[r]]
        /\ asked' = [r \in Requests |-> IF r \in DOMAIN out THEN Plain ELSE asked[r]]

\* nobody is answered
Silent == answer' = [r \in Requests |-> None]

-----------------------------------------------------------------------------
(* The requests                                                            *)

Init ==
    /\ version = 0
    /\ entry = None
    /\ flight = None
    /\ looking = <<>>
    /\ pc = [r \in Requests |-> "idle"]
    /\ asked = [r \in Requests |-> Plain]
    /\ cached = [r \in Requests |-> None]
    /\ held = [r \in Requests |-> None]
    /\ answer = [r \in Requests |-> None]
    /\ copy = [r \in Requests |-> None]

\* a client asks, with the validators of its copy if it has one; the JSON.GET
\* is sent
Arrive(r) ==
    /\ pc[r] = "idle"
    /\ \E c \in Conditions, t \in BOOLEAN :
         /\ c \in {"etag", "since"} => copy[r] # None
         /\ asked' = [asked EXCEPT ![r] = [cond |-> c, tracked |-> t]]
    /\ pc' = [pc EXCEPT ![r] = "looking"]
    /\ looking' = Append(looking, r)
    /\ cached' = [cached EXCEPT ![r] = Loaded(entry)]
    /\ Silent
    /\ UNCHANGED <<version, entry, flight, held, copy>>

\* the entry goes through CACHE_RESPONSE as soon as it is read
Found(r) ==
    IF cached[r] = None THEN None
    ELSE Through("CacheResponse", cached[r], TRUE)

Hit(r) ==
    /\ looking # <<>> /\ Head(looking) = r
    /\ Found(r) # None /\ ~Found(r).stale
    /\ Answered([c \in {r} |-> Response(Found(c), "CACHE_HIT")])
    /\ pc' = [pc EXCEPT ![r] = "idle"]
    /\ looking' = Tail(looking)
    /\ cached' = [cached EXCEPT ![r] = None]
    /\ UNCHANGED <<version, entry, flight, held>>

\* a missing or stale entry: join the fetch under way or start one
Fetch(r) ==
    /\ looking # <<>> /\ Head(looking) = r
    /\ Found(r) # None => Found(r).stale
    /\ flight' = IF flight # None
                 THEN [flight EXCEPT !.waiting = Append(@, r)]
                 ELSE [by |-> r, waiting |-> <<>>,
                       cond |-> IF Found(r) = None THEN None ELSE Found(r).etag]
    /\ pc' = [pc EXCEPT ![r] = "waiting"]
    /\ looking' = Tail(looking)
    /\ cached' = [cached EXCEPT ![r] = Found(r)]
    /\ Silent
    /\ UNCHANGED <<version, entry, asked, held, copy>>

-----------------------------------------------------------------------------
(* The fetch settles                                                       *)

\* the fetcher resumes first, the followers in the order they joined
Sharers == <<flight.by>> \o flight.waiting
Place(r) == CHOOSE i \in DOMAIN Sharers : Sharers[i] = r

\* `later' answers when Redis has replied, `now' in this step
Resumes(now, later) ==
    /\ Answered(now)
    /\ flight' = None
    /\ pc' = [r \in Requests |->
                IF r \in DOMAIN now THEN "idle"
                ELSE IF r \in DOMAIN later THEN "replying" ELSE pc[r]]
    /\ held' = [r \in Requests |-> IF r \in DOMAIN later THEN later[r] ELSE held[r]]
    /\ cached' = [r \in Requests |-> IF r \in DOMAIN now \cup DOMAIN later THEN None ELSE cached[r]]
    /\ UNCHANGED <<version, looking>>

\* who awaits Redis before it clones its answer
Awaits(policy) ==
    CASE policy \in {"store", "lost"} -> {flight.by}
      [] policy = "unlink"            -> ToSet(Sharers)
      [] OTHER                        -> {}

\* a 200: a request clones its answer at once, or after the others have
\* transformed the object they share
NewResponse(policy) ==
    /\ flight # None
    /\ flight.cond # version
    /\ LET kind(r) == IF cached[r] = None THEN "CACHE_MISS" ELSE "CACHE_HIT_REVALIDATED"
           all == ToSet(Sharers)
       IN  Resumes([r \in all \ Awaits(policy) |-> Response(Shared(Place(r)), kind(r))],
                   [r \in Awaits(policy) |-> Response(Shared(Len(Sharers)), kind(r))])
    /\ entry' = CASE policy = "store"  -> Stored
                  [] policy = "unlink" -> None
                  [] OTHER             -> entry

\* cachedResponse with the headers of the 304; the fetcher passes its own
\* through CACHE_REQUEST before it writes the headers back
Refreshed(r, policy) ==
    LET mine == [cached[r] EXCEPT !.etag = flight.cond]
    IN  Response(IF r = flight.by /\ policy \in {"store", "lost"}
                 THEN Through("CacheRequest", mine, TRUE) ELSE mine,
                 "CACHE_HIT_REVALIDATED_304")

\* a 304: everyone refreshes the entry it has read; one that has read none
\* throws, and getCacheable() answers 500
NotModified(policy) ==
    /\ flight # None
    /\ flight.cond = version
    /\ LET able == {r \in ToSet(Sharers) : cached[r] # None}
           slow == able \cap Awaits(policy)
       IN  Resumes([r \in ToSet(Sharers) \ slow |->
                      IF r \in able THEN Refreshed(r, policy) ELSE Error("CACHE_ERROR_500")],
                   [r \in slow |-> Refreshed(r, policy)])
    /\ entry' = CASE policy = "store"  -> Merged(flight.cond)
                  [] policy = "unlink" -> None
                  [] OTHER             -> entry

\* the fetch is rejected: the stale entry, unless it must be revalidated, or
\* a generated error
OriginFails(strict) ==
    /\ flight # None
    /\ Resumes([r \in ToSet(Sharers) |->
                  IF cached[r] = None THEN Error("CACHE_FAILED_MISS")
                  ELSE IF strict THEN Error("CACHE_HIT_NOT_REVALIDATED")
                  ELSE Response(cached[r], "CACHE_HIT_NOT_REVALIDATED_STALE")], <<>>)
    /\ UNCHANGED entry

\* Redis has replied: the answer is cloned now
Reply(r) ==
    /\ pc[r] = "replying"
    /\ Answered([c \in {r} |-> held[c]])
    /\ pc' = [pc EXCEPT ![r] = "idle"]
    /\ held' = [held EXCEPT ![r] = None]
    /\ UNCHANGED <<version, entry, flight, looking, cached>>

-----------------------------------------------------------------------------
(* A URL that is not cacheable, and the surroundings                       *)

\* proxy(): its own fetch, no conditional evaluation by Speedis
Proxied(r) ==
    /\ pc[r] = "idle"
    /\ \E rsp \in {Response(Shared(1), "CACHE_NOT_ENABLED"), Error(None)} :
         answer' = [c \in Requests |->
                      IF c = r THEN Sent(Conditional(Plain, rsp, None)) ELSE None]
    /\ UNCHANGED <<version, entry, flight, looking, pc, asked, cached, held, copy>>

Changes ==
    /\ version < MaxVersion
    /\ version' = version + 1
    /\ Silent
    /\ UNCHANGED <<entry, flight, looking, pc, asked, cached, held, copy>>

\* the entry's lifetime ends
Ages ==
    /\ entry # None /\ ~entry.stale
    /\ entry' = [entry EXCEPT !.stale = TRUE]
    /\ Silent
    /\ UNCHANGED <<version, flight, looking, pc, asked, cached, held, copy>>

\* the key's ttl runs out, or it is purged
Vanishes ==
    /\ entry # None
    /\ entry' = None
    /\ Silent
    /\ UNCHANGED <<version, flight, looking, pc, asked, cached, held, copy>>

Next ==
    \/ \E r \in Requests : Arrive(r) \/ Hit(r) \/ Fetch(r) \/ Reply(r) \/ Proxied(r)
    \/ \E p \in Policies : NewResponse(p) \/ NotModified(p)
    \/ \E s \in BOOLEAN : OriginFails(s)
    \/ Changes \/ Ages \/ Vanishes

Spec == Init /\ [][Next]_vars
=============================================================================
