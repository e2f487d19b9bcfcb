------------------------- MODULE PipelineProperties -------------------------
(* What the pipeline promises of stored entries and of answers.            *)
EXTENDS Pipeline

Times(phase, body) == Cardinality({i \in DOMAIN body.done : body.done[i] = phase})

Tags == Versions \cup {Fingerprint, None}

\* The shape of the state: an entry without a body comes from JSON.MERGE
\* alone, requests wait only for the fetch under way, and every request that
\* waits for Redis has an answer ready.
TypeOK ==
    /\ version \in Versions
    /\ entry # None => /\ entry.etag \in 0 .. version
                       /\ entry.body = None \/ entry.body \in Bodies
    /\ ToSet(looking) = {r \in Requests : pc[r] = "looking"}
    /\ {r \in Requests : pc[r] = "waiting"} = IF flight = None THEN {} ELSE ToSet(Sharers)
    /\ \A r \in Requests :
         /\ pc[r] \in {"idle", "looking", "waiting", "replying"}
         /\ pc[r] = "replying" <=> held[r] # None
         /\ copy[r] # None => copy[r].version \in 0 .. version /\ copy[r].tag \in Tags
         /\ answer[r] # None => answer[r].status \in {200, 304, 400, 412, 500}

\* However many followers repeat ORIGIN_RESPONSE on the shared object, and
\* however often the entry is revalidated, a stored body has gone through
\* ORIGIN_RESPONSE exactly once and never through a phase of the way out
\* (cache.js 616, 700, 732): hits do not depend on who fetched.
EntryPhases ==
    (entry # None /\ entry.body # None) =>
        IF entry.body.version \in Untransformed THEN entry.body.done = <<>>
        ELSE /\ Head(entry.body.done) = "OriginResponse"
             /\ Times("OriginResponse", entry.body) = 1
             /\ Times("CacheRequest", entry.body) <= 1
             /\ Len(entry.body.done) <= 2

\* The phases of the way out are applied per client although the requests
\* share response objects: a body ends with its own client phase and bears no
\* other; a response from the origin bears no trace of the cache's phases; one
\* from the cache was loaded once; no-transform leaves a body as it came.  No
\* body skips ORIGIN_RESPONSE, and exactly one application shows in what comes
\* from the cache or from proxy().  In what a shared fetch answers it is not
\* bounded: each sharer applies it to the one object, and a fetcher that awaits
\* Redis answers with all of them
\* (cache.js 605-616, 829, 839, speedis.js 112-115, bff.js 128-152).
AnswerPhases ==
    \A r \in Requests :
        (answer[r] # None /\ answer[r].body # None) =>
            LET b == answer[r].body
            IN  IF b.version \in Untransformed THEN b.done = <<>>
                ELSE /\ Last(b.done) = "ClientResponse"
                     /\ Times("ClientResponse", b) = 1
                     /\ answer[r].kind \in Fresh =>
                          /\ Times("CacheRequest", b) + Times("CacheResponse", b) = 0
                          /\ Times("OriginResponse", b) >= 1
                     /\ answer[r].kind = "CACHE_NOT_ENABLED" => Times("OriginResponse", b) = 1
                     /\ answer[r].kind \in FromEntry =>
                          Times("OriginResponse", b) = 1 /\ Times("CacheResponse", b) = 1

\* A client that shows the validator of its copy is told to keep it only if
\* the copy is no older than the response it would have been sent, and the
\* same if it showed the ETag, be that response a hit, a refreshed or a stale
\* entry, or one shared with other requests (cache.js 314-429).
KeptIsNoOlder ==
    \A r \in Requests :
        (/\ answer[r] # None /\ answer[r].status \in {304, 412}
         /\ answer[r].cond # "star" /\ answer[r].of # None)
            => /\ answer[r].of <= copy[r].version
               /\ answer[r].cond = "etag" => answer[r].of = copy[r].version

\* "CacheRequest: Apply transformations to the cache entry before Speedis
\* stores it in Redis. Lets you strip or rewrite fields that should not be
\* persisted" (doc/Configuration.md:366), whatever the urlPattern that matches
\* the request.
StoredIsFiltered ==
    (entry # None /\ entry.body # None /\ entry.body.version \notin Untransformed)
        => Times("CacheRequest", entry.body) = 1
=============================================================================
