----------------------------- MODULE CachePurge -----------------------------
(***************************************************************************)
(* One origin's requests and purges, handled as the plugin speedis.js      *)
(* routes them, over the entries their keys (CacheKeys) share in Redis.    *)
(* Responses stay fresh; how they age is the matter of Freshness, how one  *)
(* key is refreshed that of Coalescing.                                    *)
(***************************************************************************)
EXTENDS CacheKeys

CONSTANTS
  Clients,   \* connections, each with one request at a time
  Reads,     \* requests for resources
  Purges     \* purge requests; one is handled at a time

VARIABLES
  request,  \* per client: the request it has sent to the origin, or None
  entries,  \* the JSON documents of the cache: per key, or None
  purge     \* the latest purge

vars == <<request, entries, purge>>

ASSUME PurgesAssumption ==
  /\ \A p \in Purges : IsPurgeRequest(p)
  /\ \A r \in Reads : ~IsPurgeRequest(r)
\* A path starts with a slash; localeCompare orders all names.
ASSUME UrlsAssumption ==
  \A r \in Reads \cup Purges :
    /\ IsPrefix(<<"/">>, r.url)
    /\ \A p \in Range(Params(r.url)) : p.name \in Range(NameOrder)

\* The keys of the requests, and those that each purge removes.
KeyOf == [r \in Reads |-> GenerateCacheKey(r)]
Keys == {KeyOf[r] : r \in Reads}
EvictedBy == [p \in Purges |-> {k \in Keys : Evicts(p, k)}]

\* of: the request that the response answers; old: it was there when the latest
\* purge began.
Entries == [of : Reads, old : BOOLEAN]
ASSUME NoneAssumption == None \notin Reads \cup Entries
Entry(of, old) == [of |-> of, old |-> old]
Present == {k \in Keys : entries[k] # None}
\* req: the purge, as long as it matters; batch: the keys that SCAN returned last;
\* found: something was removed.
Purge(req, state, batch, found) ==
  [req |-> req, state |-> state, batch |-> batch, found |-> found]

TypeOK ==
  /\ request \in [Clients -> Reads \cup {None}]
  /\ entries \in [Keys -> Entries \cup {None}]
  /\ purge.req \in Purges \cup {None}
  /\ purge.state \in {"none", "exact", "scan", "unlink", "204", "404", "500", "401"}
  /\ purge.batch \subseteq Keys /\ purge.found \in BOOLEAN

Init ==
  /\ request = [c \in Clients |-> None]
  /\ entries = [k \in Keys |-> None]
  /\ purge = Purge(None, "none", {}, FALSE)

-----------------------------------------------------------------------------
(* Reads *)

\* What the hooks and the handler make of a request.
Route == [r \in Reads |-> IF Refused(r) THEN "401"
                         ELSE IF Cacheable(r) THEN "cache" ELSE "proxy"]

\* A request goes to the origin.  (A hit, like a request that is refused or
\* proxied, is answered without a change of the cache.)
Read(c, req) ==
  /\ request[c] = None
  /\ Route[req] = "cache" /\ KeyOf[req] \notin Present
  /\ request' = [request EXCEPT ![c] = req]
  /\ UNCHANGED <<entries, purge>>

\* JSON.SET, under the key computed when the request came in.
Store(c) ==
  /\ request[c] # None
  /\ entries' = [entries EXCEPT ![KeyOf[request[c]]] = Entry(request[c], FALSE)]
  /\ request' = [request EXCEPT ![c] = None]
  /\ UNCHANGED purge

\* The origin fails, or its response is not to be stored.
NotStored(c) ==
  /\ request[c] # None
  /\ request' = [request EXCEPT ![c] = None]
  /\ UNCHANGED <<entries, purge>>

-----------------------------------------------------------------------------
(* Purges *)

InProgress == purge.state \in {"exact", "scan", "unlink"}

\* mutant: the token is not asked for
PurgeBegins_Open(req) ==
  /\ ~InProgress
  /\ entries' = [k \in Keys |-> IF k \in Present THEN Entry(entries[k].of, TRUE) ELSE None]
  /\ purge' = Purge(req, IF IsExact(req) THEN "exact" ELSE "scan", {}, FALSE)
  /\ UNCHANGED request
\* The hooks and the handler, up to the first command: UNLINK or SCAN.
PurgeBegins(req) ==
  /\ ~InProgress
  /\ entries' = [k \in Keys |-> IF k \in Present THEN Entry(entries[k].of, TRUE) ELSE None]
  /\ purge' = IF Refused(req) THEN Purge(None, "401", {}, FALSE)
              ELSE Purge(req, IF IsExact(req) THEN "exact" ELSE "scan", {}, FALSE)
  /\ UNCHANGED request

Evicted == EvictedBy[purge.req] \cap Present
Unlink(keys) ==
  /\ entries' = [k \in Keys |-> IF k \in keys THEN None ELSE entries[k]]
  /\ UNCHANGED request
Concluded(found) ==
  Purge(purge.req, IF found THEN "204" ELSE "404", {}, FALSE)

\* One UNLINK of the keys of both methods.
PurgeExact ==
  /\ purge.state = "exact"
  /\ Unlink(Evicted)
  /\ purge' = Concluded(Evicted # {})

\* SCAN returns some of the keys that match.
PurgeScans ==
  /\ purge.state = "scan"
  /\ \E keys \in SUBSET Evicted \ {{}} :
       purge' = Purge(purge.req, "unlink", keys, purge.found)
  /\ UNCHANGED <<request, entries>>

PurgeUnlinks ==
  /\ purge.state = "unlink"
  /\ Unlink(purge.batch)
  /\ purge' = Purge(purge.req, "scan", {}, purge.found \/ purge.batch \cap Present # {})

\* mutant: the cursor of SCAN is not followed to its end
PurgeEnds_Early ==
  /\ purge.state = "scan"
  /\ purge' = Concluded(purge.found)
  /\ UNCHANGED <<request, entries>>
\* SCAN has come full circle: a key it has not returned was not there all along.
PurgeEnds ==
  /\ purge.state = "scan"
  /\ \A k \in Evicted : ~entries[k].old
  /\ purge' = Concluded(purge.found)
  /\ UNCHANGED <<request, entries>>

\* mutant: an error counts as nothing found
Failed_NotFound == Concluded(purge.found)
\* mutant: an error is thrown instead of being answered
Failed_Thrown == Purge(purge.req, "thrown", {}, FALSE)
Failed == Purge(None, "500", {}, FALSE)
\* A command fails; UNLINK may have been executed.
PurgeFails ==
  /\ InProgress
  /\ purge' = Failed
  /\ \/ UNCHANGED <<request, entries>>
     \/ purge.state = "unlink" /\ Unlink(purge.batch)

-----------------------------------------------------------------------------
Next ==
  \/ \E c \in Clients :
       (\E req \in Reads : Read(c, req)) \/ Store(c) \/ NotStored(c)
  \/ \E req \in Purges : PurgeBegins(req)
  \/ PurgeExact \/ PurgeScans \/ PurgeUnlinks \/ PurgeEnds \/ PurgeFails

Spec == Init /\ [][Next]_vars
=============================================================================
