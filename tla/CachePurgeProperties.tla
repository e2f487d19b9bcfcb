------------------------- MODULE CachePurgeProperties -------------------------
(***************************************************************************)
(* What keys and purges have to guarantee (CachePurge), in terms of the    *)
(* requests and not of their keys.                                         *)
(***************************************************************************)
EXTENDS CachePurge

\* What the response to a request depends on.  Parameters that are ignored do
\* not count, nor, if they are sorted, does the order of different ones.
Relevant(req) ==
  LET kept == KeptParams(req)
  IN IF CacheSettings(req).sort
     THEN {SelectSeq(kept, LAMBDA q : q.name = p.name) : p \in Range(kept)}
     ELSE {kept}
Private(req) == CacheSettings(req).private
Identity(req) ==
  [method |-> req.method, path |-> Base(req.url), params |-> Relevant(req),
   fingerprint |-> req.fingerprint,
   user |-> IF Private(req) THEN req.credentials.user ELSE None]

\* The conversions of generateUrlKey are not injective: a slash and a colon come
\* out alike, an escape like what it decodes to if parameters are sorted, and a
\* second question mark ends the query.  A URL is plain if it needs none of these.
IsPlain(req) ==
  /\ ":" \notin Range(req.url)
  /\ Range(req.url) \cap Escapes = {}
  /\ \/ "?" \notin Range(req.url)
     \/ QueryString(req.url) # <<>> /\ Len(Split(req.url, "?")) = 2
\* Of a purge, moreover, what comes before its method and its path in its key has
\* to be free of the two words that String.replace looks for.
IsPlainPurge(req) ==
  /\ IsPlain(req)
  /\ {"purge", "DELETE"} \cap Range(OriginPart \o UserPart(req) \o BodyPart(req)) = {}

Cached == {r \in Reads : Route[r] = "cache"}
PlainReads == {r \in Cached : IsPlain(r)}
PlainPurges == {p \in Purges : IsPlainPurge(p)}

\* Among requests with plain URLs, one finds an entry just if the entry's response
\* is the one it asks for: a private one of the same user, whatever the form of
\* the credentials; the same body of a POST; the same parameters, in any order.
\* (generateCacheKey.  Other requests may find, or leave, what is another's.)
Finders == [k \in Keys |-> {r \in PlainReads : KeyOf[r] = k}]
Alike == [r \in PlainReads |-> {q \in PlainReads : Identity(q) = Identity(r)}]
KeysIdentify ==
  \A k \in Present :
    entries[k].of \in PlainReads => Finders[k] = Alike[entries[k].of]

\* doc/Requests.md: what a purge names: a resource, or those below a path, of
\* the user in its header if they are private; everything with purge/*.
Target(p) == SubSeq(p.url, 3, Len(p.url))
Names(p, r) ==
  \/ p.url = <<"/", "purge", "/", "*">>
  \/ /\ Private(r) => p.userid = r.credentials.user
     /\ IF Contains(p.url, "*") THEN Glob(Target(p), r.url)
        ELSE /\ Base(p.url) = <<"/", "purge">> \o Base(r.url)
             /\ Relevant(r) = Relevant(p)
             /\ r.method \in {"GET", "HEAD"} /\ r.fingerprint = p.fingerprint

\* Of plain requests, by plain purges.
NamedBy ==
  [p \in Purges |-> IF p \in PlainPurges THEN {r \in PlainReads : Names(p, r)} ELSE {}]

\* A purge that reports an end (204 or 404) has removed all it names that was
\* there when it began: what is left was stored meanwhile, such as the response
\* of a request that was at the origin when the purge came.
PurgeReaches ==
  purge.state \in {"204", "404"} =>
    \A k \in Present : entries[k].old => entries[k].of \notin NamedBy[purge.req]

\* Entries disappear only by purges with the token: one resource, or within
\* one user's if the path is private; other users' entries are spared.
Spared(p, r) ==
  IF IsExact(p) THEN ~Names(p, r)
  ELSE Private(p) /\ Private(r) /\ p.userid # r.credentials.user
SparedBy ==
  [p \in Purges |-> IF p \in PlainPurges THEN {r \in PlainReads : Spared(p, r)} ELSE {}]
PurgeSpares ==
  [][\A k \in Present \ Present' :
       /\ InProgress /\ purge.req.token
       /\ entries[k].of \notin SparedBy[purge.req]]_vars

\* A plain purge would match each entry it names and none that it has to spare:
\* string replacement and globbing on the purge's own key, against the requests.
PatternsFit ==
  \A p \in Purges, k \in Present :
    /\ entries[k].of \in NamedBy[p] => k \in EvictedBy[p]
    /\ k \in EvictedBy[p] => entries[k].of \notin SparedBy[p]

\* The same of every request that is cached: the two promises rest on it.
PatternsReach ==
  \A p \in Purges, r \in Cached : r \in NamedBy[p] => KeyOf[r] \in EvictedBy[p]
PatternsSpare ==
  \A p \in Purges, r \in Cached : KeyOf[r] \in EvictedBy[p] => r \notin SparedBy[p]

-----------------------------------------------------------------------------
(* What the theorems about keys and purges ask of the requests *)

\* The parts of the key of a request, and those of the entry that a purge of a
\* single resource removes for one of the two methods.
Exact == {p \in PlainPurges : IsExact(p)}
PartsOf(r) ==
  [user |-> UserPart(r), method |-> r.method, body |-> BodyPart(r),
   path |-> Base(r.url), query |-> QueryPart(r)]
PartsPurged(p, m) ==
  [user |-> UserPart(p), method |-> m, body |-> BodyPart(p),
   path |-> Base(Target(p)), query |-> QueryPart(p)]
Parts == {PartsOf(r) : r \in PlainReads}
           \cup {PartsPurged(p, m) : p \in Exact, m \in {"GET", "HEAD"}}

\* A part but the URL's is empty or ends with its only colon; a path has neither
\* a colon nor a question mark, a query no colon behind its question mark.
Ended(Texts, part) ==
  \/ part = <<>>
  \/ /\ part = Front(part) \o <<":">>
     /\ Front(part) \in Seq(Texts) /\ ":" \notin Range(Front(part))
IsParts(Texts, x) ==
  /\ Ended(Texts, x.user) /\ Ended(Texts, x.body)
  /\ x.method \in Texts \ {":"}
  /\ x.path \in Seq(Texts) /\ x.path # <<>> /\ x.path[1] = "/"
  /\ {":", "?"} \cap Range(x.path) = {}
  /\ x.query \in Seq(Texts) /\ ":" \notin Range(x.query)
  /\ x.query # <<>> => x.query[1] = "?"
\* No user's id is a method, and no digest of a body the beginning of a path.
Apart(x, y) ==
  /\ x.user # <<y.method, ":">>
  /\ x.body # <<>> => ~IsPrefix(x.body, UrlKey(y.path \o y.query))
KeyPartsFit(Texts) ==
  /\ {":", "/", "?"} \subseteq Texts /\ OriginPart \in Seq(Texts)
  /\ \A u \in Users : Digest[u] \in Seq(Texts)
  /\ \A r \in PlainReads \cup Exact : r.fingerprint \in Seq(Texts) \cup {None}
  /\ \A x, y \in Parts : IsParts(Texts, x) /\ Apart(x, y)

\* Queries that are parsed, filtered, sorted and joined again are the same just
\* if the parameters are relevant alike.
QueriesFit(r, q) == QueryPart(r) = QueryPart(q) <=> Relevant(r) = Relevant(q)
RequestsFit ==
  \A r \in PlainReads :
    /\ Private(r) => r.credentials.user \in Users
    /\ PathOf(r) = Base(r.url) \o QueryPart(r)
    /\ \A q \in PlainReads :
         Base(r.url) = Base(q.url) =>
           CacheSettings(r) = CacheSettings(q) /\ QueriesFit(r, q)
\* A purge's own URL is under the rule of what it names, behind the purge path.
PurgePathsFit(Texts) ==
  /\ {"DELETE", "purge"} \subseteq Texts /\ None \notin Users
  /\ \A u \in Users : Digest[u] \notin {None, <<>>}
  /\ \A p \in Exact :
       /\ Private(p) => p.userid \in Users \cup {None}
       /\ PathOf(p) = <<"/", "purge">> \o Base(Target(p)) \o QueryPart(p)
       /\ Base(p.url) = <<"/", "purge">> \o Base(Target(p))
       /\ ~Contains(p.url, "*")
       /\ \A r \in PlainReads :
            Base(r.url) = Base(Target(p)) =>
              CacheSettings(p) = CacheSettings(r) /\ QueriesFit(r, p)

\* What the patterns of purges with an asterisk match, against the requests.
GlobsFit ==
  \A p \in PlainPurges \ Exact, r \in PlainReads :
    /\ Names(p, r) => KeyOf[r] \in EvictedBy[p]
    /\ KeyOf[r] \in EvictedBy[p] => ~Spared(p, r)
=============================================================================
