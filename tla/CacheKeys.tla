------------------------------ MODULE CacheKeys ------------------------------
(***************************************************************************)
(* Which requests are cacheable, for whom, and under which key: the rules  *)
(* and hooks of initCache(), the user ids of authentication.js, the keys   *)
(* of generateCacheKey() and what purge() makes of them.                   *)
(*                                                                         *)
(* A text is the sequence of its lexemes: words, the marks that URLs and   *)
(* keys are put together with, and escapes, which decode to a mark.  Texts *)
(* are cut so finely that no word hides "purge", "DELETE" or a pattern:    *)
(* the id that reads "mypurge" is <<"my", "purge">>.                       *)
(***************************************************************************)
EXTENDS Naturals, SequencesExt, TLC

CONSTANTS
  None,         \* the absent value
  Users,        \* user ids, as the client's credentials have them
  Digest,       \* idTransformation: the text put into keys, for each user
  OriginId,     \* opts.id, or None without includeOriginIdInCacheKey
  Rules,        \* opts.cache.cacheables: pattern, anchored, and cacheSettings:
                \* private, methods, ignored(QueryParams), sort(QueryParams)
  NameOrder,    \* names of query parameters, as localeCompare orders them
  Bearer        \* allowUnsigned, verifyJwtSignature, decryptionKey

\* A request: method, URL behind the prefix, fingerprint of its body,
\* credentials, X-Speedis-Purge-UserID, whether it has the token.

ASSUME DigestAssumption == \A u, v \in Users : Digest[u] = Digest[v] => u = v

-----------------------------------------------------------------------------
(* The hooks: settings and user *)

\* The whole URL is searched, its query included.
Matches(rule, url) ==
  IF rule.anchored THEN IsPrefix(rule.pattern, url)
                   ELSE rule.pattern \in SubSeqs(url)

\* onRequest: the settings of the first rule that the URL matches.
NoSettings == [private |-> FALSE, methods |-> {}, ignored |-> {}, sort |-> FALSE]
CacheSettings(req) ==
  LET first == SelectInSeq(Rules, LAMBDA rule : Matches(rule, req.url))
  IN IF first = 0 THEN NoSettings
     ELSE [private |-> Rules[first].private, methods |-> Rules[first].methods,
           ignored |-> Rules[first].ignored, sort |-> Rules[first].sort]

IsPurgeRequest(req) ==
  req.method = "DELETE" /\ IsPrefix(<<"/", "purge">>, req.url)
Cacheable(req) == req.method \in CacheSettings(req).methods

\* An encrypted token takes the key, an unsigned one permission, and a
\* signature is verified if the configuration says so.
BearerAccepted(cred) ==
  /\ cred.form = "encrypted" => Bearer.decryptionKey
  /\ cred.form = "unsigned" => Bearer.allowUnsigned
  /\ cred.form = "expired" => ~Bearer.verifyJwtSignature
  /\ cred.hasClaim
\* None stands for the exceptions of getUserId.
GetUserId(req) ==
  LET cred == req.credentials
  IN IF cred # None /\ (cred.scheme = "Bearer" => BearerAccepted(cred))
     THEN Digest[cred.user] ELSE None

GetPurgeUserId(req) == IF req.userid = None THEN None ELSE Digest[req.userid]

UserId(req) == IF IsPurgeRequest(req) THEN GetPurgeUserId(req) ELSE GetUserId(req)

\* preValidation: what is refused with 401.
Refused(req) ==
  IF IsPurgeRequest(req) THEN ~req.token
  ELSE Cacheable(req) /\ CacheSettings(req).private /\ GetUserId(req) = None

-----------------------------------------------------------------------------
(* Keys *)

\* String.split
Split(text, mark) ==
  LET cuts == {0, Len(text) + 1} \cup {i \in DOMAIN text : text[i] = mark}
      Cut(n) == CHOOSE i \in cuts : Cardinality({j \in cuts : j < i}) = n
  IN [n \in 1 .. Cardinality(cuts) - 1 |-> SubSeq(text, Cut(n - 1) + 1, Cut(n) - 1)]

\* [base, queryString]: what follows a second question mark is dropped.
Base(url) == Split(url, "?")[1]
QueryString(url) ==
  LET pieces == Split(url, "?") IN IF Len(pieces) > 1 THEN pieces[2] ELSE <<>>

\* What toString() of URLSearchParams escapes, and its constructor decodes.
Escape == ":" :> "%3A" @@ "/" :> "%2F" @@ "?" :> "%3F" @@ "&" :> "%26" @@ "=" :> "%3D"
Escapes == {Escape[mark] : mark \in DOMAIN Escape}
Encode(text) ==
  [i \in DOMAIN text |-> IF text[i] \in DOMAIN Escape THEN Escape[text[i]] ELSE text[i]]
Decode(text) ==
  [i \in DOMAIN text |-> IF text[i] \in Escapes
                         THEN CHOOSE mark \in DOMAIN Escape : Escape[mark] = text[i]
                         ELSE text[i]]

\* new URLSearchParams(queryString)
Param(field) ==
  LET equals == SelectInSeq(field, LAMBDA x : x = "=")
      end == IF equals = 0 THEN Len(field) + 1 ELSE equals
  IN [name |-> Decode(SubSeq(field, 1, end - 1)),
      value |-> Decode(SubSeq(field, end + 1, Len(field)))]
Params(url) ==
  LET fields == SelectSeq(Split(QueryString(url), "&"), LAMBDA field : field # <<>>)
  IN [i \in DOMAIN fields |-> Param(fields[i])]
KeptParams(req) ==
  SelectSeq(Params(req.url), LAMBDA p : p.name \notin CacheSettings(req).ignored)

\* By name alone: parameters of one name stay in their order.
Sorted(params) ==
  FlattenSeq([i \in DOMAIN NameOrder |->
                SelectSeq(params, LAMBDA p : p.name = NameOrder[i])])
\* Sorted parameters are joined as they were decoded, others are escaped again.
QueryPart(req) ==
  LET kept == KeptParams(req)
      sort == CacheSettings(req).sort
      params == IF sort THEN Sorted(kept) ELSE kept
      Text(p) == IF sort THEN p.name \o <<"=">> \o p.value
                         ELSE Encode(p.name) \o <<"=">> \o Encode(p.value)
  IN IF kept = <<>> THEN <<>>
     ELSE <<"?">> \o Tail(FlattenSeq([i \in DOMAIN params |-> <<"&">> \o Text(params[i])]))

PathOf(req) ==
  IF QueryString(req.url) = <<>> THEN req.url ELSE Base(req.url) \o QueryPart(req)
\* Slashes become colons, and the first is left out.
UrlKey(path) ==
  LET key == [i \in DOMAIN path |-> IF path[i] = "/" THEN ":" ELSE path[i]]
  IN IF IsPrefix(<<":">>, key) THEN Tail(key) ELSE key
GenerateUrlKey(req) == UrlKey(PathOf(req))

\* parts.join(":"): each part but the last, the URL's, is followed by a colon.
OriginPart == IF OriginId = None THEN <<>> ELSE OriginId \o <<":">>

\* mutant: private responses are kept under the URL alone
UserPart_Shared(req) == <<>>
\* parts.push(null) adds an empty part.
UserPart(req) ==
  IF ~CacheSettings(req).private THEN <<>>
  ELSE (IF UserId(req) = None THEN <<>> ELSE UserId(req)) \o <<":">>

BodyPart(req) == IF req.fingerprint = None THEN <<>> ELSE req.fingerprint \o <<":">>

GenerateCacheKey(req) ==
  OriginPart \o UserPart(req) \o <<req.method, ":">> \o BodyPart(req)
    \o GenerateUrlKey(req)

-----------------------------------------------------------------------------
(* What a purge removes *)

\* String.replace: the first occurrence, wherever in the key it is.
Replace(key, part, by) == ReplaceFirstSubSeq(by, part, key)

\* The key of the purge request itself, without the purge path.
CacheEviction(req) == Replace(GenerateCacheKey(req), <<"purge", ":">>, <<>>)

\* mutant: entries of HEAD requests are forgotten
ExactKeys_GetOnly(key) == {Replace(key, <<"DELETE", ":">>, <<"GET", ":">>)}
ExactKeys(key) ==
  {Replace(key, <<"DELETE", ":">>, <<m, ":">>) : m \in {"GET", "HEAD"}}
Pattern(key) == Replace(key, <<"DELETE", ":">>, <<"*", ":">>)

\* MATCH of SCAN: an asterisk stands for any text, a question mark for any
\* character, which of lexemes the marks are.
Glob(pattern, key) ==
  LET match[i \in 0 .. Len(pattern), j \in 0 .. Len(key)] ==
        IF i = 0 THEN j = 0
        ELSE IF pattern[i] = "*" THEN match[i - 1, j] \/ (j > 0 /\ match[i, j - 1])
        ELSE /\ j > 0
             /\ \/ pattern[i] = key[j]
                \/ pattern[i] = "?" /\ key[j] \in {":", "?", "&", "=", "*"}
             /\ match[i - 1, j - 1]
  IN match[Len(pattern), Len(key)]

IsExact(req) == ~Contains(CacheEviction(req), "*")
\* Whether purge() removes key.
Evicts(req, key) ==
  IF IsExact(req) THEN key \in ExactKeys(CacheEviction(req))
                  ELSE Glob(Pattern(CacheEviction(req)), key)
=============================================================================
