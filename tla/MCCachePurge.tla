---------------------------- MODULE MCCachePurge ----------------------------
(***************************************************************************)
(* Instances of CachePurge for TLC: rules, requests and purges tried.      *)
(***************************************************************************)
EXTENDS CachePurgeProperties

CONSTANTS c1, c2
AnyClient == Permutations(Clients)

MCOriginId == <<"shop">>
MCDigest ==
  [u \in Users |-> CASE u = "ann" -> <<"id1">> [] u = "bob" -> <<"id2">>
                     [] u = "eve" -> <<"my", "purge">>]
MCRules ==
  <<[pattern |-> <<"/", "private", "/">>, anchored |-> FALSE, private |-> TRUE,
     methods |-> {"GET", "HEAD"}, ignored |-> {}, sort |-> FALSE],
    [pattern |-> <<"/", "items">>, anchored |-> FALSE, private |-> FALSE,
     methods |-> {"GET", "HEAD", "POST"}, ignored |-> {<<"utm">>}, sort |-> TRUE],
    [pattern |-> <<"/", "status">>, anchored |-> TRUE, private |-> FALSE,
     methods |-> {"GET"}, ignored |-> {}, sort |-> FALSE]>>
MCNames == <<<<"kind">>, <<"size">>, <<"utm">>>>
MCBearer == [allowUnsigned |-> FALSE, verifyJwtSignature |-> TRUE, decryptionKey |-> TRUE]

Plain(method, url) ==
  [method |-> method, url |-> url, fingerprint |-> None,
   credentials |-> None, userid |-> None, token |-> FALSE]
As(req, scheme, user, form) ==
  [req EXCEPT !.credentials = [scheme |-> scheme, user |-> user, form |-> form,
                               hasClaim |-> form # "claimless"]]

Item == <<"/", "items", "/", "one">>
Red == <<"kind", "=", "red">>
Big == <<"size", "=", "big">>
Query(first, second) == <<"?">> \o first \o <<"&">> \o second
RedAndBig == Plain("GET", Item \o Query(Red, Big))
Same == Plain("GET", Item \o Query(Big, <<"utm", "&">> \o Red))
Own == Plain("GET", <<"/", "private", "/", "one">>)

\* Requests for something else that are not plain: a colon in a segment, escapes
\* in a parameter, a second question mark.
NotPlain ==
  {Plain("GET", <<"/", "items", ":", "one">> \o Query(Red, Big)),
   Plain("GET", Item \o <<"?">> \o Red \o <<"%26", "size", "%3D", "big">>),
   Plain("GET", Item \o Query(Red, Big) \o <<"?">> \o Big)}

\* Cached: a resource, with two forms of its URL and by HEAD, with another
\* parameter, private ones of two users.  Refused: private ones without a valid
\* identity.
MCReads ==
  {RedAndBig, Same, [Same EXCEPT !.method = "HEAD"],
   Plain("GET", Item \o Query(Red, <<"size", "=", "small">>)),
   As(Own, "Basic", "ann", "plain"), As(Own, "Bearer", "bob", "encrypted"),
   As(Own, "Bearer", "bob", "unsigned"), As(Own, "Bearer", "bob", "expired"),
   As(Own, "Bearer", "bob", "claimless"), Own,
   Plain("DELETE", Item), Plain("GET", <<"/", "other">>)}

\* The id of eve ends with the purge path: her purge removes the wrong "purge".
Del(url) == [Plain("DELETE", <<"/", "purge">> \o url) EXCEPT !.token = TRUE]
Exactly == Del(Item \o Query(Big, Red))
MCPurges ==
  {Exactly, [Exactly EXCEPT !.fingerprint = <<"f1">>],
   [Del(<<"/", "items", "/", "*">>) EXCEPT !.token = FALSE], Del(<<"/", "*">>),
   [Del(Own.url) EXCEPT !.userid = "ann"], [Del(Own.url) EXCEPT !.userid = "eve"],
   [Del(<<"/", "private", "/", "*">>) EXCEPT !.userid = "bob"]}

\* The parts of keys can be told apart, as the proofs about keys and purges ask.
ASSUME KeysAssumption ==
  KeyPartsFit(STRING) /\ RequestsFit /\ PurgePathsFit(STRING)

\* Requests that are not plain have to be set apart: their keys are another's.
ASSUME MeetingAssumption ==
  \A r \in NotPlain : ~IsPlain(r) /\ GenerateUrlKey(r) = GenerateUrlKey(RedAndBig)
=============================================================================
