--------------------------- MODULE MCOriginFetch ---------------------------
(***************************************************************************)
(* Instances of OriginFetch for TLC.                                       *)
(***************************************************************************)
EXTENDS OriginFetchProperties

CONSTANTS c1, c2, c3, c4, k1, k2

\* c1 to c3 are calls for one key, c4 for another.
TwoKeys == [c \in Calls |-> IF c = c4 THEN k2 ELSE k1]
OneKey == [c \in Calls |-> k1]

\* originTimeout is set, without a breaker, over HTTP/1.x.
PlainHttp == {[http2 |-> FALSE, breaker |-> FALSE, timeout |-> TRUE]}
=============================================================================
