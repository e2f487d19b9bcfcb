------------------------------ MODULE MCFreshness ------------------------------
(***************************************************************************)
(* Instances of Freshness for TLC: the headers and directives tried.       *)
(***************************************************************************)
EXTENDS FreshnessProperties

MaxAge(n) == [NoControl EXCEPT !.maxAge = n]

\* Lifetimes from max-age, from s-maxage (which overrides max-age), a malformed
\* one, from Expires if there is no Cache-Control; a response not to be kept.
ManyControls ==
  {None, [MaxAge(0) EXCEPT !.sMaxAge = 1, !.mustRevalidate = TRUE], [MaxAge(1) EXCEPT !.sMaxAge = NaN],
   [MaxAge(1) EXCEPT !.private = "all"]}

ManyRequests ==
  {AnyRequest, [AnyRequest EXCEPT !.maxAge = 0], [AnyRequest EXCEPT !.minFresh = 1],
   [AnyRequest EXCEPT !.maxStale = 1]}

AnyExpires == {None, 1, NaN}
AnySkew == {None, 1}
=============================================================================
