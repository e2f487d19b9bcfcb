------------------------ MODULE OriginFetchProperties ------------------------
(***************************************************************************)
(* What fetching from the origin has to guarantee (OriginFetch).           *)
(***************************************************************************)
EXTENDS OriginFetch

\* ------------------------------- invariants -------------------------------

\* README, "Request coalescing": identical requests are not at the origin
\* simultaneously.  Coalescing only waits for promises, so this asks for an
\* exchange to be over when its promise settles.
OneAtOrigin ==
  \A c, d \in Calls : AtOrigin(c) /\ AtOrigin(d) /\ KeyOf[c] = KeyOf[d] => c = d

\* It is when _fetch manages its own timeout: both protocols abort what they
\* give up.
OwnTimeoutAborts == ~opts.breaker => OneAtOrigin

\* doc/CircuitBreaker.md: the half-open breaker tries the origin with a single
\* request; calls that began before it opened have all been decided.
SingleTrial ==
  breaker.state = "halfOpen" =>
    \A c \in Calls : Pending(c) => c = trial /\ ~breaker.pendingClose

\* getValidHttp2Session never leaves a second usable session behind, and a
\* session it has given up is not used again.
OneSession ==
  /\ \A s, q \in Sessions : sessions[s] = "open" /\ sessions[q] = "open" => s = q
  /\ \A s \in Sessions : sessions[s] = "open" => s = http2Session

\* ---------------------------- action properties ---------------------------

\* Whether a half-open breaker closes or opens again is decided by the outcome
\* of its trial, not by a late outcome of an older call.
TrialDecides ==
  [][breaker.state = "halfOpen" /\ breaker'.state # "halfOpen" =>
       trial # None /\ Pending(trial) /\ ~Pending(trial)']_vars

\* ------------------------------- liveness ---------------------------------

\* However the exchange goes, its caller is not left waiting when the breaker's
\* timer or the HTTP/2 timer watches it.
Settles ==
  \A c \in Calls :
    (Pending(c) /\ (opts.breaker \/ (opts.http2 /\ opts.timeout))) ~> ~Pending(c)

\* An open breaker does not refuse calls for ever: it comes to its trial, and
\* the trial comes to an end.
TrialEnds ==
  /\ (breaker.state = "open") ~> (breaker.state = "halfOpen")
  /\ (breaker.state = "halfOpen" /\ ~breaker.pendingClose)
       ~> (breaker.state # "halfOpen")

\* doc/Configuration.md, originTimeout: the maximum time allowed for a single
\* request to the origin; then it is aborted and reported as ETIMEDOUT.
TimeoutEnds == \A c \in Calls : (Pending(c) /\ opts.timeout) ~> ~Pending(c)
=============================================================================
