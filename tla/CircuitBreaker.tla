--------------------------- MODULE CircuitBreaker ---------------------------
(***************************************************************************)
(* The circuit breaker of the library opossum, as redis.js and             *)
(* originBreaker.js use it: its own coalescing and cache switched off, no  *)
(* fallback, no limit on concurrent calls.  Only what decides whether a    *)
(* call is admitted is kept; the rolling statistics that say when failures *)
(* are too many are a free choice.                                         *)
(***************************************************************************)
EXTENDS Integers

States == {"closed", "open", "halfOpen"}

\* pendingClose: the half-open breaker still has its trial call to give away.
Breakers == [state : States, pendingClose : BOOLEAN]

Closed == [state |-> "closed", pendingClose |-> FALSE]
Opened == [state |-> "open", pendingClose |-> FALSE]
HalfOpened == [state |-> "halfOpen", pendingClose |-> TRUE]

\* fire(): a call that is not admitted is rejected with EOPENBREAKER.
Admits(b) == b.state = "closed" \/ b.pendingClose
\* mutant: the trial call does not use up the permission
Admitted_AllTrials(b) == b
Admitted(b) == [b EXCEPT !.pendingClose = FALSE]

\* The outcome of an admitted call: a success closes a half-open breaker; a
\* failure or a timeout opens it, as it does a closed one when there have been
\* volumeThreshold calls and too many of them failed.
Succeeded(b) == IF b.state = "halfOpen" THEN Closed ELSE b
Failed(b) == CASE b.state = "closed"   -> {b, Opened}
               [] b.state = "halfOpen" -> {Opened}
               [] b.state = "open"     -> {b}

\* resetTimeout after it opened, the breaker lets one call through.
ResetDue(b) == b.state = "open"
=============================================================================
