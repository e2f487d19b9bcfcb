-------------------------- MODULE FreshnessProperties --------------------------
(***************************************************************************)
(* What the age and freshness arithmetic has to guarantee (Freshness).     *)
(***************************************************************************)
EXTENDS Freshness

\* Ticks since the origin generated or validated what is stored.
TrueAge(e) == now - e.born

\* The age the code computes for an entry never falls short of the true one by
\* a second or more, whatever the network's delays, the caches in between, the
\* origin's clock, a missing Date and the rounding to seconds.
AgeIsConservative ==
  entry # None => Precision * (CalculateAge(entry) + 1) > TrueAge(entry)

\* Why: when the origin was asked is no later than when the answer was generated
\* there, once the Age it arrived with is taken off.
Bounded(hdr, requestTime, born) ==
  Precision * requestTime <= born + Precision * AgeValue(hdr)

\* The bound holds from the request to the stored entry, whatever a 304 merges
\* into its headers (the inductive invariant behind AgeIsConservative).
AgesInv ==
  /\ pc \in {"fetch", "answered"} => Precision * sent <= now
  /\ pc = "answered" =>
       /\ answer # None /\ Bounded(answer.hdr, sent, answer.born)
       /\ answer.code = "304" => entry # None
  /\ entry # None => Bounded(entry.hdr, entry.requestTime, entry.born)

Hit == pc = "lookup" /\ pc' = "idle"

\* The lifetime and the limits of the request hold of the true age, up to a second.
WithinLimits ==
  LET lifetime == CalculateFreshnessLifetime(entry.hdr)
      within(s) == TrueAge(entry) < Precision * (s + 1)
  IN \/ request.maxStale # None /\ within(lifetime + request.maxStale)
     \/ /\ within(lifetime)
        /\ request.maxAge # None => within(request.maxAge)
        /\ request.minFresh # None => within(lifetime - request.minFresh)

\* What is served from the cache keeps, to less than a second, to the lifetime
\* the origin granted and to the limits the client set: max-stale, or else
\* max-age and min-fresh.
HitWithinLimits == [][Hit => WithinLimits]_vars

\* doc/CacheStatus.md: after a 304 the entry's freshness has been refreshed: the
\* next request is a hit.  (A 304 straight from the origin, within the second it
\* was asked for, and an entry without Age: the merge would keep that Age.)
NotModifiedRefreshes ==
  [][(/\ pc = "answered" /\ answer # None /\ answer.code = "304" /\ answer.hdr.age = None
      /\ entry # None /\ entry.hdr.age = None
      /\ resp'.status = "CACHE_HIT_REVALIDATED_304"
      /\ entry' # None /\ entry' = Freshened
      /\ entry'.hdr.date = sent /\ Second(now) = sent
      /\ CalculateFreshnessLifetime(entry'.hdr) \in Nat)
        => ResponseIsFresh(entry', AnyRequest)]_vars
=============================================================================
