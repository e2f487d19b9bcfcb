-------------------------- MODULE OriginFetchProofs --------------------------
(***************************************************************************)
(* Proofs about OriginFetch, for any calls, keys, configurations and       *)
(* number of sessions.                                                     *)
(***************************************************************************)
EXTENDS OriginFetchProperties, TLAPS

USE CallsAssumption, OptionsAssumption, SessionsAssumption

-----------------------------------------------------------------------------
(* Types *)

\* Calls and their outcomes take a breaker from state to state.
LEMMA BreakerTypes ==
  /\ Closed \in Breakers /\ Opened \in Breakers /\ HalfOpened \in Breakers
  /\ \A b \in Breakers : /\ Admitted(b) \in Breakers
                         /\ Succeeded(b) \in Breakers
                         /\ Failed(b) \subseteq Breakers
<1>1. Closed \in Breakers /\ Opened \in Breakers /\ HalfOpened \in Breakers
  BY DEF Breakers, States, Closed, Opened, HalfOpened
<1>2. \A b \in Breakers : Failed(b) \subseteq {b, Opened}
  BY DEF Breakers, States, Failed
<1> QED BY <1>1, <1>2 DEF Breakers, Admitted, Succeeded

\* The parts of TypeOK that the end of a call touches.
LEMMA EndTypes ==
  ASSUME TypeOK, NEW c \in Calls, NEW why \in Codes
  PROVE  /\ \A outcomes \in SUBSET Breakers :
              Counted(c, outcomes) => breaker' \in Breakers
         /\ Reject(c, why) =>
              /\ promise' \in [Calls -> {"none", "pending", "resolved", "rejected"}]
              /\ code' \in [Calls -> Codes]
         /\ Cancelled(c) \in [Calls -> {"none", "sent", "head", "over"}]
  BY DEF TypeOK, Counted, Reject, Cancelled

LEMMA FetchTypes ==
  ASSUME TypeOK, NEW c \in Calls, Fetch(c)
  PROVE  TypeOK'
<1>1. /\ http2Session' \in Sessions \cup {None}
      /\ sessions' \in [Sessions -> SessionStates]
      /\ stream' \in [Calls -> Sessions \cup {None}]
  <2>1. CASE UNCHANGED <<link, stream>>
    BY <2>1 DEF TypeOK, link
  <2>2. CASE SessionValid /\ stream' = [stream EXCEPT ![c] = http2Session] /\ UNCHANGED link
    BY <2>2 DEF TypeOK, link
  <2>3. ASSUME NEW s \in Unused, http2Session' = s,
               sessions' = [sessions EXCEPT ![s] = "open"],
               stream' = [stream EXCEPT ![c] = s]
        PROVE  /\ http2Session' \in Sessions \cup {None}
               /\ sessions' \in [Sessions -> SessionStates]
               /\ stream' \in [Calls -> Sessions \cup {None}]
    BY <2>3 DEF TypeOK, Unused, SessionStates
  <2> QED BY <2>1, <2>2, <2>3 DEF Fetch, GetValidHttp2Session
<1>2. breaker' \in Breakers
  BY BreakerTypes DEF Fetch, TypeOK
<1>3. Armed \in BOOLEAN
  BY DEF TypeOK, Armed, AllOptions
<1> QED BY <1>1, <1>2, <1>3 DEF Fetch, TypeOK, Codes

\* Every reachable state of OriginFetch is well typed.
THEOREM TypeCorrect == Spec => []TypeOK
<1>1. Init => TypeOK
  BY BreakerTypes DEF Init, TypeOK, Codes, SessionStates
<1>2. TypeOK /\ [Next]_vars => TypeOK'
  <2> SUFFICES ASSUME TypeOK, [Next]_vars PROVE TypeOK'
    OBVIOUS
  <2> USE DEF Codes
  <2>0. breaker \in Breakers /\ Succeeded(breaker) \in Breakers
        /\ Failed(breaker) \subseteq Breakers /\ HalfOpened \in Breakers
    BY BreakerTypes DEF TypeOK
  <2>1. ASSUME NEW c \in Calls, Fetch(c) PROVE TypeOK'
    BY <2>1, FetchTypes
  <2>2. ASSUME NEW c \in Calls, Refused(c) PROVE TypeOK'
    BY <2>2 DEF TypeOK, Refused, link
  <2>3. ASSUME NEW c \in Calls, ResponseHead(c) PROVE TypeOK'
    BY <2>3 DEF TypeOK, ResponseHead, link
  <2>4. ASSUME NEW c \in Calls, ResponseEnd(c) PROVE TypeOK'
    BY <2>4, <2>0, EndTypes DEF TypeOK, ResponseEnd, link
  <2>5. ASSUME NEW c \in Calls, RequestError(c) PROVE TypeOK'
    <3>1. (timer[c] /\ ~opts.http2 /\ ~opts.breaker) \in BOOLEAN
      OBVIOUS
    <3> QED BY <2>5, <2>0, <3>1, EndTypes DEF TypeOK, RequestError, link
  <2>6. ASSUME NEW c \in Calls, CutOff(c) PROVE TypeOK'
    BY <2>6 DEF TypeOK, CutOff, link
  <2>7. ASSUME NEW c \in Calls, BreakerTimeout(c) PROVE TypeOK'
    BY <2>7, <2>0, EndTypes DEF TypeOK, BreakerTimeout, link
  <2>8. ASSUME NEW c \in Calls, StreamTimeout(c) PROVE TypeOK'
    BY <2>8, EndTypes DEF TypeOK, StreamTimeout, link
  <2>9. ASSUME NEW c \in Calls, RequestTimeout(c) PROVE TypeOK'
    BY <2>9, EndTypes DEF TypeOK, RequestTimeout, link
  <2>10. CASE HalfOpen
    BY <2>10, <2>0 DEF TypeOK, HalfOpen, link
  <2>11. ASSUME NEW how \in {"closed", "destroyed"}, SessionEnds(how) PROVE TypeOK'
    BY <2>11 DEF TypeOK, SessionEnds, SessionStates
  <2>12. CASE Finished \/ UNCHANGED vars
    BY <2>12 DEF TypeOK, Finished, vars, link
  <2> QED BY <2>1, <2>2, <2>3, <2>4, <2>5, <2>6, <2>7, <2>8, <2>9, <2>10, <2>11, <2>12
          DEF Next, Timeout
<1> QED BY <1>1, <1>2, PTL DEF Spec

-----------------------------------------------------------------------------
(* One exchange per key *)

\* Coalescing keeps the pending calls of a key apart, and without a breaker an
\* exchange goes on only while its caller waits.
Accompanied ==
  /\ \A c, d \in Calls : Pending(c) /\ Pending(d) /\ KeyOf[c] = KeyOf[d] => c = d
  /\ ~opts.breaker => \A c \in Calls : AtOrigin(c) => Pending(c)

LEMMA AccompaniedStep ==
  ASSUME TypeOK, Accompanied, [Next]_vars
  PROVE  Accompanied'
<1> USE DEF Pending, AtOrigin
<1>1. ASSUME NEW c \in Calls, Fetch(c) PROVE Accompanied'
  BY <1>1 DEF Accompanied, Fetch, Coalesced, TypeOK
<1>2. ASSUME NEW c \in Calls, Refused(c) PROVE Accompanied'
  BY <1>2 DEF Accompanied, Refused, TypeOK
<1>3. ASSUME NEW c \in Calls, ResponseHead(c) PROVE Accompanied'
  BY <1>3 DEF Accompanied, ResponseHead, TypeOK
<1>4. ASSUME NEW c \in Calls, ResponseEnd(c) PROVE Accompanied'
  BY <1>4 DEF Accompanied, ResponseEnd, TypeOK
<1>5. ASSUME NEW c \in Calls, RequestError(c) PROVE Accompanied'
  BY <1>5 DEF Accompanied, RequestError, Reject, TypeOK
<1>6. ASSUME NEW c \in Calls, CutOff(c) PROVE Accompanied'
  BY <1>6 DEF Accompanied, CutOff, TypeOK
<1>7. ASSUME NEW c \in Calls, BreakerTimeout(c) PROVE Accompanied'
  BY <1>7 DEF Accompanied, BreakerTimeout, Reject, TypeOK
<1>8. ASSUME NEW c \in Calls, StreamTimeout(c) PROVE Accompanied'
  BY <1>8 DEF Accompanied, StreamTimeout, Cancelled, Reject, TypeOK
<1>9. ASSUME NEW c \in Calls, RequestTimeout(c) PROVE Accompanied'
  BY <1>9 DEF Accompanied, RequestTimeout, Cancelled, Reject, TypeOK
<1>10. CASE HalfOpen \/ (\E how \in {"closed", "destroyed"} : SessionEnds(how))
            \/ Finished \/ UNCHANGED vars
  BY <1>10 DEF Accompanied, HalfOpen, SessionEnds, Finished, vars
<1> QED BY <1>1, <1>2, <1>3, <1>4, <1>5, <1>6, <1>7, <1>8, <1>9, <1>10
        DEF Next, Timeout

\* Where _fetch keeps its own timer, a key has one request at the origin, however
\* requests end, sessions fail and answers are late.
THEOREM OneRequestPerKey == Spec => []OwnTimeoutAborts
<1>1. Init => Accompanied
  BY DEF Init, Accompanied, Pending, AtOrigin
<1>2. TypeOK /\ Accompanied /\ [Next]_vars => Accompanied'
  BY AccompaniedStep
<1>3. Accompanied => OwnTimeoutAborts
  BY DEF Accompanied, OwnTimeoutAborts, OneAtOrigin
<1> QED BY <1>1, <1>2, <1>3, TypeCorrect, PTL DEF Spec

-----------------------------------------------------------------------------
(* The breaker's trial *)

\* Without a breaker there is none to be half open.
TrialInv == SingleTrial /\ (~opts.breaker => breaker.state = "closed")

\* What an outcome does to the breaker: if it counts, it decides.
LEMMA Decided ==
  ASSUME TypeOK, NEW c \in Calls, NEW outcomes,
         outcomes \in {{Succeeded(breaker)}, Failed(breaker)},
         Counted(c, outcomes)
  PROVE  /\ ~Pending(c) \/ ~opts.breaker => breaker' = breaker
         /\ opts.breaker /\ Pending(c) => breaker'.state # "halfOpen"
<1>1. breaker.state \in {"closed", "open", "halfOpen"}
  BY DEF TypeOK, Breakers, States
<1>2. Succeeded(breaker).state # "halfOpen"
  BY <1>1 DEF Succeeded, Closed
<1>3. \A b \in Failed(breaker) : b.state # "halfOpen"
  BY <1>1 DEF Failed, Opened
<1> QED BY <1>2, <1>3 DEF Counted

\* A call that ends leaves at most the others pending.
LEMMA TrialEnd ==
  ASSUME TypeOK, TrialInv, NEW c \in Calls, NEW outcomes,
         outcomes \in {{Succeeded(breaker)}, Failed(breaker)},
         Counted(c, outcomes),
         UNCHANGED <<opts, trial>>,
         \A d \in Calls : Pending(d)' => Pending(d)
  PROVE  TrialInv'
<1>1. CASE opts.breaker /\ Pending(c)
  BY <1>1, Decided DEF TrialInv, SingleTrial
<1>2. CASE ~(opts.breaker /\ Pending(c))
  BY <1>2, Decided DEF TrialInv, SingleTrial
<1> QED BY <1>1, <1>2

LEMMA TrialStep ==
  ASSUME ResetOutlivesTimeout, TypeOK, TrialInv, [Next]_vars
  PROVE  TrialInv'
<1>1. ASSUME NEW c \in Calls, Fetch(c) PROVE TrialInv'
  <2>1. breaker'.state = breaker.state
    BY <1>1 DEF Fetch, Admitted, TypeOK, Breakers
  <2>2. ASSUME breaker.state = "halfOpen" PROVE SingleTrial'
    <3>1. opts.breaker /\ breaker.pendingClose
      BY <1>1, <2>2 DEF Fetch, Admits, TrialInv
    <3>2. \A d \in Calls : ~Pending(d)
      BY <2>2, <3>1 DEF TrialInv, SingleTrial
    <3>3. breaker'.pendingClose = FALSE /\ trial' = c
      BY <1>1, <2>2, <3>1 DEF Fetch, Admitted, TypeOK, Breakers
    <3> QED BY <1>1, <3>2, <3>3 DEF Fetch, SingleTrial, Pending, TypeOK
  <2> QED BY <1>1, <2>1, <2>2 DEF TrialInv, SingleTrial, Fetch
<1>2. ASSUME NEW c \in Calls, Refused(c) PROVE TrialInv'
  BY <1>2 DEF TrialInv, SingleTrial, Refused, Pending, TypeOK
<1>3. ASSUME NEW c \in Calls, ResponseHead(c) \/ CutOff(c) PROVE TrialInv'
  BY <1>3 DEF TrialInv, SingleTrial, ResponseHead, CutOff, Pending
<1>4. ASSUME NEW c \in Calls, ResponseEnd(c) PROVE TrialInv'
  <2>1. \A d \in Calls : Pending(d)' => Pending(d)
    BY <1>4 DEF ResponseEnd, Pending, TypeOK
  <2> QED BY <1>4, <2>1, TrialEnd DEF ResponseEnd
<1>5. ASSUME NEW c \in Calls, RequestError(c) \/ BreakerTimeout(c) PROVE TrialInv'
  <2>1. \A d \in Calls : Pending(d)' => Pending(d)
    BY <1>5 DEF RequestError, BreakerTimeout, Reject, Pending, TypeOK
  <2> QED BY <1>5, <2>1, TrialEnd DEF RequestError, BreakerTimeout
<1>6. ASSUME NEW c \in Calls, StreamTimeout(c) \/ RequestTimeout(c) PROVE TrialInv'
  <2>1. \A d \in Calls : Pending(d)' => Pending(d)
    BY <1>6 DEF StreamTimeout, RequestTimeout, Reject, Pending, TypeOK
  <2> QED BY <1>6, <2>1 DEF StreamTimeout, RequestTimeout, TrialInv, SingleTrial
<1>7. CASE HalfOpen
  BY <1>7 DEF HalfOpen, ResetDue, TrialInv, SingleTrial, Pending
<1>8. CASE (\E how \in {"closed", "destroyed"} : SessionEnds(how))
           \/ Finished \/ UNCHANGED vars
  BY <1>8 DEF SessionEnds, Finished, vars, TrialInv, SingleTrial, Pending
<1> QED BY <1>1, <1>2, <1>3, <1>4, <1>5, <1>6, <1>7, <1>8 DEF Next, Timeout

\* A half-open breaker lets one call through, and no older call is still to be
\* decided, if resetTimeout exceeds the calls' timeout.
THEOREM OneTrial ==
  ASSUME ResetOutlivesTimeout
  PROVE  Spec => []SingleTrial
<1>1. Init => TrialInv
  BY DEF Init, TrialInv, SingleTrial, Closed
<1>2. TypeOK /\ TrialInv /\ [Next]_vars => TrialInv'
  BY TrialStep
<1>3. TrialInv => SingleTrial
  BY DEF TrialInv
<1> QED BY <1>1, <1>2, <1>3, TypeCorrect, PTL DEF Spec

\* Whether a half-open breaker closes or opens again is decided by the outcome
\* of its trial, under the same condition.
THEOREM TrialAlone ==
  ASSUME ResetOutlivesTimeout
  PROVE  Spec => TrialDecides
<1> DEFINE Decides == breaker.state = "halfOpen" /\ breaker'.state # "halfOpen"
                        => trial # None /\ Pending(trial) /\ ~Pending(trial)'
<1>1. ASSUME TypeOK, SingleTrial, [Next]_vars PROVE Decides
  <2> USE <1>1
  <2> SUFFICES ASSUME breaker.state = "halfOpen", breaker'.state # "halfOpen"
               PROVE  trial # None /\ Pending(trial) /\ ~Pending(trial)'
    OBVIOUS
  <2>1. ASSUME NEW c \in Calls, Fetch(c) PROVE FALSE
    BY <2>1 DEF Fetch, Admitted, TypeOK, Breakers
  <2>2. ASSUME NEW c \in Calls,
               ResponseEnd(c) \/ RequestError(c) \/ BreakerTimeout(c)
        PROVE  Pending(c) /\ ~Pending(c)' /\ trial' = trial
    <3>1. Pending(c)
      BY <2>2 DEF ResponseEnd, RequestError, BreakerTimeout, Counted
    <3>2. promise'[c] \in {"resolved", "rejected"}
      BY <2>2, <3>1 DEF ResponseEnd, RequestError, BreakerTimeout, Reject, TypeOK
    <3> QED BY <2>2, <3>1, <3>2 DEF ResponseEnd, RequestError, BreakerTimeout, Pending
  <2>3. ~HalfOpen
    BY DEF HalfOpen, ResetDue
  <2>4. ASSUME NEW c \in Calls,
               Refused(c) \/ ResponseHead(c) \/ CutOff(c) \/ StreamTimeout(c)
                 \/ RequestTimeout(c)
        PROVE  FALSE
    BY <2>4 DEF Refused, ResponseHead, CutOff, StreamTimeout, RequestTimeout
  <2>5. /\ \A how \in {"closed", "destroyed"} : ~SessionEnds(how)
        /\ ~Finished
        /\ ~UNCHANGED vars
    BY DEF SessionEnds, Finished, vars
  <2>6. \E c \in Calls : Pending(c) /\ ~Pending(c)' /\ trial' = trial
    BY <2>1, <2>2, <2>3, <2>4, <2>5 DEF Next, Timeout
  <2>7. PICK c \in Calls : Pending(c) /\ ~Pending(c)' /\ trial' = trial
    BY <2>6
  <2> QED BY <2>7 DEF SingleTrial
<1>2. ResetOutlivesTimeout /\ Spec => []SingleTrial
  BY OneTrial
<1> QED BY <1>1, <1>2, TypeCorrect, PTL DEF Spec, TrialDecides

-----------------------------------------------------------------------------
(* Sessions *)

LEMMA SessionStep ==
  ASSUME TypeOK, OneSession, [Next]_vars
  PROVE  OneSession'
<1>1. ASSUME NEW c \in Calls, Fetch(c) PROVE OneSession'
  <2>1. CASE UNCHANGED link
    BY <2>1 DEF link, OneSession
  <2>2. ASSUME ~SessionValid, NEW s \in Unused,
               http2Session' = s, sessions' = [sessions EXCEPT ![s] = "open"]
        PROVE  OneSession'
    <3>1. \A q \in Sessions : sessions[q] # "open"
      BY <2>2 DEF OneSession, SessionValid, TypeOK
    <3> QED BY <2>2, <3>1 DEF OneSession, TypeOK, Unused
  <2> QED BY <1>1, <2>1, <2>2 DEF Fetch, GetValidHttp2Session
<1>2. ASSUME NEW how \in {"closed", "destroyed"}, SessionEnds(how) PROVE OneSession'
  BY <1>2 DEF SessionEnds, OneSession, TypeOK
<1>3. CASE UNCHANGED link
  BY <1>3 DEF link, OneSession
<1> QED BY <1>1, <1>2, <1>3
        DEF Next, Timeout, Refused, ResponseHead, ResponseEnd, RequestError, CutOff,
            BreakerTimeout, StreamTimeout, RequestTimeout, HalfOpen, Finished, vars

\* However often sessions close or are lost there is one usable session, and it
\* is the current one.
THEOREM UsableSession == Spec => []OneSession
<1>1. Init => OneSession
  BY DEF Init, OneSession
<1>2. TypeOK /\ OneSession /\ [Next]_vars => OneSession'
  BY SessionStep
<1> QED BY <1>1, <1>2, TypeCorrect, PTL DEF Spec
=============================================================================
