----------------------------- MODULE OriginFetch -----------------------------
(***************************************************************************)
(* The requests of one worker to the origin: proxy() and _get() call       *)
(* _fetch() of src/src/modules/origin.js, directly or through the circuit  *)
(* breaker of originBreaker.js.  Each call is an exchange with the origin, *)
(* over HTTP/1.x or as a stream of the shared HTTP/2 session, and a promise *)
(* its caller awaits; the two need not end together.                       *)
(***************************************************************************)
EXTENDS CircuitBreaker, FiniteSets

CONSTANTS
  Calls,                \* calls of _fetch, each made once
  Keys,                 \* cache keys
  KeyOf,                \* the key a call refreshes
  None,                 \* the absent value (null)
  Options,              \* configurations considered
  MaxSessions,          \* BOUND: HTTP/2 sessions opened
  ResetOutlivesTimeout  \* resetTimeout exceeds originTimeout

Sessions == 1 .. MaxSessions
\* http2: http2Options instead of http1xOptions; breaker: originBreaker;
\* timeout: originTimeout is set.
AllOptions == [http2 : BOOLEAN, breaker : BOOLEAN, timeout : BOOLEAN]

ASSUME CallsAssumption == KeyOf \in [Calls -> Keys] /\ None \notin Calls
ASSUME OptionsAssumption ==
  Options \subseteq AllOptions /\ ResetOutlivesTimeout \in BOOLEAN
ASSUME SessionsAssumption == MaxSessions \in Nat \ {0} /\ None \notin Sessions

VARIABLES
  opts,         \* the configuration of this origin
  breaker,      \* server.originBreaker
  trial,        \* the call the half-open breaker let through, or None
  http2Session, \* server.http2Session: the index of the current one, or None
  sessions,     \* per session: unused, open, closed (no new streams), destroyed
  promise,      \* per call: none, pending, resolved, rejected
  code,         \* per call: error.code of the rejection
  exchange,     \* per call: none, sent, head (the response has begun), over
  stream,       \* per call: the session of its stream, or None
  timer         \* per call: a timer of originTimeout, or of the breaker, is set

link == <<http2Session, sessions>>
vars == <<opts, breaker, trial, link, promise, code, exchange, stream, timer>>

Codes == {"none", "ETIMEDOUT", "EOPENBREAKER", "other"}
SessionStates == {"unused", "open", "closed", "destroyed"}

TypeOK ==
  /\ opts \in Options
  /\ breaker \in Breakers
  /\ trial \in Calls \cup {None}
  /\ http2Session \in Sessions \cup {None}
  /\ sessions \in [Sessions -> SessionStates]
  /\ promise \in [Calls -> {"none", "pending", "resolved", "rejected"}]
  /\ code \in [Calls -> Codes]
  /\ exchange \in [Calls -> {"none", "sent", "head", "over"}]
  /\ stream \in [Calls -> Sessions \cup {None}]
  /\ timer \in [Calls -> BOOLEAN]

Init ==
  /\ opts \in Options
  /\ breaker = Closed
  /\ trial = None
  /\ http2Session = None
  /\ sessions = [s \in Sessions |-> "unused"]
  /\ promise = [c \in Calls |-> "none"]
  /\ code = [c \in Calls |-> "none"]
  /\ exchange = [c \in Calls |-> "none"]
  /\ stream = [c \in Calls |-> None]
  /\ timer = [c \in Calls |-> FALSE]

Pending(c) == promise[c] = "pending"
AtOrigin(c) == exchange[c] \in {"sent", "head"}
\* The stream's session has not been torn down under it.
Connected(c) == stream[c] # None => sessions[stream[c]] # "destroyed"

-----------------------------------------------------------------------------
(* Starting a call *)

\* mutant: every call connects anew
SessionValid_Never == FALSE
SessionValid == http2Session # None /\ sessions[http2Session] = "open"
Unused == {s \in Sessions : sessions[s] = "unused"}

\* getValidHttp2Session: the current session, or a new one in its place.
GetValidHttp2Session(c) ==
  IF ~opts.http2
  THEN UNCHANGED <<link, stream>>
  ELSE IF SessionValid
       THEN stream' = [stream EXCEPT ![c] = http2Session] /\ UNCHANGED link
       ELSE \E s \in Unused :
              /\ \A q \in Unused : s <= q
              /\ http2Session' = s
              /\ sessions' = [sessions EXCEPT ![s] = "open"]
              /\ stream' = [stream EXCEPT ![c] = s]

\* mutant: the breaker's own default timeout is disabled
Armed_OptionOnly == opts.timeout
\* A timer runs: the breaker's (10 seconds unless originTimeout is set), or
\* without a breaker the one _fetch sets for originTimeout.
Armed == opts.breaker \/ opts.timeout

\* Coalescing keeps a key's other requests away until the promise settles.
Coalesced(c) == \A d \in Calls : KeyOf[d] = KeyOf[c] => ~Pending(d)

Fetch(c) ==
  /\ promise[c] = "none" /\ Coalesced(c)
  /\ opts.breaker => Admits(breaker)
  /\ promise' = [promise EXCEPT ![c] = "pending"]
  /\ exchange' = [exchange EXCEPT ![c] = "sent"]
  /\ timer' = [timer EXCEPT ![c] = Armed]
  /\ GetValidHttp2Session(c)
  /\ breaker' = IF opts.breaker THEN Admitted(breaker) ELSE breaker
  /\ trial' = IF breaker.state = "halfOpen" THEN c ELSE trial
  /\ UNCHANGED <<opts, code>>

Refused(c) ==
  /\ promise[c] = "none" /\ Coalesced(c)
  /\ opts.breaker /\ ~Admits(breaker)
  /\ promise' = [promise EXCEPT ![c] = "rejected"]
  /\ code' = [code EXCEPT ![c] = "EOPENBREAKER"]
  /\ UNCHANGED <<opts, breaker, trial, link, exchange, stream, timer>>

-----------------------------------------------------------------------------
(* The end of a call *)

\* What the breaker makes of an outcome it still waits for.
Counted(c, outcomes) ==
  breaker' \in IF opts.breaker /\ Pending(c) THEN outcomes ELSE {breaker}
Reject(c, why) ==
  /\ promise' = IF Pending(c) THEN [promise EXCEPT ![c] = "rejected"] ELSE promise
  /\ code' = IF Pending(c) THEN [code EXCEPT ![c] = why] ELSE code

\* The origin has begun to answer.
ResponseHead(c) ==
  /\ exchange[c] = "sent" /\ Connected(c)
  /\ exchange' = [exchange EXCEPT ![c] = "head"]
  /\ UNCHANGED <<opts, breaker, trial, link, promise, code, stream, timer>>

\* `end' of the response: the promise resolves, unless it has been rejected.
ResponseEnd(c) ==
  /\ exchange[c] = "head" /\ Connected(c)
  /\ exchange' = [exchange EXCEPT ![c] = "over"]
  /\ promise' = IF Pending(c) THEN [promise EXCEPT ![c] = "resolved"] ELSE promise
  /\ timer' = [timer EXCEPT ![c] = FALSE]
  /\ Counted(c, {Succeeded(breaker)})
  /\ UNCHANGED <<opts, trial, link, code, stream>>

\* `error' of the request or of the stream.  _fetchHttp1x leaves its timer set.
RequestError(c) ==
  /\ AtOrigin(c)
  /\ exchange' = [exchange EXCEPT ![c] = "over"]
  /\ Reject(c, "other")
  /\ timer' = [timer EXCEPT ![c] = @ /\ ~opts.http2 /\ ~opts.breaker]
  /\ Counted(c, Failed(breaker))
  /\ UNCHANGED <<opts, trial, link, stream>>

\* The connection ends in the middle of an HTTP/1.x response: Node.js reports
\* it on the response, where _fetchHttp1x does not listen, and nowhere else.
CutOff(c) ==
  /\ ~opts.http2 /\ exchange[c] = "head"
  /\ exchange' = [exchange EXCEPT ![c] = "over"]
  /\ UNCHANGED <<opts, breaker, trial, link, promise, code, stream, timer>>

\* The breaker's timer: it rejects; the request is left alone.
BreakerTimeout(c) ==
  /\ timer[c] /\ opts.breaker
  /\ timer' = [timer EXCEPT ![c] = FALSE]
  /\ Reject(c, "ETIMEDOUT")
  /\ Counted(c, Failed(breaker))
  /\ UNCHANGED <<opts, trial, link, exchange, stream>>

\* mutant: the stream is not closed
Cancelled_StreamLeft(c) == exchange
\* mutant: an aborted exchange is in a state of its own, unknown elsewhere
Cancelled_Forgotten(c) == [exchange EXCEPT ![c] = "aborted"]
Cancelled(c) == [exchange EXCEPT ![c] = "over"]

\* _fetchHttp2's timer: close the stream and reject.
StreamTimeout(c) ==
  /\ timer[c] /\ ~opts.breaker /\ opts.http2
  /\ timer' = [timer EXCEPT ![c] = FALSE]
  /\ exchange' = Cancelled(c)
  /\ Reject(c, "ETIMEDOUT")
  /\ UNCHANGED <<opts, breaker, trial, link, stream>>

\* _fetchHttp1x's timer: abort the request, whose `error' rejects.  Once the
\* response has begun the error may be reported on it alone; once the exchange
\* is over nothing is.
RequestTimeout(c) ==
  /\ timer[c] /\ ~opts.breaker /\ ~opts.http2
  /\ timer' = [timer EXCEPT ![c] = FALSE]
  /\ exchange' = Cancelled(c)
  /\ \/ AtOrigin(c) /\ Reject(c, "ETIMEDOUT")
     \/ exchange[c] # "sent" /\ UNCHANGED <<promise, code>>
  /\ UNCHANGED <<opts, breaker, trial, link, stream>>

-----------------------------------------------------------------------------
(* The environment *)

\* resetTimeout has passed since the breaker opened.
HalfOpen ==
  /\ ResetDue(breaker)
  /\ ResetOutlivesTimeout => \A c \in Calls : ~Pending(c)
  /\ breaker' = HalfOpened
  /\ trial' = None
  /\ UNCHANGED <<opts, link, promise, code, exchange, stream, timer>>

\* The origin sends GOAWAY (its streams go on), or the connection is lost.
SessionEnds(how) ==
  /\ Unused # {}
  /\ \E s \in Sessions :
       /\ \/ sessions[s] = "open"
          \/ sessions[s] = "closed" /\ how = "destroyed"
       /\ sessions' = [sessions EXCEPT ![s] = how]
  /\ UNCHANGED <<opts, breaker, trial, http2Session, promise, code, exchange,
                 stream, timer>>

-----------------------------------------------------------------------------
Timeout(c) == BreakerTimeout(c) \/ StreamTimeout(c) \/ RequestTimeout(c)

\* The origin is idle, and a call not made waits for the promise of one that
\* was cut off.
Finished ==
  /\ \A c \in Calls : ~AtOrigin(c) /\ (promise[c] = "none" => ~Coalesced(c))
  /\ UNCHANGED vars

Next ==
  \/ \E c \in Calls :
       \/ Fetch(c) \/ Refused(c)
       \/ ResponseHead(c) \/ ResponseEnd(c) \/ RequestError(c) \/ CutOff(c)
       \/ Timeout(c)
  \/ HalfOpen
  \/ \E how \in {"closed", "destroyed"} : SessionEnds(how)
  \/ Finished

Spec == Init /\ [][Next]_vars

\* Timers fire.  The origin need not answer.
Fairness == (\A c \in Calls : WF_vars(Timeout(c))) /\ WF_vars(HalfOpen)
FairSpec == Spec /\ Fairness
=============================================================================
