--------------------------- MODULE PipelineProofs ---------------------------
(***************************************************************************)
(* Proofs about Pipeline, for any clients, versions, patterns and methods. *)
(***************************************************************************)
EXTENDS PipelineProperties, FiniteSetTheorems, SequenceTheorems, TLAPS

USE PipelineAssumption

\* The history of a stored body, as the fetcher alone makes it.
StoredDone(v) ==
  IF v \in Untransformed THEN {<<>>}
  ELSE {<<"OriginResponse">>, <<"OriginResponse", "CacheRequest">>}

\* The inductive invariant: JSON.SET stores what the fetcher has cloned before
\* its followers resumed, JSON.MERGE leaves a body alone.
EntryHistory ==
  entry # None /\ entry.body # None => entry.body.done \in StoredDone(entry.body.version)

LEMMA AppendToOne ==
  ASSUME NEW a, NEW b
  PROVE  Append(<<a>>, b) = <<a, b>>
<1> DEFINE S == {a, b}
           longer == Append(<<a>>, b)
           two == <<a, b>>
<1>1. <<a>> \in Seq(S) /\ Len(<<a>>) = 1 /\ <<a>>[1] = a
  OBVIOUS
<1>2. longer \in Seq(S) /\ Len(longer) = 2 /\ longer[1] = a /\ longer[2] = b
  <2>1. longer \in Seq(S)
    BY <1>1
  <2>2. Len(longer) = 2
    BY <1>1
  <2>3. longer[1] = a /\ longer[2] = b
    BY <1>1
  <2> QED BY <2>1, <2>2, <2>3
<1>3. two \in Seq(S) /\ Len(two) = 2 /\ two[1] = a /\ two[2] = b
  OBVIOUS
<1> HIDE DEF longer, two
<1>4. \A i \in 1 .. Len(longer) : longer[i] = two[i]
  BY <1>2, <1>3
<1>5. longer = two
  BY <1>2, <1>3, <1>4, SeqEqual
<1> QED BY <1>5 DEF longer, two

\* The object that only the fetcher has transformed.
LEMMA SharedByOne ==
  /\ Shared(1).etag = version /\ Shared(1).body.version = version
  /\ version \in Untransformed => Shared(1).body.done = <<>>
  /\ version \notin Untransformed => Shared(1).body.done = <<"OriginResponse">>
<1>1. [i \in 1 .. 1 |-> "OriginResponse"] = <<"OriginResponse">>
  OBVIOUS
<1> QED BY <1>1 DEF Shared

LEMMA StoredHistory == Stored.body # None => Stored.body.done \in StoredDone(Stored.body.version)
<1> DEFINE rsp == Shared(1)
<1>1. Stored.body = Through("CacheRequest", rsp, FALSE).body
  BY DEF Stored
<1>2. CASE rsp.body = None \/ version \in Untransformed \/ Anchored
  <2>1. Stored.body = rsp.body
    BY <1>1, <1>2, SharedByOne DEF Through
  <2> QED BY <2>1, SharedByOne DEF StoredDone
<1>3. CASE rsp.body # None /\ version \notin Untransformed /\ ~Anchored
  <2>1. Stored.body = [rsp EXCEPT !.body.done = Append(@, "CacheRequest")].body
    BY <1>1, <1>3, SharedByOne DEF Through
  <2>2. Stored.body = [rsp.body EXCEPT !.done = Append(@, "CacheRequest")]
    BY <2>1 DEF Shared
  <2>3. Stored.body.version = version /\ Stored.body.done = Append(rsp.body.done, "CacheRequest")
    BY <2>2 DEF Shared
  <2>4. Append(<<"OriginResponse">>, "CacheRequest") = <<"OriginResponse", "CacheRequest">>
    BY AppendToOne
  <2> QED BY <1>3, <2>3, <2>4, SharedByOne DEF StoredDone
<1> QED BY <1>2, <1>3

\* What the steps do to the entry.
LEMMA EntrySteps ==
  ASSUME Next
  PROVE  \/ entry' \in {entry, None, Stored}
         \/ entry # None /\ entry' = [entry EXCEPT !.stale = TRUE]
         \/ \E etag : entry' = Merged(etag)
<1>1. ASSUME NEW p \in Policies, NewResponse(p) PROVE entry' \in {entry, None, Stored}
  BY <1>1 DEF NewResponse
<1>2. ASSUME NEW p \in Policies, NotModified(p)
      PROVE  entry' \in {entry, None} \/ \E etag : entry' = Merged(etag)
  BY <1>2 DEF NotModified
<1> QED BY <1>1, <1>2 DEF Next, Arrive, Hit, Fetch, Reply, Proxied, OriginFails, Changes,
        Ages, Vanishes

\* What such histories mean for EntryPhases.
LEMMA HistoryPhases ==
  ASSUME NEW b, NEW done, b.done = done,
         done \in {<<"OriginResponse">>, <<"OriginResponse", "CacheRequest">>}
  PROVE  /\ Head(done) = "OriginResponse" /\ Len(done) <= 2
         /\ Times("OriginResponse", b) = 1 /\ Times("CacheRequest", b) <= 1
         /\ Times("CacheResponse", b) = 0 /\ Times("ClientResponse", b) = 0
<1>0. /\ {i \in DOMAIN done : done[i] = "CacheResponse"} = {}
      /\ {i \in DOMAIN done : done[i] = "ClientResponse"} = {}
  OBVIOUS
<1>3. Times("CacheResponse", b) = 0 /\ Times("ClientResponse", b) = 0
  BY <1>0, FS_EmptySet DEF Times
<1>1. CASE done = <<"OriginResponse">>
  <2>1. {i \in DOMAIN done : done[i] = "OriginResponse"} = {1}
        /\ {i \in DOMAIN done : done[i] = "CacheRequest"} = {}
    BY <1>1
  <2>2. Cardinality({1}) = 1 /\ Cardinality({}) = 0
    BY FS_Singleton, FS_EmptySet
  <2> QED BY <1>1, <1>3, <2>1, <2>2 DEF Times
<1>2. CASE done = <<"OriginResponse", "CacheRequest">>
  <2>1. {i \in DOMAIN done : done[i] = "OriginResponse"} = {1}
        /\ {i \in DOMAIN done : done[i] = "CacheRequest"} = {2}
    BY <1>2
  <2>2. Cardinality({1}) = 1 /\ Cardinality({2}) = 1
    BY FS_Singleton
  <2> QED BY <1>2, <1>3, <2>1, <2>2 DEF Times
<1> QED BY <1>1, <1>2

\* Whoever fetches, follows, revalidates or purges, a stored body has gone
\* through ORIGIN_RESPONSE once and through no phase of the way out.
THEOREM StoredOnce == Spec => []EntryPhases
<1>1. Init => EntryHistory
  BY DEF Init, EntryHistory
<1>2. EntryHistory /\ [Next]_vars => EntryHistory'
  <2> SUFFICES ASSUME EntryHistory, Next PROVE EntryHistory'
    BY DEF EntryHistory, vars, StoredDone
  <2>1. CASE entry' \in {entry, None, Stored}
    BY <2>1, StoredHistory DEF EntryHistory, StoredDone
  <2>2. CASE entry # None /\ entry' = [entry EXCEPT !.stale = TRUE]
    <3>1. entry'.body = entry.body
      BY <2>2
    <3> QED BY <2>2, <3>1 DEF EntryHistory, StoredDone
  <2>3. ASSUME NEW etag, entry' = Merged(etag) PROVE EntryHistory'
    BY <2>3 DEF Merged, EntryHistory, StoredDone
  <2> QED BY <2>1, <2>2, <2>3, EntrySteps
<1>3. EntryHistory => EntryPhases
  BY HistoryPhases DEF EntryHistory, EntryPhases, StoredDone
<1> QED BY <1>1, <1>2, <1>3, PTL DEF Spec

-----------------------------------------------------------------------------
(* Responses and their histories                                           *)

LEMMA BodiesAbsent == None \notin Versions /\ Versions \subseteq Nat /\ 200 # None /\ 500 # None
BY DEF Versions

\* How often a phase occurs in a history that grows by one.
LEMMA TimesGrow ==
  ASSUME NEW b \in Bodies, NEW c, NEW p \in Phases, NEW q,
         c.done = Append(b.done, p)
  PROVE  /\ Times(q, b) \in Nat
         /\ Times(q, c) = Times(q, b) + IF p = q THEN 1 ELSE 0
<1> DEFINE s == b.done
           t == c.done
           marks == {i \in DOMAIN s : s[i] = q}
           n == Len(s)
<1>1. s \in Seq(Phases) /\ n \in Nat /\ DOMAIN s = 1 .. n
  BY DEF Bodies
<1>2. t \in Seq(Phases) /\ Len(t) = n + 1 /\ DOMAIN t = 1 .. n + 1
  BY <1>1
<1>3. t[n + 1] = p /\ \A i \in 1 .. n : t[i] = s[i]
  BY <1>1
<1>4. IsFiniteSet(marks) /\ Cardinality(marks) \in Nat
  <2>1. IsFiniteSet(1 .. n)
    BY <1>1, FS_Interval
  <2>2. marks \subseteq 1 .. n
    BY <1>1
  <2> QED BY <2>1, <2>2, FS_Subset, FS_CardinalityType
<1>5. n + 1 \notin marks
  BY <1>1
<1>6. Times(q, b) = Cardinality(marks) /\ Times(q, c) = Cardinality({i \in DOMAIN t : t[i] = q})
  BY DEF Times
<1> HIDE DEF s, t, n
<1>7. CASE p = q
  <2>1. {i \in DOMAIN t : t[i] = q} = marks \cup {n + 1}
    BY <1>1, <1>2, <1>3, <1>7
  <2>2. Cardinality(marks \cup {n + 1}) = Cardinality(marks) + 1
    BY <1>4, <1>5, FS_AddElement
  <2> HIDE DEF marks
  <2> QED BY <1>4, <1>6, <1>7, <2>1, <2>2
<1>8. CASE p # q
  <2>1. {i \in DOMAIN t : t[i] = q} = marks
    BY <1>1, <1>2, <1>3, <1>8
  <2> HIDE DEF marks
  <2>2. Times(q, c) = Times(q, b)
    BY <1>6, <2>1
  <2> QED BY <1>4, <1>6, <1>8, <2>2
<1> QED BY <1>7, <1>8

\* What transform() does to a response that knows its path, by kind of record.
PhaseAdded(rsp, p, out) ==
  /\ rsp.body = None => out.body = None
  /\ rsp.body # None =>
       /\ out.body \in Bodies /\ out.body.version = rsp.body.version
       /\ rsp.etag \in Untransformed => out.body.done = rsp.body.done
       /\ rsp.etag \notin Untransformed => out.body.done = Append(rsp.body.done, p)

LEMMA ThroughRead ==
  ASSUME NEW rsp \in Reads, NEW p \in Phases, NEW out, out = Through(p, rsp, TRUE)
  PROVE  /\ out \in Reads
         /\ out.status = rsp.status /\ out.etag = rsp.etag /\ out.stale = rsp.stale
         /\ PhaseAdded(rsp, p, out)
<1>1. CASE rsp.body = None \/ rsp.etag \in Untransformed
  BY <1>1 DEF Through, Reads, PhaseAdded
<1>2. CASE rsp.body # None /\ rsp.etag \notin Untransformed
  <2> DEFINE b == rsp.body
             c == [b EXCEPT !.done = Append(b.done, p)]
  <2>1. b \in Bodies
    BY <1>2 DEF Reads
  <2>2. c \in Bodies /\ c.version = b.version /\ c.done = Append(b.done, p)
    BY <2>1 DEF Bodies
  <2>3. out = [rsp EXCEPT !.body = c]
    BY <1>2 DEF Through
  <2> HIDE DEF b, c
  <2>4. /\ out \in Reads /\ out.body = c
        /\ out.status = rsp.status /\ out.etag = rsp.etag /\ out.stale = rsp.stale
    BY <2>2, <2>3 DEF Reads
  <2> QED BY <1>2, <2>2, <2>4 DEF b, PhaseAdded
<1> QED BY <1>1, <1>2

LEMMA SetBody ==
  ASSUME NEW r \in Responses, NEW x \in Bodies \cup {None}, NEW out, out = [r EXCEPT !.body = x]
  PROVE  /\ out \in Responses /\ out.body = x
         /\ out.status = r.status /\ out.etag = r.etag /\ out.kind = r.kind
<1> DEFINE A == {200, 500, None}
           C == Versions \cup {None}
           D == Bodies \cup {None}
<1>1. Responses = [status : A, kind : Kinds, etag : C, body : D]
  BY DEF Responses
<1>2. x \in D
  OBVIOUS
<1> HIDE DEF A, C, D
<1> QED BY <1>1, <1>2

LEMMA ThroughResponse ==
  ASSUME NEW rsp \in Responses, NEW p \in Phases, NEW out, out = Through(p, rsp, TRUE)
  PROVE  /\ out \in Responses
         /\ out.status = rsp.status /\ out.etag = rsp.etag /\ out.kind = rsp.kind
         /\ PhaseAdded(rsp, p, out)
<1>1. CASE rsp.body = None \/ rsp.etag \in Untransformed
  BY <1>1 DEF Through, Responses, PhaseAdded
<1>2. CASE rsp.body # None /\ rsp.etag \notin Untransformed
  <2> DEFINE b == rsp.body
             c == [b EXCEPT !.done = Append(b.done, p)]
  <2>1. b \in Bodies
    BY <1>2 DEF Responses
  <2>2. c \in Bodies /\ c.version = b.version /\ c.done = Append(b.done, p)
    BY <2>1 DEF Bodies
  <2>3. out = [rsp EXCEPT !.body = c]
    BY <1>2 DEF Through
  <2> HIDE DEF b, c
  <2>4. /\ out \in Responses /\ out.body = c
        /\ out.status = rsp.status /\ out.etag = rsp.etag /\ out.kind = rsp.kind
    <3> DEFINE o == [rsp EXCEPT !.body = c]
    <3>1. /\ o \in Responses /\ o.body = c
          /\ o.status = rsp.status /\ o.etag = rsp.etag /\ o.kind = rsp.kind
      BY <2>2, SetBody
    <3>2. out = o
      BY <2>3
    <3> HIDE DEF o
    <3> QED BY <3>1, <3>2
  <2> QED BY <1>2, <2>2, <2>4 DEF b, PhaseAdded
<1> QED BY <1>1, <1>2

\* What getCacheable() resolves with.
Statuses == {200, 304, 400, 412, 500, None}
Answers == [status : Statuses, kind : Kinds,
            etag : Versions \cup {None}, body : Bodies \cup {None},
            of : Versions \cup {None}, cond : Conditions]

\* Setting one field of such a response.
LEMMA SetAnswer ==
  ASSUME NEW r \in Answers, NEW x, NEW out
  PROVE  /\ x \in Statuses /\ out = [r EXCEPT !.status = x] =>
              /\ out \in Answers /\ out.status = x /\ out.kind = r.kind /\ out.etag = r.etag
              /\ out.body = r.body /\ out.of = r.of /\ out.cond = r.cond
         /\ x \in Kinds /\ out = [r EXCEPT !.kind = x] =>
              /\ out \in Answers /\ out.status = r.status /\ out.kind = x /\ out.etag = r.etag
              /\ out.body = r.body /\ out.of = r.of /\ out.cond = r.cond
         /\ x \in Versions \cup {None} /\ out = [r EXCEPT !.etag = x] =>
              /\ out \in Answers /\ out.status = r.status /\ out.kind = r.kind /\ out.etag = x
              /\ out.body = r.body /\ out.of = r.of /\ out.cond = r.cond
         /\ x \in Bodies \cup {None} /\ out = [r EXCEPT !.body = x] =>
              /\ out \in Answers /\ out.status = r.status /\ out.kind = r.kind /\ out.etag = r.etag
              /\ out.body = x /\ out.of = r.of /\ out.cond = r.cond
         /\ x \in Versions \cup {None} /\ out = [r EXCEPT !.of = x] =>
              /\ out \in Answers /\ out.status = r.status /\ out.kind = r.kind /\ out.etag = r.etag
              /\ out.body = r.body /\ out.of = x /\ out.cond = r.cond
         /\ x \in Conditions /\ out = [r EXCEPT !.cond = x] =>
              /\ out \in Answers /\ out.status = r.status /\ out.kind = r.kind /\ out.etag = r.etag
              /\ out.body = r.body /\ out.of = r.of /\ out.cond = x
<1> DEFINE A == Statuses
           C == Versions \cup {None}
           D == Bodies \cup {None}
<1>1. Answers = [status : A, kind : Kinds, etag : C, body : D, of : C, cond : Conditions]
  BY DEF Answers
<1> HIDE DEF A, C, D
<1>2. x \in A /\ out = [r EXCEPT !.status = x] =>
              /\ out \in Answers /\ out.status = x /\ out.kind = r.kind /\ out.etag = r.etag
              /\ out.body = r.body /\ out.of = r.of /\ out.cond = r.cond
  BY <1>1
<1>3. x \in Kinds /\ out = [r EXCEPT !.kind = x] =>
              /\ out \in Answers /\ out.status = r.status /\ out.kind = x /\ out.etag = r.etag
              /\ out.body = r.body /\ out.of = r.of /\ out.cond = r.cond
  BY <1>1
<1>4. x \in C /\ out = [r EXCEPT !.etag = x] =>
              /\ out \in Answers /\ out.status = r.status /\ out.kind = r.kind /\ out.etag = x
              /\ out.body = r.body /\ out.of = r.of /\ out.cond = r.cond
  BY <1>1
<1>5. x \in D /\ out = [r EXCEPT !.body = x] =>
              /\ out \in Answers /\ out.status = r.status /\ out.kind = r.kind /\ out.etag = r.etag
              /\ out.body = x /\ out.of = r.of /\ out.cond = r.cond
  BY <1>1
<1>6. x \in C /\ out = [r EXCEPT !.of = x] =>
              /\ out \in Answers /\ out.status = r.status /\ out.kind = r.kind /\ out.etag = r.etag
              /\ out.body = r.body /\ out.of = x /\ out.cond = r.cond
  BY <1>1
<1>7. x \in Conditions /\ out = [r EXCEPT !.cond = x] =>
              /\ out \in Answers /\ out.status = r.status /\ out.kind = r.kind /\ out.etag = r.etag
              /\ out.body = r.body /\ out.of = r.of /\ out.cond = x
  BY <1>1
<1> QED BY <1>2, <1>3, <1>4, <1>5, <1>6, <1>7 DEF A, C, D

LEMMA ThroughAnswer ==
  ASSUME NEW rsp \in Answers, NEW p \in Phases, NEW out, out = Through(p, rsp, TRUE)
  PROVE  /\ out \in Answers
         /\ out.status = rsp.status /\ out.etag = rsp.etag /\ out.kind = rsp.kind
         /\ out.of = rsp.of /\ out.cond = rsp.cond
         /\ PhaseAdded(rsp, p, out)
<1>1. CASE rsp.body = None \/ rsp.etag \in Untransformed
  BY <1>1 DEF Through, Answers, PhaseAdded
<1>2. CASE rsp.body # None /\ rsp.etag \notin Untransformed
  <2> DEFINE b == rsp.body
             c == [b EXCEPT !.done = Append(b.done, p)]
  <2>1. b \in Bodies
    BY <1>2 DEF Answers
  <2>2. c \in Bodies /\ c.version = b.version /\ c.done = Append(b.done, p)
    BY <2>1 DEF Bodies
  <2>3. out = [rsp EXCEPT !.body = c]
    BY <1>2 DEF Through
  <2> HIDE DEF b, c
  <2>4. /\ out \in Answers /\ out.body = c
        /\ out.status = rsp.status /\ out.etag = rsp.etag /\ out.kind = rsp.kind
        /\ out.of = rsp.of /\ out.cond = rsp.cond
    <3> DEFINE o == [rsp EXCEPT !.body = c]
    <3>1. /\ o \in Answers /\ o.body = c
          /\ o.status = rsp.status /\ o.etag = rsp.etag /\ o.kind = rsp.kind
          /\ o.of = rsp.of /\ o.cond = rsp.cond
      <4>1. c \in Bodies \cup {None}
        BY <2>2
      <4> QED BY <4>1, SetAnswer
    <3>2. out = o
      BY <2>3
    <3> HIDE DEF o
    <3> QED BY <3>1, <3>2
  <2> QED BY <1>2, <2>2, <2>4 DEF b, PhaseAdded
<1> QED BY <1>1, <1>2

\* The history of a body on its way to the client: what the origin's object
\* and what a cached entry have been through before the client phase.
FromOrigin(b) ==
  IF b.version \in Untransformed THEN b.done = <<>>
  ELSE /\ Times("CacheRequest", b) + Times("CacheResponse", b) = 0
       /\ Times("ClientResponse", b) = 0
       /\ Times("OriginResponse", b) >= 1
FromCache(b) ==
  IF b.version \in Untransformed THEN b.done = <<>>
  ELSE /\ Times("OriginResponse", b) = 1 /\ Times("CacheResponse", b) = 1
       /\ Times("ClientResponse", b) = 0

\* What only one request has resumed with.
Unshared(b) == b.version \notin Untransformed => Times("OriginResponse", b) = 1

\* A response that a request clones: its validator is the version of its
\* body, and its history is that of its kind.
Good(rsp) ==
  rsp.body # None =>
    /\ rsp.etag = rsp.body.version /\ rsp.body.version <= version
    /\ rsp.kind \in Fresh \cup FromEntry
    /\ rsp.kind \in Fresh => FromOrigin(rsp.body)
    /\ rsp.kind = "CACHE_NOT_ENABLED" => Unshared(rsp.body)
    /\ rsp.kind \in FromEntry => FromCache(rsp.body)

LEMMA SharedGood ==
  ASSUME version \in Versions, NEW n \in Nat \ {0}, NEW kind \in Fresh,
         kind = "CACHE_NOT_ENABLED" => n = 1
  PROVE  Response(Shared(n), kind) \in Responses /\ Good(Response(Shared(n), kind))
<1> DEFINE b == Shared(n).body
<1>1. [i \in 1 .. n |-> "OriginResponse"] \in Seq(Phases)
  BY DEF Phases
<1>2. b \in Bodies /\ b.version = version
  BY <1>1 DEF Shared, Bodies
<1>3. ASSUME version \notin Untransformed, NEW q, q # "OriginResponse"
      PROVE  Times(q, b) = 0
  <2>1. DOMAIN b.done = 1 .. n /\ \A i \in 1 .. n : b.done[i] = "OriginResponse"
    BY <1>3 DEF Shared
  <2>2. {i \in DOMAIN b.done : b.done[i] = q} = {}
    BY <1>3, <2>1
  <2> QED BY <2>2, FS_EmptySet DEF Times
<1>9. ASSUME version \notin Untransformed
      PROVE  Times("OriginResponse", b) = n
  <2>1. DOMAIN b.done = 1 .. n /\ \A i \in 1 .. n : b.done[i] = "OriginResponse"
    BY <1>9 DEF Shared
  <2>2. {i \in DOMAIN b.done : b.done[i] = "OriginResponse"} = 1 .. n
    BY <2>1
  <2>3. Cardinality(1 .. n) = n
    BY FS_Interval
  <2> QED BY <2>2, <2>3 DEF Times
<1>4. FromOrigin(b) /\ (kind = "CACHE_NOT_ENABLED" => Unshared(b))
  <2>1. CASE version \in Untransformed
    BY <1>2, <2>1 DEF FromOrigin, Unshared, Shared
  <2>2. CASE version \notin Untransformed
    <3>1. /\ Times("CacheRequest", b) = 0 /\ Times("CacheResponse", b) = 0
          /\ Times("ClientResponse", b) = 0 /\ Times("OriginResponse", b) = n
      BY <1>3, <1>9, <2>2
    <3> HIDE DEF b
    <3> QED BY <1>2, <2>2, <3>1 DEF FromOrigin, Unshared
  <2> QED BY <2>1, <2>2
<1>5. Shared(n).etag = version /\ Shared(n).status = 200
  BY DEF Shared
<1>6. kind \notin FromEntry /\ kind \in Kinds
  BY DEF Fresh, FromEntry, Kinds
<1> HIDE DEF b
<1>7. /\ Response(Shared(n), kind).body = b /\ Response(Shared(n), kind).etag = version
      /\ Response(Shared(n), kind).kind = kind /\ Response(Shared(n), kind).status = 200
  BY <1>5 DEF Response, b
<1>8. Response(Shared(n), kind) \in Responses
  BY <1>2, <1>5, <1>6 DEF Response, Responses, b
<1> QED BY <1>2, <1>4, <1>6, <1>7, <1>8 DEF Good, Versions

-----------------------------------------------------------------------------
(* One answer                                                              *)

Questions == [cond : Conditions, tracked : BOOLEAN]
Copies == [version : Versions, tag : Versions \cup {Fingerprint}]

\* What a client keeps: its tag is the version's, or the tracker's.
Honest(kept) ==
  kept # None => /\ kept \in Copies /\ kept.version <= version
                 /\ kept.tag \in {kept.version, Fingerprint}

\* A client told to keep its copy has one that is no older.
Confirms(a, kept) ==
  (a.status \in {304, 412} /\ a.cond # "star" /\ a.of # None) =>
    /\ a.of <= kept.version
    /\ a.cond = "etag" => a.of = kept.version

\* Responses of which only the status is sent: the refusal of a request, and
\* the confirmation of a client's copy.
Bare(plain, status) == [plain EXCEPT !.status = status, !.etag = None, !.body = None]
Refusal(plain, status, kind) == [Bare(plain, status) EXCEPT !.kind = kind]
Confirmation(plain, status, cond, of) ==
  [Bare(plain, status) EXCEPT !.cond = cond, !.of = of]

LEMMA Bared ==
  ASSUME NEW plain \in Answers, NEW status \in Statuses
  PROVE  /\ Bare(plain, status) \in Answers
         /\ Bare(plain, status).of = plain.of
         /\ Bare(plain, status).body = None
<1> DEFINE u == [plain EXCEPT !.status = status]
           v == [u EXCEPT !.etag = None]
           w == [v EXCEPT !.body = None]
<1>1. Bare(plain, status) = w
  BY DEF Bare
<1>2. u \in Answers /\ u.of = plain.of
  BY SetAnswer
<1> HIDE DEF u
<1>3. v \in Answers /\ v.of = plain.of
  BY <1>2, SetAnswer
<1> HIDE DEF v
<1>4. w \in Answers /\ w.of = plain.of /\ w.body = None
  BY <1>3, SetAnswer
<1> HIDE DEF w
<1> QED BY <1>1, <1>4

LEMMA Refused ==
  ASSUME NEW plain \in Answers, NEW status \in Statuses,
         NEW kind \in Kinds
  PROVE  /\ Refusal(plain, status, kind) \in Answers
         /\ Refusal(plain, status, kind).body = None
         /\ Refusal(plain, status, kind).of = plain.of
<1> DEFINE w == Bare(plain, status)
           f == [w EXCEPT !.kind = kind]
<1>1. w \in Answers /\ w.of = plain.of /\ w.body = None
  BY Bared
<1>2. Refusal(plain, status, kind) = f
  BY DEF Refusal
<1> HIDE DEF w
<1>3. f \in Answers /\ f.of = plain.of /\ f.body = None
  BY <1>1, SetAnswer
<1> HIDE DEF f
<1> QED BY <1>2, <1>3

LEMMA Confirmed ==
  ASSUME NEW plain \in Answers, NEW status \in Statuses,
         NEW of \in Versions \cup {None}, NEW cond \in Conditions
  PROVE  /\ Confirmation(plain, status, cond, of) \in Answers
         /\ Confirmation(plain, status, cond, of).body = None
         /\ Confirmation(plain, status, cond, of).of = of
         /\ Confirmation(plain, status, cond, of).cond = cond
<1> DEFINE w == Bare(plain, status)
           g == [w EXCEPT !.cond = cond]
           h == [g EXCEPT !.of = of]
<1>1. w \in Answers /\ w.body = None
  BY Bared
<1>2. Confirmation(plain, status, cond, of) = [w EXCEPT !.cond = cond, !.of = of]
  BY DEF Confirmation
<1> HIDE DEF w
<1>3. [w EXCEPT !.cond = cond, !.of = of] = h
  OBVIOUS
<1>4. g \in Answers /\ g.body = None /\ g.cond = cond
  BY <1>1, SetAnswer
<1> HIDE DEF g
<1>5. h \in Answers /\ h.body = None /\ h.cond = cond /\ h.of = of
  BY <1>4, SetAnswer
<1> HIDE DEF h
<1> QED BY <1>2, <1>3, <1>5

LEMMA ConditionalFits ==
  ASSUME version \in Versions, NEW q \in Questions, NEW rsp \in Responses, Good(rsp),
         NEW kept, Honest(kept), q.cond \in {"etag", "since"} => kept # None,
         NEW a, a = Conditional(q, rsp, kept)
  PROVE  /\ a \in Answers
         /\ a.body # None => a.body = rsp.body /\ a.etag = rsp.etag /\ a.kind = rsp.kind
         /\ a.body # None => a.status \in {200, 500, None}
         /\ Confirms(a, kept)
<1> DEFINE plain == [status |-> rsp.status, kind |-> rsp.kind, etag |-> rsp.etag,
                     body |-> rsp.body, of |-> None, cond |-> "none"]
           code == IF ReadOnly THEN 304 ELSE 412
           of == IF rsp.body = None THEN None ELSE rsp.body.version
<1>1. /\ rsp.status \in {200, 500, None} /\ rsp.kind \in Kinds
      /\ rsp.etag \in Versions \cup {None} /\ rsp.body \in Bodies \cup {None}
  BY DEF Responses
<1>2. "none" \in Conditions /\ "CACHE_ERROR_400" \in Kinds
  BY DEF Conditions, Kinds
<1>3. /\ plain \in Answers /\ plain.of = None /\ plain.body = rsp.body
      /\ plain.etag = rsp.etag /\ plain.kind = rsp.kind /\ plain.status = rsp.status
  <2>1. \A st \in {200, 500, None} : st \in Statuses
    BY DEF Statuses
  <2> QED BY <1>1, <1>2, <2>1 DEF Answers
<1>4. \/ a = plain
      \/ a = Refusal(plain, 400, "CACHE_ERROR_400")
      \/ a = Confirmation(plain, code, q.cond, of) /\ Matches(q, rsp, kept)
  BY ZenonT(60) DEF Conditional, Refusal, Confirmation, Bare
<1>5. of \in Versions \cup {None} /\ q.cond \in Conditions /\ code \in Statuses
  BY <1>1 DEF Bodies, Questions, Statuses
<1> HIDE DEF code
<1>6. CASE a = plain
  BY <1>1, <1>3, <1>6, BodiesAbsent DEF Confirms
<1> HIDE DEF plain
<1>7. CASE a = Refusal(plain, 400, "CACHE_ERROR_400")
  <2>1. a \in Answers /\ a.body = None /\ a.of = None
    <3>1. 400 \in Statuses /\ plain \in Answers /\ plain.of = None
      BY <1>3 DEF Statuses
    <3>2. of \in Versions \cup {None} /\ q.cond \in Conditions /\ "CACHE_ERROR_400" \in Kinds
      BY <1>2, <1>5
    <3> DEFINE o == Refusal(plain, 400, "CACHE_ERROR_400")
    <3>3. o \in Answers /\ o.body = None /\ o.of = plain.of
      BY <3>1, <3>2, Refused
    <3> HIDE DEF o
    <3> QED BY <1>7, <3>1, <3>3 DEF o
  <2> QED BY <2>1 DEF Confirms
<1>8. CASE a = Confirmation(plain, code, q.cond, of) /\ Matches(q, rsp, kept)
  <2>1. a \in Answers /\ a.body = None /\ a.of = of /\ a.cond = q.cond
    <3>1. code \in Statuses /\ plain \in Answers
      BY <1>3, <1>5
    <3>2. of \in Versions \cup {None} /\ q.cond \in Conditions /\ "CACHE_ERROR_400" \in Kinds
      BY <1>2, <1>5
    <3> DEFINE cond == q.cond
               o == Confirmation(plain, code, cond, of)
    <3>3. a = o /\ of \in Versions \cup {None} /\ cond \in Conditions
      BY <1>8, <3>2
    <3> HIDE DEF of, cond
    <3>4. o \in Answers /\ o.body = None /\ o.of = of /\ o.cond = cond
      BY <3>1, <3>3, Confirmed
    <3> HIDE DEF o
    <3>5. a \in Answers /\ a.body = None /\ a.of = of /\ a.cond = cond
      BY <3>3, <3>4
    <3> QED BY <3>5 DEF cond
  <2>2. ASSUME a.cond # "star", a.of # None
        PROVE  a.of <= kept.version /\ (a.cond = "etag" => a.of = kept.version)
    <3>1. rsp.body # None /\ a.of = rsp.body.version
      BY <2>1, <2>2 DEF of
    <3>2. rsp.etag = rsp.body.version /\ rsp.etag \in Nat
      BY <1>1, <3>1, BodiesAbsent DEF Good, Bodies
    <3>3. q.cond \in {"etag", "since"} /\ a.cond = q.cond
      BY <1>8, <2>1, <2>2 DEF Matches
    <3>4. kept.version \in Nat /\ kept.tag \in {kept.version, Fingerprint}
      BY <3>3, BodiesAbsent DEF Honest, Copies
    <3>5. CASE q.cond = "etag"
      <4>1. rsp.etag = kept.tag
        BY <1>8, <3>5 DEF Matches
      <4>2. kept.tag # Fingerprint
        BY <3>2, <4>1
      <4> QED BY <3>1, <3>2, <3>4, <4>1, <4>2
    <3>6. CASE q.cond = "since"
      <4>1. rsp.etag <= kept.version
        BY <1>8, <3>6 DEF Matches
      <4> QED BY <3>1, <3>2, <3>3, <3>6, <4>1
    <3> QED BY <3>3, <3>5, <3>6
  <2> QED BY <2>1, <2>2 DEF Confirms
<1> QED BY <1>4, <1>6, <1>7, <1>8

\* The client phase, and it alone, is added for this client.
OwnPhases(a) ==
  a.body # None =>
    IF a.body.version \in Untransformed THEN a.body.done = <<>>
    ELSE /\ Last(a.body.done) = "ClientResponse"
         /\ Times("ClientResponse", a.body) = 1
         /\ a.kind \in Fresh =>
              /\ Times("CacheRequest", a.body) + Times("CacheResponse", a.body) = 0
              /\ Times("OriginResponse", a.body) >= 1
         /\ a.kind = "CACHE_NOT_ENABLED" => Times("OriginResponse", a.body) = 1
         /\ a.kind \in FromEntry =>
              Times("OriginResponse", a.body) = 1 /\ Times("CacheResponse", a.body) = 1

Blank(rsp) == [rsp EXCEPT !.status = 500, !.body = None]

LEMMA Blanked ==
  ASSUME NEW c \in Answers
  PROVE  /\ Blank(c) \in Answers /\ Blank(c).status = 500 /\ Blank(c).body = None
         /\ Blank(c).of = c.of /\ Blank(c).cond = c.cond
<1> DEFINE u == [c EXCEPT !.status = 500]
           v == [u EXCEPT !.body = None]
<1>1. Blank(c) = v
  BY DEF Blank
<1>2. u \in Answers /\ u.status = 500 /\ u.of = c.of /\ u.cond = c.cond
  <2>1. 500 \in Statuses
    BY DEF Statuses
  <2> QED BY <2>1, SetAnswer
<1> HIDE DEF u
<1>3. /\ v \in Answers /\ v.status = 500 /\ v.body = None
      /\ v.of = c.of /\ v.cond = c.cond
  BY <1>2, SetAnswer
<1> HIDE DEF v
<1> QED BY <1>1, <1>3

LEMMA SentFits ==
  ASSUME version \in Versions, NEW q \in Questions, NEW rsp \in Responses, Good(rsp),
         NEW kept, Honest(kept), q.cond \in {"etag", "since"} => kept # None,
         NEW a, a = Sent(Conditional(q, rsp, kept))
  PROVE  /\ a \in Answers /\ a.status # None
         /\ a.body # None => /\ a.etag = a.body.version /\ a.body.version <= version
                             /\ a.status \in {200, 500}
         /\ OwnPhases(a)
         /\ Confirms(a, kept)
<1> DEFINE c == Conditional(q, rsp, kept)
<1>1. /\ c \in Answers
      /\ c.body # None => c.body = rsp.body /\ c.etag = rsp.etag /\ c.kind = rsp.kind
      /\ c.body # None => c.status \in {200, 500, None}
      /\ Confirms(c, kept)
  BY ConditionalFits
<1>2. a = Sent(c)
  OBVIOUS
<1> HIDE DEF c
<1>5. c \in Answers
  BY <1>1
<1>3. CASE c.status = None
  <2>1. a = Blank(c)
    BY <1>2, <1>3 DEF Sent, Blank
  <2>2. a \in Answers /\ a.status = 500 /\ a.body = None
    BY <1>5, <2>1, Blanked
  <2> QED BY <2>2, BodiesAbsent DEF OwnPhases, Confirms
<1>4. CASE c.status # None
  <2>1. a = Through("ClientResponse", c, TRUE) /\ "ClientResponse" \in Phases
    BY <1>2, <1>4 DEF Sent, Phases
  <2>2. /\ a \in Answers
        /\ a.status = c.status /\ a.etag = c.etag /\ a.kind = c.kind
        /\ a.of = c.of /\ a.cond = c.cond
        /\ PhaseAdded(c, "ClientResponse", a)
    BY <1>5, <2>1, ThroughAnswer
  <2>3. Confirms(a, kept)
    BY <1>1, <2>2 DEF Confirms
  <2>4. CASE c.body = None
    BY <1>4, <2>2, <2>3, <2>4 DEF OwnPhases, PhaseAdded
  <2>5. CASE c.body # None
    <3>1. /\ c.body = rsp.body /\ c.etag = c.body.version /\ c.body.version <= version
          /\ c.kind \in Fresh \cup FromEntry /\ c.body \in Bodies
          /\ c.kind \in Fresh => FromOrigin(c.body)
          /\ c.kind = "CACHE_NOT_ENABLED" => Unshared(c.body)
          /\ c.kind \in FromEntry => FromCache(c.body)
      BY <1>1, <2>5 DEF Good, Responses
    <3>2. CASE c.etag \in Untransformed
      BY <1>1, <1>4, <2>2, <2>3, <2>5, <3>1, <3>2 DEF OwnPhases, FromOrigin, FromCache, PhaseAdded
    <3>3. CASE c.etag \notin Untransformed
      <4> DEFINE b == c.body
                 d == a.body
      <4>0. b \in Bodies /\ d.done = Append(b.done, "ClientResponse") /\ d.version = b.version
        BY <2>2, <2>5, <3>1, <3>3 DEF PhaseAdded
      <4>9. b.version = c.etag
        BY <3>1
      <4> HIDE DEF b, d
      <4>1. /\ Times("OriginResponse", b) \in Nat /\ Times("CacheRequest", b) \in Nat
            /\ Times("CacheResponse", b) \in Nat
            /\ Times("OriginResponse", d) = Times("OriginResponse", b)
            /\ Times("CacheRequest", d) = Times("CacheRequest", b)
            /\ Times("CacheResponse", d) = Times("CacheResponse", b)
            /\ Times("ClientResponse", d) = Times("ClientResponse", b) + 1
        <5> DEFINE p == "ClientResponse"
        <5>1. /\ p \in Phases /\ d.done = Append(b.done, p)
              /\ p \notin {"OriginResponse", "CacheRequest", "CacheResponse"}
          BY <2>1, <4>0
        <5> HIDE DEF p
        <5>2. \A x : /\ Times(x, b) \in Nat
                     /\ Times(x, d) = Times(x, b) + IF p = x THEN 1 ELSE 0
          BY <4>0, <5>1, TimesGrow
        <5>3. /\ \A x : x # p => Times(x, d) = Times(x, b)
              /\ Times(p, d) = Times(p, b) + 1
          BY <5>2
        <5> QED BY <5>1, <5>2, <5>3 DEF p
      <4>2. Last(d.done) = "ClientResponse"
        <5>1. b.done \in Seq(Phases)
          BY <4>0 DEF Bodies
        <5> QED BY <4>0, <5>1 DEF Last
      <4>3. /\ c.kind \in Fresh => FromOrigin(b)
            /\ c.kind = "CACHE_NOT_ENABLED" => Unshared(b)
            /\ c.kind \in FromEntry => FromCache(b)
            /\ c.kind \in Fresh \cup FromEntry
        BY <3>1 DEF b
      <4>4. /\ Times("ClientResponse", d) = 1
            /\ c.kind \in Fresh => /\ Times("CacheRequest", d) + Times("CacheResponse", d) = 0
                                  /\ Times("OriginResponse", d) >= 1
            /\ c.kind = "CACHE_NOT_ENABLED" => Times("OriginResponse", d) = 1
            /\ c.kind \in FromEntry =>
                 Times("OriginResponse", d) = 1 /\ Times("CacheResponse", d) = 1
        BY <3>3, <4>9, <4>1, <4>3 DEF FromOrigin, FromCache, Unshared
      <4>5. OwnPhases(a)
        BY <2>2, <3>3, <4>9, <4>0, <4>2, <4>4 DEF OwnPhases, d
      <4> QED BY <1>1, <1>4, <2>2, <2>3, <2>5, <3>1, <4>5 DEF PhaseAdded
    <3> QED BY <3>2, <3>3
  <2> QED BY <2>4, <2>5
<1> QED BY <1>3, <1>4

LEMMA AnswerFits ==
  ASSUME version \in Versions, NEW q \in Questions, NEW rsp \in Responses, Good(rsp),
         NEW kept, Honest(kept), q.cond \in {"etag", "since"} => kept # None,
         NEW a, a = Tagged(q, Sent(Conditional(q, rsp, kept)))
  PROVE  /\ a.status \in {200, 304, 400, 412, 500}
         /\ OwnPhases(a)
         /\ Confirms(a, Kept(kept, a))
         /\ Honest(Kept(kept, a))
<1> DEFINE s == Sent(Conditional(q, rsp, kept))
<1>1. /\ s \in Answers /\ s.status # None
      /\ s.body # None => /\ s.etag = s.body.version /\ s.body.version <= version
                          /\ s.status \in {200, 500}
      /\ OwnPhases(s)
      /\ Confirms(s, kept)
  BY SentFits
<1>2. a = Tagged(q, s)
  OBVIOUS
<1> HIDE DEF s
<1>3. /\ a.status = s.status /\ a.body = s.body /\ a.kind = s.kind
      /\ a.of = s.of /\ a.cond = s.cond /\ a.etag \in {s.etag, Fingerprint}
  BY <1>1, <1>2 DEF Tagged, Answers
<1>4. a.status \in {200, 304, 400, 412, 500}
  BY <1>1, <1>3 DEF Answers, Statuses
<1>5. OwnPhases(a)
  BY <1>1, <1>3 DEF OwnPhases
<1>6. CASE a.status = 200 /\ a.body # None
  <2> DEFINE k == Kept(kept, a)
  <2>1. k = [version |-> a.body.version, tag |-> a.etag]
    BY <1>6 DEF Kept
  <2>2. s.body \in Bodies
    BY <1>1, <1>3, <1>6 DEF Answers
  <2>3. a.body.version \in Versions /\ a.etag \in {a.body.version, Fingerprint}
    BY <1>1, <1>3, <1>6, <2>2 DEF Bodies
  <2>4. k \in Copies /\ k.version = a.body.version /\ k.tag = a.etag
    BY <2>1, <2>3 DEF Copies
  <2> HIDE DEF k
  <2>5. Honest(k)
    BY <1>1, <1>3, <1>6, <2>3, <2>4 DEF Honest
  <2> QED BY <1>4, <1>5, <1>6, <2>5 DEF Confirms, k
<1>7. CASE ~(a.status = 200 /\ a.body # None)
  <2>1. Kept(kept, a) = kept
    BY <1>7 DEF Kept
  <2> QED BY <1>1, <1>3, <1>4, <1>5, <2>1 DEF Confirms
<1> QED BY <1>6, <1>7

-----------------------------------------------------------------------------
(* The inductive invariant                                                 *)

\* What is known of each client, and what the last step sent.
ClientsFit ==
  /\ asked \in [Requests -> Questions]
  /\ \A r \in Requests :
       Honest(copy[r]) /\ (asked[r].cond \in {"etag", "since"} => copy[r] # None)
AnswersFit ==
  \A r \in Requests : answer[r] # None =>
    /\ answer[r].status \in {200, 304, 400, 412, 500}
    /\ OwnPhases(answer[r])
    /\ Confirms(answer[r], copy[r])

LEMMA SilentFits ==
  ASSUME Silent
  PROVE  AnswersFit'
BY DEF Silent, AnswersFit

LEMMA AnsweredFits ==
  ASSUME version \in Versions, version' = version, ClientsFit,
         NEW out, DOMAIN out \subseteq Requests,
         \A r \in DOMAIN out : out[r] \in Responses /\ Good(out[r]),
         Answered(out)
  PROVE  ClientsFit' /\ AnswersFit'
<1> DEFINE a(r) == Tagged(asked[r], Sent(Conditional(asked[r], out[r], copy[r])))
<1>1. ASSUME NEW r \in Requests, r \in DOMAIN out
      PROVE  /\ answer'[r] = a(r) /\ copy'[r] = Kept(copy[r], a(r)) /\ asked'[r] = Plain
  BY <1>1 DEF Answered
<1>2. ASSUME NEW r \in Requests, r \notin DOMAIN out
      PROVE  answer'[r] = None /\ copy'[r] = copy[r] /\ asked'[r] = asked[r]
  BY <1>2 DEF Answered
<1>3. asked' = [r \in Requests |-> IF r \in DOMAIN out THEN Plain ELSE asked[r]]
  BY DEF Answered
<1>4. Plain \in Questions /\ Plain.cond = "none"
  BY DEF Plain, Questions, Conditions
<1>5. asked' \in [Requests -> Questions]
  BY <1>3, <1>4 DEF ClientsFit
<1>6. ASSUME NEW r \in Requests, r \in DOMAIN out
      PROVE  /\ a(r).status \in {200, 304, 400, 412, 500}
             /\ OwnPhases(a(r))
             /\ Confirms(a(r), Kept(copy[r], a(r)))
             /\ Honest(Kept(copy[r], a(r)))
  <2>1. /\ asked[r] \in Questions /\ Honest(copy[r])
        /\ asked[r].cond \in {"etag", "since"} => copy[r] # None
        /\ out[r] \in Responses /\ Good(out[r])
    BY <1>6 DEF ClientsFit
  <2> QED BY <2>1, AnswerFits
<1> HIDE DEF a
<1>7. ClientsFit'
  <2>1. ASSUME NEW r \in Requests
        PROVE  Honest(copy[r])' /\ (asked'[r].cond \in {"etag", "since"} => copy'[r] # None)
    <3>1. CASE r \in DOMAIN out
      BY <1>1, <1>4, <1>6, <3>1 DEF Honest
    <3>2. CASE r \notin DOMAIN out
      BY <1>2, <3>2 DEF ClientsFit, Honest
    <3> QED BY <3>1, <3>2
  <2> QED BY <1>5, <2>1 DEF ClientsFit
<1>8. AnswersFit'
  <2>1. ASSUME NEW r \in Requests, answer'[r] # None
        PROVE  /\ answer'[r].status \in {200, 304, 400, 412, 500}
               /\ OwnPhases(answer[r])'
               /\ Confirms(answer[r], copy[r])'
    <3>1. r \in DOMAIN out
      BY <1>2, <2>1
    <3>2. answer'[r] = a(r) /\ copy'[r] = Kept(copy[r], a(r))
      BY <1>1, <3>1
    <3>3. /\ a(r).status \in {200, 304, 400, 412, 500}
          /\ OwnPhases(a(r))
          /\ Confirms(a(r), Kept(copy[r], a(r)))
      BY <1>6, <3>1
    <3> QED BY <3>2, <3>3 DEF OwnPhases, Confirms
  <2> QED BY <2>1 DEF AnswersFit
<1> QED BY <1>7, <1>8

\* The requests that are looking stand in the queue of replies, those that
\* are waiting share the fetch, those that await Redis hold their answer.
Sharing(r) ==
  flight # None /\ (r = flight.by \/ \E i \in DOMAIN flight.waiting : flight.waiting[i] = r)
QueuesFit ==
  /\ flight \in Flights \cup {None} /\ looking \in Seq(Requests)
  /\ pc \in [Requests -> {"idle", "looking", "waiting", "replying"}]
  /\ held \in [Requests -> Responses \cup {None}]
  /\ \A i, j \in DOMAIN looking : i # j => looking[i] # looking[j]
  /\ \A r \in Requests :
       /\ pc[r] = "looking" <=> \E i \in DOMAIN looking : looking[i] = r
       /\ pc[r] = "waiting" <=> Sharing(r)
       /\ pc[r] = "replying" <=> held[r] # None
  /\ \A r \in Requests : held[r] # None => Good(held[r])

\* What is stored and what was read of it: a body is of its validator's
\* version and has gone through what it should have at this point.
EntryFits ==
  entry # None =>
    /\ entry \in Entries /\ entry.etag <= version
    /\ entry.body # None =>
         entry.body.version = entry.etag /\ entry.body.done \in StoredDone(entry.etag)
ReadFits(r) ==
  cached[r] # None =>
    /\ cached[r] \in Reads /\ cached[r].etag <= version
    /\ cached[r].body # None =>
         /\ cached[r].body.version = cached[r].etag
         /\ pc[r] = "looking" => cached[r].body.done \in StoredDone(cached[r].etag)
         /\ pc[r] = "waiting" => FromCache(cached[r].body)
ReadsFit == cached \in [Requests -> Reads \cup {None}] /\ \A r \in Requests : ReadFits(r)

\* Replies arrive in the order the entry was read in: nobody who looks or
\* waits has read an older version than the one the fetch was started with.
NotNewer(read, later) == read # None /\ later # None => read.etag <= later.etag
InOrder ==
  /\ \A i, j \in DOMAIN looking : i < j => NotNewer(cached[looking[i]], cached[looking[j]])
  /\ flight # None /\ flight.cond # None =>
       /\ cached[flight.by] # None /\ cached[flight.by].etag = flight.cond
       /\ \A r \in Requests :
            pc[r] \in {"looking", "waiting"} => NotNewer(cached[flight.by], cached[r])
  /\ \A r \in Requests : NotNewer(cached[r], entry)

PipeInv ==
  /\ version \in Versions
  /\ QueuesFit /\ EntryFits /\ ReadsFit /\ InOrder /\ ClientsFit /\ AnswersFit

-----------------------------------------------------------------------------
(* What is read, and what is made of it                                    *)

\* A phase that is not of the cache's history leaves it as it is.
LEMMA CacheGrow ==
  ASSUME NEW b \in Bodies, NEW c \in Bodies, NEW p \in Phases,
         c.version = b.version, b.version \notin Untransformed, c.done = Append(b.done, p)
  PROVE  /\ b.done \in StoredDone(b.version) /\ p = "CacheResponse" => FromCache(c)
         /\ FromCache(b) /\ p = "CacheRequest" => FromCache(c)
<1>1. /\ Times("OriginResponse", b) \in Nat /\ Times("CacheResponse", b) \in Nat
      /\ Times("ClientResponse", b) \in Nat
      /\ Times("OriginResponse", c) = Times("OriginResponse", b) + IF p = "OriginResponse" THEN 1 ELSE 0
      /\ Times("CacheResponse", c) = Times("CacheResponse", b) + IF p = "CacheResponse" THEN 1 ELSE 0
      /\ Times("ClientResponse", c) = Times("ClientResponse", b) + IF p = "ClientResponse" THEN 1 ELSE 0
  BY TimesGrow
<1>2. ASSUME b.done \in StoredDone(b.version), p = "CacheResponse" PROVE FromCache(c)
  <2>1. /\ Times("OriginResponse", b) = 1 /\ Times("CacheResponse", b) = 0
        /\ Times("ClientResponse", b) = 0
    BY <1>2, HistoryPhases DEF StoredDone
  <2> QED BY <1>1, <1>2, <2>1 DEF FromCache
<1>3. ASSUME FromCache(b), p = "CacheRequest" PROVE FromCache(c)
  BY <1>1, <1>3 DEF FromCache
<1> QED BY <1>2, <1>3

LEMMA FoundFits ==
  ASSUME NEW r \in Requests, ReadFits(r), pc[r] = "looking", Found(r) # None
  PROVE  /\ cached[r] # None /\ Found(r) \in Reads /\ Found(r).etag = cached[r].etag
         /\ Found(r).etag <= version
         /\ Found(r).body # None =>
              Found(r).body.version = Found(r).etag /\ FromCache(Found(r).body)
<1> DEFINE c == cached[r]
           f == Found(r)
<1>1. c # None /\ f = Through("CacheResponse", c, TRUE)
  BY DEF Found
<1>2. /\ c \in Reads /\ c.etag <= version
      /\ c.body # None =>
           c.body.version = c.etag /\ c.body.done \in StoredDone(c.etag)
  BY <1>1 DEF ReadFits
<1> HIDE DEF c, f
<1>3. "CacheResponse" \in Phases
  BY DEF Phases
<1>4. f \in Reads /\ f.etag = c.etag /\ PhaseAdded(c, "CacheResponse", f)
  <2>1. c \in Reads
    BY <1>2
  <2> QED BY <1>1, <1>3, <2>1, ThroughRead
<1>5. ASSUME f.body # None
      PROVE  f.body.version = f.etag /\ FromCache(f.body)
  <2>1. c.body # None /\ c.body \in Bodies
    BY <1>2, <1>4, <1>5 DEF Reads, PhaseAdded
  <2>2. CASE c.etag \in Untransformed
    BY <1>2, <1>4, <1>5, <2>1, <2>2 DEF FromCache, StoredDone, PhaseAdded
  <2>3. CASE c.etag \notin Untransformed
    <3> DEFINE b == c.body
               d == f.body
    <3>1. /\ b \in Bodies /\ d \in Bodies /\ d.version = b.version /\ b.version \notin Untransformed
          /\ d.done = Append(b.done, "CacheResponse") /\ b.done \in StoredDone(b.version)
      BY <1>2, <1>4, <2>1, <2>3 DEF PhaseAdded
    <3> HIDE DEF b, d
    <3>2. FromCache(d)
      BY <1>3, <3>1, CacheGrow
    <3> QED BY <1>2, <1>4, <2>1, <3>2 DEF d, PhaseAdded
  <2> QED BY <2>2, <2>3
<1> QED BY <1>1, <1>2, <1>4, <1>5 DEF c, f

LEMMA ReadResponse ==
  ASSUME NEW c \in Reads, NEW kind \in FromEntry, c.etag <= version,
         c.body # None => c.body.version = c.etag /\ FromCache(c.body)
  PROVE  Response(c, kind) \in Responses /\ Good(Response(c, kind))
<1>1. /\ c.status \in {200, None} /\ c.etag \in Versions /\ c.body \in Bodies \cup {None}
  BY DEF Reads
<1>2. kind \in Kinds /\ kind \notin Fresh /\ kind # "CACHE_NOT_ENABLED"
  BY DEF FromEntry, Fresh, Kinds
<1>3. /\ Response(c, kind).body = c.body /\ Response(c, kind).etag = c.etag
      /\ Response(c, kind).kind = kind
  BY DEF Response
<1>4. Response(c, kind) \in Responses
  BY <1>1, <1>2 DEF Response, Responses
<1> QED BY <1>1, <1>2, <1>3, <1>4 DEF Good

LEMMA ErrorResponse ==
  ASSUME NEW kind \in Kinds
  PROVE  Error(kind) \in Responses /\ Good(Error(kind))
<1>1. Error(kind).body = None
  BY DEF Error
<1>2. Error(kind) \in Responses
  BY DEF Error, Responses
<1> QED BY <1>1, <1>2 DEF Good

\* A 304 names the version that the fetcher has read; whoever waits has read
\* that very version, so the entry with the new headers is what it was.
LEMMA RefreshedFits ==
  ASSUME version \in Versions, NEW r \in Requests, NEW policy, ReadFits(r), pc[r] = "waiting",
         cached[r] # None, flight.cond = version, flight.cond <= cached[r].etag
  PROVE  Refreshed(r, policy) \in Responses /\ Good(Refreshed(r, policy))
<1> DEFINE c == cached[r]
           mine == [c EXCEPT !.etag = flight.cond]
           out == Through("CacheRequest", mine, TRUE)
           kind == "CACHE_HIT_REVALIDATED_304"
<1>1. /\ c \in Reads /\ c.etag = version
      /\ c.body # None => c.body.version = c.etag /\ FromCache(c.body)
  <2>1. c \in Reads /\ c.etag <= version /\ c.etag \in Nat /\ version \in Nat
    BY BodiesAbsent DEF ReadFits, Reads
  <2>2. c.etag = version
    BY <2>1
  <2> QED BY <2>1, <2>2 DEF ReadFits
<1>2. /\ mine \in Reads /\ mine.etag = version /\ mine.body = c.body
  BY <1>1 DEF Reads
<1>3. \/ Refreshed(r, policy) = Response(mine, kind)
      \/ Refreshed(r, policy) = Response(out, kind)
  BY DEF Refreshed
<1>4. kind \in FromEntry /\ "CacheRequest" \in Phases
  BY DEF FromEntry, Phases
<1> HIDE DEF kind, c
<1>5. Response(mine, kind) \in Responses /\ Good(Response(mine, kind))
  <2> HIDE DEF mine
  <2>1. mine \in Reads /\ mine.etag <= version
        /\ (mine.body # None => mine.body.version = mine.etag /\ FromCache(mine.body))
    BY <1>1, <1>2 DEF Versions
  <2> QED BY <1>4, <2>1, ReadResponse
<1> HIDE DEF mine
<1>6. out \in Reads /\ out.etag = mine.etag /\ PhaseAdded(mine, "CacheRequest", out)
  <2>1. mine \in Reads
    BY <1>2
  <2> QED BY <1>4, <2>1, ThroughRead
<1> HIDE DEF out
<1>7. out.body # None => out.body.version = out.etag /\ FromCache(out.body)
  <2> SUFFICES ASSUME out.body # None PROVE out.body.version = out.etag /\ FromCache(out.body)
    OBVIOUS
  <2>1. mine.body # None /\ mine.body \in Bodies /\ mine.body.version = version /\ FromCache(mine.body)
    BY <1>1, <1>2, <1>6 DEF Reads, PhaseAdded
  <2>2. CASE version \in Untransformed
    BY <1>2, <1>6, <2>1, <2>2 DEF FromCache, PhaseAdded
  <2>3. CASE version \notin Untransformed
    <3> DEFINE b == mine.body
               d == out.body
               p == "CacheRequest"
    <3>1. /\ b \in Bodies /\ d \in Bodies /\ d.version = b.version /\ b.version \notin Untransformed
          /\ d.done = Append(b.done, p) /\ FromCache(b) /\ p \in Phases
      BY <1>2, <1>4, <1>6, <2>1, <2>3 DEF PhaseAdded
    <3>2. d.version = out.etag
      BY <1>2, <1>6, <2>1 DEF PhaseAdded
    <3>3. p = "CacheRequest"
      OBVIOUS
    <3> HIDE DEF b, d, p
    <3>4. FromCache(d)
      BY <3>1, <3>3, CacheGrow
    <3> QED BY <3>2, <3>4 DEF d
  <2> QED BY <2>2, <2>3
<1>8. Response(out, kind) \in Responses /\ Good(Response(out, kind))
  <2>1. out \in Reads /\ out.etag <= version
    BY <1>2, <1>6 DEF Versions
  <2> QED BY <1>4, <1>7, <2>1, ReadResponse
<1> QED BY <1>3, <1>5, <1>8

-----------------------------------------------------------------------------
(* The steps                                                               *)

\* The queue of replies, and those who share a fetch.
LEMMA Dequeue ==
  ASSUME looking \in Seq(Requests), looking # <<>>, NEW r, r = Head(looking),
         looking' = Tail(looking),
         \A i, j \in DOMAIN looking : i # j => looking[i] # looking[j]
  PROVE  /\ looking' \in Seq(Requests) /\ 1 \in DOMAIN looking /\ r = looking[1] /\ r \in Requests
         /\ \A i \in DOMAIN looking' :
              i \in Nat /\ i + 1 \in DOMAIN looking /\ looking'[i] = looking[i + 1]
         /\ \A i, j \in DOMAIN looking' : i # j => looking'[i] # looking'[j]
         /\ \A q : (\E i \in DOMAIN looking' : looking'[i] = q)
                     <=> q # r /\ \E i \in DOMAIN looking : looking[i] = q
<1>1. /\ looking' \in Seq(Requests) /\ Len(looking) \in Nat /\ Len(looking) >= 1
      /\ Len(looking') = Len(looking) - 1 /\ DOMAIN looking = 1 .. Len(looking)
      /\ DOMAIN looking' = 1 .. Len(looking')
  OBVIOUS
<1>2. r = looking[1] /\ 1 \in DOMAIN looking /\ r \in Requests
  BY <1>1
<1>3. \A i \in DOMAIN looking' :
        i \in Nat /\ i + 1 \in DOMAIN looking /\ looking'[i] = looking[i + 1]
  BY <1>1
<1>4. ASSUME NEW i \in DOMAIN looking', NEW j \in DOMAIN looking', i # j
      PROVE  looking'[i] # looking'[j]
  <2>1. i + 1 # j + 1
    BY <1>3, <1>4
  <2> QED BY <1>3, <1>4, <2>1
<1>5. ASSUME NEW q, NEW i \in DOMAIN looking', looking'[i] = q
      PROVE  q # r /\ \E k \in DOMAIN looking : looking[k] = q
  <2>1. i + 1 # 1
    BY <1>1, <1>3, <1>5
  <2> QED BY <1>2, <1>3, <1>5, <2>1
<1>6. ASSUME NEW q, q # r, NEW k \in DOMAIN looking, looking[k] = q
      PROVE  \E i \in DOMAIN looking' : looking'[i] = q
  <2>1. k # 1 /\ k \in Nat
    BY <1>1, <1>2, <1>6
  <2>2. k - 1 \in DOMAIN looking'
    BY <1>1, <1>6, <2>1
  <2>3. looking'[k - 1] = looking[k]
    <3>1. (k - 1) + 1 = k
      BY <2>1
    <3> QED BY <1>3, <2>2, <3>1
  <2> QED BY <1>6, <2>2, <2>3
<1> QED BY <1>1, <1>2, <1>3, <1>4, <1>5, <1>6

LEMMA Enqueue ==
  ASSUME looking \in Seq(Requests), NEW r \in Requests, looking' = Append(looking, r),
         \A i \in DOMAIN looking : looking[i] # r,
         \A i, j \in DOMAIN looking : i # j => looking[i] # looking[j]
  PROVE  /\ looking' \in Seq(Requests)
         /\ \A i, j \in DOMAIN looking' : i # j => looking'[i] # looking'[j]
         /\ \A i \in DOMAIN looking' :
              \/ i \in DOMAIN looking /\ looking'[i] = looking[i] /\ looking'[i] # r
              \/ looking'[i] = r /\ \A j \in DOMAIN looking' : ~ (i < j)
         /\ \A q : (\E i \in DOMAIN looking' : looking'[i] = q)
                     <=> q = r \/ \E i \in DOMAIN looking : looking[i] = q
<1> DEFINE n == Len(looking)
<1>1. /\ looking' \in Seq(Requests) /\ n \in Nat /\ Len(looking') = n + 1
      /\ DOMAIN looking = 1 .. n /\ DOMAIN looking' = 1 .. n + 1
  OBVIOUS
<1>2. looking'[n + 1] = r /\ \A i \in 1 .. n : looking'[i] = looking[i]
  BY <1>1
<1> HIDE DEF n
<1>3. \A i \in DOMAIN looking' :
        \/ i \in DOMAIN looking /\ looking'[i] = looking[i] /\ looking'[i] # r
        \/ i = n + 1 /\ looking'[i] = r /\ \A j \in DOMAIN looking' : ~ (i < j)
  BY <1>1, <1>2
<1>4. \A i, j \in DOMAIN looking' : i # j => looking'[i] # looking'[j]
  BY <1>3
<1>5. ASSUME NEW q
      PROVE  (\E i \in DOMAIN looking' : looking'[i] = q)
               <=> q = r \/ \E i \in DOMAIN looking : looking[i] = q
  <2>1. n + 1 \in DOMAIN looking' /\ DOMAIN looking \subseteq DOMAIN looking'
    BY <1>1
  <2> QED BY <1>1, <1>2, <1>3, <2>1
<1> QED BY <1>1, <1>3, <1>4, <1>5

LEMMA SharersFit ==
  ASSUME flight \in Flights
  PROVE  /\ Sharers \in Seq(Requests) /\ Len(Sharers) = 1 + Len(flight.waiting)
         /\ flight.by \in ToSet(Sharers) /\ ToSet(Sharers) \subseteq Requests
         /\ \A r : r \in ToSet(Sharers) <=>
              r = flight.by \/ \E i \in DOMAIN flight.waiting : flight.waiting[i] = r
         /\ \A r \in ToSet(Sharers) : Place(r) \in Nat \ {0}
<1> DEFINE w == flight.waiting
           one == <<flight.by>>
<1>1. w \in Seq(Requests) /\ flight.by \in Requests /\ Len(w) \in Nat /\ DOMAIN w = 1 .. Len(w)
  BY DEF Flights
<1>2. one \in Seq(Requests) /\ Len(one) = 1 /\ one[1] = flight.by
  BY <1>1
<1>3. /\ Sharers = one \o w /\ Sharers \in Seq(Requests) /\ Len(Sharers) = 1 + Len(w)
      /\ DOMAIN Sharers = 1 .. 1 + Len(w)
  BY <1>1, <1>2 DEF Sharers
<1>4. Sharers[1] = flight.by /\ \A i \in 1 .. Len(w) : Sharers[1 + i] = w[i]
  BY <1>1, <1>2, <1>3
<1> HIDE DEF w, one
<1>5. ASSUME NEW r
      PROVE  r \in ToSet(Sharers) <=> r = flight.by \/ \E i \in DOMAIN w : w[i] = r
  <2>1. r \in ToSet(Sharers) <=> \E k \in DOMAIN Sharers : Sharers[k] = r
    BY DEF ToSet
  <2>2. ASSUME NEW k \in DOMAIN Sharers, Sharers[k] = r
        PROVE  r = flight.by \/ \E i \in DOMAIN w : w[i] = r
    <3>1. CASE k = 1
      BY <1>4, <2>2, <3>1
    <3>2. CASE k # 1
      <4>1. k - 1 \in 1 .. Len(w) /\ 1 + (k - 1) = k
        BY <1>1, <1>3, <2>2, <3>2
      <4>2. w[k - 1] = Sharers[k]
        BY <1>4, <4>1
      <4> QED BY <1>1, <2>2, <4>1, <4>2
    <3> QED BY <3>1, <3>2
  <2>3. ASSUME NEW i \in DOMAIN w, w[i] = r PROVE \E k \in DOMAIN Sharers : Sharers[k] = r
    <3>1. 1 + i \in DOMAIN Sharers
      BY <1>1, <1>3, <2>3
    <3> QED BY <1>1, <1>4, <2>3, <3>1
  <2>4. 1 \in DOMAIN Sharers
    BY <1>1, <1>3
  <2> QED BY <1>4, <2>1, <2>2, <2>3, <2>4
<1>6. ToSet(Sharers) \subseteq Requests
  BY <1>3 DEF ToSet
<1>7. ASSUME NEW r \in ToSet(Sharers) PROVE Place(r) \in Nat \ {0}
  <2>1. \E i \in DOMAIN Sharers : Sharers[i] = r
    BY <1>7 DEF ToSet
  <2>2. Place(r) \in DOMAIN Sharers
    BY <2>1 DEF Place
  <2> QED BY <1>1, <1>3, <2>2
<1> QED BY <1>1, <1>3, <1>5, <1>6, <1>7 DEF w

LEMMA ArriveKeeps ==
  ASSUME PipeInv, NEW r \in Requests, Arrive(r)
  PROVE  PipeInv'
<1>1. /\ pc[r] = "idle" /\ pc' = [pc EXCEPT ![r] = "looking"]
      /\ looking' = Append(looking, r) /\ cached' = [cached EXCEPT ![r] = Loaded(entry)]
      /\ Silent /\ UNCHANGED <<version, entry, flight, held, copy>>
  BY DEF Arrive
<1>2. PICK q \in Questions :
        /\ q.cond \in {"etag", "since"} => copy[r] # None
        /\ asked' = [asked EXCEPT ![r] = q]
  <2>1. PICK c \in Conditions, t \in BOOLEAN :
          /\ c \in {"etag", "since"} => copy[r] # None
          /\ asked' = [asked EXCEPT ![r] = [cond |-> c, tracked |-> t]]
    BY DEF Arrive
  <2> DEFINE q == [cond |-> c, tracked |-> t]
  <2>2. q \in Questions /\ q.cond = c
    BY DEF Questions
  <2> HIDE DEF q
  <2>3. asked' = [asked EXCEPT ![r] = q]
    BY <2>1 DEF q
  <2> QED BY <2>1, <2>2, <2>3
<1>3. /\ version \in Versions /\ QueuesFit /\ EntryFits /\ ReadsFit /\ InOrder /\ ClientsFit
  BY DEF PipeInv
<1>4. /\ looking' \in Seq(Requests)
      /\ \A i, j \in DOMAIN looking' : i # j => looking'[i] # looking'[j]
      /\ \A i \in DOMAIN looking' :
           \/ i \in DOMAIN looking /\ looking'[i] = looking[i] /\ looking'[i] # r
           \/ looking'[i] = r /\ \A j \in DOMAIN looking' : ~ (i < j)
      /\ \A c : (\E i \in DOMAIN looking' : looking'[i] = c)
                  <=> c = r \/ \E i \in DOMAIN looking : looking[i] = c
  <2>1. looking \in Seq(Requests) /\ \A i, j \in DOMAIN looking : i # j => looking[i] # looking[j]
    BY <1>3 DEF QueuesFit
  <2>2. \A i \in DOMAIN looking : looking[i] # r
    BY <1>1, <1>3 DEF QueuesFit
  <2> QED BY <1>1, <2>1, <2>2, Enqueue
<1>5. QueuesFit'
  <2>1. \A c \in Requests : Sharing(c)' <=> Sharing(c)
    BY <1>1 DEF Sharing
  <2>2. \A c \in Requests : held'[c] # None => Good(held[c])'
    BY <1>1, <1>3 DEF QueuesFit, Good
  <2>3. pc' \in [Requests -> {"idle", "looking", "waiting", "replying"}]
    BY <1>1, <1>3 DEF QueuesFit
  <2>4. \A c \in Requests :
          /\ pc'[c] = "looking" <=> \E i \in DOMAIN looking' : looking'[i] = c
          /\ pc'[c] = "waiting" <=> Sharing(c)'
          /\ pc'[c] = "replying" <=> held'[c] # None
    BY <1>1, <1>3, <1>4, <2>1 DEF QueuesFit
  <2> QED BY <1>1, <1>3, <1>4, <2>2, <2>3, <2>4 DEF QueuesFit
<1>6. EntryFits'
  BY <1>1, <1>3 DEF EntryFits
<1> DEFINE e == Loaded(entry)
<1>7. e # None =>
        /\ entry # None /\ e \in Reads /\ e.etag = entry.etag /\ e.etag <= version
        /\ e.body # None => e.body.version = e.etag /\ e.body.done \in StoredDone(e.etag)
  <2> SUFFICES ASSUME e # None
               PROVE  /\ entry # None /\ e \in Reads /\ e.etag = entry.etag /\ e.etag <= version
                      /\ e.body # None => e.body.version = e.etag /\ e.body.done \in StoredDone(e.etag)
    OBVIOUS
  <2>1. /\ entry # None /\ entry \in Entries
        /\ e = [status |-> IF entry.body = None THEN None ELSE 200, kind |-> "CACHE_HIT",
                etag |-> entry.etag, body |-> entry.body, stale |-> entry.stale]
    BY <1>3 DEF Loaded, EntryFits
  <2>2. e \in Reads /\ e.etag = entry.etag /\ e.body = entry.body
    BY <2>1 DEF Reads, Entries
  <2> HIDE DEF e
  <2> QED BY <1>3, <2>1, <2>2 DEF EntryFits
<1>8. cached' = [cached EXCEPT ![r] = e] /\ cached \in [Requests -> Reads \cup {None}]
  BY <1>1, <1>3 DEF ReadsFit
<1>9. e \in Reads \cup {None}
  BY <1>7
<1> HIDE DEF e
<1>10. cached'[r] = e /\ \A c \in Requests : c # r => cached'[c] = cached[c] /\ pc'[c] = pc[c]
  BY <1>1, <1>3, <1>8 DEF QueuesFit
<1>11. ReadsFit'
  <2>1. ReadFits(r)'
    <3>1. pc'[r] = "looking"
      BY <1>1, <1>3 DEF QueuesFit
    <3> QED BY <1>1, <1>7, <1>10, <3>1 DEF ReadFits
  <2>2. ASSUME NEW c \in Requests, c # r PROVE ReadFits(c)'
    <3>1. ReadFits(c)
      BY <1>3 DEF ReadsFit
    <3> QED BY <1>1, <1>10, <2>2, <3>1 DEF ReadFits
  <2>3. cached' \in [Requests -> Reads \cup {None}]
    BY <1>8, <1>9
  <2> QED BY <2>1, <2>2, <2>3 DEF ReadsFit
<1>12. InOrder'
  <2>1. \A c \in Requests : NotNewer(cached[c], e) /\ (cached[c] # None => cached[c].etag \in Nat)
    BY <1>3, <1>7, BodiesAbsent DEF InOrder, NotNewer, ReadsFit, ReadFits, Reads
  <2>2. e # None => e.etag \in Nat
    BY <1>7, BodiesAbsent DEF Reads
  <2>3. ASSUME NEW i \in DOMAIN looking', NEW j \in DOMAIN looking', i < j
        PROVE  NotNewer(cached'[looking'[i]], cached'[looking'[j]])
    <3>1. i \in DOMAIN looking /\ looking'[i] = looking[i] /\ looking[i] # r /\ looking[i] \in Requests
      BY <1>3, <1>4, <2>3 DEF QueuesFit
    <3>2. CASE looking'[j] = r
      BY <1>10, <2>1, <3>1, <3>2 DEF NotNewer
    <3>3. CASE looking'[j] # r
      <4>1. j \in DOMAIN looking /\ looking'[j] = looking[j] /\ looking[j] \in Requests
        BY <1>3, <1>4, <2>3, <3>3 DEF QueuesFit
      <4> QED BY <1>3, <1>10, <2>3, <3>1, <3>3, <4>1 DEF InOrder
    <3> QED BY <3>2, <3>3
  <2>4. ASSUME flight # None, flight.cond # None
        PROVE  /\ cached'[flight.by] # None /\ cached'[flight.by].etag = flight.cond
               /\ \A c \in Requests :
                    pc'[c] \in {"looking", "waiting"} => NotNewer(cached'[flight.by], cached'[c])
    <3>1. flight.by \in Requests /\ pc[flight.by] = "waiting"
      BY <1>3, <2>4 DEF QueuesFit, Sharing, Flights
    <3>2. cached'[flight.by] = cached[flight.by]
      BY <1>1, <1>10, <3>1
    <3>3. /\ cached[flight.by] # None /\ cached[flight.by].etag = flight.cond
          /\ \A c \in Requests :
               pc[c] \in {"looking", "waiting"} => NotNewer(cached[flight.by], cached[c])
      BY <1>3, <2>4 DEF InOrder
    <3> QED BY <1>10, <2>1, <3>1, <3>2, <3>3 DEF NotNewer
  <2>5. \A c \in Requests : NotNewer(cached'[c], entry)
    BY <1>3, <1>7, <1>10, <2>2 DEF InOrder, NotNewer
  <2> QED BY <1>1, <2>3, <2>4, <2>5 DEF InOrder
<1>13. ClientsFit'
  <2>1. asked' \in [Requests -> Questions] /\ \A c \in Requests : asked'[c] = IF c = r THEN q ELSE asked[c]
    BY <1>2, <1>3 DEF ClientsFit
  <2>2. \A c \in Requests : copy'[c] = copy[c] /\ (Honest(copy[c])' <=> Honest(copy[c]))
    BY <1>1 DEF Honest
  <2> QED BY <1>2, <1>3, <2>1, <2>2 DEF ClientsFit
<1>14. AnswersFit'
  BY <1>1, SilentFits
<1> QED BY <1>1, <1>3, <1>5, <1>6, <1>11, <1>12, <1>13, <1>14 DEF PipeInv

\* The head of the queue: what its leaving does to the others' order.
LEMMA HeadFits ==
  ASSUME QueuesFit, looking # <<>>, NEW r, Head(looking) = r, looking' = Tail(looking)
  PROVE  /\ r \in Requests /\ pc[r] = "looking" /\ looking' \in Seq(Requests)
         /\ \A i, j \in DOMAIN looking' : i # j => looking'[i] # looking'[j]
         /\ \A q \in Requests : (\E i \in DOMAIN looking' : looking'[i] = q)
                                  <=> q # r /\ pc[q] = "looking"
         /\ \A i \in DOMAIN looking' : looking'[i] \in Requests /\ looking'[i] # r
         /\ ~ Sharing(r)
<1>1. /\ looking \in Seq(Requests) /\ \A i, j \in DOMAIN looking : i # j => looking[i] # looking[j]
      /\ \A q \in Requests :
           /\ pc[q] = "looking" <=> \E i \in DOMAIN looking : looking[i] = q
           /\ pc[q] = "waiting" <=> Sharing(q)
  BY DEF QueuesFit
<1>2. /\ looking' \in Seq(Requests) /\ 1 \in DOMAIN looking /\ r = looking[1] /\ r \in Requests
      /\ \A i, j \in DOMAIN looking' : i # j => looking'[i] # looking'[j]
      /\ \A q : (\E i \in DOMAIN looking' : looking'[i] = q)
                  <=> q # r /\ \E i \in DOMAIN looking : looking[i] = q
  <2>1. /\ looking \in Seq(Requests) /\ r = Head(looking)
        /\ \A i, j \in DOMAIN looking : i # j => looking[i] # looking[j]
    BY <1>1
  <2> QED BY ONLY <2>1, looking # <<>>, looking' = Tail(looking), Dequeue
<1>3. \A i \in DOMAIN looking' : looking'[i] \in Requests /\ looking'[i] # r
  BY <1>2
<1>4. pc[r] = "looking"
  BY <1>1, <1>2
<1> QED BY <1>1, <1>2, <1>3, <1>4

LEMMA HeadInOrder ==
  ASSUME QueuesFit, ReadsFit, InOrder, looking # <<>>, NEW r, Head(looking) = r,
         looking' = Tail(looking)
  PROVE  /\ \A i, j \in DOMAIN looking' : i < j => NotNewer(cached[looking'[i]], cached[looking'[j]])
         /\ \A i \in DOMAIN looking' : NotNewer(cached[r], cached[looking'[i]])
<1>1. /\ looking \in Seq(Requests) /\ \A i, j \in DOMAIN looking : i # j => looking[i] # looking[j]
      /\ \A i, j \in DOMAIN looking : i < j => NotNewer(cached[looking[i]], cached[looking[j]])
  BY DEF QueuesFit, InOrder
<1>2. /\ 1 \in DOMAIN looking /\ r = looking[1]
      /\ \A i \in DOMAIN looking' :
           i \in Nat /\ i + 1 \in DOMAIN looking /\ looking'[i] = looking[i + 1]
  BY <1>1, Dequeue
<1>3. ASSUME NEW i \in DOMAIN looking', NEW j \in DOMAIN looking', i < j
      PROVE  NotNewer(cached[looking'[i]], cached[looking'[j]])
  <2>1. i + 1 < j + 1
    BY <1>2, <1>3
  <2> QED BY <1>1, <1>2, <1>3, <2>1
<1>4. ASSUME NEW i \in DOMAIN looking' PROVE NotNewer(cached[r], cached[looking'[i]])
  <2>1. 1 < i + 1
    <3>1. DOMAIN looking' = 1 .. Len(looking') /\ Len(looking') \in Nat
      BY <1>1
    <3> QED BY <1>4, <3>1
  <2> QED BY <1>1, <1>2, <1>4, <2>1
<1> QED BY <1>3, <1>4

LEMMA HitKeeps ==
  ASSUME PipeInv, NEW r \in Requests, Hit(r)
  PROVE  PipeInv'
<1> DEFINE out == [c \in {r} |-> Response(Found(c), "CACHE_HIT")]
<1>1. /\ looking # <<>> /\ Head(looking) = r /\ Found(r) # None
      /\ Answered(out)
      /\ pc' = [pc EXCEPT ![r] = "idle"] /\ looking' = Tail(looking)
      /\ cached' = [cached EXCEPT ![r] = None]
      /\ UNCHANGED <<version, entry, flight, held>>
  BY DEF Hit
<1>2. /\ version \in Versions /\ QueuesFit /\ EntryFits /\ ReadsFit /\ InOrder /\ ClientsFit
  BY DEF PipeInv
<1>3. /\ pc[r] = "looking" /\ looking' \in Seq(Requests)
      /\ \A i, j \in DOMAIN looking' : i # j => looking'[i] # looking'[j]
      /\ \A q \in Requests : (\E i \in DOMAIN looking' : looking'[i] = q)
                               <=> q # r /\ pc[q] = "looking"
      /\ \A i \in DOMAIN looking' : looking'[i] \in Requests /\ looking'[i] # r
      /\ ~ Sharing(r)
  BY <1>1, <1>2, HeadFits
<1>4. ClientsFit' /\ AnswersFit'
  <2>1. out[r] \in Responses /\ Good(out[r])
    <3>1. ReadFits(r)
      BY <1>2 DEF ReadsFit
    <3>2. /\ Found(r) \in Reads /\ Found(r).etag <= version
          /\ Found(r).body # None =>
               Found(r).body.version = Found(r).etag /\ FromCache(Found(r).body)
      BY <1>1, <1>3, <3>1, FoundFits
    <3>3. "CACHE_HIT" \in FromEntry
      BY DEF FromEntry
    <3>4. Response(Found(r), "CACHE_HIT") \in Responses /\ Good(Response(Found(r), "CACHE_HIT"))
      BY <3>2, <3>3, ReadResponse
    <3> QED BY <3>4
  <2>2. DOMAIN out = {r}
    OBVIOUS
  <2> HIDE DEF out
  <2>3. \A c \in DOMAIN out : out[c] \in Responses /\ Good(out[c])
    BY <2>1, <2>2
  <2> QED BY <1>1, <1>2, <2>2, <2>3, AnsweredFits
<1>5. \A c \in Requests : c # r => cached'[c] = cached[c] /\ pc'[c] = pc[c]
  BY <1>1, <1>2 DEF QueuesFit, ReadsFit
<1>6. cached'[r] = None /\ pc'[r] = "idle"
  BY <1>1, <1>2 DEF QueuesFit, ReadsFit
<1>7. QueuesFit'
  <2>1. \A c \in Requests : Sharing(c)' <=> Sharing(c)
    BY <1>1 DEF Sharing
  <2>2. \A c \in Requests : held'[c] # None => Good(held[c])'
    BY <1>1, <1>2 DEF QueuesFit, Good
  <2>3. pc' \in [Requests -> {"idle", "looking", "waiting", "replying"}]
    BY <1>1, <1>2 DEF QueuesFit
  <2>4. \A c \in Requests :
          /\ pc'[c] = "looking" <=> \E i \in DOMAIN looking' : looking'[i] = c
          /\ pc'[c] = "waiting" <=> Sharing(c)'
          /\ pc'[c] = "replying" <=> held'[c] # None
    BY <1>1, <1>2, <1>3, <1>5, <1>6, <2>1 DEF QueuesFit
  <2> QED BY <1>1, <1>2, <1>3, <2>2, <2>3, <2>4 DEF QueuesFit
<1>8. EntryFits'
  BY <1>1, <1>2 DEF EntryFits
<1>9. ReadsFit'
  <2>1. \A c \in Requests : ReadFits(c)'
    BY <1>1, <1>2, <1>5, <1>6 DEF ReadsFit, ReadFits
  <2>2. cached' \in [Requests -> Reads \cup {None}]
    BY <1>1, <1>2 DEF ReadsFit
  <2> QED BY <2>1, <2>2 DEF ReadsFit
<1>10. InOrder'
  <2>1. \A i, j \in DOMAIN looking' : i < j => NotNewer(cached'[looking'[i]], cached'[looking'[j]])
    <3>1. \A i, j \in DOMAIN looking' : i < j => NotNewer(cached[looking'[i]], cached[looking'[j]])
      BY <1>1, <1>2, HeadInOrder
    <3> QED BY <1>3, <1>5, <3>1
  <2>2. ASSUME flight # None, flight.cond # None
        PROVE  /\ cached'[flight.by] # None /\ cached'[flight.by].etag = flight.cond
               /\ \A c \in Requests :
                    pc'[c] \in {"looking", "waiting"} => NotNewer(cached'[flight.by], cached'[c])
    <3>1. flight.by \in Requests /\ flight.by # r
      BY <1>2, <1>3, <2>2 DEF QueuesFit, Sharing, Flights
    <3>2. /\ cached[flight.by] # None /\ cached[flight.by].etag = flight.cond
          /\ \A c \in Requests :
               pc[c] \in {"looking", "waiting"} => NotNewer(cached[flight.by], cached[c])
      BY <1>2, <2>2 DEF InOrder
    <3> QED BY <1>5, <1>6, <3>1, <3>2 DEF NotNewer
  <2>3. \A c \in Requests : NotNewer(cached'[c], entry)
    BY <1>2, <1>5, <1>6 DEF InOrder, NotNewer
  <2> QED BY <1>1, <2>1, <2>2, <2>3 DEF InOrder
<1> QED BY <1>1, <1>2, <1>4, <1>7, <1>8, <1>9, <1>10 DEF PipeInv

LEMMA FetchKeeps ==
  ASSUME PipeInv, NEW r \in Requests, Fetch(r)
  PROVE  PipeInv'
<1> DEFINE f == Found(r)
           mine == [by |-> r, waiting |-> <<>>, cond |-> IF f = None THEN None ELSE f.etag]
           joined == [flight EXCEPT !.waiting = Append(@, r)]
<1>1. /\ looking # <<>> /\ Head(looking) = r
      /\ flight' = IF flight # None THEN joined ELSE mine
      /\ pc' = [pc EXCEPT ![r] = "waiting"] /\ looking' = Tail(looking)
      /\ cached' = [cached EXCEPT ![r] = f]
      /\ Silent /\ UNCHANGED <<version, entry, asked, held, copy>>
  BY DEF Fetch
<1>2. /\ version \in Versions /\ QueuesFit /\ EntryFits /\ ReadsFit /\ InOrder /\ ClientsFit
  BY DEF PipeInv
<1>3. /\ pc[r] = "looking" /\ looking' \in Seq(Requests)
      /\ \A i, j \in DOMAIN looking' : i # j => looking'[i] # looking'[j]
      /\ \A q \in Requests : (\E i \in DOMAIN looking' : looking'[i] = q)
                               <=> q # r /\ pc[q] = "looking"
      /\ \A i \in DOMAIN looking' : looking'[i] \in Requests /\ looking'[i] # r
      /\ ~ Sharing(r)
  BY <1>1, <1>2, HeadFits
<1>4. f # None =>
        /\ cached[r] # None /\ f \in Reads /\ f.etag = cached[r].etag /\ f.etag <= version
        /\ f.body # None => f.body.version = f.etag /\ FromCache(f.body)
  <2>1. ReadFits(r)
    BY <1>2 DEF ReadsFit
  <2> QED BY <1>3, <2>1, FoundFits
<1>5. f \in Reads \cup {None}
  BY <1>4
<1> HIDE DEF f
<1>6. \A c \in Requests : c # r => cached'[c] = cached[c] /\ pc'[c] = pc[c]
  BY <1>1, <1>2 DEF QueuesFit, ReadsFit
<1>7. cached'[r] = f /\ pc'[r] = "waiting"
  BY <1>1, <1>2 DEF QueuesFit, ReadsFit
<1>8. ASSUME flight = None
      PROVE  /\ flight' \in Flights /\ flight'.by = r
             /\ flight'.cond = IF f = None THEN None ELSE f.etag
             /\ \A c \in Requests : Sharing(c)' <=> c = r
  <2>1. flight' = mine /\ (f # None => f.etag \in Versions)
    BY <1>1, <1>4, <1>8 DEF Reads
  <2>2. <<>> \in Seq(Requests) /\ DOMAIN <<>> = {}
    OBVIOUS
  <2>3. /\ mine \in Flights /\ mine.by = r /\ mine.waiting = <<>>
        /\ mine.cond = IF f = None THEN None ELSE f.etag
    BY <2>1, <2>2 DEF Flights
  <2>4. flight' # None
    BY <2>1, <2>3, AbsentAssumption
  <2> HIDE DEF mine
  <2> QED BY <2>1, <2>2, <2>3, <2>4 DEF Sharing
<1>9. ASSUME flight # None
      PROVE  /\ flight' \in Flights /\ flight'.by = flight.by /\ flight'.cond = flight.cond
             /\ \A c \in Requests : Sharing(c)' <=> c = r \/ Sharing(c)
  <2> DEFINE w == flight.waiting
             v == flight'.waiting
  <2>1. flight \in Flights /\ w \in Seq(Requests)
    BY <1>2, <1>9 DEF QueuesFit, Flights
  <2>2. flight' = [flight EXCEPT !.waiting = Append(w, r)]
    BY <1>1, <1>9
  <2>3. /\ flight' \in Flights /\ flight'.by = flight.by /\ flight'.cond = flight.cond
        /\ v = Append(w, r)
    <3> DEFINE longer == Append(w, r)
    <3>1. longer \in Seq(Requests)
      BY <2>1
    <3>2. flight' = [flight EXCEPT !.waiting = longer]
      BY <2>2
    <3> HIDE DEF longer, w
    <3>3. /\ flight' \in Flights /\ flight'.by = flight.by /\ flight'.cond = flight.cond
          /\ flight'.waiting = longer
      BY <2>1, <3>1, <3>2 DEF Flights
    <3> QED BY <3>3 DEF longer
  <2>4. flight' # None
    BY <2>3, AbsentAssumption
  <2> HIDE DEF w, v
  <2>5. ASSUME NEW c
        PROVE  (\E i \in DOMAIN v : v[i] = c) <=> c = r \/ \E i \in DOMAIN w : w[i] = c
    <3>1. /\ Len(w) \in Nat /\ DOMAIN w = 1 .. Len(w) /\ DOMAIN v = 1 .. Len(w) + 1
          /\ v[Len(w) + 1] = r /\ \A i \in 1 .. Len(w) : v[i] = w[i]
      BY <2>1, <2>3
    <3>2. Len(w) + 1 \in DOMAIN v /\ DOMAIN w \subseteq DOMAIN v
      BY <3>1
    <3>3. \A i \in DOMAIN v : i \in DOMAIN w \/ i = Len(w) + 1
      BY <3>1
    <3> QED BY <3>1, <3>2, <3>3
  <2>6. ASSUME NEW c \in Requests PROVE Sharing(c)' <=> c = r \/ Sharing(c)
    BY <1>9, <2>3, <2>4, <2>5 DEF Sharing, w, v
  <2> QED BY <2>3, <2>6
<1>10. QueuesFit'
  <2>1. flight' \in Flights
    BY <1>8, <1>9
  <2>2. \A c \in Requests : held'[c] # None => Good(held[c])'
    BY <1>1, <1>2 DEF QueuesFit, Good
  <2>3. pc' \in [Requests -> {"idle", "looking", "waiting", "replying"}]
    BY <1>1, <1>2 DEF QueuesFit
  <2>4. \A c \in Requests : Sharing(c)' <=> c = r \/ Sharing(c)
    <3>1. flight = None => \A c \in Requests : ~ Sharing(c)
      BY DEF Sharing
    <3> QED BY <1>8, <1>9, <3>1
  <2>5. \A c \in Requests :
          /\ pc'[c] = "looking" <=> \E i \in DOMAIN looking' : looking'[i] = c
          /\ pc'[c] = "waiting" <=> Sharing(c)'
          /\ pc'[c] = "replying" <=> held'[c] # None
    BY <1>1, <1>2, <1>3, <1>6, <1>7, <2>4 DEF QueuesFit
  <2> QED BY <1>1, <1>2, <1>3, <2>1, <2>2, <2>3, <2>5 DEF QueuesFit
<1>11. EntryFits'
  BY <1>1, <1>2 DEF EntryFits
<1>12. ReadsFit'
  <2>1. ReadFits(r)'
    BY <1>1, <1>4, <1>7 DEF ReadFits
  <2>2. ASSUME NEW c \in Requests, c # r PROVE ReadFits(c)'
    <3>1. ReadFits(c)
      BY <1>2 DEF ReadsFit
    <3> QED BY <1>1, <1>6, <2>2, <3>1 DEF ReadFits
  <2>3. cached' \in [Requests -> Reads \cup {None}]
    BY <1>1, <1>2, <1>5 DEF ReadsFit
  <2> QED BY <2>1, <2>2, <2>3 DEF ReadsFit
<1>13. InOrder'
  <2>1. \A c \in Requests : NotNewer(cached[r], cached[c]) => NotNewer(cached'[r], cached[c])
    BY <1>4, <1>7 DEF NotNewer
  <2>2. /\ \A i, j \in DOMAIN looking' : i < j => NotNewer(cached[looking'[i]], cached[looking'[j]])
        /\ \A i \in DOMAIN looking' : NotNewer(cached[r], cached[looking'[i]])
    BY <1>1, <1>2, HeadInOrder
  <2>3. \A i, j \in DOMAIN looking' : i < j => NotNewer(cached'[looking'[i]], cached'[looking'[j]])
    BY <1>3, <1>6, <2>2
  <2>4. \A c \in Requests : NotNewer(cached'[c], entry)
    BY <1>2, <1>4, <1>6, <1>7 DEF InOrder, NotNewer
  <2>5. CASE flight = None
    <3>1. ASSUME flight'.cond # None
          PROVE  /\ cached'[r] # None /\ cached'[r].etag = flight'.cond
                 /\ \A c \in Requests :
                      pc'[c] \in {"looking", "waiting"} => NotNewer(cached'[r], cached'[c])
      <4>1. f # None /\ flight'.cond = f.etag
        BY <1>8, <2>5, <3>1
      <4>2. ASSUME NEW c \in Requests, pc'[c] \in {"looking", "waiting"}
            PROVE  NotNewer(cached'[r], cached'[c])
        <5>1. CASE c = r
          BY <1>4, <1>7, <4>1, <5>1, BodiesAbsent DEF NotNewer, Reads
        <5>2. CASE c # r
          <6>1. pc[c] = "looking"
            BY <1>2, <1>6, <2>5, <4>2, <5>2 DEF QueuesFit, Sharing
          <6>2. PICK i \in DOMAIN looking' : looking'[i] = c
            BY <1>3, <5>2, <6>1
          <6> QED BY <1>6, <2>1, <2>2, <5>2, <6>2
        <5> QED BY <5>1, <5>2
      <4> QED BY <1>7, <4>1, <4>2
    <3> QED BY <1>1, <1>8, <2>3, <2>4, <2>5, <3>1 DEF InOrder
  <2>6. CASE flight # None
    <3>1. ASSUME flight.cond # None
          PROVE  /\ cached'[flight.by] # None /\ cached'[flight.by].etag = flight.cond
                 /\ \A c \in Requests :
                      pc'[c] \in {"looking", "waiting"} => NotNewer(cached'[flight.by], cached'[c])
      <4>1. flight.by \in Requests /\ flight.by # r
        BY <1>2, <1>3, <2>6 DEF QueuesFit, Sharing, Flights
      <4>2. /\ cached[flight.by] # None /\ cached[flight.by].etag = flight.cond
            /\ \A c \in Requests :
                 pc[c] \in {"looking", "waiting"} => NotNewer(cached[flight.by], cached[c])
        BY <1>2, <2>6, <3>1 DEF InOrder
      <4>3. NotNewer(cached[flight.by], cached'[r])
        BY <1>3, <1>4, <1>7, <4>2 DEF NotNewer
      <4> QED BY <1>6, <4>1, <4>2, <4>3
    <3> QED BY <1>1, <1>9, <2>3, <2>4, <2>6, <3>1 DEF InOrder
  <2> QED BY <2>5, <2>6
<1>14. ClientsFit'
  <2>1. \A c \in Requests : Honest(copy[c])' <=> Honest(copy[c])
    BY <1>1 DEF Honest
  <2> QED BY <1>1, <1>2, <2>1 DEF ClientsFit
<1>15. AnswersFit'
  BY <1>1, SilentFits
<1> QED BY <1>1, <1>2, <1>10, <1>11, <1>12, <1>13, <1>14, <1>15 DEF PipeInv

\* A fetch settles: everyone who shares it gets a good answer, now or later.
LEMMA ResumesKeeps ==
  ASSUME PipeInv, flight # None, NEW now, NEW later, Resumes(now, later),
         DOMAIN now \cup DOMAIN later = ToSet(Sharers), DOMAIN now \cap DOMAIN later = {},
         \A r \in DOMAIN now : now[r] \in Responses /\ Good(now[r]),
         \A r \in DOMAIN later : later[r] \in Responses /\ Good(later[r]),
         EntryFits', \A r \in Requests : NotNewer(cached[r], entry')
  PROVE  PipeInv'
<1>1. /\ Answered(now) /\ flight' = None
      /\ pc' = [r \in Requests |->
                  IF r \in DOMAIN now THEN "idle"
                  ELSE IF r \in DOMAIN later THEN "replying" ELSE pc[r]]
      /\ held' = [r \in Requests |-> IF r \in DOMAIN later THEN later[r] ELSE held[r]]
      /\ cached' = [r \in Requests |->
                      IF r \in DOMAIN now \cup DOMAIN later THEN None ELSE cached[r]]
      /\ UNCHANGED <<version, looking>>
  BY DEF Resumes
<1>2. /\ version \in Versions /\ QueuesFit /\ EntryFits /\ ReadsFit /\ InOrder /\ ClientsFit
  BY DEF PipeInv
<1>3. /\ DOMAIN now \subseteq Requests /\ DOMAIN later \subseteq Requests
      /\ \A r \in Requests : r \in DOMAIN now \cup DOMAIN later <=> pc[r] = "waiting"
  <2>1. flight \in Flights
    BY <1>2 DEF QueuesFit
  <2>2. ToSet(Sharers) \subseteq Requests /\ \A r : r \in ToSet(Sharers) <=>
              r = flight.by \/ \E i \in DOMAIN flight.waiting : flight.waiting[i] = r
    BY <2>1, SharersFit
  <2>3. \A r \in Requests : r \in ToSet(Sharers) <=> pc[r] = "waiting"
    BY <1>2, <2>2 DEF QueuesFit, Sharing
  <2> QED BY <2>2, <2>3
<1>4. ClientsFit' /\ AnswersFit'
  BY <1>1, <1>2, <1>3, AnsweredFits
<1>5. /\ \A r \in Requests : pc[r] # "waiting" =>
           pc'[r] = pc[r] /\ held'[r] = held[r] /\ cached'[r] = cached[r]
      /\ \A r \in Requests : pc[r] = "waiting" =>
           pc'[r] \in {"idle", "replying"} /\ cached'[r] = None
      /\ \A r \in DOMAIN now : pc'[r] = "idle" /\ held'[r] = held[r]
      /\ \A r \in DOMAIN later : pc'[r] = "replying" /\ held'[r] = later[r]
  BY <1>1, <1>3
<1>6. QueuesFit'
  <2>1. pc' \in [Requests -> {"idle", "looking", "waiting", "replying"}]
    BY <1>1, <1>2 DEF QueuesFit
  <2>2. held' \in [Requests -> Responses \cup {None}]
    BY <1>1, <1>2 DEF QueuesFit
  <2>3. ASSUME NEW r \in Requests
        PROVE  /\ pc'[r] = "looking" <=> \E i \in DOMAIN looking' : looking'[i] = r
               /\ pc'[r] = "waiting" <=> Sharing(r)'
               /\ pc'[r] = "replying" <=> held'[r] # None
    <3>1. ~ Sharing(r)'
      BY <1>1 DEF Sharing
    <3>2. CASE pc[r] # "waiting"
      BY <1>1, <1>2, <1>5, <3>1, <3>2 DEF QueuesFit
    <3>3. CASE pc[r] = "waiting"
      <4>1. ~ \E i \in DOMAIN looking : looking[i] = r
        BY <1>2, <3>3 DEF QueuesFit
      <4>2. held[r] = None
        BY <1>2, <3>3 DEF QueuesFit
      <4>3. r \in DOMAIN later => later[r] # None
        BY AbsentAssumption
      <4>4. r \in DOMAIN now \/ r \in DOMAIN later
        BY <1>3, <3>3
      <4> QED BY <1>1, <1>5, <3>1, <4>1, <4>2, <4>3, <4>4
    <3> QED BY <3>2, <3>3
  <2>4. ASSUME NEW r \in Requests, held'[r] # None PROVE Good(held[r])'
    <3>1. held'[r] = held[r] \/ (r \in DOMAIN later /\ held'[r] = later[r])
      BY <1>3, <1>5
    <3>2. Good(held'[r])
      BY <1>2, <2>4, <3>1 DEF QueuesFit
    <3> QED BY <1>1, <3>2 DEF Good
  <2> QED BY <1>1, <1>2, <2>1, <2>2, <2>3, <2>4 DEF QueuesFit
<1>7. ReadsFit'
  <2>1. ASSUME NEW r \in Requests PROVE ReadFits(r)'
    <3>1. CASE pc[r] = "waiting"
      BY <1>5, <3>1 DEF ReadFits
    <3>2. CASE pc[r] # "waiting"
      <4>1. ReadFits(r)
        BY <1>2 DEF ReadsFit
      <4> QED BY <1>1, <1>5, <3>2, <4>1 DEF ReadFits
    <3> QED BY <3>1, <3>2
  <2>2. cached' \in [Requests -> Reads \cup {None}]
    BY <1>1, <1>2 DEF ReadsFit
  <2> QED BY <2>1, <2>2 DEF ReadsFit
<1>8. InOrder'
  <2>1. ASSUME NEW i \in DOMAIN looking, NEW j \in DOMAIN looking, i < j
        PROVE  NotNewer(cached'[looking[i]], cached'[looking[j]])
    <3>1. looking[i] \in Requests /\ looking[j] \in Requests
      BY <1>2 DEF QueuesFit
    <3>2. pc[looking[i]] = "looking" /\ pc[looking[j]] = "looking"
      BY <1>2, <3>1 DEF QueuesFit
    <3> QED BY <1>2, <1>5, <2>1, <3>1, <3>2 DEF InOrder
  <2>2. \A r \in Requests : NotNewer(cached'[r], entry')
    BY <1>5 DEF NotNewer
  <2> QED BY <1>1, <2>1, <2>2 DEF InOrder
<1> QED BY <1>1, <1>2, <1>4, <1>6, <1>7, <1>8 DEF PipeInv

\* What the steps that keep the entry's version leave of the order.
LEMMA EntryKeeps ==
  ASSUME PipeInv, version' = version, entry' = entry \/ entry' = None
  PROVE  EntryFits' /\ \A r \in Requests : NotNewer(cached[r], entry')
<1>1. EntryFits /\ \A r \in Requests : NotNewer(cached[r], entry)
  BY DEF PipeInv, InOrder
<1> QED BY <1>1 DEF EntryFits, NotNewer

LEMMA LatestKeeps ==
  ASSUME PipeInv, version' = version, entry'.etag = version, entry' \in Entries,
         entry'.body # None =>
           entry'.body.version = entry'.etag /\ entry'.body.done \in StoredDone(entry'.etag)
  PROVE  EntryFits' /\ \A r \in Requests : NotNewer(cached[r], entry')
<1>1. version \in Nat
  BY BodiesAbsent DEF PipeInv
<1>2. EntryFits'
  BY <1>1 DEF EntryFits, StoredDone
<1>3. ASSUME NEW r \in Requests PROVE NotNewer(cached[r], entry')
  <2>1. cached[r] # None => cached[r].etag <= version
    BY DEF PipeInv, ReadsFit, ReadFits
  <2> QED BY <2>1 DEF NotNewer
<1> QED BY <1>2, <1>3

LEMMA OriginFailsKeeps ==
  ASSUME PipeInv, NEW strict \in BOOLEAN, OriginFails(strict)
  PROVE  PipeInv'
<1> DEFINE now == [r \in ToSet(Sharers) |->
                  IF cached[r] = None THEN Error("CACHE_FAILED_MISS")
                  ELSE IF strict THEN Error("CACHE_HIT_NOT_REVALIDATED")
                  ELSE Response(cached[r], "CACHE_HIT_NOT_REVALIDATED_STALE")]
           later == <<>>
<1>1. flight # None /\ Resumes(now, later) /\ entry' = entry
  BY DEF OriginFails
<1>2. version' = version
  BY <1>1 DEF Resumes
<1>3. flight \in Flights /\ ToSet(Sharers) \subseteq Requests
      /\ \A r \in ToSet(Sharers) : pc[r] = "waiting"
  <2>1. flight \in Flights
    BY <1>1 DEF PipeInv, QueuesFit
  <2>2. ToSet(Sharers) \subseteq Requests /\ \A r : r \in ToSet(Sharers) <=>
              r = flight.by \/ \E i \in DOMAIN flight.waiting : flight.waiting[i] = r
    BY <2>1, SharersFit
  <2> QED BY <1>1, <2>1, <2>2 DEF PipeInv, QueuesFit, Sharing
<1>4. ASSUME NEW r \in ToSet(Sharers) PROVE now[r] \in Responses /\ Good(now[r])
  <2>1. CASE cached[r] = None
    <3>1. "CACHE_FAILED_MISS" \in Kinds
      BY DEF Kinds
    <3>2. now[r] = Error("CACHE_FAILED_MISS")
      BY <1>4, <2>1
    <3> QED BY <3>1, <3>2, ErrorResponse
  <2>2. CASE cached[r] # None /\ strict
    <3>1. "CACHE_HIT_NOT_REVALIDATED" \in Kinds
      BY DEF Kinds
    <3>2. now[r] = Error("CACHE_HIT_NOT_REVALIDATED")
      BY <1>4, <2>2
    <3> QED BY <3>1, <3>2, ErrorResponse
  <2>3. CASE cached[r] # None /\ ~strict
    <3>1. ReadFits(r) /\ pc[r] = "waiting"
      BY <1>3, <1>4 DEF PipeInv, ReadsFit
    <3>2. /\ cached[r] \in Reads /\ cached[r].etag <= version
          /\ cached[r].body # None =>
               cached[r].body.version = cached[r].etag /\ FromCache(cached[r].body)
      BY <2>3, <3>1 DEF ReadFits
    <3>3. "CACHE_HIT_NOT_REVALIDATED_STALE" \in FromEntry
      BY DEF FromEntry
    <3>4. now[r] = Response(cached[r], "CACHE_HIT_NOT_REVALIDATED_STALE")
      BY <1>4, <2>3
    <3>5. /\ Response(cached[r], "CACHE_HIT_NOT_REVALIDATED_STALE") \in Responses
          /\ Good(Response(cached[r], "CACHE_HIT_NOT_REVALIDATED_STALE"))
      BY <3>2, <3>3, ReadResponse
    <3> QED BY <3>4, <3>5
  <2> QED BY <2>1, <2>2, <2>3
<1>5. EntryFits' /\ \A r \in Requests : NotNewer(cached[r], entry')
  BY <1>1, <1>2, EntryKeeps
<1>6. DOMAIN now = ToSet(Sharers) /\ DOMAIN later = {}
  OBVIOUS
<1> HIDE DEF now, later
<1> QED BY <1>1, <1>4, <1>5, <1>6, ResumesKeeps

LEMMA SharersWait ==
  ASSUME PipeInv, flight # None
  PROVE  /\ flight \in Flights /\ ToSet(Sharers) \subseteq Requests
         /\ flight.by \in ToSet(Sharers)
         /\ Len(Sharers) \in Nat \ {0} /\ \A r \in ToSet(Sharers) : Place(r) \in Nat \ {0}
         /\ \A r \in ToSet(Sharers) : pc[r] = "waiting" /\ ReadFits(r)
<1>1. flight \in Flights
  BY DEF PipeInv, QueuesFit
<1>2. /\ Sharers \in Seq(Requests)
      /\ flight.by \in ToSet(Sharers) /\ ToSet(Sharers) \subseteq Requests
      /\ \A r : r \in ToSet(Sharers) <=>
              r = flight.by \/ \E i \in DOMAIN flight.waiting : flight.waiting[i] = r
      /\ \A r \in ToSet(Sharers) : Place(r) \in Nat \ {0}
      /\ Len(Sharers) \in Nat \ {0}
  BY <1>1, SharersFit DEF Flights
<1>3. \A r \in ToSet(Sharers) : pc[r] = "waiting"
  BY <1>2 DEF PipeInv, QueuesFit, Sharing
<1>4. \A r \in ToSet(Sharers) : ReadFits(r)
  BY <1>2 DEF PipeInv, ReadsFit
<1>5. Len(Sharers) \in Nat \ {0}
  BY <1>2
<1> QED BY <1>1, <1>2, <1>3, <1>4, <1>5

\* Those who await Redis are among those who share the fetch.
LEMMA AwaitsSharers ==
  ASSUME flight.by \in ToSet(Sharers), NEW policy \in Policies
  PROVE  Awaits(policy) \subseteq ToSet(Sharers)
BY DEF Awaits, Policies

\* What JSON.SET and JSON.MERGE write.
LEMMA StoredFits ==
  ASSUME version \in Versions
  PROVE  Stored \in Entries /\ Stored.etag = version /\ Stored.body.version = version
<1> DEFINE rsp == Shared(1)
           clone == Through("CacheRequest", rsp, FALSE)
<1>1. /\ rsp = [status |-> rsp.status, kind |-> rsp.kind, etag |-> version, body |-> rsp.body]
      /\ rsp.body \in Bodies /\ rsp.body.version = version
  <2>1. [i \in 1 .. 1 |-> "OriginResponse"] \in Seq(Phases) /\ <<>> \in Seq(Phases)
    BY DEF Phases
  <2> QED BY <2>1 DEF Shared, Bodies
<1>2. Stored = [etag |-> clone.etag, body |-> clone.body, stale |-> FALSE]
  BY DEF Stored
<1>3. clone.etag = version /\ clone.body \in Bodies /\ clone.body.version = version
  <2>1. CASE clone = rsp
    <3> HIDE DEF clone, rsp
    <3>1. rsp.etag = version
      BY <1>1
    <3> QED BY <1>1, <2>1, <3>1
  <2>2. CASE clone # rsp
    <3> DEFINE b == rsp.body
               c == [b EXCEPT !.done = Append(b.done, "CacheRequest")]
    <3>1. clone = [rsp EXCEPT !.body = c]
      BY <2>2 DEF Through
    <3>2. c \in Bodies /\ c.version = version
      BY <1>1 DEF Bodies, Phases
    <3> HIDE DEF c
    <3>3. clone.body = c /\ clone.etag = version
      BY <3>1 DEF Shared
    <3> QED BY <3>2, <3>3
  <2> QED BY <2>1, <2>2
<1> HIDE DEF clone
<1>4. Stored \in Entries /\ Stored.etag = version /\ Stored.body.version = version
  BY <1>2, <1>3 DEF Entries
<1> QED BY <1>4

LEMMA MergedFits ==
  ASSUME PipeInv, version \in Versions, flight.cond = version, flight \in Flights,
         flight # None
  PROVE  LET m == Merged(flight.cond)
         IN  /\ m \in Entries /\ m.etag = version
             /\ m.body # None =>
                  m.body.version = version /\ m.body.done \in StoredDone(version)
<1> DEFINE m == Merged(flight.cond)
<1>1. m.etag = version /\ m.body = (IF entry = None THEN None ELSE entry.body) /\ m.stale = FALSE
  BY DEF Merged
<1>2. EntryFits /\ InOrder
  BY DEF PipeInv
<1>3. m \in Entries
  BY <1>2 DEF Merged, Entries, EntryFits
<1> HIDE DEF m
<1>4. ASSUME m.body # None PROVE m.body.version = version /\ m.body.done \in StoredDone(version)
  <2>1. /\ entry # None /\ m.body = entry.body /\ entry \in Entries /\ entry.etag <= version
        /\ entry.body.version = entry.etag /\ entry.body.done \in StoredDone(entry.etag)
    BY <1>1, <1>2, <1>4 DEF EntryFits
  <2>2. flight.cond # None /\ flight.by \in Requests
    BY BodiesAbsent DEF Flights
  <2>3. cached[flight.by] # None /\ cached[flight.by].etag = version
    BY <1>2, <2>2 DEF InOrder
  <2>4. version <= entry.etag
    BY <1>2, <2>1, <2>2, <2>3 DEF InOrder, NotNewer
  <2>5. entry.etag = version
    BY <2>1, <2>4, BodiesAbsent DEF Entries
  <2> QED BY <2>1, <2>5
<1> QED BY <1>1, <1>3, <1>4 DEF m

LEMMA NewResponseKeeps ==
  ASSUME PipeInv, NEW policy \in Policies, NewResponse(policy)
  PROVE  PipeInv'
<1> DEFINE all == ToSet(Sharers)
           slow == Awaits(policy)
           kind(r) == IF cached[r] = None THEN "CACHE_MISS" ELSE "CACHE_HIT_REVALIDATED"
           now == [r \in all \ slow |-> Response(Shared(Place(r)), kind(r))]
           later == [r \in slow |-> Response(Shared(Len(Sharers)), kind(r))]
<1>1. /\ flight # None /\ Resumes(now, later)
      /\ entry' = CASE policy = "store"  -> Stored
                    [] policy = "unlink" -> None
                    [] OTHER             -> entry
  BY DEF NewResponse
<1>2. version' = version /\ version \in Versions
  BY <1>1 DEF Resumes, PipeInv
<1>3. /\ flight.by \in all /\ Len(Sharers) \in Nat \ {0} /\ \A r \in all : Place(r) \in Nat \ {0}
  BY <1>1, SharersWait
<1>4. slow \subseteq all
  BY <1>3, AwaitsSharers
<1>5. \A r : kind(r) \in Fresh /\ kind(r) # "CACHE_NOT_ENABLED"
  BY DEF Fresh
<1>6. DOMAIN now = all \ slow /\ DOMAIN later = slow
  OBVIOUS
<1>7. ASSUME NEW r \in all \ slow PROVE now[r] \in Responses /\ Good(now[r])
  <2>1. Place(r) \in Nat \ {0} /\ kind(r) \in Fresh /\ kind(r) # "CACHE_NOT_ENABLED"
    BY <1>3, <1>5, <1>7
  <2>2. now[r] = Response(Shared(Place(r)), kind(r))
    BY <1>7
  <2> HIDE DEF kind, now
  <2>3. Response(Shared(Place(r)), kind(r)) \in Responses /\ Good(Response(Shared(Place(r)), kind(r)))
    BY <1>2, <2>1, SharedGood
  <2> QED BY <2>2, <2>3
<1>8. ASSUME NEW r \in slow PROVE later[r] \in Responses /\ Good(later[r])
  <2>1. /\ later[r] = Response(Shared(Len(Sharers)), kind(r))
        /\ kind(r) \in Fresh /\ kind(r) # "CACHE_NOT_ENABLED"
    BY <1>5, <1>8
  <2> HIDE DEF kind, later
  <2>2. /\ Response(Shared(Len(Sharers)), kind(r)) \in Responses
        /\ Good(Response(Shared(Len(Sharers)), kind(r)))
    BY <1>2, <1>3, <2>1, SharedGood
  <2> QED BY <2>1, <2>2
<1>9. EntryFits' /\ \A r \in Requests : NotNewer(cached[r], entry')
  <2>1. CASE policy = "store"
    <3>1. Stored \in Entries /\ Stored.etag = version /\ Stored.body.version = version
      BY <1>2, StoredFits
    <3>2. Stored.body # None => Stored.body.done \in StoredDone(version)
      BY <3>1, StoredHistory DEF StoredDone
    <3>3. entry' = Stored
      BY <1>1, <2>1
    <3> QED BY <1>2, <3>1, <3>2, <3>3, LatestKeeps
  <2>2. CASE policy # "store"
    <3>1. entry' = entry \/ entry' = None
      BY <1>1, <2>2
    <3> QED BY <1>2, <3>1, EntryKeeps
  <2> QED BY <2>1, <2>2
<1> HIDE DEF now, later, slow
<1>10. DOMAIN now \cup DOMAIN later = ToSet(Sharers) /\ DOMAIN now \cap DOMAIN later = {}
  BY <1>4, <1>6
<1>11. /\ \A r \in DOMAIN now : now[r] \in Responses /\ Good(now[r])
       /\ \A r \in DOMAIN later : later[r] \in Responses /\ Good(later[r])
  BY <1>6, <1>7, <1>8
<1> QED BY <1>1, <1>9, <1>10, <1>11, ResumesKeeps

LEMMA NotModifiedKeeps ==
  ASSUME PipeInv, NEW policy \in Policies, NotModified(policy)
  PROVE  PipeInv'
<1> DEFINE all == ToSet(Sharers)
           able == {r \in all : cached[r] # None}
           slow == able \cap Awaits(policy)
           now == [r \in all \ slow |->
                     IF r \in able THEN Refreshed(r, policy) ELSE Error("CACHE_ERROR_500")]
           later == [r \in slow |-> Refreshed(r, policy)]
<1>1. /\ flight # None /\ flight.cond = version /\ Resumes(now, later)
      /\ entry' = CASE policy = "store"  -> Merged(flight.cond)
                    [] policy = "unlink" -> None
                    [] OTHER             -> entry
  BY DEF NotModified
<1>2. version' = version /\ version \in Versions
  BY <1>1 DEF Resumes, PipeInv
<1>3. /\ flight \in Flights /\ all \subseteq Requests
      /\ \A r \in all : pc[r] = "waiting" /\ ReadFits(r)
  BY <1>1, SharersWait
<1>4. ASSUME NEW r \in able
      PROVE  Refreshed(r, policy) \in Responses /\ Good(Refreshed(r, policy))
  <2>1. r \in Requests /\ ReadFits(r) /\ pc[r] = "waiting" /\ cached[r] # None
    BY <1>3
  <2>2. flight.cond # None /\ flight.by \in Requests
    BY <1>1, <1>2, <1>3, BodiesAbsent DEF Flights
  <2>3. /\ cached[flight.by] # None /\ cached[flight.by].etag = flight.cond
        /\ NotNewer(cached[flight.by], cached[r])
    BY <1>1, <2>1, <2>2 DEF PipeInv, InOrder
  <2>4. flight.cond <= cached[r].etag
    BY <2>1, <2>3 DEF NotNewer
  <2> QED BY <1>1, <1>2, <2>1, <2>4, RefreshedFits
<1>5. DOMAIN now = all \ slow /\ DOMAIN later = slow /\ slow \subseteq all /\ slow \subseteq able
  OBVIOUS
<1>6. ASSUME NEW r \in all \ slow PROVE now[r] \in Responses /\ Good(now[r])
  <2>1. now[r] = IF r \in able THEN Refreshed(r, policy) ELSE Error("CACHE_ERROR_500")
    BY <1>6
  <2>2. Error("CACHE_ERROR_500") \in Responses /\ Good(Error("CACHE_ERROR_500"))
    <3>1. "CACHE_ERROR_500" \in Kinds
      BY DEF Kinds
    <3> QED BY <3>1, ErrorResponse
  <2> HIDE DEF now, able
  <2> QED BY <1>4, <2>1, <2>2
<1>7. ASSUME NEW r \in slow PROVE later[r] \in Responses /\ Good(later[r])
  <2>1. later[r] = Refreshed(r, policy) /\ r \in able
    BY <1>7
  <2> HIDE DEF later, able
  <2> QED BY <1>4, <2>1
<1>8. EntryFits' /\ \A r \in Requests : NotNewer(cached[r], entry')
  <2>1. CASE policy = "store"
    <3> DEFINE m == Merged(flight.cond)
    <3>1. /\ m \in Entries /\ m.etag = version
          /\ m.body # None => m.body.version = version /\ m.body.done \in StoredDone(version)
      BY <1>1, <1>2, <1>3, MergedFits
    <3>2. entry' = m
      BY <1>1, <2>1
    <3> HIDE DEF m
    <3> QED BY <1>2, <3>1, <3>2, LatestKeeps
  <2>2. CASE policy # "store"
    <3>1. entry' = entry \/ entry' = None
      BY <1>1, <2>2
    <3> QED BY <1>2, <3>1, EntryKeeps
  <2> QED BY <2>1, <2>2
<1> HIDE DEF now, later, slow
<1>9. DOMAIN now \cup DOMAIN later = ToSet(Sharers) /\ DOMAIN now \cap DOMAIN later = {}
  BY <1>5
<1>10. /\ \A r \in DOMAIN now : now[r] \in Responses /\ Good(now[r])
       /\ \A r \in DOMAIN later : later[r] \in Responses /\ Good(later[r])
  BY <1>5, <1>6, <1>7
<1> QED BY <1>1, <1>8, <1>9, <1>10, ResumesKeeps

LEMMA ReplyKeeps ==
  ASSUME PipeInv, NEW r \in Requests, Reply(r)
  PROVE  PipeInv'
<1> DEFINE out == [c \in {r} |-> held[c]]
<1>1. /\ pc[r] = "replying" /\ Answered(out)
      /\ pc' = [pc EXCEPT ![r] = "idle"] /\ held' = [held EXCEPT ![r] = None]
      /\ UNCHANGED <<version, entry, flight, looking, cached>>
  BY DEF Reply
<1>2. /\ version \in Versions /\ QueuesFit /\ EntryFits /\ ReadsFit /\ InOrder /\ ClientsFit
  BY DEF PipeInv
<1>3. ClientsFit' /\ AnswersFit'
  <2>1. held[r] \in Responses /\ Good(held[r])
    BY <1>1, <1>2 DEF QueuesFit
  <2>2. DOMAIN out = {r} /\ out[r] = held[r]
    OBVIOUS
  <2> HIDE DEF out
  <2>3. \A c \in DOMAIN out : out[c] \in Responses /\ Good(out[c])
    BY <2>1, <2>2
  <2> QED BY <1>1, <1>2, <2>2, <2>3, AnsweredFits
<1>4. /\ pc'[r] = "idle" /\ held'[r] = None
      /\ \A c \in Requests : c # r => pc'[c] = pc[c] /\ held'[c] = held[c]
  BY <1>1, <1>2 DEF QueuesFit
<1>5. QueuesFit'
  <2>1. \A c \in Requests : Sharing(c)' <=> Sharing(c)
    BY <1>1 DEF Sharing
  <2>2. \A c \in Requests : held'[c] # None => Good(held[c])'
    BY <1>1, <1>2, <1>4 DEF QueuesFit, Good
  <2>3. /\ pc' \in [Requests -> {"idle", "looking", "waiting", "replying"}]
        /\ held' \in [Requests -> Responses \cup {None}]
    BY <1>1, <1>2 DEF QueuesFit
  <2>4. \A c \in Requests :
          /\ pc'[c] = "looking" <=> \E i \in DOMAIN looking' : looking'[i] = c
          /\ pc'[c] = "waiting" <=> Sharing(c)'
          /\ pc'[c] = "replying" <=> held'[c] # None
    BY <1>1, <1>2, <1>4, <2>1 DEF QueuesFit
  <2> QED BY <1>1, <1>2, <2>2, <2>3, <2>4 DEF QueuesFit
<1>6. EntryFits'
  BY <1>1, <1>2 DEF EntryFits
<1>7. \A c \in Requests : pc'[c] \in {"looking", "waiting"} => pc[c] = pc'[c]
  BY <1>4
<1>8. ReadsFit'
  <2>1. ASSUME NEW c \in Requests PROVE ReadFits(c)'
    <3>1. ReadFits(c)
      BY <1>2 DEF ReadsFit
    <3> QED BY <1>1, <1>7, <3>1 DEF ReadFits
  <2> QED BY <1>1, <1>2, <2>1 DEF ReadsFit
<1>9. InOrder'
  BY <1>1, <1>2, <1>7 DEF InOrder, NotNewer
<1> QED BY <1>1, <1>2, <1>3, <1>5, <1>6, <1>8, <1>9 DEF PipeInv

\* proxy() answers without conditions and leaves everything else alone.
LEMMA ProxiedKeeps ==
  ASSUME PipeInv, NEW r \in Requests, Proxied(r)
  PROVE  PipeInv'
<1>1. version \in Versions /\ UNCHANGED <<version, entry, flight, looking, pc, asked, cached, held, copy>>
  BY DEF Proxied, PipeInv
<1>2. PICK rsp \in {Response(Shared(1), "CACHE_NOT_ENABLED"), Error(None)} :
        answer' = [c \in Requests |->
                     IF c = r THEN Sent(Conditional(Plain, rsp, None)) ELSE None]
  BY DEF Proxied
<1>3. rsp \in Responses /\ Good(rsp)
  <2>1. "CACHE_NOT_ENABLED" \in Fresh /\ None \in Kinds
    BY DEF Fresh, Kinds
  <2>2. /\ Response(Shared(1), "CACHE_NOT_ENABLED") \in Responses
        /\ Good(Response(Shared(1), "CACHE_NOT_ENABLED"))
    BY <1>1, <2>1, SharedGood
  <2>3. Error(None) \in Responses /\ Good(Error(None))
    BY <2>1, ErrorResponse
  <2> QED BY <2>2, <2>3
<1> DEFINE a == Sent(Conditional(Plain, rsp, None))
<1>4. a \in Answers /\ a.status # None /\ OwnPhases(a) /\ a.cond = "none" /\ a.of = None
  <2>1. Plain \in Questions /\ Plain.cond = "none"
    BY DEF Plain, Questions, Conditions
  <2>2. Honest(None)
    BY DEF Honest
  <2>3. a \in Answers /\ a.status # None /\ OwnPhases(a)
    BY <1>1, <1>3, <2>1, <2>2, SentFits
  <2> DEFINE c == Conditional(Plain, rsp, None)
  <2>4. c \in Answers
    BY <1>1, <1>3, <2>1, <2>2, ConditionalFits
  <2>5. c = [status |-> rsp.status, kind |-> rsp.kind, etag |-> rsp.etag,
             body |-> rsp.body, of |-> None, cond |-> "none"]
    BY <2>1 DEF Conditional, Matches
  <2>6. c.of = None /\ c.cond = "none"
    BY <2>5
  <2> HIDE DEF c
  <2>7. a = Sent(c)
    BY DEF c
  <2> HIDE DEF a
  <2>8. a.of = c.of /\ a.cond = c.cond
    <3>1. CASE c.status = None
      <4>1. a = Blank(c)
        BY <2>7, <3>1 DEF Sent, Blank
      <4> QED BY <2>4, <4>1, Blanked
    <3>2. CASE c.status # None
      <4>1. a = Through("ClientResponse", c, TRUE) /\ "ClientResponse" \in Phases
        BY <2>7, <3>2 DEF Sent, Phases
      <4> QED BY <2>4, <4>1, ThroughAnswer
    <3> QED BY <3>1, <3>2
  <2> QED BY <2>3, <2>6, <2>8
<1> HIDE DEF a
<1>5. \A c \in Requests : answer'[c] = IF c = r THEN a ELSE None
  BY <1>2 DEF a
<1>6. AnswersFit'
  <2>1. ASSUME NEW c \in Requests, answer'[c] # None
        PROVE  /\ answer'[c].status \in {200, 304, 400, 412, 500}
               /\ OwnPhases(answer[c])' /\ Confirms(answer[c], copy[c])'
    <3>1. answer'[c] = a
      BY <1>5, <2>1
    <3>2. a.status \in {200, 304, 400, 412, 500}
      BY <1>4 DEF Answers, Statuses
    <3> QED BY <1>4, <3>1, <3>2 DEF OwnPhases, Confirms
  <2> QED BY <2>1 DEF AnswersFit
<1>7. /\ QueuesFit /\ EntryFits /\ ReadsFit /\ InOrder /\ ClientsFit
  BY DEF PipeInv
<1>8. QueuesFit' /\ EntryFits' /\ ReadsFit' /\ InOrder' /\ ClientsFit'
  BY <1>1, <1>7 DEF QueuesFit, EntryFits, ReadsFit, ReadFits, InOrder, NotNewer, ClientsFit,
     Honest, Good, Sharing
<1> QED BY <1>1, <1>6, <1>8 DEF PipeInv

\* The origin and the entry's lifetime: what was read or kept grows older.
LEMMA AroundKeeps ==
  ASSUME PipeInv, Changes \/ Ages \/ Vanishes
  PROVE  PipeInv'
<1>1. /\ version \in Versions /\ QueuesFit /\ EntryFits /\ ReadsFit /\ InOrder /\ ClientsFit
  BY DEF PipeInv
<1>2. /\ UNCHANGED <<flight, looking, pc, asked, cached, held, copy>> /\ Silent
      /\ version' \in Versions /\ version' >= version
      /\ entry' = entry \/ entry' = None \/ (entry # None /\ entry' = [entry EXCEPT !.stale = TRUE])
  <2>1. version \in Nat
    BY <1>1, BodiesAbsent
  <2>2. CASE Changes
    BY <1>1, <2>1, <2>2 DEF Changes, Versions
  <2>3. CASE Ages \/ Vanishes
    BY <1>1, <2>1, <2>3 DEF Ages, Vanishes
  <2> QED BY <2>2, <2>3
<1>3. version \in Nat /\ version' \in Nat
  BY <1>1, <1>2, BodiesAbsent
<1>4. EntryFits' /\ \A r \in Requests : NotNewer(cached[r], entry')
  <2>1. ASSUME entry' # None
        PROVE  /\ entry # None /\ entry' \in Entries /\ entry'.etag = entry.etag
               /\ entry'.body = entry.body
    BY <1>1, <1>2, <2>1 DEF EntryFits, Entries
  <2>2. entry # None => entry.etag \in Nat
    BY <1>1, BodiesAbsent DEF EntryFits, Entries
  <2>3. EntryFits'
    BY <1>1, <1>2, <1>3, <2>1, <2>2 DEF EntryFits, StoredDone
  <2>4. \A r \in Requests : NotNewer(cached[r], entry')
    BY <1>1, <2>1 DEF InOrder, NotNewer
  <2> QED BY <2>3, <2>4
<1>5. QueuesFit'
  <2>1. ASSUME NEW r \in Requests, held[r] # None PROVE Good(held[r])'
    <3>1. held[r] \in Responses /\ Good(held[r])
      BY <1>1, <2>1 DEF QueuesFit
    <3>2. held[r].body # None => held[r].body.version \in Nat
      BY <3>1, BodiesAbsent DEF Responses, Bodies
    <3> QED BY <1>2, <1>3, <3>1, <3>2 DEF Good
  <2>2. \A r \in Requests : Sharing(r)' <=> Sharing(r)
    BY <1>2 DEF Sharing
  <2> QED BY <1>1, <1>2, <2>1, <2>2 DEF QueuesFit
<1>6. ReadsFit'
  <2>1. ASSUME NEW r \in Requests PROVE ReadFits(r)'
    <3>1. ReadFits(r) /\ (cached[r] # None => cached[r].etag \in Nat)
      BY <1>1, BodiesAbsent DEF ReadsFit, ReadFits, Reads
    <3> QED BY <1>2, <1>3, <3>1 DEF ReadFits
  <2> QED BY <1>1, <1>2, <2>1 DEF ReadsFit
<1>7. InOrder'
  BY <1>1, <1>2, <1>4 DEF InOrder
<1>8. ClientsFit'
  <2>1. ASSUME NEW r \in Requests PROVE Honest(copy[r])'
    <3>1. Honest(copy[r]) /\ (copy[r] # None => copy[r].version \in Nat)
      BY <1>1, BodiesAbsent DEF ClientsFit, Honest, Copies
    <3> QED BY <1>2, <1>3, <3>1 DEF Honest
  <2> QED BY <1>1, <1>2, <2>1 DEF ClientsFit
<1>9. AnswersFit'
  BY <1>2, SilentFits
<1> QED BY <1>2, <1>4, <1>5, <1>6, <1>7, <1>8, <1>9 DEF PipeInv

LEMMA PipeStarts ==
  ASSUME Init
  PROVE  PipeInv
<1>1. Plain \in Questions /\ Plain.cond = "none"
  BY DEF Plain, Questions, Conditions
<1>2. /\ version = 0 /\ entry = None /\ flight = None /\ looking = <<>>
      /\ pc = [r \in Requests |-> "idle"] /\ asked = [r \in Requests |-> Plain]
      /\ cached = [r \in Requests |-> None] /\ held = [r \in Requests |-> None]
      /\ answer = [r \in Requests |-> None] /\ copy = [r \in Requests |-> None]
  BY DEF Init
<1>3. looking \in Seq(Requests) /\ DOMAIN looking = {}
  BY <1>2
<1>4. QueuesFit
  BY <1>2, <1>3 DEF QueuesFit, Sharing
<1>5. EntryFits /\ ReadsFit /\ InOrder
  BY <1>2, <1>3 DEF EntryFits, ReadsFit, ReadFits, InOrder, NotNewer
<1>6. ClientsFit /\ AnswersFit
  BY <1>1, <1>2 DEF ClientsFit, AnswersFit, Honest
<1>7. version \in Versions
  BY <1>2 DEF Versions
<1> QED BY <1>4, <1>5, <1>6, <1>7 DEF PipeInv

LEMMA PipeSteps ==
  ASSUME PipeInv, [Next]_vars
  PROVE  PipeInv'
<1>1. CASE UNCHANGED vars
  BY <1>1 DEF vars, PipeInv, QueuesFit, EntryFits, ReadsFit, ReadFits, InOrder, NotNewer,
     ClientsFit, AnswersFit, Honest, Good, Sharing, OwnPhases, Confirms
<1>2. CASE Next
  <2>1. ASSUME NEW r \in Requests, Arrive(r) \/ Hit(r) \/ Fetch(r) \/ Reply(r) \/ Proxied(r)
        PROVE  PipeInv'
    BY <2>1, ArriveKeeps, HitKeeps, FetchKeeps, ReplyKeeps, ProxiedKeeps
  <2>2. ASSUME NEW p \in Policies, NewResponse(p) \/ NotModified(p) PROVE PipeInv'
    BY <2>2, NewResponseKeeps, NotModifiedKeeps
  <2>3. ASSUME NEW s \in BOOLEAN, OriginFails(s) PROVE PipeInv'
    BY <2>3, OriginFailsKeeps
  <2>4. CASE Changes \/ Ages \/ Vanishes
    BY <2>4, AroundKeeps
  <2> QED BY <1>2, <2>1, <2>2, <2>3, <2>4 DEF Next
<1> QED BY <1>1, <1>2

\* Nobody waits for a fetch that is not under way or stands twice in the
\* queue, who awaits Redis has an answer ready, and every answer has a status
\* that reply.code() accepts, whatever the clients, versions and patterns.
THEOREM PipelineTypes == Spec => []TypeOK
<1>1. PipeInv => TypeOK
  <2> SUFFICES ASSUME PipeInv PROVE TypeOK
    OBVIOUS
  <2>1. /\ version \in Versions /\ QueuesFit /\ EntryFits /\ ReadsFit /\ ClientsFit /\ AnswersFit
    BY DEF PipeInv
  <2>2. entry # None => entry.etag \in 0 .. version /\ (entry.body = None \/ entry.body \in Bodies)
    BY <2>1 DEF EntryFits, Entries, Versions
  <2>3. ToSet(looking) = {r \in Requests : pc[r] = "looking"}
    <3>1. looking \in Seq(Requests)
          /\ \A r \in Requests : pc[r] = "looking" <=> \E i \in DOMAIN looking : looking[i] = r
      BY <2>1 DEF QueuesFit
    <3> QED BY <3>1 DEF ToSet
  <2>4. {r \in Requests : pc[r] = "waiting"} = IF flight = None THEN {} ELSE ToSet(Sharers)
    <3>1. \A r \in Requests : pc[r] = "waiting" <=> Sharing(r)
      BY <2>1 DEF QueuesFit
    <3>2. CASE flight = None
      BY <3>1, <3>2 DEF Sharing
    <3>3. CASE flight # None
      <4>1. flight \in Flights
        BY <2>1, <3>3 DEF QueuesFit
      <4>2. ToSet(Sharers) \subseteq Requests /\ \A r : r \in ToSet(Sharers) <=>
              r = flight.by \/ \E i \in DOMAIN flight.waiting : flight.waiting[i] = r
        BY <4>1, SharersFit
      <4>3. \A r \in Requests : pc[r] = "waiting" <=> r \in ToSet(Sharers)
        BY <3>1, <3>3, <4>2 DEF Sharing
      <4> QED BY <3>3, <4>2, <4>3
    <3> QED BY <3>2, <3>3
  <2>5. ASSUME NEW r \in Requests
        PROVE  /\ pc[r] \in {"idle", "looking", "waiting", "replying"}
               /\ pc[r] = "replying" <=> held[r] # None
               /\ copy[r] # None => copy[r].version \in 0 .. version /\ copy[r].tag \in Tags
               /\ answer[r] # None => answer[r].status \in {200, 304, 400, 412, 500}
    <3>1. copy[r] # None => copy[r].version \in 0 .. version /\ copy[r].tag \in Tags
      BY <2>1 DEF ClientsFit, Honest, Copies, Tags, Versions
    <3> QED BY <2>1, <3>1 DEF QueuesFit, AnswersFit
  <2> QED BY <2>1, <2>2, <2>3, <2>4, <2>5 DEF TypeOK
<1> QED BY <1>1, PipeStarts, PipeSteps, PTL DEF Spec

\* Each client's answer bears its own client phase and nobody else's, an
\* answer from the origin no trace of the cache, one from the cache exactly
\* one load, although requests share the response objects, whatever the
\* number of followers, purges, revalidations and failures in between.
THEOREM AnswersOwnPhases == Spec => []AnswerPhases
<1>1. PipeInv => AnswerPhases
  BY DEF PipeInv, AnswersFit, OwnPhases, AnswerPhases
<1> QED BY <1>1, PipeStarts, PipeSteps, PTL DEF Spec

\* A client told that its copy is good has one that is no older than the
\* response it was spared, and the same if it showed the ETag.
THEOREM KeptNotOlder == Spec => []KeptIsNoOlder
<1>1. PipeInv => KeptIsNoOlder
  BY DEF PipeInv, AnswersFit, Confirms, KeptIsNoOlder
<1> QED BY <1>1, PipeStarts, PipeSteps, PTL DEF Spec
=============================================================================
