-------------------------- MODULE CachePurgeProofs --------------------------
(***************************************************************************)
(* Proofs about CachePurge, for any clients, rules, requests and purges.  *)
(* What is said of keys is said of plain requests, as IsPlain defines them. *)
(***************************************************************************)
EXTENDS CachePurgeProperties, SequenceTheorems, TLAPS

-----------------------------------------------------------------------------
(* Texts *)

\* Concatenation, for the provers.
Join(s, t) == s \o t

\* What it keeps, and that it can be regrouped and a common beginning taken off.
LEMMA Joins ==
  ASSUME NEW S
  PROVE  /\ \A s, t \in Seq(S) : Join(s, t) \in Seq(S)
         /\ \A t \in Seq(S) : Join(<<>>, t) = t /\ Join(t, <<>>) = t
         /\ \A s, t, v \in Seq(S) : Join(s, t) = Join(s, v) => t = v
         /\ \A s, t, v \in Seq(S) : Join(Join(s, t), v) = Join(s, Join(t, v))
         /\ \A s, t \in Seq(S) : Range(Join(s, t)) = Range(s) \cup Range(t)
<1>1. \A s, t \in Seq(S) : Join(s, t) \in Seq(S)
  BY ConcatProperties DEF Join
<1>2. \A t \in Seq(S) : Join(<<>>, t) = t /\ Join(t, <<>>) = t
  BY ConcatEmptySeq DEF Join
<1>3. \A s, t, v \in Seq(S) : Join(s, t) = Join(s, v) => t = v
  BY ConcatSimplifications DEF Join
<1>4. \A s, t, v \in Seq(S) : Join(Join(s, t), v) = Join(s, Join(t, v))
  BY ConcatAssociative DEF Join
<1>5. \A s, t \in Seq(S) : Range(Join(s, t)) = Range(s) \cup Range(t)
  BY RangeConcatenation DEF Join
<1> QED BY <1>1, <1>2, <1>3, <1>4, <1>5

\* j has the elements of a and then those of b.
IsJoin(S, a, b, j) ==
  /\ j \in Seq(S)
  /\ Len(a) \in Nat /\ Len(b) \in Nat /\ Len(j) = Len(a) + Len(b)
  /\ \A i \in 1 .. Len(a) : j[i] = a[i]
  /\ \A i \in 1 .. Len(b) : j[Len(a) + i] = b[i]
LEMMA JoinedElements ==
  ASSUME NEW S, NEW a \in Seq(S), NEW b \in Seq(S)
  PROVE  IsJoin(S, a, b, Join(a, b))
<1>1. Len(a) \in Nat /\ Len(b) \in Nat
  BY LenProperties
<1> DEFINE x == a \o b
<1>2. /\ x \in Seq(S) /\ Len(x) = Len(a) + Len(b)
      /\ \A i \in 1 .. Len(a) + Len(b) :
           x[i] = IF i <= Len(a) THEN a[i] ELSE b[i - Len(a)]
  BY ConcatProperties
<1> HIDE DEF x
<1>3. /\ \A i \in 1 .. Len(a) : x[i] = a[i]
      /\ \A i \in 1 .. Len(b) : x[Len(a) + i] = b[i]
  BY <1>1, <1>2
<1> QED BY <1>1, <1>2, <1>3 DEF Join, x, IsJoin

\* Sequences of one and of two elements.
LEMMA Singletons ==
  ASSUME NEW S, NEW a \in S
  PROVE  <<a>> \in Seq(S) /\ Len(<<a>>) = 1 /\ <<a>>[1] = a /\ Range(<<a>>) = {a}
BY DEF Range
LEMMA Pairs ==
  ASSUME NEW S, NEW a \in S, NEW b \in S
  PROVE  /\ <<a, b>> \in Seq(S) /\ Len(<<a, b>>) = 2
         /\ <<a, b>>[1] = a /\ <<a, b>>[2] = b
         /\ <<a, b>> = Join(<<a>>, <<b>>)
<1> DEFINE p == <<a, b>>
<1>1. p \in Seq(S) /\ Len(p) = 2 /\ p[1] = a /\ p[2] = b
  OBVIOUS
<1> DEFINE j == Join(<<a>>, <<b>>)
<1>2. j \in Seq(S) /\ Len(j) = 2 /\ j[1] = a /\ j[2] = b
  <2> DEFINE c == <<a>>
             d == <<b>>
  <2>1. c \in Seq(S) /\ Len(c) = 1 /\ c[1] = a /\ d \in Seq(S) /\ Len(d) = 1 /\ d[1] = b
    BY Singletons
  <2> HIDE DEF c, d
  <2>2. IsJoin(S, c, d, Join(c, d))
    BY <2>1, JoinedElements
  <2>3. Join(c, d) \in Seq(S) /\ Len(Join(c, d)) = 2 /\ Join(c, d)[1] = a /\ Join(c, d)[2] = b
    BY <2>1, <2>2 DEF IsJoin
  <2> QED BY <2>3 DEF c, d
<1> HIDE DEF p, j
<1>3. p = j
  <2>1. \A i \in 1 .. 2 : p[i] = j[i]
    BY <1>1, <1>2
  <2> QED BY <1>1, <1>2, <2>1, SeqEqual
<1> QED BY <1>1, <1>3 DEF p, j

\* A sequence that is empty or starts with the mark.
Starts(S, mark, u) == u \in Seq(S) /\ (u # <<>> => u[1] = mark)

\* The text before the first mark is where the first mark is.
LEMMA NoLonger ==
  ASSUME NEW S, NEW mark, NEW s \in Seq(S), NEW t \in Seq(S), NEW u, NEW v,
         Starts(S, mark, u), Starts(S, mark, v), mark \notin Range(s),
         Join(s, u) = Join(t, v)
  PROVE  Len(s) <= Len(t)
<1>1. IsJoin(S, s, u, Join(s, u)) /\ IsJoin(S, t, v, Join(t, v))
  BY JoinedElements DEF Starts
<1> DEFINE j == Join(s, u)
<1>2. IsJoin(S, s, u, j) /\ IsJoin(S, t, v, j)
  BY <1>1
<1> HIDE DEF j
<1>3. SUFFICES ASSUME Len(t) < Len(s) PROVE FALSE
  BY <1>2 DEF IsJoin
<1>4. v # <<>> /\ 1 \in 1 .. Len(v) /\ Len(t) + 1 \in 1 .. Len(s)
  <2>1. Len(v) > 0 /\ Len(v) \in Nat /\ Len(s) \in Nat /\ Len(t) \in Nat
    BY <1>2, <1>3 DEF IsJoin
  <2>2. v # <<>>
    BY <2>1
  <2> QED BY <1>3, <2>1, <2>2
<1>5. j[Len(t) + 1] = mark /\ j[Len(t) + 1] = s[Len(t) + 1]
  BY <1>2, <1>4 DEF IsJoin, Starts
<1>6. DOMAIN s = 1 .. Len(s)
  BY LenProperties
<1> QED BY <1>4, <1>5, <1>6 DEF Range

\* It can be read back, and so can what follows.
LEMMA MarkSplits ==
  ASSUME NEW S, NEW mark, NEW s \in Seq(S), NEW t \in Seq(S), NEW u, NEW v,
         Starts(S, mark, u), Starts(S, mark, v),
         mark \notin Range(s), mark \notin Range(t), Join(s, u) = Join(t, v)
  PROVE  s = t /\ u = v
<1>1. Len(s) = Len(t)
  <2>1. Len(s) <= Len(t)
    BY NoLonger
  <2>2. Len(t) <= Len(s)
    BY NoLonger
  <2> QED BY <2>1, <2>2, LenProperties
<1>2. s = t
  <2>1. IsJoin(S, s, u, Join(s, u)) /\ IsJoin(S, t, v, Join(t, v))
    BY JoinedElements DEF Starts
  <2> DEFINE j == Join(s, u)
  <2>2. IsJoin(S, s, u, j) /\ IsJoin(S, t, v, j)
    BY <2>1
  <2> HIDE DEF j
  <2>3. \A i \in 1 .. Len(s) : s[i] = t[i]
    BY <1>1, <2>2 DEF IsJoin
  <2> QED BY <1>1, <2>3, SeqEqual
<1>3. u = v
  BY <1>2, Joins DEF Starts
<1> QED BY <1>2, <1>3

\* The first of the parts that are joined with colons can be read off.
LEMMA FirstParts ==
  ASSUME NEW S, NEW colon \in S, NEW d \in Seq(S), NEW e \in Seq(S),
         NEW x \in Seq(S), NEW y \in Seq(S),
         colon \notin Range(d), colon \notin Range(e),
         Join(Join(d, <<colon>>), x) = Join(Join(e, <<colon>>), y)
  PROVE  d = e /\ x = y
<1> DEFINE c == <<colon>>
<1>1. c \in Seq(S) /\ Len(c) = 1 /\ c[1] = colon
  BY Singletons
<1> HIDE DEF c
<1>2. Join(d, Join(c, x)) = Join(e, Join(c, y))
  <2>1. Join(Join(d, c), x) = Join(Join(e, c), y)
    BY DEF c
  <2>2. \A s, t, v \in Seq(S) : Join(Join(s, t), v) = Join(s, Join(t, v))
    BY Joins
  <2> QED BY <1>1, <2>1, <2>2
<1>3. ASSUME NEW z \in Seq(S)
      PROVE  Starts(S, colon, Join(c, z)) /\ Join(c, z) \in Seq(S)
  <2> DEFINE j == Join(c, z)
  <2>1. IsJoin(S, c, z, j)
    BY <1>1, JoinedElements
  <2> HIDE DEF j
  <2>2. j \in Seq(S) /\ j[1] = colon
    BY <1>1, <2>1 DEF IsJoin
  <2> QED BY <2>2 DEF Starts, j
<1>4. Starts(S, colon, Join(c, x)) /\ Starts(S, colon, Join(c, y))
  BY <1>3
<1>5. d = e /\ Join(c, x) = Join(c, y)
  BY <1>2, <1>4, MarkSplits
<1> QED BY <1>1, <1>5, Joins

\* A sequence begins with what it was put together from.
LEMMA Begins ==
  ASSUME NEW S, NEW a \in Seq(S), NEW b \in Seq(S)
  PROVE  IsPrefix(a, Join(a, b))
<1> DEFINE j == Join(a, b)
<1>1. IsJoin(S, a, b, j)
  BY JoinedElements
<1> HIDE DEF j
<1>2. Len(a) <= Len(j) /\ Len(a) \in Nat
  BY <1>1 DEF IsJoin
<1> DEFINE s == SubSeq(a, 1, Len(a))
           t == SubSeq(j, 1, Len(a))
<1>3. \A i \in 1 .. Len(a) : a[i] \in S /\ j[i] \in S
  BY <1>1, ElementOfSeq DEF IsJoin
<1>4. /\ s \in Seq(S) /\ Len(s) = Len(a) /\ \A i \in 1 .. Len(a) : s[i] = a[i]
      /\ t \in Seq(S) /\ Len(t) = Len(a) /\ \A i \in 1 .. Len(a) : t[i] = j[i]
  BY <1>2, <1>3, SubSeqProperties
<1> HIDE DEF s, t
<1>5. s = t
  BY <1>1, <1>4, SeqEqual DEF IsJoin
<1> QED BY <1>2, <1>5 DEF IsPrefix, j, s, t

\* The key of a path: its elements, but for the first, with colons for slashes.
Colon(x) == IF x = "/" THEN ":" ELSE x
IsUrlKey(S, path, key) ==
  /\ key \in Seq(S) /\ Len(path) \in Nat /\ Len(path) > 0 /\ Len(key) = Len(path) - 1
  /\ \A i \in 1 .. Len(path) - 1 : key[i] = Colon(path[i + 1])
LEMMA UrlKeyElements ==
  ASSUME NEW S, ":" \in S, NEW path \in Seq(S), path # <<>>, path[1] = "/"
  PROVE  IsUrlKey(S, path, UrlKey(path))
<1> DEFINE key == [i \in DOMAIN path |-> Colon(path[i])]
           mark == <<":">>
<1>1. DOMAIN path = 1 .. Len(path) /\ Len(path) \in Nat /\ Len(path) > 0
  BY EmptySeq, LenProperties
<1>2. \A i \in 1 .. Len(path) : Colon(path[i]) \in S
  BY <1>1, ElementOfSeq DEF Colon
<1>3. /\ key \in Seq(S) /\ Len(key) = Len(path)
      /\ \A i \in 1 .. Len(path) : key[i] = Colon(path[i])
  BY <1>1, <1>2
<1>4. UrlKey(path) = IF IsPrefix(mark, key) THEN Tail(key) ELSE key
  BY DEF UrlKey, Colon
<1>5. key[1] = ":"
  BY <1>1, <1>3 DEF Colon
<1>6. mark \in Seq(S) /\ Len(mark) = 1 /\ mark[1] = ":"
  BY Singletons
<1> HIDE DEF key, mark
<1>7. IsPrefix(mark, key)
  <2>1. Len(mark) <= Len(key)
    BY <1>1, <1>3, <1>6
  <2> DEFINE s == SubSeq(mark, 1, 1)
             t == SubSeq(key, 1, 1)
  <2>2. mark[1] \in S /\ key[1] \in S
    BY <1>5, <1>6
  <2>3. \A i \in 1 .. 1 : mark[i] \in S /\ key[i] \in S
    BY <2>2
  <2>4. /\ s \in Seq(S) /\ Len(s) = 1 /\ \A i \in 1 .. 1 : s[i] = mark[i]
        /\ t \in Seq(S) /\ Len(t) = 1 /\ \A i \in 1 .. 1 : t[i] = key[i]
    BY <2>3, SubSeqProperties
  <2> HIDE DEF s, t
  <2>5. s = t
    BY <1>5, <1>6, <2>4, SeqEqual
  <2> QED BY <1>6, <2>1, <2>5 DEF IsPrefix, s, t
<1>8. key # <<>>
  BY <1>1, <1>3
<1>9. /\ Tail(key) \in Seq(S) /\ Len(Tail(key)) = Len(key) - 1
      /\ \A i \in 1 .. Len(Tail(key)) : Tail(key)[i] = key[i + 1]
  BY <1>3, <1>8, HeadTailProperties
<1> QED BY <1>1, <1>3, <1>4, <1>7, <1>9 DEF IsUrlKey

\* Paths without colons are told apart by their keys.
LEMMA UrlKeysApart ==
  ASSUME NEW S, ":" \in S, NEW a \in Seq(S), NEW b \in Seq(S),
         a # <<>>, b # <<>>, a[1] = "/", b[1] = "/",
         ":" \notin Range(a), ":" \notin Range(b), UrlKey(a) = UrlKey(b)
  PROVE  a = b
<1> DEFINE key == UrlKey(a)
<1>1. IsUrlKey(S, a, key) /\ IsUrlKey(S, b, key)
  <2>1. IsUrlKey(S, a, UrlKey(a)) /\ IsUrlKey(S, b, UrlKey(b))
    BY UrlKeyElements
  <2> QED BY <2>1
<1> HIDE DEF key
<1>2. Len(a) = Len(b) /\ Len(a) \in Nat
  BY <1>1 DEF IsUrlKey
<1>3. \A i \in 1 .. Len(a) : a[i] # ":" /\ b[i] # ":"
  BY <1>2, LenProperties DEF Range
<1>4. ASSUME NEW i \in 1 .. Len(a) PROVE a[i] = b[i]
  <2>1. CASE i = 1
    BY <2>1
  <2>2. CASE i # 1
    <3>1. i - 1 \in 1 .. Len(a) - 1 /\ (i - 1) + 1 = i
      BY <1>2, <2>2
    <3>2. key[i - 1] = Colon(a[i]) /\ key[i - 1] = Colon(b[i])
      BY <1>1, <1>2, <3>1 DEF IsUrlKey
    <3> QED BY <1>3, <3>2 DEF Colon
  <2> QED BY <2>1, <2>2
<1> QED BY <1>2, <1>4, SeqEqual

\* The key of a purge's path is that of the path it names, behind the purge path's.
LEMMA PurgeUrlKeys ==
  ASSUME NEW S, {":", "/", "purge"} \subseteq S, NEW path \in Seq(S),
         path # <<>>, path[1] = "/"
  PROVE  /\ UrlKey(Join(<<"/", "purge">>, path)) = Join(<<"purge", ":">>, UrlKey(path))
         /\ Join(<<"/", "purge">>, path) \in Seq(S)
<1> DEFINE q == <<"/", "purge">>
           w == <<"purge", ":">>
           long == Join(q, path)
           key == UrlKey(long)
           short == UrlKey(path)
           j == Join(w, short)
<1>1. /\ q \in Seq(S) /\ Len(q) = 2 /\ q[1] = "/" /\ q[2] = "purge"
      /\ w \in Seq(S) /\ Len(w) = 2 /\ w[1] = "purge" /\ w[2] = ":"
  BY Pairs
<1>2. IsUrlKey(S, path, short)
  BY UrlKeyElements
<1> HIDE DEF q, w
<1>3. IsJoin(S, q, path, long)
  BY <1>1, JoinedElements
<1> HIDE DEF short
<1>4. IsJoin(S, w, short, j)
  BY <1>1, <1>2, JoinedElements DEF IsUrlKey
<1> HIDE DEF long
<1>5. long \in Seq(S) /\ long # <<>> /\ long[1] = "/"
  BY <1>1, <1>3 DEF IsJoin
<1>6. IsUrlKey(S, long, key)
  BY <1>5, UrlKeyElements
<1> HIDE DEF key, j
<1>7. Len(key) = Len(j) /\ Len(key) \in Nat
  BY <1>1, <1>2, <1>3, <1>4, <1>6 DEF IsJoin, IsUrlKey
<1>8. ASSUME NEW i \in 1 .. Len(key) PROVE key[i] = j[i]
  <2>1. i + 1 \in 1 .. Len(long) /\ key[i] = Colon(long[i + 1])
    BY <1>6 DEF IsUrlKey
  <2>2. CASE i = 1
    BY <1>1, <1>3, <1>4, <2>1, <2>2 DEF IsJoin, Colon
  <2>3. CASE i = 2
    <3>1. 1 \in 1 .. Len(path) /\ long[3] = path[1]
      BY <1>1, <1>2, <1>3 DEF IsJoin, IsUrlKey
    <3>2. j[2] = ":"
      BY <1>1, <1>4 DEF IsJoin
    <3> QED BY <2>1, <2>3, <3>1, <3>2 DEF Colon
  <2>4. CASE i > 2
    <3>1. i - 2 \in 1 .. Len(short) /\ i - 1 \in 1 .. Len(path)
      BY <1>1, <1>2, <1>4, <1>7, <2>4 DEF IsJoin, IsUrlKey
    <3>2. long[2 + (i - 1)] = path[i - 1]
      BY <1>1, <1>3, <3>1 DEF IsJoin
    <3>3. j[2 + (i - 2)] = short[i - 2]
      BY <1>1, <1>4, <3>1 DEF IsJoin
    <3>4. short[i - 2] = Colon(path[(i - 2) + 1])
      BY <1>2, <3>1 DEF IsUrlKey
    <3>5. 2 + (i - 1) = i + 1 /\ 2 + (i - 2) = i /\ (i - 2) + 1 = i - 1
      BY <1>7
    <3> QED BY <2>1, <3>2, <3>3, <3>4, <3>5
  <2> QED BY <2>2, <2>3, <2>4, <1>7
<1>9. key = j
  BY <1>4, <1>6, <1>7, <1>8, SeqEqual DEF IsJoin, IsUrlKey
<1> QED BY <1>5, <1>9 DEF key, j, long, q, w, short

\* A sequence is the elements of a, then w and c, then the elements of b.
IsAround(S, a, w, c, b, key) ==
  /\ key \in Seq(S)
  /\ Len(a) \in Nat /\ Len(b) \in Nat /\ Len(key) = Len(a) + 2 + Len(b)
  /\ \A i \in 1 .. Len(a) : key[i] = a[i]
  /\ key[Len(a) + 1] = w /\ key[Len(a) + 2] = c
  /\ \A i \in 1 .. Len(b) : key[Len(a) + 2 + i] = b[i]
LEMMA Around ==
  ASSUME NEW S, NEW w \in S, NEW c \in S, NEW a \in Seq(S), NEW b \in Seq(S)
  PROVE  IsAround(S, a, w, c, b, Join(a, Join(<<w, c>>, b)))
<1> DEFINE p == <<w, c>>
           rest == Join(p, b)
           key == Join(a, rest)
<1>1. p \in Seq(S) /\ Len(p) = 2 /\ p[1] = w /\ p[2] = c
  BY Pairs
<1> HIDE DEF p
<1>2. IsJoin(S, p, b, rest)
  BY <1>1, JoinedElements
<1> HIDE DEF rest
<1>3. IsJoin(S, a, rest, key)
  <2>1. rest \in Seq(S)
    BY <1>2 DEF IsJoin
  <2> QED BY <2>1, JoinedElements
<1> HIDE DEF key
<1>4. Len(rest) = 2 + Len(b) /\ Len(key) = Len(a) + 2 + Len(b)
  BY <1>1, <1>2, <1>3 DEF IsJoin
<1>5. key[Len(a) + 1] = w /\ key[Len(a) + 2] = c
  <2>1. 1 \in 1 .. Len(rest) /\ 2 \in 1 .. Len(rest) /\ 1 \in 1 .. Len(p) /\ 2 \in 1 .. Len(p)
    BY <1>1, <1>2, <1>4 DEF IsJoin
  <2>2. key[Len(a) + 1] = rest[1] /\ key[Len(a) + 2] = rest[2]
    BY <1>3, <2>1 DEF IsJoin
  <2>3. rest[1] = p[1] /\ rest[2] = p[2]
    BY <1>2, <2>1 DEF IsJoin
  <2> QED BY <1>1, <2>2, <2>3
<1>6. ASSUME NEW i \in 1 .. Len(b) PROVE key[Len(a) + 2 + i] = b[i]
  <2>1. 2 + i \in 1 .. Len(rest)
    BY <1>2, <1>4 DEF IsJoin
  <2>2. key[Len(a) + (2 + i)] = rest[2 + i] /\ rest[2 + i] = b[i]
    BY <1>1, <1>2, <1>3, <2>1 DEF IsJoin
  <2>3. Len(a) + (2 + i) = Len(a) + 2 + i
    BY <1>3 DEF IsJoin
  <2> QED BY <2>2, <2>3
<1> QED BY <1>2, <1>3, <1>4, <1>5, <1>6 DEF IsAround, IsJoin, key, rest, p

\* A beginning of a sequence.
IsBeginning(S, key, n, pre) ==
  /\ pre \in Seq(S) /\ Len(pre) = n /\ \A i \in 1 .. n : pre[i] = key[i]
LEMMA Beginnings ==
  ASSUME NEW S, NEW key \in Seq(S), NEW n \in 0 .. Len(key)
  PROVE  IsBeginning(S, key, n, SubSeq(key, 1, n))
<1>1. \A i \in 1 .. n : key[i] \in S
  BY ElementOfSeq, LenProperties
<1>2. n \in Int /\ n >= 0
  BY LenProperties
<1> DEFINE pre == SubSeq(key, 1, n)
<1>3. /\ pre \in Seq(S) /\ Len(pre) = IF 1 <= n THEN n - 1 + 1 ELSE 0
      /\ \A i \in 1 .. n - 1 + 1 : pre[i] = key[1 + i - 1]
  BY <1>1, <1>2, SubSeqProperties
<1> HIDE DEF pre
<1>4. pre \in Seq(S) /\ Len(pre) = n /\ \A i \in 1 .. n : pre[i] = key[i]
  BY <1>2, <1>3
<1> QED BY <1>4 DEF pre, IsBeginning

\* The two are found where they are, and no earlier if w is not in a.
LEMMA Found ==
  ASSUME NEW S, NEW w \in S, NEW c \in S, NEW a, NEW b, NEW key,
         IsAround(S, a, w, c, b, key), w \notin Range(a), DOMAIN a = 1 .. Len(a)
  PROVE  /\ <<w, c>> \in SubSeqs(key)
         /\ IndexFirstSubSeq(<<w, c>>, key) = Len(a) + 1
<1> DEFINE p == <<w, c>>
           n == Len(a)
<1>1. p \in Seq(S) /\ Len(p) = 2 /\ p[1] = w /\ p[2] = c
  BY Pairs
<1> HIDE DEF p
<1>2. ASSUME NEW j \in n + 2 .. Len(key)
      PROVE  p \in SubSeqs(SubSeq(key, 1, j))
  <2> DEFINE pre == SubSeq(key, 1, j)
             s == SubSeq(pre, n + 1, n + 2)
  <2>1. j \in 0 .. Len(key) /\ n \in Nat /\ Len(key) \in Nat
    BY DEF IsAround
  <2>2. IsBeginning(S, key, j, pre)
    BY <2>1, Beginnings DEF IsAround
  <2> HIDE DEF pre
  <2>3. pre[n + 1] = w /\ pre[n + 2] = c
    BY <2>1, <2>2 DEF IsBeginning, IsAround
  <2>4. \A i \in n + 1 .. n + 2 : pre[i] \in S
    BY <2>1, <2>3
  <2>5. s \in Seq(S) /\ Len(s) = 2 /\ \A i \in 1 .. 2 : s[i] = pre[n + 1 + i - 1]
    <3>1. /\ s \in Seq(S)
          /\ Len(s) = IF n + 1 <= n + 2 THEN (n + 2) - (n + 1) + 1 ELSE 0
          /\ \A i \in 1 .. (n + 2) - (n + 1) + 1 : s[i] = pre[n + 1 + i - 1]
      BY <2>1, <2>4, SubSeqProperties
    <3> HIDE DEF s
    <3> QED BY <2>1, <3>1
  <2> HIDE DEF s
  <2>6. s[1] = w /\ s[2] = c
    <3>1. n + 1 + 1 - 1 = n + 1 /\ n + 1 + 2 - 1 = n + 2 /\ 1 \in 1 .. 2 /\ 2 \in 1 .. 2
      BY <2>1
    <3>2. s[1] = pre[n + 1 + 1 - 1] /\ s[2] = pre[n + 1 + 2 - 1]
      BY <2>5, <3>1
    <3> QED BY <2>3, <3>1, <3>2
  <2>7. p = s
    <3>1. \A i \in 1 .. 2 : p[i] = s[i]
      BY <1>1, <2>6
    <3> QED BY <1>1, <2>5, <3>1, SeqEqual
  <2>8. n \in 0 .. Len(pre) /\ n + 2 \in 0 .. Len(pre)
    BY <2>1, <2>2 DEF IsBeginning
  <2>9. s \in SubSeqs(pre)
    BY <2>8 DEF SubSeqs, s
  <2> QED BY <2>7, <2>9 DEF pre
<1>3. ASSUME NEW j \in 0 .. n + 1, p \in SubSeqs(SubSeq(key, 1, j))
      PROVE  FALSE
  <2> DEFINE pre == SubSeq(key, 1, j)
  <2>1. j \in 0 .. Len(key) /\ n \in Nat
    BY DEF IsAround
  <2>2. IsBeginning(S, key, j, pre)
    BY <2>1, Beginnings DEF IsAround
  <2>0. p \in SubSeqs(pre)
    BY <1>3
  <2> HIDE DEF pre
  <2>3. PICK i \in 0 .. Len(pre), k \in 0 .. Len(pre) : p = SubSeq(pre, i + 1, k)
    BY <2>0 DEF SubSeqs
  <2>4. \A l \in i + 1 .. k : pre[l] \in S
    BY <2>1, <2>2, <2>3, ElementOfSeq DEF IsBeginning
  <2>5. i \in Nat /\ k \in Nat /\ i <= j /\ k <= j
    BY <2>1, <2>2, <2>3 DEF IsBeginning
  <2>6. /\ Len(p) = IF i + 1 <= k THEN k - (i + 1) + 1 ELSE 0
        /\ \A l \in 1 .. k - (i + 1) + 1 : p[l] = pre[i + 1 + l - 1]
    BY <2>3, <2>4, <2>5, SubSeqProperties
  <2>7. k = i + 2
    <3> DEFINE length == Len(p)
    <3>1. length = 2 /\ length = IF i + 1 <= k THEN k - (i + 1) + 1 ELSE 0
      BY <1>1, <2>6
    <3> HIDE DEF length
    <3> QED BY <2>5, <3>1
  <2>8. p[1] = pre[i + 1] /\ i + 1 \in 1 .. j /\ i + 1 \in 1 .. n
    BY <2>1, <2>5, <2>6, <2>7
  <2>9. pre[i + 1] = key[i + 1] /\ key[i + 1] = a[i + 1]
    BY <2>2, <2>8 DEF IsBeginning, IsAround
  <2> QED BY <1>1, <2>8, <2>9 DEF Range
<1> DEFINE At(i) == /\ p \in SubSeqs(SubSeq(key, 1, i))
                    /\ \A j \in 0 .. i - 1 : p \notin SubSeqs(SubSeq(key, 1, j))
           last == CHOOSE i \in 0 .. Len(key) : At(i)
<1>4. n \in Nat /\ Len(key) \in Nat /\ n + 2 \in 0 .. Len(key) /\ n + 2 \in n + 2 .. Len(key)
  BY DEF IsAround
<1>5. At(n + 2)
  BY <1>2, <1>3, <1>4
<1>6. \A i \in 0 .. Len(key) : At(i) => i = n + 2
  <2> SUFFICES ASSUME NEW i \in 0 .. Len(key), At(i) PROVE i = n + 2
    OBVIOUS
  <2>1. i \notin 0 .. n + 1
    BY <1>3
  <2>2. n + 2 \notin 0 .. i - 1
    BY <1>2, <1>4
  <2> QED BY <1>4, <2>1, <2>2
<1>7. last = n + 2
  <2> HIDE DEF At
  <2> QED BY <1>4, <1>5, <1>6
<1>8. IndexFirstSubSeq(p, key) = last - (Len(p) - 1)
  BY DEF IndexFirstSubSeq
<1>9. p \in SubSeqs(key)
  <2>1. Len(key) \in n + 2 .. Len(key)
    BY <1>4 DEF IsAround
  <2>2. p \in SubSeqs(SubSeq(key, 1, Len(key)))
    BY <1>2, <2>1
  <2>3. SubSeq(key, 1, Len(key)) = key
    BY SubSeqFull DEF IsAround
  <2> QED BY <2>2, <2>3
<1>10. last - (Len(p) - 1) = n + 1
  <2> HIDE DEF last
  <2> QED BY <1>1, <1>4, <1>7
<1> QED BY <1>8, <1>9, <1>10 DEF p

\* Replacing the two, wherever the first of them is found for the first time.
LEMMA Replaced ==
  ASSUME NEW S, NEW w \in S, NEW c \in S, NEW a \in Seq(S), NEW b \in Seq(S),
         NEW by \in Seq(S), w \notin Range(a)
  PROVE  Replace(Join(a, Join(<<w, c>>, b)), <<w, c>>, by) = Join(a, Join(by, b))
<1> DEFINE key == Join(a, Join(<<w, c>>, b))
           p == <<w, c>>
           n == Len(a)
           before == SubSeq(key, 1, n)
           after == SubSeq(key, n + 3, Len(key))
<1>1. IsAround(S, a, w, c, b, key)
  BY Around
<1>2. DOMAIN a = 1 .. Len(a)
  BY LenProperties
<1>3. Len(p) = 2
  BY Pairs
<1> HIDE DEF key
<1>4. p \in SubSeqs(key) /\ IndexFirstSubSeq(p, key) = n + 1
  BY <1>1, <1>2, Found
<1> HIDE DEF p
<1>5. n \in Nat /\ Len(key) \in Nat /\ n \in 0 .. Len(key)
  BY <1>1 DEF IsAround
<1>6. Replace(key, p, by) = Join(Join(before, by), after)
  <2>1. (n + 1) - 1 = n /\ (n + 1) + 2 = n + 3
    BY <1>5
  <2>2. Replace(key, p, by) = ReplaceSubSeqAt(n + 1, by, p, key)
    BY <1>4 DEF Replace, ReplaceFirstSubSeq
  <2>3. ReplaceSubSeqAt(n + 1, by, p, key)
          = Join(Join(SubSeq(key, 1, (n + 1) - 1), by), SubSeq(key, (n + 1) + 2, Len(key)))
    BY <1>3 DEF ReplaceSubSeqAt, Join
  <2> QED BY <2>1, <2>2, <2>3
<1>7. before = a
  <2>1. IsBeginning(S, key, n, before)
    BY <1>1, <1>5, Beginnings DEF IsAround
  <2> HIDE DEF before
  <2> QED BY <1>1, <2>1, SeqEqual DEF IsBeginning, IsAround
<1>8. after = b
  <2>1. Len(key) = n + 2 + Len(b) /\ Len(b) \in Nat
    BY <1>1 DEF IsAround
  <2>2. \A i \in n + 3 .. Len(key) : key[i] \in S
    <3>1. \A i \in n + 3 .. Len(key) : i \in 1 .. Len(key)
      BY <1>5
    <3> QED BY <1>1, <3>1, ElementOfSeq DEF IsAround
  <2>3. /\ after \in Seq(S)
        /\ Len(after) = IF n + 3 <= Len(key) THEN Len(key) - (n + 3) + 1 ELSE 0
        /\ \A i \in 1 .. Len(key) - (n + 3) + 1 : after[i] = key[n + 3 + i - 1]
    BY <1>5, <2>2, SubSeqProperties
  <2> HIDE DEF after
  <2>4. Len(after) = Len(b)
    BY <1>5, <2>1, <2>3
  <2>5. ASSUME NEW i \in 1 .. Len(b) PROVE after[i] = b[i]
    <3>1. i \in 1 .. Len(key) - (n + 3) + 1 /\ n + 3 + i - 1 = n + 2 + i
      BY <1>5, <2>1
    <3> QED BY <1>1, <2>3, <3>1 DEF IsAround
  <2> QED BY <2>3, <2>4, <2>5, SeqEqual
<1>9. Join(Join(a, by), b) = Join(a, Join(by, b))
  BY Joins
<1> QED BY <1>6, <1>7, <1>8, <1>9 DEF key, p

-----------------------------------------------------------------------------
(* Parts of keys *)

\* A part that is not empty is its text and a colon.
LEMMA EndedParts ==
  ASSUME NEW S, ":" \in S, NEW part, Ended(S, part)
  PROVE  /\ part \in Seq(S)
         /\ part # <<>> => \E d \in Seq(S) : /\ ":" \notin Range(d)
                                             /\ part = Join(d, <<":">>)
<1>1. CASE part = <<>>
  BY <1>1
<1>2. CASE part # <<>>
  <2> DEFINE c == <<":">>
             d == Front(part)
  <2>1. part = Join(d, c) /\ d \in Seq(S) /\ ":" \notin Range(d)
    BY <1>2 DEF Ended, Join
  <2>2. c \in Seq(S)
    BY Singletons
  <2> HIDE DEF c, d
  <2>3. part \in Seq(S)
    BY <2>1, <2>2, Joins
  <2> QED BY <2>1, <2>3 DEF c
<1> QED BY <1>1, <1>2

\* A part that may be missing is told apart from the part that always follows,
\* unless it reads like one of these.
LEMMA OptionalParts ==
  ASSUME NEW S, ":" \in S, NEW u, NEW v, Ended(S, u), Ended(S, v),
         NEW m \in S \ {":"}, NEW n \in S \ {":"}, NEW r \in Seq(S), NEW t \in Seq(S),
         u # <<n, ":">>, v # <<m, ":">>,
         Join(u, Join(<<m, ":">>, r)) = Join(v, Join(<<n, ":">>, t))
  PROVE  u = v /\ m = n /\ r = t
<1> DEFINE colon == ":"
           c == <<colon>>
<1>1. ASSUME NEW x \in S \ {colon}, NEW z \in Seq(S)
      PROVE  /\ <<x>> \in Seq(S) /\ colon \notin Range(<<x>>)
             /\ <<x, colon>> = Join(<<x>>, c) /\ <<x, colon>> \in Seq(S)
             /\ Join(<<x, colon>>, z) \in Seq(S)
  <2>1. <<x>> \in Seq(S) /\ Range(<<x>>) = {x}
    BY <1>1, Singletons
  <2>2. <<x, colon>> = Join(<<x>>, c) /\ <<x, colon>> \in Seq(S)
    BY <1>1, Pairs
  <2> DEFINE p == <<x, colon>>
  <2> HIDE DEF p
  <2>3. p \in Seq(S) => Join(p, z) \in Seq(S)
    BY Joins
  <2> QED BY <1>1, <2>1, <2>2, <2>3 DEF p
<1> DEFINE mr == Join(<<m, colon>>, r)
           nt == Join(<<n, colon>>, t)
<1>2. mr \in Seq(S) /\ nt \in Seq(S) /\ Join(u, mr) = Join(v, nt)
  BY <1>1
<1>3. /\ u \in Seq(S) /\ (u # <<>> => \E d \in Seq(S) : colon \notin Range(d) /\ u = Join(d, c))
      /\ v \in Seq(S) /\ (v # <<>> => \E d \in Seq(S) : colon \notin Range(d) /\ v = Join(d, c))
  BY EndedParts
<1>4. u = v /\ mr = nt
  <2>1. CASE u = <<>> /\ v = <<>>
    BY <1>2, <2>1, Joins
  <2>2. CASE u # <<>> /\ v # <<>>
    <3>1. PICK d \in Seq(S) : colon \notin Range(d) /\ u = Join(d, c)
      BY <1>3, <2>2
    <3>2. PICK e \in Seq(S) : colon \notin Range(e) /\ v = Join(e, c)
      BY <1>3, <2>2
    <3> HIDE DEF mr, nt
    <3>3. Join(Join(d, c), mr) = Join(Join(e, c), nt)
      BY <1>2, <3>1, <3>2
    <3>4. colon \in S
      OBVIOUS
    <3> HIDE DEF colon
    <3>5. d = e /\ mr = nt
      BY <1>2, <3>1, <3>2, <3>3, <3>4, FirstParts
    <3> QED BY <3>1, <3>2, <3>5
  <2>3. ASSUME NEW d \in Seq(S), NEW x \in S \ {colon}, NEW z \in Seq(S), NEW k \in Seq(S),
               colon \notin Range(d), Join(Join(d, c), k) = Join(<<x, colon>>, z)
        PROVE  Join(d, c) = <<x, colon>>
    <3> DEFINE e == <<x>>
    <3>1. e \in Seq(S) /\ colon \notin Range(e) /\ <<x, colon>> = Join(e, c)
      BY <1>1, <2>3
    <3>2. colon \in S
      OBVIOUS
    <3>3. Join(Join(d, c), k) = Join(Join(e, c), z)
      BY <2>3, <3>1
    <3> HIDE DEF colon, e
    <3>4. d = e
      BY <2>3, <3>1, <3>2, <3>3, FirstParts
    <3> QED BY <3>1, <3>4
  <2>4. CASE u # <<>> /\ v = <<>>
    <3>1. PICK d \in Seq(S) : colon \notin Range(d) /\ u = Join(d, c)
      BY <1>3, <2>4
    <3>2. Join(u, mr) = nt
      BY <1>2, <2>4, Joins
    <3>3. u = <<n, colon>>
      BY <1>2, <2>3, <3>1, <3>2
    <3> QED BY <3>3
  <2>5. CASE u = <<>> /\ v # <<>>
    <3>1. PICK d \in Seq(S) : colon \notin Range(d) /\ v = Join(d, c)
      BY <1>3, <2>5
    <3>2. Join(v, nt) = mr
      BY <1>2, <2>5, Joins
    <3>3. v = <<m, colon>>
      BY <1>2, <2>3, <3>1, <3>2
    <3> QED BY <3>3
  <2> QED BY <2>1, <2>2, <2>4, <2>5
<1>5. m = n /\ r = t
  <2> DEFINE d == <<m>>
             e == <<n>>
  <2>1. /\ d \in Seq(S) /\ colon \notin Range(d) /\ <<m, colon>> = Join(d, c)
        /\ e \in Seq(S) /\ colon \notin Range(e) /\ <<n, colon>> = Join(e, c)
    BY <1>1
  <2>2. Join(Join(d, c), r) = Join(Join(e, c), t) /\ colon \in S
    BY <1>4, <2>1
  <2>3. d[1] = m /\ e[1] = n
    BY Singletons
  <2> HIDE DEF colon, d, e
  <2>4. d = e /\ r = t
    BY <2>1, <2>2, FirstParts
  <2> QED BY <2>3, <2>4
<1> QED BY <1>4, <1>5

\* So is one from what follows it, unless this begins like it.
LEMMA OptionalBodies ==
  ASSUME NEW S, ":" \in S, NEW b, NEW g, Ended(S, b), Ended(S, g),
         NEW k \in Seq(S), NEW l \in Seq(S),
         b # <<>> => ~IsPrefix(b, l), g # <<>> => ~IsPrefix(g, k),
         Join(b, k) = Join(g, l)
  PROVE  b = g /\ k = l
<1> DEFINE colon == ":"
           c == <<colon>>
<1>1. /\ b \in Seq(S) /\ (b # <<>> => \E d \in Seq(S) : colon \notin Range(d) /\ b = Join(d, c))
      /\ g \in Seq(S) /\ (g # <<>> => \E d \in Seq(S) : colon \notin Range(d) /\ g = Join(d, c))
  BY EndedParts
<1>2. CASE b = <<>> /\ g = <<>>
  BY <1>2, Joins
<1>3. CASE b # <<>> /\ g # <<>>
  <2>1. PICK d \in Seq(S) : colon \notin Range(d) /\ b = Join(d, c)
    BY <1>1, <1>3
  <2>2. PICK e \in Seq(S) : colon \notin Range(e) /\ g = Join(e, c)
    BY <1>1, <1>3
  <2>3. Join(Join(d, c), k) = Join(Join(e, c), l) /\ colon \in S
    BY <2>1, <2>2
  <2> HIDE DEF colon
  <2>4. d = e /\ k = l
    BY <2>1, <2>2, <2>3, FirstParts
  <2> QED BY <2>1, <2>2, <2>4
<1>4. CASE b # <<>> /\ g = <<>>
  <2>1. Join(b, k) = l
    BY <1>4, Joins
  <2>2. IsPrefix(b, Join(b, k))
    BY <1>1, Begins
  <2> QED BY <1>4, <2>1, <2>2
<1>5. CASE b = <<>> /\ g # <<>>
  <2>1. Join(g, l) = k
    BY <1>5, Joins
  <2>2. IsPrefix(g, Join(g, l))
    BY <1>1, Begins
  <2> QED BY <1>5, <2>1, <2>2
<1> QED BY <1>2, <1>3, <1>4, <1>5

\* A key, put together from its parts.
Url(x) == Join(x.path, x.query)
Rest(x) == Join(x.body, UrlKey(Url(x)))
KeyFrom(x) == Join(OriginPart, Join(x.user, Join(<<x.method, ":">>, Rest(x))))

\* Parts and what they are put together to are texts.
LEMMA PartTexts ==
  ASSUME NEW S, ":" \in S, NEW x, IsParts(S, x)
  PROVE  /\ x.user \in Seq(S) /\ x.body \in Seq(S)
         /\ Url(x) \in Seq(S) /\ Url(x) # <<>> /\ Url(x)[1] = "/"
         /\ ":" \notin Range(Url(x))
         /\ UrlKey(Url(x)) \in Seq(S) /\ Rest(x) \in Seq(S)
<1> DEFINE path == x.path
           query == x.query
           url == Join(path, query)
<1>1. /\ path \in Seq(S) /\ path # <<>> /\ path[1] = "/" /\ ":" \notin Range(path)
      /\ query \in Seq(S) /\ ":" \notin Range(query)
  BY DEF IsParts
<1> HIDE DEF path, query
<1>2. IsJoin(S, path, query, url)
  BY <1>1, JoinedElements
<1>3. Range(url) = Range(path) \cup Range(query)
  BY <1>1, Joins
<1> HIDE DEF url
<1>4. Len(path) > 0
  BY <1>1, <1>2 DEF IsJoin
<1>5. url \in Seq(S) /\ url # <<>> /\ url[1] = "/" /\ ":" \notin Range(url)
  BY <1>1, <1>2, <1>3, <1>4 DEF IsJoin
<1>6. IsUrlKey(S, url, UrlKey(url))
  BY <1>5, UrlKeyElements
<1>7. UrlKey(url) \in Seq(S)
  BY <1>6 DEF IsUrlKey
<1>8. x.user \in Seq(S) /\ x.body \in Seq(S)
  BY EndedParts DEF IsParts
<1>9. Join(x.body, UrlKey(url)) \in Seq(S)
  BY <1>7, <1>8, Joins
<1> QED BY <1>5, <1>7, <1>8, <1>9 DEF Url, Rest, url, path, query

\* Keys are told apart by their parts.
LEMMA KeysApart ==
  ASSUME NEW S, {":", "/", "?"} \subseteq S, OriginPart \in Seq(S),
         NEW x, NEW y, IsParts(S, x), IsParts(S, y), Apart(x, y), Apart(y, x),
         KeyFrom(x) = KeyFrom(y)
  PROVE  /\ x.user = y.user /\ x.method = y.method /\ x.body = y.body
         /\ x.path = y.path /\ x.query = y.query
<1>1. /\ x.user \in Seq(S) /\ x.body \in Seq(S) /\ UrlKey(Url(x)) \in Seq(S) /\ Rest(x) \in Seq(S)
      /\ y.user \in Seq(S) /\ y.body \in Seq(S) /\ UrlKey(Url(y)) \in Seq(S) /\ Rest(y) \in Seq(S)
      /\ x.method \in S \ {":"} /\ y.method \in S \ {":"}
      /\ Ended(S, x.user) /\ Ended(S, y.user) /\ Ended(S, x.body) /\ Ended(S, y.body)
  BY PartTexts DEF IsParts
<1>2. x.user = y.user /\ x.method = y.method /\ Rest(x) = Rest(y)
  <2> DEFINE xm == <<x.method, ":">>
             ym == <<y.method, ":">>
             a == Join(x.user, Join(xm, Rest(x)))
             b == Join(y.user, Join(ym, Rest(y)))
  <2>1. xm \in Seq(S) /\ ym \in Seq(S)
    BY <1>1, Pairs
  <2>2. Join(OriginPart, a) = Join(OriginPart, b)
    BY DEF KeyFrom
  <2>3. x.user # ym /\ y.user # xm
    BY DEF Apart
  <2>4. a \in Seq(S) /\ b \in Seq(S)
    <3> HIDE DEF xm, ym
    <3> QED BY <1>1, <2>1, Joins
  <2>5. a = b
    <3> HIDE DEF a, b
    <3> QED BY <2>2, <2>4, Joins
  <2> QED BY <1>1, <2>3, <2>5, OptionalParts
<1>3. x.body = y.body /\ UrlKey(Url(x)) = UrlKey(Url(y))
  <2> DEFINE k == UrlKey(Url(x))
             l == UrlKey(Url(y))
  <2>1. Join(x.body, k) = Join(y.body, l)
    BY <1>2 DEF Rest
  <2>2. /\ x.body # <<>> => ~IsPrefix(x.body, l)
        /\ y.body # <<>> => ~IsPrefix(y.body, k)
    BY DEF Apart, Url, Join
  <2>3. k \in Seq(S) /\ l \in Seq(S)
    BY <1>1
  <2> HIDE DEF k, l
  <2>4. x.body = y.body /\ k = l
    BY <1>1, <2>1, <2>2, <2>3, OptionalBodies
  <2> QED BY <2>4 DEF k, l
<1>4. Url(x) = Url(y)
  <2>1. /\ Url(x) \in Seq(S) /\ Url(x) # <<>> /\ Url(x)[1] = "/" /\ ":" \notin Range(Url(x))
        /\ Url(y) \in Seq(S) /\ Url(y) # <<>> /\ Url(y)[1] = "/" /\ ":" \notin Range(Url(y))
    BY PartTexts
  <2> QED BY <1>3, <2>1, UrlKeysApart
<1>5. x.path = y.path /\ x.query = y.query
  <2> DEFINE mark == "?"
             s == x.path
             t == y.path
             u == x.query
             v == y.query
  <2>1. /\ s \in Seq(S) /\ mark \notin Range(s) /\ Starts(S, mark, u)
        /\ t \in Seq(S) /\ mark \notin Range(t) /\ Starts(S, mark, v)
        /\ Join(s, u) = Join(t, v)
    BY <1>4 DEF IsParts, Starts, Url
  <2> HIDE DEF mark, s, t, u, v
  <2>2. s = t /\ u = v
    BY <2>1, MarkSplits
  <2> QED BY <2>2 DEF s, t, u, v
<1> QED BY <1>2, <1>3, <1>5

-----------------------------------------------------------------------------
(* Entries *)

USE PurgesAssumption, NoneAssumption

\* The entries that stores and purges write are entries.
LEMMA EntryTypes ==
  /\ \A r \in Reads, old \in BOOLEAN : /\ Entry(r, old) \in Entries
                                       /\ Entry(r, old) # None
  /\ \A e \in Entries : e.of \in Reads /\ e.old \in BOOLEAN
  BY DEF Entries, Entry

\* The key of a request is one of the keys.
LEMMA KeysOfReads == \A r \in Reads : KeyOf[r] \in Keys
  BY DEF Keys

\* What is present is an entry.
LEMMA PresentEntries == TypeOK => \A k \in Present : entries[k] \in Entries
  BY DEF TypeOK, Present

\* Every reachable state of CachePurge is well typed.
THEOREM TypeCorrect == Spec => []TypeOK
<1> USE DEF Purge
<1>1. Init => TypeOK
  BY DEF Init, TypeOK
<1>2. TypeOK /\ [Next]_vars => TypeOK'
  <2> SUFFICES ASSUME TypeOK, [Next]_vars PROVE TypeOK'
    OBVIOUS
  <2>1. ASSUME NEW c \in Clients, NEW req \in Reads, Read(c, req) PROVE TypeOK'
    BY <2>1 DEF TypeOK, Read
  <2>2. ASSUME NEW c \in Clients, Store(c) PROVE TypeOK'
    <3>1. request[c] \in Reads
      BY <2>2 DEF TypeOK, Store
    <3> QED BY <2>2, <3>1, EntryTypes DEF TypeOK, Store
  <2>3. ASSUME NEW c \in Clients, NotStored(c) PROVE TypeOK'
    BY <2>3 DEF TypeOK, NotStored
  <2>4. ASSUME NEW req \in Purges, PurgeBegins(req) PROVE TypeOK'
    <3>1. \A k \in Present : Entry(entries[k].of, TRUE) \in Entries
      BY PresentEntries, EntryTypes
    <3>2. entries' \in [Keys -> Entries \cup {None}]
      BY <2>4, <3>1 DEF PurgeBegins
    <3> QED BY <2>4, <3>2 DEF TypeOK, PurgeBegins
  <2>5. ASSUME NEW keys, Unlink(keys)
        PROVE  /\ entries' \in [Keys -> Entries \cup {None}]
               /\ request' \in [Clients -> Reads \cup {None}]
    BY <2>5 DEF TypeOK, Unlink
  <2>6. CASE PurgeExact
    BY <2>5, <2>6 DEF TypeOK, PurgeExact, Concluded
  <2>7. CASE PurgeScans
    BY <2>7 DEF TypeOK, PurgeScans, Evicted, Present
  <2>8. CASE PurgeUnlinks
    BY <2>5, <2>8 DEF TypeOK, PurgeUnlinks
  <2>9. CASE PurgeEnds
    BY <2>9 DEF TypeOK, PurgeEnds, Concluded
  <2>10. CASE PurgeFails
    BY <2>5, <2>10 DEF TypeOK, PurgeFails, Failed
  <2>11. CASE UNCHANGED vars
    BY <2>11 DEF TypeOK, vars
  <2> QED BY <2>1, <2>2, <2>3, <2>4, <2>6, <2>7, <2>8, <2>9, <2>10, <2>11 DEF Next
<1> QED BY <1>1, <1>2, PTL DEF Spec

-----------------------------------------------------------------------------
(* What a purge removes *)

\* An entry answers a request that is cached under its key.
EntriesFiled ==
  /\ \A k \in Present : entries[k].of \in Cached /\ KeyOf[entries[k].of] = k
  /\ \A c \in Clients : request[c] # None => request[c] \in Cached

\* A purge in progress has been authorized and holds keys that it matches; when
\* one has ended, none that it matches is as old.
PurgeMatches ==
  /\ InProgress => purge.req \in Purges /\ purge.req.token
  /\ purge.state = "unlink" => purge.batch \subseteq EvictedBy[purge.req]
  /\ purge.state \in {"204", "404"} =>
       /\ purge.req \in Purges
       /\ \A k \in Present : entries[k].old => k \notin EvictedBy[purge.req]

\* The inductive invariant.
PurgeInv == TypeOK /\ EntriesFiled /\ PurgeMatches

\* UNLINK leaves the other entries as they were.
LEMMA UnlinkKeeps ==
  ASSUME PurgeInv, NEW keys, Unlink(keys)
  PROVE  /\ EntriesFiled'
         /\ Present' = Present \ keys
         /\ \A k \in Present' : entries'[k] = entries[k]
  BY DEF PurgeInv, EntriesFiled, Unlink, Present

\* Reads and stores remove nothing, and file what they store.
LEMMA ReadsKeep ==
  ASSUME PurgeInv, NEW c \in Clients, NEW req \in Reads,
         Read(c, req) \/ Store(c) \/ NotStored(c)
  PROVE  EntriesFiled' /\ PurgeMatches' /\ Present \subseteq Present'
<1> USE DEF PurgeInv, TypeOK, EntriesFiled, PurgeMatches, InProgress, Present
<1>1. CASE Read(c, req)
  BY <1>1 DEF Read, Cached
<1>2. CASE Store(c)
  <2>1. request[c] \in Cached
    BY <1>2 DEF Store
  <2>2. request[c] \in Reads
    BY <2>1 DEF Cached
  <2>3. /\ Entry(request[c], FALSE) # None
        /\ Entry(request[c], FALSE).of = request[c]
        /\ Entry(request[c], FALSE).old = FALSE
    BY <2>2, EntryTypes DEF Entry
  <2> QED BY <1>2, <2>1, <2>3 DEF Store
<1>3. CASE NotStored(c)
  BY <1>3 DEF NotStored
<1> QED BY <1>1, <1>2, <1>3

\* A purge that begins only marks the entries that are there.
LEMMA BeginKeeps ==
  ASSUME PurgeInv, NEW req \in Purges, PurgeBegins(req)
  PROVE  EntriesFiled' /\ PurgeMatches' /\ Present' = Present
<1>1. \A k \in Present : /\ Entry(entries[k].of, TRUE) # None
                         /\ Entry(entries[k].of, TRUE).of = entries[k].of
  BY PresentEntries, EntryTypes DEF Entry, PurgeInv
<1>2. Present' = Present
  BY <1>1 DEF PurgeBegins, Present
<1>3. \A k \in Present : entries'[k].of = entries[k].of
  BY <1>1 DEF PurgeBegins, Present
<1>4. EntriesFiled'
  BY <1>2, <1>3 DEF PurgeInv, EntriesFiled, PurgeBegins
<1>5. PurgeMatches'
  BY DEF PurgeMatches, PurgeBegins, Purge, InProgress, Refused
<1> QED BY <1>2, <1>4, <1>5

\* The steps of a purge remove only what it matches.
LEMMA PurgeStep ==
  ASSUME PurgeInv, PurgeExact \/ PurgeScans \/ PurgeUnlinks \/ PurgeEnds \/ PurgeFails
  PROVE  /\ EntriesFiled' /\ PurgeMatches'
         /\ \A k \in Present \ Present' :
              /\ InProgress /\ purge.req \in Purges /\ purge.req.token
              /\ k \in EvictedBy[purge.req]
<1> USE DEF PurgeInv, PurgeMatches, InProgress, Concluded, Purge, Evicted
<1>1. CASE PurgeExact
  BY <1>1, UnlinkKeeps DEF PurgeExact
<1>2. CASE PurgeScans
  BY <1>2 DEF PurgeScans, EntriesFiled, Present
<1>3. CASE PurgeUnlinks
  BY <1>3, UnlinkKeeps DEF PurgeUnlinks
<1>4. CASE PurgeEnds
  BY <1>4 DEF PurgeEnds, EntriesFiled, Present
<1>5. CASE PurgeFails
  <2>1. CASE UNCHANGED <<request, entries>>
    BY <1>5, <2>1 DEF PurgeFails, Failed, EntriesFiled, Present
  <2>2. CASE purge.state = "unlink" /\ Unlink(purge.batch)
    BY <1>5, <2>2, UnlinkKeeps DEF PurgeFails, Failed
  <2> QED BY <1>5, <2>1, <2>2 DEF PurgeFails
<1> QED BY <1>1, <1>2, <1>3, <1>4, <1>5

\* The entries are filed under their keys, and purges match what they remove.
THEOREM PurgesInvariant == Spec => [](EntriesFiled /\ PurgeMatches)
<1>1. Init => EntriesFiled /\ PurgeMatches
  BY DEF Init, EntriesFiled, PurgeMatches, Purge, InProgress, Present
<1>2. TypeOK /\ EntriesFiled /\ PurgeMatches /\ [Next]_vars
        => (EntriesFiled /\ PurgeMatches)'
  <2> SUFFICES ASSUME PurgeInv, [Next]_vars PROVE EntriesFiled' /\ PurgeMatches'
    BY DEF PurgeInv
  <2>1. CASE Next
    <3>1. ASSUME NEW c \in Clients, (\E req \in Reads : Read(c, req)) \/ Store(c) \/ NotStored(c)
          PROVE  EntriesFiled' /\ PurgeMatches'
      <4>1. CASE \E req \in Reads : Read(c, req)
        BY <4>1, ReadsKeep
      <4>2. CASE Store(c) \/ NotStored(c)
        <5>1. PICK req \in Reads : TRUE
          BY <4>2 DEF Store, NotStored, PurgeInv, TypeOK
        <5> QED BY <4>2, <5>1, ReadsKeep
      <4> QED BY <3>1, <4>1, <4>2
    <3> QED BY <2>1, <3>1, BeginKeeps, PurgeStep DEF Next
  <2>2. CASE UNCHANGED vars
    BY <2>2 DEF vars, PurgeInv, EntriesFiled, PurgeMatches, InProgress, Present
  <2> QED BY <2>1, <2>2
<1> QED BY <1>1, <1>2, TypeCorrect, PTL DEF Spec

\* If the patterns of purges reach what they name, a purge that reports an end
\* has left nothing of it, however SCAN, UNLINK and stores have interleaved.
THEOREM PurgesReach == ASSUME PatternsReach PROVE Spec => []PurgeReaches
<1>1. EntriesFiled /\ PurgeMatches => PurgeReaches
  BY DEF PatternsReach, EntriesFiled, PurgeMatches, PurgeReaches
<1> QED BY <1>1, PurgesInvariant, PTL

\* If the patterns of purges spare what they have to, nothing disappears but by
\* an authorized purge that may remove it: not by stores or a failing purge.
THEOREM PurgesSpare == ASSUME PatternsSpare PROVE Spec => PurgeSpares
<1> DEFINE Removes ==
      \A k \in Present \ Present' :
        /\ InProgress /\ purge.req.token
        /\ entries[k].of \notin SparedBy[purge.req]
<1>1. TypeOK /\ EntriesFiled /\ PurgeMatches /\ [Next]_vars => [Removes]_vars
  <2> SUFFICES ASSUME PurgeInv, Next PROVE Removes
    BY DEF PurgeInv
  <2>1. ASSUME NEW c \in Clients, (\E req \in Reads : Read(c, req)) \/ Store(c) \/ NotStored(c)
        PROVE  Present \subseteq Present'
    <3>1. CASE \E req \in Reads : Read(c, req)
      BY <3>1, ReadsKeep
    <3>2. CASE Store(c) \/ NotStored(c)
      <4>1. PICK req \in Reads : TRUE
        BY <3>2 DEF Store, NotStored, PurgeInv, TypeOK
      <4> QED BY <3>2, <4>1, ReadsKeep
    <3> QED BY <2>1, <3>1, <3>2
  <2>2. CASE PurgeExact \/ PurgeScans \/ PurgeUnlinks \/ PurgeEnds \/ PurgeFails
    <3>1. ASSUME NEW k \in Present \ Present'
          PROVE  /\ InProgress /\ purge.req.token
                 /\ entries[k].of \notin SparedBy[purge.req]
      <4>1. InProgress /\ purge.req \in Purges /\ purge.req.token
            /\ k \in EvictedBy[purge.req]
        BY <2>2, <3>1, PurgeStep
      <4> DEFINE of == entries[k].of
                 p == purge.req
      <4>2. of \in Cached /\ KeyOf[of] = k
        BY <3>1 DEF PurgeInv, EntriesFiled
      <4>3. p \in Purges /\ k \in EvictedBy[p]
        BY <4>1
      <4> HIDE DEF of, p
      <4>4. of \notin SparedBy[p]
        BY <4>2, <4>3 DEF PatternsSpare
      <4> QED BY <4>1, <4>4 DEF of, p
    <3> QED BY <3>1
  <2> QED BY <2>1, <2>2, BeginKeeps DEF Next
<1> QED BY <1>1, PurgesInvariant, TypeCorrect, PTL DEF Spec, PurgeSpares

-----------------------------------------------------------------------------
(* Keys *)

\* The key of a request or a purge, regrouped.
LEMMA GeneratedKeys ==
  ASSUME NEW S, ":" \in S, NEW r, OriginPart \in Seq(S), UserPart(r) \in Seq(S),
         r.method \in S, BodyPart(r) \in Seq(S), GenerateUrlKey(r) \in Seq(S)
  PROVE  GenerateCacheKey(r) =
           Join(OriginPart, Join(UserPart(r),
             Join(<<r.method, ":">>, Join(BodyPart(r), GenerateUrlKey(r)))))
<1> DEFINE o == OriginPart
           u == UserPart(r)
           m == <<r.method, ":">>
           b == BodyPart(r)
           l == GenerateUrlKey(r)
<1>1. GenerateCacheKey(r) = Join(Join(Join(Join(o, u), m), b), l)
  BY DEF GenerateCacheKey, Join
<1>2. m \in Seq(S)
  BY Pairs
<1>3. o \in Seq(S) /\ u \in Seq(S) /\ b \in Seq(S) /\ l \in Seq(S)
  OBVIOUS
<1> HIDE DEF o, u, m, b, l
<1>4. \A s, t \in Seq(S) : Join(s, t) \in Seq(S)
  BY Joins
<1>5. \A s, t, v \in Seq(S) : Join(Join(s, t), v) = Join(s, Join(t, v))
  BY Joins
<1> DEFINE ou == Join(o, u)
           bl == Join(b, l)
           mbl == Join(m, bl)
<1>0. ou \in Seq(S) /\ bl \in Seq(S) /\ Join(ou, m) \in Seq(S) /\ mbl \in Seq(S)
  BY <1>2, <1>3, <1>4
<1> HIDE DEF ou, bl, mbl
<1>6. Join(Join(Join(ou, m), b), l) = Join(Join(ou, m), Join(b, l))
  BY <1>3, <1>5, <1>0
<1>7. Join(Join(ou, m), bl) = Join(ou, Join(m, bl))
  BY <1>2, <1>5, <1>0
<1>8. Join(Join(o, u), mbl) = Join(o, Join(u, mbl))
  BY <1>3, <1>5, <1>0
<1> QED BY <1>1, <1>6, <1>7, <1>8 DEF o, u, m, b, l, ou, bl, mbl

\* What is cached is a request that has been accepted.
LEMMA CachedReads ==
  ASSUME NEW r \in Cached
  PROVE  r \in Reads /\ ~IsPurgeRequest(r) /\ (Private(r) => GetUserId(r) # None)
<1>1. r \in Reads /\ ~Refused(r) /\ Cacheable(r)
  BY DEF Cached, Route
<1>2. ~IsPurgeRequest(r)
  BY <1>1
<1> QED BY <1>1, <1>2 DEF Refused, Private

\* The key of a plain request is put together from its parts.
LEMMA RequestKeys ==
  ASSUME NEW S, {":", "/", "?"} \subseteq S, OriginPart \in Seq(S),
         NEW r \in PlainReads, IsParts(S, PartsOf(r)), RequestsFit
  PROVE  KeyOf[r] = KeyFrom(PartsOf(r))
<1> DEFINE x == PartsOf(r)
<1>1. r \in Reads
  BY DEF PlainReads, Cached
<1>2. /\ x.user = UserPart(r) /\ x.method = r.method /\ x.body = BodyPart(r)
      /\ x.path = Base(r.url) /\ x.query = QueryPart(r)
  BY DEF PartsOf
<1>3. IsParts(S, x)
  OBVIOUS
<1> HIDE DEF x
<1>4. GenerateUrlKey(r) = UrlKey(Url(x))
  BY <1>2 DEF RequestsFit, GenerateUrlKey, Url, Join
<1>5. x.user \in Seq(S) /\ x.body \in Seq(S) /\ UrlKey(Url(x)) \in Seq(S) /\ x.method \in S
  BY <1>3, PartTexts DEF IsParts
<1>6. GenerateCacheKey(r) =
        Join(OriginPart, Join(UserPart(r),
          Join(<<r.method, ":">>, Join(BodyPart(r), GenerateUrlKey(r)))))
  BY <1>2, <1>4, <1>5, GeneratedKeys
<1>7. KeyOf[r] = GenerateCacheKey(r)
  BY <1>1 DEF KeyOf
<1> QED BY <1>2, <1>4, <1>6, <1>7 DEF KeyFrom, Rest, x

\* Of a purge of a single resource, removal of the purge path and replacement of
\* the method leave the keys that are put together from the parts it names.
LEMMA PurgedKeys ==
  ASSUME NEW S, KeyPartsFit(S), PurgePathsFit(S), NEW p \in Exact, NEW m \in {"GET", "HEAD"}
  PROVE  Replace(CacheEviction(p), <<"DELETE", ":">>, <<m, ":">>)
           = KeyFrom(PartsPurged(p, m))
<1> DEFINE x == PartsPurged(p, m)
           o == OriginPart
           u == UserPart(p)
           b == BodyPart(p)
           delete == "DELETE"
           purgeword == "purge"
           colon == ":"
           d == <<delete, colon>>
           w == <<purgeword, colon>>
           by == <<m, colon>>
           k == UrlKey(Url(x))
<1>1. /\ delete \in S /\ purgeword \in S /\ colon \in S /\ {":", "/", "purge"} \subseteq S
      /\ delete # purgeword /\ colon # purgeword
      /\ PathOf(p) = <<"/", "purge">> \o Base(Target(p)) \o QueryPart(p)
      /\ o \in Seq(S) /\ IsParts(S, x)
  <2>1. x \in Parts
    BY DEF Parts
  <2>2. IsParts(S, x)
    BY <2>1 DEF KeyPartsFit
  <2> HIDE DEF x
  <2> QED BY <2>2 DEF KeyPartsFit, PurgePathsFit
<1>2. p.method = delete
  <2>1. p \in Purges
    BY DEF Exact, PlainPurges
  <2> QED BY <2>1 DEF IsPurgeRequest
<1>3. x.user = u /\ x.body = b /\ x.method = m
      /\ x.path = Base(Target(p)) /\ x.query = QueryPart(p)
  BY DEF PartsPurged
<1> HIDE DEF x
<1>4. u \in Seq(S) /\ b \in Seq(S) /\ Url(x) \in Seq(S) /\ k \in Seq(S) /\ m \in S
      /\ Url(x) # <<>> /\ Url(x)[1] = "/"
  BY <1>1, <1>3, PartTexts DEF IsParts
<1>5. d \in Seq(S) /\ w \in Seq(S) /\ by \in Seq(S) /\ Range(d) = {delete, colon}
  <2>1. d \in Seq(S) /\ w \in Seq(S) /\ by \in Seq(S) /\ d = Join(<<delete>>, <<colon>>)
    BY <1>1, <1>4, Pairs
  <2>2. /\ <<delete>> \in Seq(S) /\ Range(<<delete>>) = {delete}
        /\ <<colon>> \in Seq(S) /\ Range(<<colon>>) = {colon}
    BY <1>1, Singletons
  <2> DEFINE s == <<delete>>
             t == <<colon>>
  <2> HIDE DEF s, t
  <2>3. s \in Seq(S) /\ t \in Seq(S) => Range(Join(s, t)) = Range(s) \cup Range(t)
    BY Joins
  <2> QED BY <2>1, <2>2, <2>3 DEF s, t
<1>6. purgeword \notin Range(o) \cup Range(u) \cup Range(b) /\ delete \notin Range(o) \cup Range(u)
  <2>1. {"purge", "DELETE"} \cap Range(Join(Join(o, u), b)) = {}
    BY DEF Exact, PlainPurges, IsPlainPurge, Join
  <2> HIDE DEF o, u, b
  <2>2. \A s, t \in Seq(S) : Join(s, t) \in Seq(S) /\ Range(Join(s, t)) = Range(s) \cup Range(t)
    BY Joins
  <2>3. Range(Join(Join(o, u), b)) = Range(o) \cup Range(u) \cup Range(b)
    BY <1>1, <1>4, <2>2
  <2> QED BY <2>1, <2>3
<1>7. GenerateUrlKey(p) = Join(w, k)
  <2>1. PathOf(p) = Join(Join(<<"/", "purge">>, x.path), x.query)
    BY <1>1, <1>3 DEF Join
  <2> DEFINE q == <<"/", "purge">>
  <2>2. q \in Seq(S)
    BY <1>1, Pairs
  <2>3. x.path \in Seq(S) /\ x.query \in Seq(S)
    BY <1>1 DEF IsParts
  <2> HIDE DEF q
  <2>4. Join(Join(q, x.path), x.query) = Join(q, Url(x))
    <3>1. \A s, t, v \in Seq(S) : Join(Join(s, t), v) = Join(s, Join(t, v))
      BY Joins
    <3> QED BY <2>2, <2>3, <3>1 DEF Url
  <2>5. UrlKey(Join(<<"/", "purge">>, Url(x))) = Join(<<"purge", ":">>, UrlKey(Url(x)))
    BY <1>1, <1>4, PurgeUrlKeys
  <2> QED BY <2>1, <2>4, <2>5 DEF GenerateUrlKey, q
<1>8. GenerateCacheKey(p) = Join(o, Join(u, Join(d, Join(b, Join(w, k)))))
  <2>1. Join(w, k) \in Seq(S)
    <3> HIDE DEF w, k
    <3> QED BY <1>4, <1>5, Joins
  <2> QED BY <1>1, <1>2, <1>4, <1>7, <2>1, GeneratedKeys
<1> HIDE DEF o, u, b, k
<1>9. \A s, t \in Seq(S) : Join(s, t) \in Seq(S)
  BY Joins
<1>10. \A s, t, v \in Seq(S) : Join(Join(s, t), v) = Join(s, Join(t, v))
  BY Joins
<1>11. \A s, t \in Seq(S) : Range(Join(s, t)) = Range(s) \cup Range(t)
  BY Joins
<1>12. \A t \in Seq(S) : Join(<<>>, t) = t /\ <<>> \in Seq(S)
  BY Joins
<1> DEFINE a == Join(o, Join(u, Join(d, b)))
<1>13. /\ a \in Seq(S) /\ purgeword \notin Range(a)
       /\ \A t \in Seq(S) : Join(a, t) = Join(o, Join(u, Join(d, Join(b, t))))
  <2> HIDE DEF d, delete, purgeword, colon
  <2>1. Join(d, b) \in Seq(S) /\ Join(u, Join(d, b)) \in Seq(S) /\ a \in Seq(S)
    BY <1>1, <1>4, <1>5, <1>9
  <2>2. Range(a) = Range(o) \cup (Range(u) \cup (Range(d) \cup Range(b)))
    BY <1>1, <1>4, <1>5, <1>11, <2>1
  <2>3. purgeword \notin Range(a)
    BY <1>1, <1>5, <1>6, <2>2
  <2>4. ASSUME NEW t \in Seq(S)
        PROVE  Join(a, t) = Join(o, Join(u, Join(d, Join(b, t))))
    <3>1. Join(a, t) = Join(o, Join(Join(u, Join(d, b)), t))
      BY <1>1, <1>10, <2>1
    <3>2. Join(Join(u, Join(d, b)), t) = Join(u, Join(Join(d, b), t))
      BY <1>4, <1>10, <2>1
    <3>3. Join(Join(d, b), t) = Join(d, Join(b, t))
      BY <1>4, <1>5, <1>10
    <3> QED BY <3>1, <3>2, <3>3
  <2> QED BY <2>1, <2>3, <2>4
<1>14. CacheEviction(p) = Join(o, Join(u, Join(d, Join(b, k))))
  <2>1. CacheEviction(p) = Replace(Join(o, Join(u, Join(d, Join(b, Join(w, k))))), w, <<>>)
    BY <1>8 DEF CacheEviction
  <2>2. Join(w, k) \in Seq(S)
    <3> HIDE DEF w
    <3> QED BY <1>4, <1>5, <1>9
  <2>3. CacheEviction(p) = Replace(Join(a, Join(w, k)), w, <<>>)
    <3> HIDE DEF w, a
    <3> QED BY <1>13, <2>1, <2>2
  <2> HIDE DEF a
  <2>4. Replace(Join(a, Join(w, k)), w, <<>>) = Join(a, Join(<<>>, k))
    <3> DEFINE none == <<>>
    <3>1. none \in Seq(S)
      BY <1>12
    <3> HIDE DEF purgeword, colon, none
    <3>2. Replace(Join(a, Join(w, k)), w, none) = Join(a, Join(none, k))
      BY <1>1, <1>4, <1>13, <3>1, Replaced
    <3> QED BY <3>2 DEF none
  <2> QED BY <1>4, <1>12, <1>13, <2>3, <2>4
<1>15. Join(b, k) = Rest(x) /\ Rest(x) \in Seq(S)
  BY <1>1, <1>3, PartTexts DEF Rest, k
<1> DEFINE c == Join(o, u)
<1>16. c \in Seq(S) /\ delete \notin Range(c)
  BY <1>1, <1>4, <1>6, <1>9, <1>11
<1>17. \A s, t \in Seq(S) : Join(c, Join(s, t)) = Join(o, Join(u, Join(s, t)))
  BY <1>1, <1>4, <1>9, <1>10
<1>18. CacheEviction(p) = Join(c, Join(d, Rest(x)))
  <2> HIDE DEF c, d
  <2> QED BY <1>5, <1>14, <1>15, <1>17
<1>19. Replace(Join(c, Join(d, Rest(x))), d, by) = Join(c, Join(by, Rest(x)))
  <2> HIDE DEF c, delete, colon, by
  <2> QED BY <1>1, <1>5, <1>15, <1>16, Replaced
<1>20. Join(c, Join(by, Rest(x))) = Join(o, Join(u, Join(by, Rest(x))))
  <2> HIDE DEF c, by
  <2> QED BY <1>5, <1>15, <1>17
<1> QED BY <1>3, <1>18, <1>19, <1>20 DEF KeyFrom, x, o, u

\* The user's part of a private request is the digest of its user and a colon.
LEMMA UserParts ==
  ASSUME NEW r \in PlainReads
  PROVE  UserPart(r) = IF Private(r) THEN Join(Digest[r.credentials.user], <<":">>) ELSE <<>>
<1>1. r \in Cached
  BY DEF PlainReads
<1>2. CASE Private(r)
  <2>1. ~IsPurgeRequest(r) /\ GetUserId(r) # None
    BY <1>1, <1>2, CachedReads
  <2>2. GetUserId(r) = Digest[r.credentials.user]
    BY <2>1 DEF GetUserId
  <2>3. UserId(r) = GetUserId(r)
    BY <2>1 DEF UserId
  <2> QED BY <1>2, <2>1, <2>2, <2>3 DEF UserPart, Private, Join
<1>3. CASE ~Private(r)
  BY <1>3 DEF UserPart, Private
<1> QED BY <1>2, <1>3

\* That of a purge of private responses has the user of its header, or is a colon.
PurgeUser(p) == IF p.userid = None THEN <<>> ELSE Digest[p.userid]
LEMMA PurgeUserParts ==
  ASSUME NEW S, PurgePathsFit(S), NEW p \in Exact
  PROVE  UserPart(p) = IF Private(p) THEN Join(PurgeUser(p), <<":">>) ELSE <<>>
<1>1. p \in Purges
  BY DEF Exact, PlainPurges
<1>2. UserId(p) = IF p.userid = None THEN None ELSE Digest[p.userid]
  BY <1>1 DEF UserId, GetPurgeUserId
<1>3. Private(p) /\ p.userid # None => Digest[p.userid] # None
  BY DEF PurgePathsFit
<1>4. CASE Private(p)
  <2>1. UserPart(p) = (IF UserId(p) = None THEN <<>> ELSE UserId(p)) \o <<":">>
    BY <1>4 DEF UserPart, Private
  <2> DEFINE id == IF UserId(p) = None THEN <<>> ELSE UserId(p)
  <2>2. id = PurgeUser(p)
    BY <1>2, <1>3, <1>4 DEF PurgeUser
  <2>3. UserPart(p) = id \o <<":">>
    BY <2>1
  <2> HIDE DEF id
  <2> QED BY <1>4, <2>2, <2>3 DEF Join
<1>5. CASE ~Private(p)
  BY <1>5 DEF UserPart, Private
<1> QED BY <1>4, <1>5

\* What comes before a colon can be read off.
LEMMA SameEnds ==
  ASSUME NEW S, ":" \in S, NEW a \in Seq(S), NEW b \in Seq(S),
         Join(a, <<":">>) = Join(b, <<":">>)
  PROVE  a = b
<1> DEFINE c == <<":">>
<1>1. c \in Seq(S)
  BY Singletons
<1>2. Join(a, c) = Join(b, c)
  OBVIOUS
<1> HIDE DEF c
<1> QED BY <1>1, <1>2, ConcatSimplifications DEF Join

\* The part of the body tells the fingerprints apart, and the lack of one.
LEMMA AlikeBodies ==
  ASSUME NEW S, KeyPartsFit(S), NEW r \in PlainReads \cup Exact, NEW q \in PlainReads \cup Exact
  PROVE  BodyPart(r) = BodyPart(q) <=> r.fingerprint = q.fingerprint
<1> DEFINE f == r.fingerprint
           g == q.fingerprint
           c == <<":">>
           Part(h) == IF h = None THEN <<>> ELSE Join(h, c)
<1>1. BodyPart(r) = Part(f) /\ BodyPart(q) = Part(g)
  BY DEF BodyPart, Join
<1>2. ":" \in S /\ f \in Seq(S) \cup {None} /\ g \in Seq(S) \cup {None}
  BY DEF KeyPartsFit
<1>3. \A h \in Seq(S) : Join(h, c) # <<>>
  <2> SUFFICES ASSUME NEW h \in Seq(S) PROVE Join(h, c) # <<>>
    OBVIOUS
  <2>1. c \in Seq(S) /\ Len(c) = 1
    BY <1>2, Singletons
  <2> HIDE DEF c
  <2>2. IsJoin(S, h, c, Join(h, c))
    BY <2>1, JoinedElements
  <2> QED BY <2>1, <2>2, EmptySeq DEF IsJoin
<1>4. \A h, i \in Seq(S) : Join(h, c) = Join(i, c) => h = i
  BY <1>2, SameEnds
<1> HIDE DEF f, g, c
<1>5. Part(f) = Part(g) <=> f = g
  BY <1>2, <1>3, <1>4
<1> QED BY <1>1, <1>5 DEF f, g

\* Two plain requests have the same key just if they ask for the same response.
LEMMA KeysAreIdentities ==
  ASSUME NEW S, KeyPartsFit(S), RequestsFit, NEW r \in PlainReads, NEW q \in PlainReads
  PROVE  KeyOf[r] = KeyOf[q] <=> Identity(r) = Identity(q)
<1>1. /\ Private(r) => r.credentials.user \in Users
      /\ Private(q) => q.credentials.user \in Users
      /\ {":", "/", "?"} \subseteq S /\ OriginPart \in Seq(S)
      /\ \A u \in Users : Digest[u] \in Seq(S)
  BY DEF RequestsFit, KeyPartsFit
<1>2. ASSUME Base(r.url) = Base(q.url)
      PROVE  /\ Private(r) = Private(q)
             /\ QueryPart(r) = QueryPart(q) <=> Relevant(r) = Relevant(q)
  <2>1. CacheSettings(r) = CacheSettings(q) /\ QueriesFit(r, q)
    BY <1>2 DEF RequestsFit
  <2> QED BY <2>1 DEF Private, QueriesFit
<1>3. /\ IsParts(S, PartsOf(r)) /\ IsParts(S, PartsOf(q))
      /\ Apart(PartsOf(r), PartsOf(q)) /\ Apart(PartsOf(q), PartsOf(r))
  BY DEF KeyPartsFit, Parts
<1>4. /\ UserPart(r) = IF Private(r) THEN Join(Digest[r.credentials.user], <<":">>) ELSE <<>>
      /\ UserPart(q) = IF Private(q) THEN Join(Digest[q.credentials.user], <<":">>) ELSE <<>>
  BY UserParts
<1>5. KeyOf[r] = KeyFrom(PartsOf(r)) /\ KeyOf[q] = KeyFrom(PartsOf(q))
  BY <1>1, <1>3, RequestKeys
<1>6. ASSUME KeyOf[r] = KeyOf[q]
      PROVE  Identity(r) = Identity(q)
  <2>1. /\ PartsOf(r).user = PartsOf(q).user /\ PartsOf(r).method = PartsOf(q).method
        /\ PartsOf(r).body = PartsOf(q).body /\ PartsOf(r).path = PartsOf(q).path
        /\ PartsOf(r).query = PartsOf(q).query
    <3> DEFINE x == PartsOf(r)
               y == PartsOf(q)
    <3>1. KeyFrom(x) = KeyFrom(y)
      BY <1>5, <1>6
    <3>2. IsParts(S, x) /\ IsParts(S, y) /\ Apart(x, y) /\ Apart(y, x)
      BY <1>3
    <3> HIDE DEF x, y
    <3>3. /\ x.user = y.user /\ x.method = y.method /\ x.body = y.body
          /\ x.path = y.path /\ x.query = y.query
      BY <1>1, <3>1, <3>2, KeysApart
    <3> QED BY <3>3 DEF x, y
  <2>2. /\ UserPart(r) = UserPart(q) /\ r.method = q.method /\ BodyPart(r) = BodyPart(q)
        /\ Base(r.url) = Base(q.url) /\ QueryPart(r) = QueryPart(q)
    BY <2>1 DEF PartsOf
  <2>3. Private(r) = Private(q) /\ Relevant(r) = Relevant(q)
    BY <1>2, <2>2
  <2>4. r.fingerprint = q.fingerprint
    BY <2>2, AlikeBodies
  <2>5. Private(r) => r.credentials.user = q.credentials.user
    <3> SUFFICES ASSUME Private(r) PROVE r.credentials.user = q.credentials.user
      OBVIOUS
    <3> DEFINE u == r.credentials.user
               v == q.credentials.user
    <3>1. Join(Digest[u], <<":">>) = Join(Digest[v], <<":">>)
      BY <1>4, <2>2, <2>3
    <3>2. u \in Users /\ v \in Users
      BY <1>1, <2>3
    <3> HIDE DEF u, v
    <3>3. Digest[u] = Digest[v]
      BY <1>1, <3>1, <3>2, SameEnds
    <3> QED BY <3>2, <3>3, DigestAssumption DEF u, v
  <2> QED BY <2>2, <2>3, <2>4, <2>5 DEF Identity
<1>7. ASSUME Identity(r) = Identity(q)
      PROVE  KeyOf[r] = KeyOf[q]
  <2>1. /\ r.method = q.method /\ Base(r.url) = Base(q.url)
        /\ Relevant(r) = Relevant(q) /\ r.fingerprint = q.fingerprint
        /\ (IF Private(r) THEN r.credentials.user ELSE None)
             = (IF Private(q) THEN q.credentials.user ELSE None)
    BY <1>7 DEF Identity
  <2>2. Private(r) = Private(q) /\ QueryPart(r) = QueryPart(q)
    BY <1>2, <2>1
  <2>3. UserPart(r) = UserPart(q)
    BY <1>4, <2>1, <2>2
  <2>4. BodyPart(r) = BodyPart(q)
    BY <2>1, AlikeBodies
  <2>5. PartsOf(r) = PartsOf(q)
    BY <2>1, <2>2, <2>3, <2>4 DEF PartsOf
  <2> QED BY <1>5, <2>5
<1> QED BY <1>6, <1>7

\* A plain purge of a single resource matches the keys of just what it names.
LEMMA ExactPatterns ==
  ASSUME NEW S, KeyPartsFit(S), RequestsFit, PurgePathsFit(S),
         NEW p \in Exact, NEW r \in PlainReads
  PROVE  KeyOf[r] \in EvictedBy[p] <=> Names(p, r)
<1> DEFINE target == Base(Target(p))
<1>1. /\ Private(r) => r.credentials.user \in Users
      /\ Private(p) => p.userid \in Users \cup {None}
      /\ \A u \in Users : Digest[u] # <<>> /\ u # None /\ Digest[u] \in Seq(S)
      /\ {":", "/", "?", "purge"} \subseteq S /\ OriginPart \in Seq(S)
  BY DEF RequestsFit, PurgePathsFit, KeyPartsFit
<1>2. ASSUME Base(r.url) = target
      PROVE  /\ Private(r) = Private(p)
             /\ QueryPart(r) = QueryPart(p) <=> Relevant(r) = Relevant(p)
  <2>1. CacheSettings(p) = CacheSettings(r) /\ QueriesFit(r, p)
    BY <1>2 DEF PurgePathsFit
  <2> QED BY <2>1 DEF Private, QueriesFit
<1>3. /\ IsParts(S, PartsOf(r))
      /\ \A m \in {"GET", "HEAD"} :
           /\ IsParts(S, PartsPurged(p, m))
           /\ Apart(PartsOf(r), PartsPurged(p, m)) /\ Apart(PartsPurged(p, m), PartsOf(r))
  <2>1. /\ PartsOf(r) \in Parts
        /\ \A m \in {"GET", "HEAD"} : PartsPurged(p, m) \in Parts
    BY DEF Parts
  <2>2. \A x, y \in Parts : IsParts(S, x) /\ Apart(x, y)
    BY DEF KeyPartsFit
  <2> QED BY <2>1, <2>2
<1>4. KeyOf[r] = KeyFrom(PartsOf(r))
  BY <1>1, <1>3, RequestKeys
<1>5. Names(p, r) <=>
        /\ Private(r) => p.userid = r.credentials.user
        /\ Base(r.url) = target /\ Relevant(r) = Relevant(p)
        /\ r.method \in {"GET", "HEAD"} /\ r.fingerprint = p.fingerprint
  <2>1. ~Contains(p.url, "*") /\ Base(p.url) = Join(<<"/", "purge">>, target)
    BY DEF PurgePathsFit, Join
  <2>2. p.url # <<"/", "purge", "/", "*">>
    <3> DEFINE all == <<"/", "purge", "/", "*">>
    <3>1. 4 \in 1 .. Len(all) /\ all[4] = "*"
      OBVIOUS
    <3> HIDE DEF all
    <3>2. Contains(all, "*")
      BY <3>1 DEF Contains
    <3> QED BY <2>1, <3>2 DEF all
  <2>3. Base(p.url) = <<"/", "purge">> \o Base(r.url) <=> Base(r.url) = target
    <3> DEFINE q == <<"/", "purge">>
               b == Base(r.url)
    <3>1. q \in Seq(S)
      BY <1>1, Pairs
    <3>2. b \in Seq(S) /\ target \in Seq(S)
      BY <1>3 DEF IsParts, PartsOf, PartsPurged
    <3> HIDE DEF q, b, target
    <3>0. \A s, t, v \in Seq(S) : Join(s, t) = Join(s, v) => t = v
      BY Joins
    <3>3. Join(q, target) = Join(q, b) <=> b = target
      BY <3>0, <3>1, <3>2
    <3> QED BY <2>1, <3>3 DEF q, b, Join
  <2> QED BY <2>1, <2>2, <2>3 DEF Names
<1>6. KeyOf[r] \in EvictedBy[p]
        <=> \E m \in {"GET", "HEAD"} : KeyOf[r] = KeyFrom(PartsPurged(p, m))
  <2>1. KeyOf[r] \in Keys /\ p \in Purges /\ IsExact(p)
    <3>1. r \in Reads
      BY DEF PlainReads, Cached
    <3> QED BY <3>1, KeysOfReads DEF Exact, PlainPurges
  <2>2. KeyOf[r] \in EvictedBy[p] <=> KeyOf[r] \in ExactKeys(CacheEviction(p))
    BY <2>1 DEF EvictedBy, Evicts
  <2>3. \A m \in {"GET", "HEAD"} :
          Replace(CacheEviction(p), <<"DELETE", ":">>, <<m, ":">>)
            = KeyFrom(PartsPurged(p, m))
    BY PurgedKeys
  <2> QED BY <2>2, <2>3 DEF ExactKeys
<1>7. /\ UserPart(r) = IF Private(r) THEN Join(Digest[r.credentials.user], <<":">>) ELSE <<>>
      /\ UserPart(p) = IF Private(p) THEN Join(PurgeUser(p), <<":">>) ELSE <<>>
  BY UserParts, PurgeUserParts
<1>8. ASSUME NEW m \in {"GET", "HEAD"}, KeyOf[r] = KeyFrom(PartsPurged(p, m))
      PROVE  Names(p, r)
  <2>1. /\ PartsOf(r).user = PartsPurged(p, m).user
        /\ PartsOf(r).method = PartsPurged(p, m).method
        /\ PartsOf(r).body = PartsPurged(p, m).body
        /\ PartsOf(r).path = PartsPurged(p, m).path
        /\ PartsOf(r).query = PartsPurged(p, m).query
    <3> DEFINE x == PartsOf(r)
               y == PartsPurged(p, m)
    <3>1. KeyFrom(x) = KeyFrom(y)
      BY <1>4, <1>8
    <3>2. IsParts(S, x) /\ IsParts(S, y) /\ Apart(x, y) /\ Apart(y, x)
      BY <1>3
    <3> HIDE DEF x, y
    <3>3. /\ x.user = y.user /\ x.method = y.method /\ x.body = y.body
          /\ x.path = y.path /\ x.query = y.query
      BY <1>1, <3>1, <3>2, KeysApart
    <3> QED BY <3>3 DEF x, y
  <2>2. /\ UserPart(r) = UserPart(p) /\ r.method = m /\ BodyPart(r) = BodyPart(p)
        /\ Base(r.url) = target /\ QueryPart(r) = QueryPart(p)
    BY <2>1 DEF PartsOf, PartsPurged
  <2>3. Private(r) = Private(p) /\ Relevant(r) = Relevant(p)
    BY <1>2, <2>2
  <2>4. r.fingerprint = p.fingerprint
    BY <2>2, AlikeBodies
  <2>5. Private(r) => p.userid = r.credentials.user
    <3> SUFFICES ASSUME Private(r) PROVE p.userid = r.credentials.user
      OBVIOUS
    <3> DEFINE u == r.credentials.user
               v == p.userid
               text == PurgeUser(p)
    <3>1. Join(Digest[u], <<":">>) = Join(text, <<":">>)
      BY <1>7, <2>2, <2>3
    <3>2. u \in Users /\ v \in Users \cup {None}
      BY <1>1, <2>3
    <3>3. text = IF v = None THEN <<>> ELSE Digest[v]
      BY DEF PurgeUser
    <3> HIDE DEF u, v, text
    <3>4. Digest[u] \in Seq(S) /\ text \in Seq(S) /\ Digest[u] # <<>>
      BY <1>1, <3>2, <3>3, EmptySeq
    <3>5. Digest[u] = text
      BY <1>1, <3>1, <3>4, SameEnds
    <3>6. v # None /\ Digest[u] = Digest[v]
      BY <3>3, <3>4, <3>5
    <3> QED BY <3>2, <3>6, DigestAssumption DEF u, v
  <2> QED BY <1>5, <2>2, <2>3, <2>4, <2>5
<1>9. ASSUME Names(p, r)
      PROVE  \E m \in {"GET", "HEAD"} : KeyOf[r] = KeyFrom(PartsPurged(p, m))
  <2>1. /\ Private(r) => p.userid = r.credentials.user
        /\ Base(r.url) = target /\ Relevant(r) = Relevant(p)
        /\ r.method \in {"GET", "HEAD"} /\ r.fingerprint = p.fingerprint
    BY <1>5, <1>9
  <2>2. Private(r) = Private(p) /\ QueryPart(r) = QueryPart(p)
    BY <1>2, <2>1
  <2>3. UserPart(r) = UserPart(p)
    <3>1. CASE ~Private(r)
      BY <1>7, <2>2, <3>1
    <3>2. CASE Private(r)
      <4>1. p.userid = r.credentials.user /\ r.credentials.user # None
        BY <1>1, <2>1, <3>2
      <4>2. PurgeUser(p) = Digest[r.credentials.user]
        BY <4>1 DEF PurgeUser
      <4> QED BY <1>7, <2>2, <3>2, <4>2
    <3> QED BY <3>1, <3>2
  <2>4. BodyPart(r) = BodyPart(p)
    BY <2>1, AlikeBodies
  <2>5. PartsOf(r) = PartsPurged(p, r.method)
    BY <2>1, <2>2, <2>3, <2>4 DEF PartsOf, PartsPurged
  <2> QED BY <1>4, <2>1, <2>5
<1> QED BY <1>6, <1>8, <1>9

-----------------------------------------------------------------------------
(* Keys and patterns of what is in the cache *)

\* Where no conversion of URLs makes two requests meet and the parts of keys can
\* be told apart, a request with a plain URL finds an entry of one just if the
\* entry's response is the one it asks for, whatever was stored and purged before.
THEOREM KeysTellApart ==
  ASSUME NEW Texts, KeyPartsFit(Texts), RequestsFit PROVE Spec => []KeysIdentify
<1>1. EntriesFiled => KeysIdentify
  <2> SUFFICES ASSUME EntriesFiled, NEW k \in Present, entries[k].of \in PlainReads
               PROVE  Finders[k] = Alike[entries[k].of]
    BY DEF KeysIdentify
  <2> DEFINE of == entries[k].of
  <2>1. of \in PlainReads /\ of \in Cached /\ KeyOf[of] = k
    BY DEF EntriesFiled
  <2> HIDE DEF of
  <2>2. k \in Keys
    BY <2>1, KeysOfReads DEF Cached
  <2>3. \A q \in PlainReads : KeyOf[q] = KeyOf[of] <=> Identity(q) = Identity(of)
    BY <2>1, KeysAreIdentities
  <2>4. {q \in PlainReads : KeyOf[q] = k} = {q \in PlainReads : Identity(q) = Identity(of)}
    BY <2>1, <2>3
  <2>5. /\ Finders[k] = {q \in PlainReads : KeyOf[q] = k}
        /\ Alike[of] = {q \in PlainReads : Identity(q) = Identity(of)}
    BY <2>1, <2>2 DEF Finders, Alike
  <2> QED BY <2>4, <2>5 DEF of
<1> QED BY <1>1, PurgesInvariant, PTL

\* A plain purge of a single resource matches just those entries of plain requests
\* that it names, of both methods and of its user: none is left, none more removed.
THEOREM ExactPurges ==
  ASSUME NEW Texts, KeyPartsFit(Texts), RequestsFit, PurgePathsFit(Texts)
  PROVE  Spec => [](\A p \in Exact, k \in Present : entries[k].of \in PlainReads =>
                      (k \in EvictedBy[p] <=> entries[k].of \in NamedBy[p]))
<1> DEFINE Fits == \A p \in Exact, k \in Present : entries[k].of \in PlainReads =>
                     (k \in EvictedBy[p] <=> entries[k].of \in NamedBy[p])
<1>1. EntriesFiled => Fits
  <2> SUFFICES ASSUME EntriesFiled, NEW p \in Exact, NEW k \in Present,
                      entries[k].of \in PlainReads
               PROVE  k \in EvictedBy[p] <=> entries[k].of \in NamedBy[p]
    OBVIOUS
  <2> DEFINE of == entries[k].of
  <2>1. of \in PlainReads /\ KeyOf[of] = k /\ p \in Purges /\ p \in PlainPurges
    BY DEF EntriesFiled, Exact, PlainPurges
  <2> HIDE DEF of
  <2>2. k \in EvictedBy[p] <=> Names(p, of)
    BY <2>1, ExactPatterns
  <2>3. of \in NamedBy[p] <=> Names(p, of)
    BY <2>1 DEF NamedBy
  <2> QED BY <2>2, <2>3 DEF of
<1> QED BY <1>1, PurgesInvariant, PTL

\* What the theorems about purges ask of patterns has to be shown of those with an
\* asterisk only: of a plain purge of a single resource it follows.
THEOREM GlobsSuffice ==
  ASSUME NEW Texts, KeyPartsFit(Texts), RequestsFit, PurgePathsFit(Texts), GlobsFit
  PROVE  PatternsReach /\ PatternsSpare
<1> SUFFICES ASSUME NEW p \in Purges, NEW r \in Cached
             PROVE  /\ r \in NamedBy[p] => KeyOf[r] \in EvictedBy[p]
                    /\ KeyOf[r] \in EvictedBy[p] => r \notin SparedBy[p]
  BY DEF PatternsReach, PatternsSpare
<1>1. CASE p \notin PlainPurges \/ r \notin PlainReads
  <2>1. r \notin NamedBy[p] /\ r \notin SparedBy[p]
    BY <1>1 DEF NamedBy, SparedBy
  <2> QED BY <2>1
<1>2. CASE p \in PlainPurges /\ r \in PlainReads
  <2>1. /\ r \in NamedBy[p] <=> Names(p, r)
        /\ r \in SparedBy[p] <=> Spared(p, r)
    BY <1>2 DEF NamedBy, SparedBy
  <2>2. CASE p \in Exact
    <3>1. KeyOf[r] \in EvictedBy[p] <=> Names(p, r)
      BY <1>2, <2>2, ExactPatterns
    <3>2. IsExact(p)
      BY <2>2 DEF Exact
    <3> QED BY <2>1, <3>1, <3>2 DEF Spared
  <2>3. CASE p \notin Exact
    BY <1>2, <2>1, <2>3 DEF GlobsFit
  <2> QED BY <2>2, <2>3
<1> QED BY <1>1, <1>2

\* Plain purges reach each entry of a plain request that they name and spare the
\* rest, if those with an asterisk do: the parts of keys can be told apart, and
\* the two words that purge() replaces are found where they belong.
THEOREM PurgesFit ==
  ASSUME NEW Texts, KeyPartsFit(Texts), RequestsFit, PurgePathsFit(Texts), GlobsFit
  PROVE  Spec => []PatternsFit
<1>0. PatternsReach /\ PatternsSpare
  BY GlobsSuffice
<1>1. EntriesFiled => PatternsFit
  <2> SUFFICES ASSUME EntriesFiled, NEW p \in Purges, NEW k \in Present
               PROVE  /\ entries[k].of \in NamedBy[p] => k \in EvictedBy[p]
                      /\ k \in EvictedBy[p] => entries[k].of \notin SparedBy[p]
    BY DEF PatternsFit
  <2> DEFINE of == entries[k].of
  <2>1. of \in Cached /\ KeyOf[of] = k
    BY DEF EntriesFiled
  <2> HIDE DEF of
  <2>2. of \in NamedBy[p] => k \in EvictedBy[p]
    BY <1>0, <2>1 DEF PatternsReach
  <2>3. k \in EvictedBy[p] => of \notin SparedBy[p]
    BY <1>0, <2>1 DEF PatternsSpare
  <2> QED BY <2>2, <2>3 DEF of
<1> QED BY <1>1, PurgesInvariant, PTL
=============================================================================
