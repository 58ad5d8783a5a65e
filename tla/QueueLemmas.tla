----------------------------- MODULE QueueLemmas -----------------------------
(***************************************************************************)
(* Facts about queues as sequences of increasing job numbers, about the    *)
(* cut points by which selectReadyJob() deals out a queue, about sequences *)
(* that are put together, and about the division of elements into jobs.    *)
(***************************************************************************)
EXTENDS Queues, Partition, SequencesExt, SequenceTheorems, FiniteSetTheorems,
        WellFoundedInduction, TLAPS

\* The elements of a queue are the values at its positions.
LEMMA RangeOfQueue ==
  ASSUME NEW S, NEW q \in Seq(S)
  PROVE  /\ Range(q) = {q[i] : i \in 1 .. Len(q)}
         /\ Range(q) \subseteq S
  BY DEF Range

\* Taking the head of an ascending queue removes exactly one element, the
\* smallest one.
LEMMA TakeHead ==
  ASSUME NEW S, S \subseteq Int, NEW q \in Seq(S), q # <<>>, Ascending(q)
  PROVE  /\ Head(q) \in Range(q)
         /\ Range(Tail(q)) = Range(q) \ {Head(q)}
         /\ Ascending(Tail(q))
         /\ \A j \in Range(Tail(q)) : Head(q) < j
  <1>1. Tail(q) \in Seq(S) /\ Len(Tail(q)) = Len(q) - 1 /\ Len(q) \in Nat \ {0}
    BY HeadTailProperties, EmptySeq, LenProperties
  <1>2. \A i \in 1 .. Len(q) - 1 : Tail(q)[i] = q[i + 1]
    BY <1>1, HeadTailProperties
  <1>3. Head(q) = q[1] /\ \A i \in 1 .. Len(q) : q[i] \in Int
    <2>1. ASSUME NEW i \in 1 .. Len(q) PROVE q[i] \in Int
      <3>1. q[i] \in S BY ElementOfSeq
      <3> QED BY <3>1
    <2>2. Head(q) = q[1] BY HeadTailProperties
    <2> QED BY <2>1, <2>2
  <1>r. /\ Range(q) = {q[i] : i \in 1 .. Len(q)}
        /\ Range(Tail(q)) = {Tail(q)[i] : i \in 1 .. Len(q) - 1}
    BY <1>1, RangeOfQueue
  <1>4. Head(q) \in Range(q)
    BY <1>1, <1>3, <1>r
  <1>5. Range(Tail(q)) = Range(q) \ {Head(q)}
    <2>1. ASSUME NEW j \in Range(Tail(q)) PROVE j \in Range(q) \ {Head(q)}
      <3>1. PICK i \in 1 .. Len(q) - 1 : j = q[i + 1]
        BY <1>1, <1>2, <1>r
      <3>2. i + 1 \in 1 .. Len(q) /\ 1 \in 1 .. Len(q) /\ 1 < i + 1
        BY <1>1, <3>1
      <3>3. q[1] < q[i + 1]
        BY <3>2 DEF Ascending
      <3> QED BY <3>1, <3>2, <3>3, <1>3, <1>r
    <2>2. ASSUME NEW j \in Range(q), j # Head(q) PROVE j \in Range(Tail(q))
      <3>1. PICK i \in 1 .. Len(q) : j = q[i]
        BY <1>r
      <3>2. i # 1 /\ i - 1 \in 1 .. Len(q) - 1 /\ (i - 1) + 1 = i
        BY <3>1, <2>2, <1>3, <1>1
      <3>3. Tail(q)[i - 1] = j
        BY <3>1, <3>2, <1>2
      <3> QED BY <3>2, <3>3, <1>1, <1>r
    <2> QED BY <2>1, <2>2
  <1>6. Ascending(Tail(q))
    <2>1. SUFFICES ASSUME NEW i \in 1 .. Len(q) - 1, NEW k \in 1 .. Len(q) - 1, i < k
                   PROVE  q[i + 1] < q[k + 1]
      BY <1>1, <1>2 DEF Ascending
    <2>2. i + 1 \in 1 .. Len(q) /\ k + 1 \in 1 .. Len(q) /\ i + 1 < k + 1
      BY <1>1, <2>1
    <2> QED BY <2>2 DEF Ascending
  <1>7. ASSUME NEW j \in Range(Tail(q)) PROVE Head(q) < j
    <2>1. PICK i \in 1 .. Len(q) - 1 : j = q[i + 1]
      BY <1>1, <1>2, <1>r
    <2>2. i + 1 \in 1 .. Len(q) /\ 1 \in 1 .. Len(q) /\ 1 < i + 1
      BY <1>1, <2>1
    <2> QED BY <2>1, <2>2, <1>3 DEF Ascending
  <1> QED BY <1>4, <1>5, <1>6, <1>7

\* Appending a queue of larger elements.
LEMMA AppendQueue ==
  ASSUME NEW S, NEW p \in Seq(S), NEW q \in Seq(S)
  PROVE  /\ p \o q \in Seq(S)
         /\ Range(p \o q) = Range(p) \cup Range(q)
         /\ Ascending(p) /\ Ascending(q) /\ (\A i \in Range(p), k \in Range(q) : i < k)
            => Ascending(p \o q)
  <1> DEFINE r == p \o q
             m == Len(p)
             n == Len(q)
  <1>1. /\ r \in Seq(S) /\ Len(r) = m + n /\ m \in Nat /\ n \in Nat
        /\ \A i \in 1 .. m + n : r[i] = IF i <= m THEN p[i] ELSE q[i - m]
    BY ConcatProperties, LenProperties
  <1>r. /\ Range(p) = {p[i] : i \in 1 .. m}
        /\ Range(q) = {q[i] : i \in 1 .. n}
        /\ Range(r) = {r[i] : i \in 1 .. m + n}
    BY <1>1, RangeOfQueue
  <1>2. Range(r) = Range(p) \cup Range(q)
    <2>1. ASSUME NEW j \in Range(r) PROVE j \in Range(p) \cup Range(q)
      <3>1. PICK i \in 1 .. m + n : j = r[i]
        BY <1>1, <1>r
      <3>2. CASE i <= m
        <4>1. i \in 1 .. m /\ j = p[i] BY <3>1, <3>2, <1>1
        <4> QED BY <4>1, <1>r
      <3>3. CASE i > m
        <4>1. i - m \in 1 .. n /\ j = q[i - m] BY <3>1, <3>3, <1>1
        <4> QED BY <4>1, <1>r
      <3> QED BY <3>2, <3>3, <1>1
    <2>2. ASSUME NEW j \in Range(p) PROVE j \in Range(r)
      <3>1. PICK i \in 1 .. m : j = p[i] BY <1>r
      <3>2. i \in 1 .. m + n /\ r[i] = j BY <3>1, <1>1
      <3> QED BY <3>2, <1>1, <1>r
    <2>3. ASSUME NEW j \in Range(q) PROVE j \in Range(r)
      <3>1. PICK i \in 1 .. n : j = q[i] BY <1>r
      <3>2. i + m \in 1 .. m + n /\ ~(i + m <= m) /\ (i + m) - m = i BY <3>1, <1>1
      <3>3. r[i + m] = j BY <3>1, <3>2, <1>1
      <3> QED BY <3>2, <3>3, <1>1, <1>r
    <2> QED BY <2>1, <2>2, <2>3
  <1>3. ASSUME Ascending(p), Ascending(q), \A i \in Range(p), k \in Range(q) : i < k
        PROVE  Ascending(r)
    <2>1. SUFFICES ASSUME NEW i \in 1 .. m + n, NEW k \in 1 .. m + n, i < k
                   PROVE  r[i] < r[k]
      BY <1>1 DEF Ascending
    <2>2. CASE k <= m
      <3>1. i \in 1 .. m /\ k \in 1 .. m /\ r[i] = p[i] /\ r[k] = p[k]
        BY <1>1, <2>1, <2>2
      <3> QED BY <3>1, <2>1, <1>3 DEF Ascending
    <2>3. CASE i <= m /\ k > m
      <3>1. i \in 1 .. m /\ k - m \in 1 .. n /\ r[i] = p[i] /\ r[k] = q[k - m]
        BY <1>1, <2>1, <2>3
      <3>2. p[i] \in Range(p) /\ q[k - m] \in Range(q)
        BY <3>1, <1>r
      <3> QED BY <3>1, <3>2, <1>3
    <2>4. CASE i > m
      <3>1. /\ i - m \in 1 .. n /\ k - m \in 1 .. n /\ i - m < k - m
            /\ r[i] = q[i - m] /\ r[k] = q[k - m]
        BY <1>1, <2>1, <2>4
      <3> QED BY <3>1, <1>3 DEF Ascending
    <2> QED BY <2>2, <2>3, <2>4, <1>1
  <1> QED BY <1>1, <1>2, <1>3

\* A segment of an ascending queue.
LEMMA Segment ==
  ASSUME NEW S, NEW q \in Seq(S), NEW a \in Nat \ {0}, NEW b \in Nat,
         b <= Len(q)
  PROVE  /\ SubSeq(q, a, b) \in Seq(S)
         /\ \A j : j \in Range(SubSeq(q, a, b)) <=> \E i \in a .. b : j = q[i]
         /\ Ascending(q) => Ascending(SubSeq(q, a, b))
  <1> DEFINE r == SubSeq(q, a, b)
  <1>0. Len(q) \in Nat /\ \A i \in a .. b : i \in 1 .. Len(q) /\ q[i] \in S
    BY LenProperties, ElementOfSeq
  <1>1. /\ r \in Seq(S)
        /\ Len(r) = IF a <= b THEN b - a + 1 ELSE 0
        /\ \A i \in 1 .. b - a + 1 : r[i] = q[a + i - 1]
    BY <1>0, SubSeqProperties
  <1>2. \A i \in 1 .. Len(r) : a + i - 1 \in a .. b /\ r[i] = q[a + i - 1]
    BY <1>1
  <1>r. Range(r) = {r[i] : i \in 1 .. Len(r)}
    <2>1. r \in Seq(S) BY <1>1
    <2> HIDE DEF r
    <2> QED BY <2>1, RangeOfQueue
  <1>3. \A j : j \in Range(r) <=> \E i \in a .. b : j = q[i]
    <2>1. ASSUME NEW j \in Range(r) PROVE \E i \in a .. b : j = q[i]
      <3>1. PICK i \in 1 .. Len(r) : j = r[i] BY <1>1, <1>r
      <3> QED BY <3>1, <1>2
    <2>2. ASSUME NEW i \in a .. b PROVE q[i] \in Range(r)
      <3>1. i - a + 1 \in 1 .. Len(r) /\ a + (i - a + 1) - 1 = i BY <1>1
      <3>2. r[i - a + 1] = q[i] BY <3>1, <1>2
      <3> QED BY <3>1, <3>2, <1>1, <1>r
    <2> QED BY <2>1, <2>2
  <1>4. ASSUME Ascending(q) PROVE Ascending(r)
    <2>1. SUFFICES ASSUME NEW i \in 1 .. Len(r), NEW k \in 1 .. Len(r), i < k
                   PROVE  r[i] < r[k]
      BY DEF Ascending
    <2>2. a + i - 1 \in 1 .. Len(q) /\ a + k - 1 \in 1 .. Len(q) /\ a + i - 1 < a + k - 1
      BY <2>1, <1>2, <1>0, <1>1
    <2> QED BY <2>2, <1>2, <1>4 DEF Ascending
  <1> QED BY <1>1, <1>3, <1>4

\* A non-empty set of natural numbers has a least element.
LEMMA LeastElement ==
  ASSUME NEW T \in SUBSET Nat, T # {}
  PROVE  \E m \in T : \A n \in T : m <= n
  <1>1. PICK m \in T : \A n \in T : <<n, m>> \notin OpToRel(<, Nat)
    BY NatLessThanWellFounded, WFMin, Zenon
  <1>2. \A n \in T : ~(n < m)
    BY <1>1, Zenon DEF OpToRel
  <1> QED BY <1>2

\* Cut points that grow from 0 cover 1 .. cut[n] with disjoint segments.
LEMMA CutPoints ==
  ASSUME NEW n \in Nat, NEW L \in Nat, NEW cut \in [0 .. n -> 0 .. L],
         cut[0] = 0, \A e \in 0 .. n - 1 : cut[e] <= cut[e + 1]
  PROVE  /\ \A e, f \in 0 .. n : e <= f => cut[e] <= cut[f]
         /\ \A i \in 1 .. cut[n] : \E e \in 0 .. n - 1 : i \in cut[e] + 1 .. cut[e + 1]
  <1>1. ASSUME NEW e \in 0 .. n, NEW f \in 0 .. n, e <= f PROVE cut[e] <= cut[f]
    <2> DEFINE T == {g \in e .. n : cut[g] < cut[e]}
    <2>1. SUFFICES ASSUME T # {} PROVE FALSE
      <3>1. f \notin T => cut[e] <= cut[f] BY <1>1
      <3> QED BY <3>1, <2>1
    <2>a. T \in SUBSET Nat OBVIOUS
    <2>2. PICK m \in T : \A g \in T : m <= g
      <3> HIDE DEF T
      <3> QED BY <2>1, <2>a, LeastElement
    <2>3. m \in e .. n /\ cut[m] < cut[e] BY <2>2
    <2>4. m # e /\ m - 1 \in e .. n /\ m - 1 \in 0 .. n - 1 /\ (m - 1) + 1 = m
      BY <2>3
    <2>5. cut[m - 1] <= cut[m] BY <2>4
    <2>6. m - 1 \in T BY <2>3, <2>4, <2>5
    <2> QED BY <2>2, <2>4, <2>6
  <1>2. ASSUME NEW i \in 1 .. cut[n]
        PROVE  \E e \in 0 .. n - 1 : i \in cut[e] + 1 .. cut[e + 1]
    <2> DEFINE T == {g \in 0 .. n : i <= cut[g]}
    <2>1. n \in T BY <1>2
    <2>a. T \in SUBSET Nat OBVIOUS
    <2>2. PICK m \in T : \A g \in T : m <= g
      <3> HIDE DEF T
      <3> QED BY <2>1, <2>a, LeastElement
    <2>3. m \in 0 .. n /\ i <= cut[m] BY <2>2
    <2>4. m # 0 /\ m - 1 \in 0 .. n - 1 /\ (m - 1) + 1 = m /\ m - 1 \in 0 .. n
      BY <2>3, <1>2
    <2>5. ~(i <= cut[m - 1]) BY <2>2, <2>4
    <2> QED BY <2>3, <2>4, <2>5, <1>2
  <1> QED BY <1>1, <1>2

\* The first n elements of an ascending queue are n elements.
LEMMA PrefixCardinality ==
  ASSUME NEW S, S \subseteq Int, NEW q \in Seq(S), Ascending(q), NEW n \in 0 .. Len(q)
  PROVE  LET P == {q[i] : i \in 1 .. n}
         IN  IsFiniteSet(P) /\ Cardinality(P) = n
  <1> DEFINE P == {q[i] : i \in 1 .. n}
             f == [i \in 1 .. n |-> q[i]]
  <1>0. n \in Nat /\ Len(q) \in Nat /\ 1 .. n \subseteq 1 .. Len(q)
        /\ \A i \in 1 .. Len(q) : q[i] \in Int
    <2>1. ASSUME NEW i \in 1 .. Len(q) PROVE q[i] \in Int
      <3>1. q[i] \in S BY ElementOfSeq
      <3> QED BY <3>1
    <2> QED BY <2>1, LenProperties
  <1>1. f \in [1 .. n -> P] OBVIOUS
  <1>2. ASSUME NEW i \in 1 .. n, NEW k \in 1 .. n, f[i] = f[k] PROVE i = k
    <2>1. i \in 1 .. Len(q) /\ k \in 1 .. Len(q) /\ q[i] = q[k] BY <1>0, <1>2
    <2> QED BY <2>1, <1>0 DEF Ascending
  <1>3. f \in Bijection(1 .. n, P)
    BY <1>1, <1>2 DEF Bijection, Injection, Surjection, IsInjective
  <1>4. IsFiniteSet(1 .. n) /\ Cardinality(1 .. n) = n
    BY <1>0, FS_Interval
  <1>5. ExistsBijection(1 .. n, P)
    BY <1>3 DEF ExistsBijection
  <1> QED BY <1>3, <1>4, <1>5, FS_Bijection

-----------------------------------------------------------------------------
(* Sequences put together.                                                   *)

\* The elements of three sequences, one behind the other.
LEMMA ThreeParts ==
  ASSUME NEW S, NEW s \in Seq(S), NEW t \in Seq(S), NEW u \in Seq(S),
         NEW r, r = s \o (t \o u)
  PROVE  /\ r \in Seq(S) /\ DOMAIN r = 1 .. Len(s) + Len(t) + Len(u)
         /\ \A k \in 1 .. Len(s) : r[k] = s[k]
         /\ \A k \in 1 .. Len(t) : r[Len(s) + k] = t[k]
         /\ \A k \in 1 .. Len(u) : r[Len(s) + Len(t) + k] = u[k]
<1> DEFINE v == t \o u
           l == Len(s)
           m == Len(t)
           n == Len(u)
<1>0. r = s \o v
  OBVIOUS
<1>1. l \in Nat /\ m \in Nat /\ n \in Nat
  BY LenProperties
<1>2. /\ v \in Seq(S) /\ Len(v) = m + n
      /\ \A k \in 1 .. m + n : v[k] = IF k <= m THEN t[k] ELSE u[k - m]
  BY ConcatProperties
<1> HIDE DEF v
<1>3. /\ r \in Seq(S) /\ Len(r) = l + (m + n)
      /\ \A k \in 1 .. l + (m + n) : r[k] = IF k <= l THEN s[k] ELSE v[k - l]
  <2>1. /\ r \in Seq(S) /\ Len(r) = Len(s) + Len(v)
        /\ \A k \in 1 .. Len(s) + Len(v) : r[k] = IF k <= Len(s) THEN s[k] ELSE v[k - Len(s)]
    <3> HIDE DEF l, m, n
    <3>1. v \in Seq(S)
      BY <1>2
    <3> QED
      BY <1>0, <3>1, ConcatProperties
    <2> QED
    BY <1>2, <2>1
<1> HIDE DEF l, m, n
<1>4. DOMAIN r = 1 .. l + m + n
  <2>1. DOMAIN r = 1 .. Len(r)
    BY <1>3, LenProperties
  <2> QED
    BY <1>1, <1>3, <2>1
<1>5. \A k \in 1 .. l : r[k] = s[k]
  BY <1>1, <1>3
<1>6. \A k \in 1 .. m + n : r[l + k] = v[k]
  <2> TAKE k \in 1 .. m + n
  <2>1. l + k \in 1 .. l + (m + n) /\ ~(l + k <= l) /\ (l + k) - l = k
    BY <1>1
  <2> QED
    BY <1>3, <2>1
<1>7. \A k \in 1 .. m : r[l + k] = t[k]
  <2> TAKE k \in 1 .. m
  <2>1. k \in 1 .. m + n /\ k <= m
    BY <1>1
  <2> QED
    BY <1>2, <1>6, <2>1
<1>8. \A k \in 1 .. n : r[l + m + k] = u[k]
  <2> TAKE k \in 1 .. n
  <2>1. m + k \in 1 .. m + n /\ ~(m + k <= m) /\ (m + k) - m = k /\ l + (m + k) = l + m + k
    BY <1>1
  <2> QED
    BY <1>2, <1>6, <2>1
<1> QED
  BY <1>3, <1>4, <1>5, <1>7, <1>8 DEF v, l, m, n

\* Appending adds the elements, and flattening collects those of all parts.
LEMMA ElementsOfConcat ==
  ASSUME NEW S, NEW s \in Seq(S), NEW t \in Seq(S)
  PROVE  s \o t \in Seq(S) /\ ToSet(s \o t) = ToSet(s) \cup ToSet(t)
<1>1. s \o t \in Seq(S) /\ Range(s \o t) = Range(s) \cup Range(t)
  BY AppendQueue
<1> QED
  BY <1>1 DEF Range, ToSet

\* Two sequences that repeat nothing, and share nothing, put together.
LEMMA ApartInConcat ==
  ASSUME NEW S, NEW s \in Seq(S), NEW t \in Seq(S),
         IsInjective(s), IsInjective(t), ToSet(s) \cap ToSet(t) = {}
  PROVE  IsInjective(s \o t)
<1> DEFINE r == s \o t
           m == Len(s)
           n == Len(t)
<1>1. m \in Nat /\ n \in Nat /\ DOMAIN s = 1 .. m /\ DOMAIN t = 1 .. n
  BY LenProperties
<1>2. DOMAIN r = 1 .. m + n /\ \A k \in 1 .. m + n : r[k] = IF k <= m THEN s[k] ELSE t[k - m]
  BY ConcatProperties, LenProperties
<1> HIDE DEF r, m, n
<1>3. ASSUME NEW k \in 1 .. m + n
      PROVE  \/ k \in DOMAIN s /\ r[k] = s[k] /\ r[k] \in ToSet(s)
             \/ k - m \in DOMAIN t /\ r[k] = t[k - m] /\ r[k] \in ToSet(t)
  <2>1. CASE k <= m
    <3>1. k \in DOMAIN s /\ r[k] = s[k]
      BY <1>1, <1>2, <2>1
    <3> QED
      BY <3>1 DEF ToSet
  <2>2. CASE ~(k <= m)
    <3>1. k - m \in DOMAIN t /\ r[k] = t[k - m]
      BY <1>1, <1>2, <2>2
    <3> QED
      BY <3>1 DEF ToSet
  <2> QED
    BY <2>1, <2>2
<1>4. ASSUME NEW k \in 1 .. m + n, NEW l \in 1 .. m + n, r[k] = r[l] PROVE k = l
  <2>1. CASE k \in DOMAIN s /\ r[k] = s[k] /\ l \in DOMAIN s /\ r[l] = s[l]
    BY <1>4, <2>1 DEF IsInjective
  <2>2. CASE k - m \in DOMAIN t /\ r[k] = t[k - m] /\ l - m \in DOMAIN t /\ r[l] = t[l - m]
    <3>1. k - m = l - m
      BY <1>4, <2>2 DEF IsInjective
    <3> QED
      BY <1>1, <3>1
  <2> QED
    BY <1>3, <1>4, <2>1, <2>2
<1> QED
  BY <1>2, <1>4 DEF r, IsInjective

\* Sequences that repeat nothing and share nothing.
AllApart(seqs) ==
  /\ \A k \in DOMAIN seqs : IsInjective(seqs[k])
  /\ \A k, m \in DOMAIN seqs : k # m => ToSet(seqs[k]) \cap ToSet(seqs[m]) = {}

\* A flattened sequence of sequences holds what its parts hold, and repeats
\* nothing if they do not.
LEMMA ElementsOfFlattened ==
  ASSUME NEW S, NEW seqs \in Seq(Seq(S))
  PROVE  /\ FlattenSeq(seqs) \in Seq(S)
         /\ ToSet(FlattenSeq(seqs)) = UNION {ToSet(seqs[k]) : k \in DOMAIN seqs}
         /\ AllApart(seqs) => IsInjective(FlattenSeq(seqs))
<1> DEFINE n == Len(seqs)
           Next1(f, i) == IF i = 1 THEN seqs[i] ELSE f[i - 1] \o seqs[i]
           Flat == CHOOSE f : f = [i \in 1 .. n |-> IF i = 1 THEN seqs[i] ELSE f[i - 1] \o seqs[i]]
<1>1. n \in Nat /\ DOMAIN seqs = 1 .. n /\ \A k \in 1 .. n : seqs[k] \in Seq(S)
  BY LenProperties, ElementOfSeq
<1>2. CASE n = 0
  <2>1. seqs = <<>> /\ FlattenSeq(seqs) = seqs /\ DOMAIN seqs = {}
    BY <1>1, <1>2, EmptySeq DEF FlattenSeq
  <2> QED
    <3>1. ToSet(seqs) = {} /\ UNION {ToSet(seqs[k]) : k \in DOMAIN seqs} = {}
      BY <2>1 DEF ToSet
    <3>2. seqs \in Seq(S)
      BY <2>1, EmptySeq
    <3>3. IsInjective(seqs)
      BY <2>1 DEF IsInjective
    <3> QED
      BY <2>1, <3>1, <3>2, <3>3
<1>3. CASE n # 0
  <2>1. FlattenSeq(seqs) = Flat[n]
    BY <1>3 DEF FlattenSeq
  <2> HIDE DEF n
  <2>2. \E g : g \in [1 .. n -> Seq(S)] /\ \A i \in 1 .. n : g[i] = Next1(g, i)
    <3> DEFINE Good(m) == \E g : g \in [1 .. m -> Seq(S)] /\ \A i \in 1 .. m : g[i] = Next1(g, i)
               T == {m \in 0 .. n : ~Good(m)}
    <3>1. SUFFICES ASSUME ~Good(n) PROVE FALSE
      OBVIOUS
    <3>2. T \in SUBSET Nat /\ n \in T
      BY <1>1, <3>1
    <3> HIDE DEF Good
    <3>3. PICK m \in T : \A k \in T : m <= k
      <4> HIDE DEF T
      <4> QED
        BY <3>2, LeastElement
    <3>4. m # 0
      <4>1. 1 .. 0 = {}
        OBVIOUS
      <4> DEFINE g == [i \in 1 .. 0 |-> <<>>]
      <4>2. g \in [1 .. 0 -> Seq(S)] /\ \A i \in 1 .. 0 : g[i] = Next1(g, i)
        BY <4>1
      <4> HIDE DEF g
      <4>3. Good(0)
        BY <4>2 DEF Good
      <4> QED
        BY <3>3, <4>3
    <3>5. m \in 1 .. n /\ m - 1 \in 0 .. n /\ Good(m - 1)
      <4>1. m \in 1 .. n /\ m - 1 \in 0 .. n
        BY <1>1, <3>3, <3>4
      <4>2. m - 1 \notin T
        BY <3>3, <4>1
      <4> QED
        BY <4>1, <4>2
    <3>6. PICK g : g \in [1 .. m - 1 -> Seq(S)] /\ \A i \in 1 .. m - 1 : g[i] = Next1(g, i)
      BY <3>5 DEF Good
    <3> DEFINE last == Next1(g, m)
               f == [i \in 1 .. m |-> IF i = m THEN last ELSE g[i]]
    <3>7. last \in Seq(S)
      <4>1. CASE m = 1
        BY <1>1, <3>5, <4>1
      <4>2. CASE m # 1
        <5>1. m - 1 \in 1 .. m - 1
          BY <3>5, <4>2
        <5>2. g[m - 1] \in Seq(S) /\ seqs[m] \in Seq(S)
          BY <1>1, <3>5, <3>6, <5>1
        <5>3. last = g[m - 1] \o seqs[m]
          BY <4>2
        <5> QED
          BY <5>2, <5>3, ConcatProperties
      <4> QED
        BY <4>1, <4>2
    <3>8. f \in [1 .. m -> Seq(S)]
      <4>1. \A i \in 1 .. m : i # m => i \in 1 .. m - 1
        BY <3>5
      <4> QED
        BY <3>6, <3>7, <4>1
    <3>9. ASSUME NEW i \in 1 .. m PROVE f[i] = Next1(f, i)
      <4>1. i # 1 => i - 1 \in 1 .. m /\ i - 1 # m /\ f[i - 1] = g[i - 1]
        BY <3>5
      <4>2. Next1(f, i) = Next1(g, i)
        BY <4>1
      <4>3. i # m => i \in 1 .. m - 1
        BY <3>5
      <4> QED
        BY <3>6, <4>2, <4>3
    <3>10. Good(m)
      BY <3>8, <3>9 DEF Good
    <3> QED
      BY <3>3, <3>10
  <2>3. Flat = [i \in 1 .. n |-> Next1(Flat, i)]
    <3>1. PICK g : g \in [1 .. n -> Seq(S)] /\ \A i \in 1 .. n : g[i] = Next1(g, i)
      BY <2>2
    <3>2. g = [i \in 1 .. n |-> Next1(g, i)]
      BY <3>1
    <3> QED
      BY <3>2
  <2> HIDE DEF Flat
  <2>4. \A i \in 1 .. n : Flat[i] = IF i = 1 THEN seqs[i] ELSE Flat[i - 1] \o seqs[i]
    BY <2>3
  <2> DEFINE All(i) == UNION {ToSet(seqs[k]) : k \in 1 .. i}
             Right(i) == /\ Flat[i] \in Seq(S) /\ ToSet(Flat[i]) = All(i)
                         /\ AllApart(seqs) => IsInjective(Flat[i])
             T == {i \in 1 .. n : ~Right(i)}
  <2>5. SUFFICES ASSUME ~Right(n) PROVE FALSE
    BY <1>1, <2>1
  <2>6. T \in SUBSET Nat /\ n \in T
    BY <1>1, <1>3, <2>5
  <2>7. PICK m \in T : \A k \in T : m <= k
    <3> HIDE DEF T
    <3> QED
      BY <2>6, LeastElement
  <2>8. m \in 1 .. n /\ seqs[m] \in Seq(S)
    BY <1>1, <2>7
  <2>9. CASE m = 1
    <3>1. Flat[m] = seqs[m]
      BY <2>4, <2>8, <2>9
    <3>2. All(m) = ToSet(seqs[m])
      BY <2>9
    <3>3. AllApart(seqs) => IsInjective(seqs[m])
      BY <1>1, <2>8 DEF AllApart
    <3> QED
      BY <2>7, <2>8, <3>1, <3>2, <3>3
  <2>10. CASE m # 1
    <3>1. m - 1 \in 1 .. n
      BY <1>1, <2>8, <2>10
    <3>2. Right(m - 1)
      <4> HIDE DEF Right
      <4>1. m - 1 \notin T
        <5>1. ~(m <= m - 1)
          BY <2>8
        <5> HIDE DEF T
        <5> QED
          BY <2>7, <5>1
      <4> QED
        BY <3>1, <4>1
    <3>3. Flat[m] = Flat[m - 1] \o seqs[m]
      BY <2>4, <2>8, <2>10
    <3>4. Flat[m] \in Seq(S) /\ ToSet(Flat[m]) = All(m - 1) \cup ToSet(seqs[m])
      BY <2>8, <3>2, <3>3, ElementsOfConcat
    <3>5. All(m) = All(m - 1) \cup ToSet(seqs[m])
      <4>1. 1 .. m = (1 .. m - 1) \cup {m}
        BY <2>8, <2>10
      <4> QED
        BY <4>1
    <3>6. AllApart(seqs) => IsInjective(Flat[m])
      <4> SUFFICES ASSUME AllApart(seqs) PROVE IsInjective(Flat[m])
        OBVIOUS
      <4>1. ASSUME NEW x \in All(m - 1), x \in ToSet(seqs[m]) PROVE FALSE
        <5>1. PICK k \in 1 .. m - 1 : x \in ToSet(seqs[k])
          OBVIOUS
        <5>2. k \in DOMAIN seqs /\ m \in DOMAIN seqs /\ k # m
          BY <1>1, <2>8, <5>1
        <5> QED
          BY <4>1, <5>1, <5>2 DEF AllApart
      <4>2. Flat[m - 1] \in Seq(S) /\ IsInjective(Flat[m - 1]) /\ ToSet(Flat[m - 1]) = All(m - 1)
        BY <3>2
      <4>3. IsInjective(seqs[m])
        BY <1>1, <2>8 DEF AllApart
      <4>4. ToSet(Flat[m - 1]) \cap ToSet(seqs[m]) = {}
        BY <4>1, <4>2
      <4> HIDE DEF All
      <4> QED
        BY <2>8, <3>3, <4>2, <4>3, <4>4, ApartInConcat
    <3> QED
      BY <2>7, <3>4, <3>5, <3>6
  <2> QED
    BY <2>9, <2>10
<1> QED
  BY <1>2, <1>3

-----------------------------------------------------------------------------
(* The division into jobs.                                                   *)

\* The elements that a job takes, as Slice gives them.
Portion(part) == part.start .. part.start + part.count - 1

\* total \div perJob is the number of whole jobs.
LEMMA WholeJobs ==
  ASSUME NEW total \in Nat, NEW perJob \in Nat \ {0}
  PROVE  /\ total \div perJob \in Nat
         /\ (total \div perJob) * perJob <= total
         /\ total < (total \div perJob) * perJob + perJob
  BY SMT

\* The whole jobs end before the last element, or at most a rest after it.
LEMMA FullJobsBounds ==
  ASSUME NEW total \in Nat, NEW perJob \in Nat \ {0}, NEW limit \in 0 .. perJob
  PROVE  LET full == FullJobs(total, perJob, limit)
         IN  /\ full \in Nat
             /\ full * perJob <= total
             /\ total - full * perJob < perJob + limit \/ total < perJob
<1> DEFINE whole == total \div perJob
<1>1. /\ whole \in Nat
      /\ whole * perJob <= total /\ total < whole * perJob + perJob
  BY WholeJobs
<1> HIDE DEF whole
<1>2. CASE total - whole * perJob < limit /\ whole > 0
  <2>1. FullJobs(total, perJob, limit) = whole - 1
    BY <1>2 DEF FullJobs, whole
  <2>2. (whole - 1) * perJob = whole * perJob - perJob
    BY <1>1
  <2> QED
    BY <1>1, <1>2, <2>1, <2>2
<1>3. CASE ~(total - whole * perJob < limit /\ whole > 0)
  <2>1. FullJobs(total, perJob, limit) = whole
    BY <1>3 DEF FullJobs, whole
  <2>2. CASE whole = 0
    BY <1>1, <2>1, <2>2
  <2>3. CASE whole # 0
    BY <1>1, <1>3, <2>1, <2>3
  <2> QED
    BY <2>2, <2>3
<1> QED
  BY <1>2, <1>3

\* Multiples of perJob are ordered as their factors.
LEMMA Multiples ==
  ASSUME NEW p \in Nat \ {0}, NEW a \in Int, NEW b \in Int, a + 1 <= b
  PROVE  a * p + p <= b * p
<1>1. PICK d \in Nat : b = a + 1 + d
  <2>1. b - a - 1 \in Nat /\ b = a + 1 + (b - a - 1)
    OBVIOUS
  <2> QED
    BY <2>1
<1>2. b * p = a * p + p + d * p
  BY <1>1
<1>3. d * p >= 0
  BY <1>1
<1> QED
  BY <1>2, <1>3

\* Every line of a configuration file and every item of a layer is in exactly
\* one of the jobs made of it (ExecutorJobFunc.cpp:88-106, 158-175, 228-244).
THEOREM EachElementInOneJob ==
  ASSUME NEW total \in Nat, NEW perJob \in Nat \ {0}, NEW limit \in 0 .. perJob,
         NEW x \in 0 .. total - 1
  PROVE  LET jobs == Slice(total, perJob, limit)
         IN  /\ \E k \in DOMAIN jobs : x \in Portion(jobs[k])
             /\ \A k, m \in DOMAIN jobs :
                  x \in Portion(jobs[k]) /\ x \in Portion(jobs[m]) => k = m
<1> DEFINE full == FullJobs(total, perJob, limit)
           jobs == Slice(total, perJob, limit)
<1>1. full \in Nat /\ full * perJob \in Nat /\ full * perJob <= total
  <2>1. full \in Nat /\ full * perJob <= total
    BY FullJobsBounds
  <2> HIDE DEF full
  <2> QED
    BY <2>1
<1>2. DOMAIN jobs = 1 .. full + 1
  BY DEF Slice
<1>3. \A k \in 1 .. full + 1 :
        Portion(jobs[k]) = IF k <= full
                            THEN (k - 1) * perJob .. (k - 1) * perJob + perJob - 1
                            ELSE full * perJob .. total - 1
  <2> SUFFICES ASSUME NEW k \in 1 .. full + 1
               PROVE  Portion(jobs[k]) = IF k <= full
                            THEN (k - 1) * perJob .. (k - 1) * perJob + perJob - 1
                            ELSE full * perJob .. total - 1
    OBVIOUS
  <2>1. jobs[k] = [start |-> (k - 1) * perJob,
                   count |-> IF k <= full THEN perJob ELSE total - full * perJob]
    BY DEF Slice
  <2>2. CASE k <= full
    BY <2>1, <2>2 DEF Portion
  <2>3. CASE ~(k <= full)
    <3>1. k - 1 = full
      BY <1>1, <2>3
    <3>2. Portion(jobs[k]) = full * perJob .. full * perJob + (total - full * perJob) - 1
      BY <2>1, <2>3, <3>1 DEF Portion
    <3> HIDE DEF full
    <3>3. full * perJob + (total - full * perJob) - 1 = total - 1
      BY <1>1
    <3> QED
      BY <2>3, <3>2, <3>3
  <2> QED
    BY <2>2, <2>3
<1> HIDE DEF full, jobs
<1>4. \E k \in DOMAIN jobs : x \in Portion(jobs[k])
  <2>1. CASE x < full * perJob
    <3> DEFINE q == x \div perJob
    <3>1. /\ q \in Nat /\ q * perJob \in Nat
          /\ q * perJob <= x /\ x < q * perJob + perJob
      BY WholeJobs
    <3> HIDE DEF q
    <3>2. q + 1 <= full
      <4>1. SUFFICES ASSUME full + 1 <= q + 1 PROVE FALSE
        BY <1>1, <3>1
      <4>2. CASE full = q
        BY <2>1, <3>1, <4>2
      <4>3. CASE full + 1 <= q
        <5>1. full * perJob + perJob <= q * perJob
          BY <1>1, <3>1, <4>3, Multiples
        <5> QED
          BY <1>1, <2>1, <3>1, <5>1
      <4> QED
        BY <1>1, <3>1, <4>1, <4>2, <4>3
    <3>3. q + 1 \in 1 .. full + 1 /\ (q + 1) - 1 = q
      BY <1>1, <3>1, <3>2
    <3>4. Portion(jobs[q + 1]) = q * perJob .. q * perJob + perJob - 1
      BY <1>3, <3>2, <3>3
    <3>5. x \in Portion(jobs[q + 1])
      BY <3>1, <3>4
    <3> QED
      BY <1>2, <3>3, <3>5
  <2>2. CASE ~(x < full * perJob)
    <3>1. full + 1 \in 1 .. full + 1 /\ ~(full + 1 <= full)
      BY <1>1
    <3>2. Portion(jobs[full + 1]) = full * perJob .. total - 1
      BY <1>3, <3>1
    <3>3. x \in Portion(jobs[full + 1])
      BY <1>1, <2>2, <3>2
    <3> QED
      BY <1>2, <3>1, <3>3
  <2> QED
    BY <2>1, <2>2
<1>5. ASSUME NEW k \in DOMAIN jobs, NEW m \in DOMAIN jobs,
             x \in Portion(jobs[k]), x \in Portion(jobs[m]), k < m
      PROVE  FALSE
  <2>1. k \in 1 .. full + 1 /\ m \in 1 .. full + 1 /\ k <= full
    BY <1>1, <1>2, <1>5
  <2>2. (k - 1) * perJob \in Int /\ x < (k - 1) * perJob + perJob
    <3>1. Portion(jobs[k]) = (k - 1) * perJob .. (k - 1) * perJob + perJob - 1
      BY <1>3, <2>1
    <3>2. (k - 1) * perJob \in Int
      BY <2>1
    <3> QED
      BY <1>5, <3>1, <3>2
  <2>3. (m - 1) * perJob \in Int /\ (m - 1) * perJob <= x
    <3>1. (m - 1) * perJob \in Int
      BY <2>1
    <3>2. CASE m <= full
      BY <1>3, <1>5, <2>1, <3>1, <3>2
    <3>3. CASE ~(m <= full)
      <4>1. m - 1 = full
        BY <1>1, <2>1, <3>3
      <4>2. Portion(jobs[m]) = full * perJob .. total - 1
        BY <1>3, <2>1, <3>3
      <4> QED
        BY <1>1, <1>5, <4>1, <4>2
    <3> QED
      BY <3>2, <3>3
  <2>4. (k - 1) * perJob + perJob <= (m - 1) * perJob
    <3>1. k - 1 \in Int /\ m - 1 \in Int /\ (k - 1) + 1 <= m - 1
      BY <1>1, <1>5, <2>1
    <3> QED
      BY <3>1, Multiples
  <2> QED
    BY <2>2, <2>3, <2>4
<1>6. \A k, m \in DOMAIN jobs :
        x \in Portion(jobs[k]) /\ x \in Portion(jobs[m]) => k = m
  <2> SUFFICES ASSUME NEW k \in DOMAIN jobs, NEW m \in DOMAIN jobs,
                      x \in Portion(jobs[k]), x \in Portion(jobs[m])
               PROVE  k = m
    OBVIOUS
  <2>1. k \in Int /\ m \in Int
    BY <1>1, <1>2
  <2>2. ~(k < m) /\ ~(m < k)
    BY <1>5
  <2> QED
    BY <2>1, <2>2
<1> QED
  BY <1>4, <1>6 DEF jobs

\* The last job takes at most a rest of limit elements on top of a whole job, so
\* every job's size is known in advance (MAX_LINE_PER_JOB, MAX_ITEM_PER_JOB).
THEOREM JobSizesBounded ==
  ASSUME NEW total \in Nat, NEW perJob \in Nat \ {0}, NEW limit \in 0 .. perJob,
         NEW k \in DOMAIN Slice(total, perJob, limit)
  PROVE  Slice(total, perJob, limit)[k].count \in 0 .. perJob + limit
<1> DEFINE full == FullJobs(total, perJob, limit)
<1>1. /\ full \in Nat /\ full * perJob \in Nat /\ full * perJob <= total
      /\ total - full * perJob < perJob + limit \/ total < perJob
  <2>1. /\ full \in Nat /\ full * perJob <= total
        /\ total - full * perJob < perJob + limit \/ total < perJob
    BY FullJobsBounds
  <2> HIDE DEF full
  <2> QED
    BY <2>1
<1>2. Slice(total, perJob, limit)[k].count
        = IF k <= full THEN perJob ELSE total - full * perJob
  BY DEF Slice
<1> HIDE DEF full
<1> QED
  BY <1>1, <1>2

\* There are as many whole numbers from 1 up to n as n says.
LEMMA CountUpTo ==
  ASSUME NEW n \in Nat
  PROVE  IsFiniteSet(1 .. n) /\ Cardinality(1 .. n) = n
<1>1. 1 \in Int /\ n \in Int
  OBVIOUS
<1>2. /\ IsFiniteSet(1 .. n)
      /\ Cardinality(1 .. n) = IF 1 > n THEN 0 ELSE n - 1 + 1
  BY <1>1, FS_Interval
<1> QED
  BY <1>2

\* The lines of a file, or the items of a layer, that job j is about.
Elems(j) == j.from + 1 .. j.from + j.count
Span(jobs) == UNION {Elems(j) : j \in jobs}

\* Without job j there are as many elements less as it has.
LEMMA SpanLess ==
  ASSUME NEW J, NEW j \in J, NEW total \in Nat,
         \A a, b \in J : a # b => Elems(a) \cap Elems(b) = {},
         Span(J) \subseteq 1 .. total, j.from \in Nat, j.count \in Nat
  PROVE  /\ Span(J \ {j}) = Span(J) \ Elems(j)
         /\ Cardinality(Span(J)) \in Nat /\ Cardinality(Span(J \ {j})) \in Nat
         /\ IsFiniteSet(Span(J \ {j}))
         /\ Cardinality(Span(J)) = Cardinality(Span(J \ {j})) + j.count
<1> DEFINE A == Span(J \ {j})
           B == Elems(j)
<1>1. Span(J) = A \cup B /\ A \cap B = {}
  BY DEF Span
<1>2. IsFiniteSet(1 .. total)
  BY CountUpTo
<1>3. IsFiniteSet(Span(J))
  BY <1>2, FS_Subset
<1> HIDE DEF A
<1>4. IsFiniteSet(A) /\ IsFiniteSet(B)
  <2> HIDE DEF B
  <2> QED
    BY <1>1, <1>3, FS_Subset
<1>5. Cardinality(B) = j.count
  <2> DEFINE u == j.from + 1
             v == j.from + j.count
  <2>1. u \in Int /\ v \in Int /\ B = u .. v /\ v - u + 1 = j.count /\ (u > v => j.count = 0)
    BY DEF Elems
  <2> HIDE DEF u, v, B
  <2>2. Cardinality(u .. v) = IF u > v THEN 0 ELSE v - u + 1
    BY <2>1, FS_Interval
  <2> QED
    BY <2>1, <2>2
<1> HIDE DEF B
<1>6. Cardinality(A \cup B) = Cardinality(A) + Cardinality(B) - Cardinality(A \cap B)
  BY <1>4, FS_Union
<1>7. Cardinality(A \cap B) = 0
  BY <1>1, FS_EmptySet
<1>8. Cardinality(A) \in Nat /\ Cardinality(B) \in Nat /\ Cardinality(Span(J)) \in Nat
  BY <1>3, <1>4, FS_CardinalityType
<1>9. Cardinality(Span(J)) = Cardinality(A) + Cardinality(B)
  <2>1. Cardinality(Span(J)) = Cardinality(A \cup B)
    BY <1>1
  <2> QED
    BY <1>6, <1>7, <1>8, <2>1
<1>10. A = Span(J) \ B
  BY <1>1
<1> QED
  BY <1>4, <1>5, <1>8, <1>9, <1>10 DEF A, B
=============================================================================
