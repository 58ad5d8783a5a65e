-------------------------- MODULE JobPipelineProofs --------------------------
(***************************************************************************)
(* What the runs of JobPipeline check on two files is proved here for      *)
(* every scenario: any number of executors, layers, files, lines and       *)
(* groups.  First what a step does to the queues, then the invariant that  *)
(* follows a line, a group and an item through the jobs made for them, and *)
(* the one that follows the items of a layer, in parallel mode, until they *)
(* are saved; then the order of the jobs in the queues; last, in parallel  *)
(* mode, what is deleted before its last use and what is not.              *)
(***************************************************************************)
EXTENDS JobPipeline, QueueLemmas

-----------------------------------------------------------------------------
(* The jobs that a step makes.                                               *)

\* The four fields of a job.
LEMMA JobFields ==
  \A kind, of, from, count : /\ Job(kind, of, from, count).kind = kind
                             /\ Job(kind, of, from, count).of = of
                             /\ Job(kind, of, from, count).from = from
                             /\ Job(kind, of, from, count).count = count
  BY DEF Job

\* The jobs of a partition differ, share no element and cover all of them.
Divides(made, kind, of, total) ==
  /\ made \in Seq(ToSet(made))
  /\ \A k \in DOMAIN made :
       /\ made[k] = Job(kind, of, made[k].from, made[k].count)
       /\ made[k].from \in Nat /\ made[k].count \in Nat
  /\ \A k, m \in DOMAIN made :
       k # m => made[k] # made[m] /\ Elems(made[k]) \cap Elems(made[m]) = {}
  /\ UNION {Elems(made[k]) : k \in DOMAIN made} = 1 .. total

\* What Partition says of the elements, said of the jobs made of them.
LEMMA JobsOfPartition ==
  ASSUME NEW kind, NEW of, NEW total \in Nat, NEW perJob \in Nat \ {0},
         NEW limit \in 0 .. perJob, NEW made, made = Jobs(kind, of, total, perJob, limit)
  PROVE  Divides(made, kind, of, total)
<1> DEFINE slice == Slice(total, perJob, limit)
           full == FullJobs(total, perJob, limit)
<1>0. made = [k \in DOMAIN slice |-> Job(kind, of, slice[k].start, slice[k].count)]
  BY DEF Jobs
<1>1. full \in Nat /\ DOMAIN slice = 1 .. full + 1 BY FullJobsBounds DEF Slice
<1>2. \A k \in DOMAIN slice :
        /\ slice[k].start = (k - 1) * perJob
        /\ slice[k].count \in Nat
  <2> TAKE k \in DOMAIN slice
  <2>1. slice[k].count \in 0 .. perJob + limit BY JobSizesBounded
  <2>2. slice[k].start = (k - 1) * perJob BY <1>1 DEF Slice
  <2> QED BY <2>1, <2>2
<1>3. DOMAIN made = 1 .. full + 1 BY <1>0, <1>1
<1>4. \A k \in 1 .. full + 1 : made[k] = Job(kind, of, slice[k].start, slice[k].count)
  BY <1>0, <1>1
<1>5. \A k \in 1 .. full + 1 : /\ made[k].from = (k - 1) * perJob
                               /\ made[k].count = slice[k].count
                               /\ made[k].count \in Nat
  <2> HIDE DEF full, slice
  <2> TAKE k \in 1 .. full + 1
  <2>1. made[k].from = slice[k].start /\ made[k].count = slice[k].count
    BY <1>4, JobFields
  <2> QED BY <1>1, <1>2, <2>1
<1>6. \A x \in 1 .. total : \A k \in 1 .. full + 1 :
        x \in Elems(made[k]) <=> x - 1 \in Portion(slice[k])
  <2> TAKE x \in 1 .. total
  <2> TAKE k \in 1 .. full + 1
  <2>1. (k - 1) * perJob \in Int BY <1>1
  <2> DEFINE a == (k - 1) * perJob
             c == slice[k].count
  <2>2. c \in Nat /\ Elems(made[k]) = a + 1 .. a + c
    <3>1. k \in DOMAIN slice BY <1>1
    <3> HIDE DEF full, slice
    <3> QED BY <1>2, <1>5, <3>1 DEF Elems
  <2>3. Portion(slice[k]) = a .. a + c - 1
    <3>1. k \in DOMAIN slice BY <1>1
    <3> HIDE DEF full, slice
    <3> QED BY <1>2, <3>1 DEF Portion
  <2> HIDE DEF a, c, full, slice
  <2>4. a \in Int BY <2>1 DEF a
  <2> QED BY <2>2, <2>3, <2>4
<1>7. \A k \in 1 .. full + 1 : made[k].from \in Nat
  <2> TAKE k \in 1 .. full + 1
  <2>1. k - 1 \in Nat BY <1>1
  <2>2. (k - 1) * perJob \in Nat BY <2>1
  <2> QED BY <1>5, <2>2
<1>8. \A k \in 1 .. full + 1 : Elems(made[k]) \subseteq 1 .. total
  <2> TAKE k \in 1 .. full + 1
  <2>1. full * perJob \in Nat /\ full * perJob <= total
    <3>1. full * perJob <= total BY FullJobsBounds
    <3> HIDE DEF full
    <3> QED BY <1>1, <3>1
  <2>2. slice[k].count = IF k <= full THEN perJob ELSE total - full * perJob
    BY <1>1 DEF Slice
  <2>3. CASE k <= full
    <3>1. (k - 1) * perJob + perJob <= full * perJob
      <4>1. k - 1 \in Int /\ full \in Int /\ (k - 1) + 1 <= full BY <1>1, <2>3
      <4> HIDE DEF full
      <4> QED BY <4>1, Multiples
    <3>2. (k - 1) * perJob \in Nat BY <1>5, <1>7
    <3> HIDE DEF full, slice
    <3> QED BY <1>5, <1>7, <2>1, <2>2, <2>3, <3>1, <3>2 DEF Elems
  <2>4. CASE ~(k <= full)
    <3>1. k - 1 = full BY <1>1, <2>4
    <3> HIDE DEF full, slice
    <3> QED BY <1>5, <2>1, <2>2, <2>4, <3>1 DEF Elems
  <2> QED BY <2>3, <2>4
<1> HIDE DEF full, slice
<1>9. made \in Seq(ToSet(made))
  <2>1. full + 1 \in Nat /\ \A k \in 1 .. full + 1 : made[k] \in ToSet(made)
    BY <1>1, <1>3 DEF ToSet
  <2>2. made = [k \in 1 .. full + 1 |-> made[k]] BY <1>0, <1>3
  <2> QED BY <2>1, <2>2
<1>10. ASSUME NEW k \in 1 .. full + 1, NEW m \in 1 .. full + 1, k # m
       PROVE  made[k] # made[m] /\ Elems(made[k]) \cap Elems(made[m]) = {}
  <2>1. Elems(made[k]) \cap Elems(made[m]) = {}
    <3> SUFFICES ASSUME NEW x \in Elems(made[k]), x \in Elems(made[m]) PROVE FALSE
      OBVIOUS
    <3>1. x \in 1 .. total /\ x - 1 \in 0 .. total - 1 BY <1>8
    <3>2. x - 1 \in Portion(slice[k]) /\ x - 1 \in Portion(slice[m])
      BY <1>6, <3>1
    <3> QED BY <1>1, <1>10, <3>1, <3>2, EachElementInOneJob DEF slice
  <2>2. (k - 1) * perJob # (m - 1) * perJob
    <3>1. CASE k < m
      <4>1. (k - 1) * perJob + perJob <= (m - 1) * perJob
        BY <1>1, <3>1, Multiples
      <4>2. (k - 1) * perJob \in Int /\ (m - 1) * perJob \in Int BY <1>1
      <4> QED BY <4>1, <4>2
    <3>2. CASE m < k
      <4>1. (m - 1) * perJob + perJob <= (k - 1) * perJob
        BY <1>1, <3>2, Multiples
      <4>2. (k - 1) * perJob \in Int /\ (m - 1) * perJob \in Int BY <1>1
      <4> QED BY <4>1, <4>2
    <3> QED BY <1>1, <1>10, <3>1, <3>2
  <2> QED BY <1>5, <2>1, <2>2
<1>11. UNION {Elems(made[k]) : k \in 1 .. full + 1} = 1 .. total
  <2>1. ASSUME NEW x \in 1 .. total PROVE \E k \in 1 .. full + 1 : x \in Elems(made[k])
    <3>1. x - 1 \in 0 .. total - 1 OBVIOUS
    <3>2. PICK k \in DOMAIN slice : x - 1 \in Portion(slice[k])
      BY <3>1, EachElementInOneJob DEF slice
    <3> QED BY <1>1, <1>6, <3>2
  <2> QED BY <1>8, <2>1
<1>12. \A k \in 1 .. full + 1 : made[k] = Job(kind, of, made[k].from, made[k].count)
  BY <1>4, JobFields
<1> QED BY <1>3, <1>5, <1>7, <1>9, <1>10, <1>11, <1>12 DEF Divides

-----------------------------------------------------------------------------
(* What a step does to the queues.  F and G are families of queues, before   *)
(* and after.                                                                *)

PlacesIn(F) == UNION {{q} \X DOMAIN F[q] : q \in Queues}
At(F, p) == F[p[1]][p[2]]
JobsIn(F) == {At(F, p) : p \in PlacesIn(F)}
GroupsIn(F) == {p \in PlacesIn(F) : At(F, p).kind = "group"}

\* Jobs of these kinds differ from one another.
Once == {"file", "lines", "build", "init", "items"}
NoneTwiceIn(F) ==
  \A p, q \in PlacesIn(F) : At(F, p) = At(F, q) /\ At(F, p).kind \in Once => p = q

\* Every job but those at gone is somewhere in G, which has new places besides.
Changed(F, G, gone, new) ==
  /\ gone \subseteq PlacesIn(F) /\ new \subseteq PlacesIn(G)
  /\ \E h \in [PlacesIn(F) \ gone -> PlacesIn(G) \ new] :
       /\ \A p, q \in PlacesIn(F) \ gone : h[p] = h[q] => p = q
       /\ \A q \in PlacesIn(G) \ new : \E p \in PlacesIn(F) \ gone : h[p] = q
       /\ \A p \in PlacesIn(F) \ gone : At(G, h[p]) = At(F, p)

\* The places of more, appended to queue c of length n.
EndOf(c, n, more) == {<<c, n + k>> : k \in DOMAIN more}
AtEnd(F, c, n, more) == \A k \in DOMAIN more : At(F, <<c, n + k>>) = more[k]

\* A place is a queue and a number in it.
LEMMA PlaceFacts ==
  ASSUME NEW F
  PROVE  /\ \A q, k : <<q, k>> \in PlacesIn(F) <=> q \in Queues /\ k \in DOMAIN F[q]
         /\ \A p \in PlacesIn(F) : /\ p = <<p[1], p[2]>>
                                   /\ p[1] \in Queues /\ p[2] \in DOMAIN F[p[1]]
  BY DEF PlacesIn

\* Jobs stay, but for those that are gone; they multiply only at new places.
LEMMA ChangedJobs ==
  ASSUME NEW F, NEW G, NEW gone, NEW new, Changed(F, G, gone, new)
  PROVE  LET more == {At(G, q) : q \in new}
         IN  /\ JobsIn(G) \subseteq JobsIn(F) \cup more /\ more \subseteq JobsIn(G)
             /\ JobsIn(F) \ {At(F, p) : p \in gone} \subseteq JobsIn(G)
             /\ NoneTwiceIn(F) =>
                  \A p \in gone : At(F, p).kind \in Once /\ At(F, p) \notin more
                                  => At(F, p) \notin JobsIn(G)
<1>1. PICK h \in [PlacesIn(F) \ gone -> PlacesIn(G) \ new] :
        /\ \A p, q \in PlacesIn(F) \ gone : h[p] = h[q] => p = q
        /\ \A q \in PlacesIn(G) \ new : \E p \in PlacesIn(F) \ gone : h[p] = q
        /\ \A p \in PlacesIn(F) \ gone : At(G, h[p]) = At(F, p)
  BY DEF Changed
<1>2. gone \subseteq PlacesIn(F) /\ new \subseteq PlacesIn(G) BY DEF Changed
<1> DEFINE more == {At(G, q) : q \in new}
<1>3. ASSUME NEW q \in PlacesIn(G), q \notin new
      PROVE  \E p \in PlacesIn(F) \ gone : At(G, q) = At(F, p)
  BY <1>1, <1>3
<1>4. JobsIn(G) \subseteq JobsIn(F) \cup more BY <1>3 DEF JobsIn
<1>5. more \subseteq JobsIn(G) BY <1>2 DEF JobsIn
<1>6. JobsIn(F) \ {At(F, p) : p \in gone} \subseteq JobsIn(G)
  <2> SUFFICES ASSUME NEW p \in PlacesIn(F), p \notin gone PROVE At(F, p) \in JobsIn(G)
    BY DEF JobsIn
  <2>1. h[p] \in PlacesIn(G) /\ At(G, h[p]) = At(F, p) BY <1>1
  <2> QED BY <2>1 DEF JobsIn
<1>7. ASSUME NoneTwiceIn(F), NEW p \in gone, At(F, p).kind \in Once, At(F, p) \notin more,
             At(F, p) \in JobsIn(G)
      PROVE  FALSE
  <2>1. PICK q \in PlacesIn(G) : At(G, q) = At(F, p) BY <1>7 DEF JobsIn
  <2>2. q \notin new BY <1>7, <2>1
  <2>3. PICK r \in PlacesIn(F) \ gone : At(F, r) = At(F, p) BY <1>3, <2>1, <2>2
  <2> QED BY <1>2, <1>7, <2>3 DEF NoneTwiceIn
<1> QED BY <1>4, <1>5, <1>6, <1>7

\* No job that must not be there twice is made when one is there already.
LEMMA ChangedOnce ==
  ASSUME NEW F, NEW G, NEW gone, NEW new, Changed(F, G, gone, new), NoneTwiceIn(F),
         \A p, q \in new : At(G, p) = At(G, q) /\ At(G, p).kind \in Once => p = q,
         \A q \in new : At(G, q).kind \in Once => At(G, q) \notin JobsIn(F)
  PROVE  NoneTwiceIn(G)
<1>1. PICK h \in [PlacesIn(F) \ gone -> PlacesIn(G) \ new] :
        /\ \A p, q \in PlacesIn(F) \ gone : h[p] = h[q] => p = q
        /\ \A q \in PlacesIn(G) \ new : \E p \in PlacesIn(F) \ gone : h[p] = q
        /\ \A p \in PlacesIn(F) \ gone : At(G, h[p]) = At(F, p)
  BY DEF Changed
<1> SUFFICES ASSUME NEW p \in PlacesIn(G), NEW q \in PlacesIn(G), At(G, p) = At(G, q),
                    At(G, p).kind \in Once
             PROVE  p = q
  BY DEF NoneTwiceIn
<1>2. \A r \in PlacesIn(G) \ new : At(G, r) \in JobsIn(F) BY <1>1 DEF JobsIn
<1>3. CASE p \in new \/ q \in new BY <1>2, <1>3
<1>4. CASE p \notin new /\ q \notin new
  <2>1. PICK a \in PlacesIn(F) \ gone : h[a] = p BY <1>1, <1>4
  <2>2. PICK b \in PlacesIn(F) \ gone : h[b] = q BY <1>1, <1>4
  <2>3. At(F, a) = At(F, b) /\ At(F, a).kind \in Once BY <1>1, <2>1, <2>2
  <2>4. a = b BY <2>3 DEF NoneTwiceIn
  <2> QED BY <2>1, <2>2, <2>4
<1> QED BY <1>3, <1>4

\* The ParseGroup jobs are one less for each that is gone, one more for each new.
LEMMA ChangedGroups ==
  ASSUME NEW F, NEW G, NEW gone, NEW new, Changed(F, G, gone, new),
         IsFiniteSet(GroupsIn(F)), IsFiniteSet(GroupsIn(G) \cap new)
  PROVE  /\ IsFiniteSet(GroupsIn(G))
         /\ Cardinality(GroupsIn(G))
              = Cardinality(GroupsIn(F) \ gone) + Cardinality(GroupsIn(G) \cap new)
<1>1. PICK h \in [PlacesIn(F) \ gone -> PlacesIn(G) \ new] :
        /\ \A p, q \in PlacesIn(F) \ gone : h[p] = h[q] => p = q
        /\ \A q \in PlacesIn(G) \ new : \E p \in PlacesIn(F) \ gone : h[p] = q
        /\ \A p \in PlacesIn(F) \ gone : At(G, h[p]) = At(F, p)
  BY DEF Changed
<1> DEFINE S == GroupsIn(F) \ gone
           T == GroupsIn(G) \ new
           g == [p \in S |-> h[p]]
<1>2. \A p \in S : p \in PlacesIn(F) \ gone /\ h[p] \in PlacesIn(G) \ new /\ At(G, h[p]).kind = "group"
  BY <1>1 DEF GroupsIn
<1>3. g \in [S -> T] BY <1>2 DEF GroupsIn
<1>4. \A p, q \in S : g[p] = g[q] => p = q BY <1>1, <1>2
<1>5. \A q \in T : \E p \in S : g[p] = q
  <2> TAKE q \in T
  <2>1. q \in PlacesIn(G) \ new /\ At(G, q).kind = "group" BY DEF GroupsIn
  <2>2. PICK p \in PlacesIn(F) \ gone : h[p] = q BY <1>1, <2>1
  <2>3. p \in S BY <1>1, <2>1, <2>2 DEF GroupsIn
  <2> QED BY <2>2, <2>3
<1>6. ExistsBijection(S, T)
  BY <1>3, <1>4, <1>5, Zenon DEF ExistsBijection, Bijection, Injection, Surjection, IsInjective
<1>7. IsFiniteSet(S) BY FS_Subset
<1>8. IsFiniteSet(T) /\ Cardinality(T) = Cardinality(S)
  BY <1>6, <1>7, FS_Bijection
<1> DEFINE U == GroupsIn(G) \cap new
<1>9. GroupsIn(G) = T \cup U /\ T \cap U = {} OBVIOUS
<1>10. Cardinality(T) \in Nat /\ IsFiniteSet(U) /\ Cardinality(U) \in Nat
  BY <1>8, FS_CardinalityType
<1> HIDE DEF S, T, U
<1>11. /\ IsFiniteSet(T \cup U)
       /\ Cardinality(T \cup U) = Cardinality(T) + Cardinality(U) - Cardinality(T \cap U)
  BY <1>8, <1>10, FS_Union
<1>12. /\ IsFiniteSet(GroupsIn(G))
       /\ Cardinality(GroupsIn(G)) = Cardinality(S) + Cardinality(U)
  <2>1. Cardinality(T \cap U) = 0 BY <1>9, FS_EmptySet
  <2> QED BY <1>8, <1>9, <1>10, <1>11, <2>1
<1> QED BY <1>12 DEF S, U

\* A job ends: queue x loses it, queue w, which it has filled, and then more are
\* appended to queue c.
LEMMA EndChanges ==
  ASSUME NEW F, NEW G, NEW c \in Queues, NEW w \in Queues, NEW x \in Queues,
         c # w, c # x, w # x,
         NEW S, F[c] \in Seq(S), F[w] \in Seq(S), NEW more \in Seq(S), NEW j, F[x] = <<j>>,
         G[c] = F[c] \o (F[w] \o more), G[w] = <<>>, G[x] = <<>>,
         \A q \in Queues \ {c, w, x} : G[q] = F[q],
         NEW gone, gone = {<<x, 1>>},
         NEW new, new = EndOf(c, Len(F[c]) + Len(F[w]), more)
  PROVE  /\ Changed(F, G, gone, new)
         /\ At(F, <<x, 1>>) = j
         /\ AtEnd(G, c, Len(F[c]) + Len(F[w]), more)
<1> DEFINE m == Len(F[c])
           n == Len(F[w])
           h == [p \in PlacesIn(F) \ gone |-> IF p[1] = w THEN <<c, m + p[2]>> ELSE p]
<1>1. /\ m \in Nat /\ n \in Nat /\ Len(more) \in Nat
      /\ DOMAIN F[c] = 1 .. m /\ DOMAIN F[w] = 1 .. n /\ DOMAIN more = 1 .. Len(more)
  BY LenProperties
<1>4. /\ DOMAIN G[c] = 1 .. m + n + Len(more)
      /\ \A k \in 1 .. m : G[c][k] = F[c][k]
      /\ \A k \in 1 .. n : G[c][m + k] = F[w][k]
      /\ \A k \in 1 .. Len(more) : G[c][m + n + k] = more[k]
  <2> DEFINE s == F[c]
             t == F[w]
             r == G[c]
  <2>1. s \in Seq(S) /\ t \in Seq(S) /\ r = s \o (t \o more) OBVIOUS
  <2> HIDE DEF s, t, r, m, n
  <2>2. /\ DOMAIN r = 1 .. Len(s) + Len(t) + Len(more)
        /\ \A k \in 1 .. Len(s) : r[k] = s[k]
        /\ \A k \in 1 .. Len(t) : r[Len(s) + k] = t[k]
        /\ \A k \in 1 .. Len(more) : r[Len(s) + Len(t) + k] = more[k]
    BY <2>1, ThreeParts
  <2> QED BY <2>2 DEF s, t, r, m, n
<1>5. DOMAIN F[x] = {1} /\ F[x][1] = j /\ DOMAIN G[x] = {} /\ DOMAIN G[w] = {}
  OBVIOUS
<1>a. new = {<<c, m + n + k>> : k \in DOMAIN more} BY DEF EndOf
<1> HIDE DEF m, n
<1>b. ASSUME NEW k \in Int, k <= m + n PROVE <<c, k>> \notin new
  <2> SUFFICES ASSUME NEW i \in DOMAIN more, <<c, k>> = <<c, m + n + i>> PROVE FALSE
    BY <1>a
  <2> DEFINE u == m + n + i
  <2>1. u = k
    <3> HIDE DEF u
    <3>1. <<c, k>> = <<c, u>> BY DEF u
    <3> QED BY <3>1
  <2> QED BY <1>1, <1>b, <2>1
<1>c. ASSUME NEW q, q[1] # c PROVE q \notin new
  <2> SUFFICES ASSUME NEW i \in DOMAIN more, q = <<c, m + n + i>> PROVE FALSE
    BY <1>a
  <2> DEFINE u == m + n + i
  <2>1. q = <<c, u>> OBVIOUS
  <2> HIDE DEF u
  <2> QED BY <1>c, <2>1
<1>6. gone \subseteq PlacesIn(F) /\ new \subseteq PlacesIn(G)
  <2>1. gone \subseteq PlacesIn(F) BY <1>5, PlaceFacts
  <2>2. ASSUME NEW k \in DOMAIN more PROVE <<c, m + n + k>> \in PlacesIn(G)
    <3>1. m + n + k \in DOMAIN G[c] BY <1>1, <1>4
    <3> QED BY <3>1, PlaceFacts
  <2> QED BY <1>a, <2>1, <2>2
<1>7. ASSUME NEW p \in PlacesIn(F) \ gone
      PROVE  /\ p[1] \in Queues /\ p[2] \in DOMAIN F[p[1]] /\ p = <<p[1], p[2]>>
             /\ p[1] # x
             /\ h[p] \in PlacesIn(G) \ new /\ At(G, h[p]) = At(F, p)
  <2>1. p[1] \in Queues /\ p[2] \in DOMAIN F[p[1]] /\ p = <<p[1], p[2]>> /\ p[1] # x
    <3>1. p[1] \in Queues /\ p[2] \in DOMAIN F[p[1]] /\ p = <<p[1], p[2]>>
      BY PlaceFacts
    <3> QED BY <1>5, <3>1
  <2>2. CASE p[1] = w
    <3>1. h[p] = <<c, m + p[2]>> /\ p[2] \in 1 .. n BY <1>1, <2>1, <2>2
    <3>2. <<c, m + p[2]>> \in PlacesIn(G) /\ At(G, <<c, m + p[2]>>) = F[w][p[2]]
      <4>1. \A k \in 1 .. n : m + k \in DOMAIN G[c] /\ G[c][m + k] = F[w][k]
        <5> TAKE k \in 1 .. n
        <5>1. m + k \in 1 .. m + n + Len(more) BY <1>1
        <5> QED BY <1>4, <5>1
      <4> QED BY <3>1, <4>1, PlaceFacts DEF At
    <3>3. m + p[2] \in Int /\ m + p[2] <= m + n BY <1>1, <3>1
    <3>4. <<c, m + p[2]>> \notin new BY <1>b, <3>3
    <3> QED BY <2>1, <2>2, <3>1, <3>2, <3>4 DEF At
  <2>3. CASE p[1] = c
    <3>1. h[p] = p /\ p[2] \in 1 .. m BY <1>1, <2>1, <2>3
    <3>2. p \in PlacesIn(G) /\ At(G, p) = At(F, p)
      <4>1. \A k \in 1 .. m : k \in DOMAIN G[c] /\ G[c][k] = F[c][k]
        <5> TAKE k \in 1 .. m
        <5>1. k \in 1 .. m + n + Len(more) BY <1>1
        <5> QED BY <1>4, <5>1
      <4>2. <<c, p[2]>> \in PlacesIn(G) /\ p = <<c, p[2]>>
        BY <2>1, <2>3, <3>1, <4>1, PlaceFacts
      <4> QED BY <2>3, <3>1, <4>1, <4>2 DEF At
    <3>3. p \notin new
      <4>1. p[2] \in Int /\ p[2] <= m + n /\ p = <<c, p[2]>>
        BY <1>1, <2>1, <2>3, <3>1
      <4> QED BY <1>b, <4>1
    <3> QED BY <2>1, <3>1, <3>2, <3>3
  <2>4. CASE p[1] \notin {c, w}
    <3>1. h[p] = p /\ G[p[1]] = F[p[1]] /\ p \notin new BY <1>c, <2>1, <2>4
    <3>2. p \in PlacesIn(G) /\ At(G, p) = At(F, p)
      BY <2>1, <3>1, PlaceFacts DEF At
    <3> QED BY <2>1, <2>4, <3>1, <3>2
  <2> QED BY <2>2, <2>3, <2>4
<1>8. h \in [PlacesIn(F) \ gone -> PlacesIn(G) \ new] BY <1>7
<1>9. ASSUME NEW p \in PlacesIn(F) \ gone, NEW q \in PlacesIn(F) \ gone, h[p] = h[q]
      PROVE  p = q
  <2>1. /\ p[1] = w => h[p] = <<c, m + p[2]>> /\ p[2] \in 1 .. n
        /\ p[1] # w => h[p] = p
        /\ p[1] = c => p[2] \in 1 .. m
    BY <1>1, <1>7
  <2>2. /\ q[1] = w => h[q] = <<c, m + q[2]>> /\ q[2] \in 1 .. n
        /\ q[1] # w => h[q] = q
        /\ q[1] = c => q[2] \in 1 .. m
    BY <1>1, <1>7
  <2>3. p = <<p[1], p[2]>> /\ q = <<q[1], q[2]>> BY <1>7
  <2> HIDE DEF h
  <2> QED BY <1>1, <1>9, <2>1, <2>2, <2>3
<1>10. ASSUME NEW q \in PlacesIn(G) \ new PROVE \E p \in PlacesIn(F) \ gone : h[p] = q
  <2>1. q[1] \in Queues /\ q[2] \in DOMAIN G[q[1]] /\ q = <<q[1], q[2]>>
    BY PlaceFacts
  <2>2. CASE q[1] = c
    <3>1. q[2] \in 1 .. m + n
      <4>1. q[2] \in 1 .. m + n + Len(more) BY <1>4, <2>1, <2>2
      <4>2. q[2] > m + n => q[2] - (m + n) \in DOMAIN more /\ m + n + (q[2] - (m + n)) = q[2]
        BY <1>1, <4>1
      <4>3. q[2] > m + n => q \in new BY <1>a, <2>1, <2>2, <4>2
      <4>4. ~(q[2] > m + n) BY <1>10, <4>3
      <4> QED BY <1>1, <4>1, <4>4
    <3>2. CASE q[2] <= m
      <4>1. q \in PlacesIn(F) \ gone
        BY <1>1, <2>1, <2>2, <3>1, <3>2, PlaceFacts
      <4> QED BY <2>2, <4>1
    <3>3. CASE q[2] > m
      <4>1. q[2] - m \in 1 .. n /\ m + (q[2] - m) = q[2] BY <1>1, <3>1, <3>3
      <4>2. <<w, q[2] - m>> \in PlacesIn(F) \ gone BY <1>1, <4>1, PlaceFacts
      <4>3. h[<<w, q[2] - m>>] = <<c, q[2]>> BY <4>1, <4>2
      <4> QED BY <2>1, <2>2, <4>2, <4>3
    <3> QED BY <1>1, <3>1, <3>2, <3>3
  <2>3. CASE q[1] # c
    <3>1. q[1] \notin {c, w, x} /\ G[q[1]] = F[q[1]] BY <1>5, <2>1, <2>3
    <3>2. q \in PlacesIn(F) \ gone BY <2>1, <3>1, PlaceFacts
    <3> QED BY <3>1, <3>2
  <2> QED BY <2>2, <2>3
<1>11. Changed(F, G, gone, new)
  <2> HIDE DEF h
  <2> QED BY <1>6, <1>7, <1>8, <1>9, <1>10 DEF Changed
<1>12. \A k \in DOMAIN more : At(G, <<c, m + n + k>>) = more[k]
  BY <1>1, <1>4 DEF At
<1>13. At(F, <<x, 1>>) = j BY <1>5 DEF At
<1> QED BY <1>11, <1>12, <1>13 DEF m, n, AtEnd

\* A queue that grows.
LEMMA GrowChanges ==
  ASSUME NEW F, NEW G, NEW c \in Queues, NEW S, F[c] \in Seq(S), NEW more \in Seq(S),
         G[c] = F[c] \o more, \A q \in Queues \ {c} : G[q] = F[q],
         NEW new, new = EndOf(c, Len(F[c]), more)
  PROVE  /\ Changed(F, G, {}, new)
         /\ AtEnd(G, c, Len(F[c]), more)
<1> DEFINE m == Len(F[c])
           n == Len(more)
           h == [p \in PlacesIn(F) \ {} |-> p]
<1>1. m \in Nat /\ n \in Nat /\ DOMAIN F[c] = 1 .. m /\ DOMAIN more = 1 .. n
  BY LenProperties
<1>2. /\ DOMAIN G[c] = 1 .. m + n
      /\ \A k \in 1 .. m + n : G[c][k] = IF k <= m THEN F[c][k] ELSE more[k - m]
  <2>1. /\ F[c] \o more \in Seq(S) /\ Len(F[c] \o more) = m + n
        /\ \A k \in 1 .. m + n : (F[c] \o more)[k] = IF k <= m THEN F[c][k] ELSE more[k - m]
    BY ConcatProperties
  <2>2. DOMAIN (F[c] \o more) = 1 .. Len(F[c] \o more) BY <2>1, LenProperties
  <2> QED BY <2>1, <2>2
<1>a. new = {<<c, m + k>> : k \in DOMAIN more} BY DEF EndOf
<1> HIDE DEF m, n
<1>3. \A k \in 1 .. m : k \in DOMAIN G[c] /\ G[c][k] = F[c][k] BY <1>1, <1>2
<1>4. \A k \in 1 .. n : m + k \in DOMAIN G[c] /\ G[c][m + k] = more[k]
  <2> TAKE k \in 1 .. n
  <2>1. m + k \in 1 .. m + n /\ ~(m + k <= m) /\ (m + k) - m = k BY <1>1
  <2> QED BY <1>2, <2>1
<1>5. new \subseteq PlacesIn(G) BY <1>a, <1>1, <1>4, PlaceFacts
<1>6. ASSUME NEW p \in PlacesIn(F)
      PROVE  p \in PlacesIn(G) \ new /\ At(G, p) = At(F, p)
  <2>1. p[1] \in Queues /\ p[2] \in DOMAIN F[p[1]] /\ p = <<p[1], p[2]>>
    BY PlaceFacts
  <2>2. CASE p[1] = c
    <3>1. p[2] \in 1 .. m BY <1>1, <2>1, <2>2
    <3>2. <<c, p[2]>> \in PlacesIn(G) /\ p = <<c, p[2]>>
      BY <1>3, <2>1, <2>2, <3>1, PlaceFacts
    <3>3. p \notin new BY <1>a, <1>1, <3>1
    <3> QED BY <1>3, <2>2, <3>1, <3>2, <3>3 DEF At
  <2>3. CASE p[1] # c
    <3>1. G[p[1]] = F[p[1]] /\ p \notin new BY <1>a, <2>1, <2>3
    <3> QED BY <2>1, <2>3, <3>1, PlaceFacts DEF At
  <2> QED BY <2>2, <2>3
<1>7. ASSUME NEW q \in PlacesIn(G) \ new PROVE q \in PlacesIn(F)
  <2>1. q[1] \in Queues /\ q[2] \in DOMAIN G[q[1]] /\ q = <<q[1], q[2]>>
    BY PlaceFacts
  <2>2. CASE q[1] = c
    <3>1. q[2] \in 1 .. m + n BY <1>2, <2>1, <2>2
    <3>2. q[2] > m => q[2] - m \in DOMAIN more /\ m + (q[2] - m) = q[2]
      BY <1>1, <3>1
    <3>3. q[2] > m => q \in new BY <1>a, <2>1, <2>2, <3>2
    <3>4. q[2] \in 1 .. m BY <1>1, <1>7, <3>1, <3>3
    <3> QED BY <1>1, <2>1, <2>2, <3>4, PlaceFacts
  <2>3. CASE q[1] # c
    <3>1. G[q[1]] = F[q[1]] BY <2>1, <2>3
    <3> QED BY <2>1, <3>1, PlaceFacts
  <2> QED BY <2>2, <2>3
<1>8. Changed(F, G, {}, new)
  <2>1. h \in [PlacesIn(F) \ {} -> PlacesIn(G) \ new] BY <1>6
  <2> QED BY <1>5, <1>6, <1>7, <2>1 DEF Changed
<1>9. \A k \in DOMAIN more : At(G, <<c, m + k>>) = more[k] BY <1>1, <1>4 DEF At
<1> QED BY <1>8, <1>9 DEF m, AtEnd

\* An executor takes the first job of its queue.
LEMMA TakeChanges ==
  ASSUME NEW F, NEW G, NEW r \in Queues, NEW x \in Queues, r # x,
         NEW S, F[r] \in Seq(S), F[r] # <<>>, F[x] = <<>>,
         G[r] = Tail(F[r]), G[x] = <<Head(F[r])>>, \A q \in Queues \ {r, x} : G[q] = F[q]
  PROVE  Changed(F, G, {}, {})
<1> DEFINE n == Len(F[r])
           h == [p \in PlacesIn(F) \ {} |->
                   IF p[1] # r THEN p ELSE IF p[2] = 1 THEN <<x, 1>> ELSE <<r, p[2] - 1>>]
<1>1. n \in Nat \ {0} /\ DOMAIN F[r] = 1 .. n BY LenProperties, EmptySeq
<1>2. DOMAIN G[r] = 1 .. n - 1 /\ \A k \in 1 .. n - 1 : G[r][k] = F[r][k + 1]
  <2>1. /\ Tail(F[r]) \in Seq(S) /\ Len(Tail(F[r])) = n - 1
        /\ \A k \in 1 .. Len(Tail(F[r])) : Tail(F[r])[k] = F[r][k + 1]
    BY HeadTailProperties
  <2>2. DOMAIN Tail(F[r]) = 1 .. Len(Tail(F[r])) BY <2>1, LenProperties
  <2> QED BY <2>1, <2>2
<1>3. DOMAIN F[x] = {} /\ DOMAIN G[x] = {1} /\ G[x][1] = F[r][1]
  <2>1. Head(F[r]) = F[r][1] OBVIOUS
  <2> QED BY <2>1
<1> HIDE DEF n
<1>4. ASSUME NEW p \in PlacesIn(F)
      PROVE  /\ p[1] \in Queues \ {x} /\ p[2] \in DOMAIN F[p[1]] /\ p = <<p[1], p[2]>>
             /\ h[p] \in PlacesIn(G) /\ At(G, h[p]) = At(F, p)
  <2>1. p[1] \in Queues \ {x} /\ p[2] \in DOMAIN F[p[1]] /\ p = <<p[1], p[2]>>
    <3>1. p[1] \in Queues /\ p[2] \in DOMAIN F[p[1]] /\ p = <<p[1], p[2]>>
      BY PlaceFacts
    <3> QED BY <1>3, <3>1
  <2>2. CASE p[1] # r
    <3>1. h[p] = p /\ G[p[1]] = F[p[1]] BY <2>1, <2>2
    <3> QED BY <2>1, <3>1, PlaceFacts DEF At
  <2>3. CASE p[1] = r /\ p[2] = 1
    <3>1. h[p] = <<x, 1>> BY <2>3
    <3> QED BY <1>3, <2>1, <2>3, <3>1, PlaceFacts DEF At
  <2>4. CASE p[1] = r /\ p[2] # 1
    <3>1. h[p] = <<r, p[2] - 1>> BY <2>4
    <3>2. p[2] - 1 \in DOMAIN G[r] /\ (p[2] - 1) + 1 = p[2]
      BY <1>1, <1>2, <2>1, <2>4
    <3>3. G[r][p[2] - 1] = F[r][p[2]] BY <1>2, <3>2
    <3> QED BY <2>1, <2>4, <3>1, <3>2, <3>3, PlaceFacts DEF At
  <2> QED BY <2>2, <2>3, <2>4
<1>5. ASSUME NEW p \in PlacesIn(F), NEW q \in PlacesIn(F), h[p] = h[q]
      PROVE  p = q
  <2>a. ASSUME NEW y \in PlacesIn(F)
        PROVE  /\ y[1] # r => h[y] = y
               /\ y[1] = r /\ y[2] = 1 => h[y] = <<x, 1>>
               /\ y[1] = r /\ y[2] # 1 => h[y] = <<r, y[2] - 1>> /\ y[2] \in Int
    <3>1. h[y] = IF y[1] # r THEN y ELSE IF y[2] = 1 THEN <<x, 1>> ELSE <<r, y[2] - 1>>
      OBVIOUS
    <3>2. y[2] \in DOMAIN F[y[1]] BY PlaceFacts
    <3>3. y[1] = r => y[2] \in Int BY <1>1, <3>2
    <3> HIDE DEF h
    <3> QED BY <3>1, <3>3
  <2>1. /\ p[1] # r => h[p] = p
        /\ p[1] = r /\ p[2] = 1 => h[p] = <<x, 1>>
        /\ p[1] = r /\ p[2] # 1 => h[p] = <<r, p[2] - 1>> /\ p[2] \in Int
    BY <2>a
  <2>2. /\ q[1] # r => h[q] = q
        /\ q[1] = r /\ q[2] = 1 => h[q] = <<x, 1>>
        /\ q[1] = r /\ q[2] # 1 => h[q] = <<r, q[2] - 1>> /\ q[2] \in Int
    BY <2>a
  <2>3. p = <<p[1], p[2]>> /\ q = <<q[1], q[2]>> /\ p[1] # x /\ q[1] # x
    BY <1>4
  <2> HIDE DEF h
  <2> QED BY <1>5, <2>1, <2>2, <2>3
<1>6. ASSUME NEW q \in PlacesIn(G) PROVE \E p \in PlacesIn(F) : h[p] = q
  <2>1. q[1] \in Queues /\ q[2] \in DOMAIN G[q[1]] /\ q = <<q[1], q[2]>>
    BY PlaceFacts
  <2>2. CASE q[1] = x
    <3>1. q = <<x, 1>> /\ <<r, 1>> \in PlacesIn(F)
      BY <1>1, <1>3, <2>1, <2>2, PlaceFacts
    <3>2. h[<<r, 1>>] = <<x, 1>> BY <3>1
    <3> QED BY <3>1, <3>2
  <2>3. CASE q[1] = r
    <3>1. q[2] + 1 \in 1 .. n /\ q[2] + 1 # 1 /\ (q[2] + 1) - 1 = q[2]
      <4>1. q[2] \in 1 .. n - 1 BY <1>2, <2>1, <2>3
      <4> QED BY <1>1, <4>1
    <3>2. <<r, q[2] + 1>> \in PlacesIn(F) BY <1>1, <3>1, PlaceFacts
    <3>3. h[<<r, q[2] + 1>>] = <<r, q[2]>> BY <3>1, <3>2
    <3> QED BY <2>1, <2>3, <3>2, <3>3
  <2>4. CASE q[1] \notin {r, x}
    <3>1. q \in PlacesIn(F) BY <2>1, <2>4, PlaceFacts
    <3> QED BY <2>4, <3>1
  <2> QED BY <2>2, <2>3, <2>4
<1>7. h \in [PlacesIn(F) \ {} -> PlacesIn(G) \ {}] BY <1>4
<1> HIDE DEF h
<1> QED BY <1>4, <1>5, <1>6, <1>7 DEF Changed

\* The candidates are dealt out: every one of them goes to one place.
LEMMA DealChanges ==
  ASSUME NEW F, NEW G, NEW S, NEW c \in Queues, c = <<"candidate", 0>>,
         F[c] \in Seq(S), \A e \in Executors : F[<<"ready", e>>] \in Seq(S),
         NEW cut \in [0 .. N -> 0 .. Len(F[c])],
         cut[0] = 0, \A e \in Executors : cut[e] <= cut[e + 1],
         G[c] = SubSeq(F[c], cut[N] + 1, Len(F[c])),
         \A e \in Executors : G[<<"ready", e>>] = F[<<"ready", e>>]
                                                    \o SubSeq(F[c], cut[e] + 1, cut[e + 1]),
         \A q \in Queues : q # c /\ q[1] # "ready" => G[q] = F[q]
  PROVE  Changed(F, G, {}, {})
<1> DEFINE l == Len(F[c])
           R(e) == <<"ready", e>>
           own(k) == CHOOSE e \in Executors : k \in cut[e] + 1 .. cut[e + 1]
           h == [p \in PlacesIn(F) \ {} |->
                   IF p[1] # c THEN p
                   ELSE IF p[2] <= cut[N] THEN <<R(own(p[2])), Len(F[R(own(p[2]))]) + p[2] - cut[own(p[2])]>>
                   ELSE <<c, p[2] - cut[N]>>]
<1>0. N \in Nat \ {0} BY ScenarioAssumption
<1>1. l \in Nat /\ DOMAIN F[c] = 1 .. l /\ \A k \in 1 .. l : F[c][k] \in S
  BY LenProperties, ElementOfSeq
<1>2. \A e \in Executors : /\ Len(F[R(e)]) \in Nat /\ DOMAIN F[R(e)] = 1 .. Len(F[R(e)])
                           /\ R(e) \in Queues /\ R(e) # c
  <2> TAKE e \in Executors
  <2>1. F[R(e)] \in Seq(S) OBVIOUS
  <2>2. R(e) \in Queues /\ R(e) # c BY DEF Queues
  <2> QED BY <2>1, <2>2, LenProperties
<1>3. /\ \A e, f \in 0 .. N : e <= f => cut[e] <= cut[f]
      /\ \A k \in 1 .. cut[N] : \E e \in Executors : k \in cut[e] + 1 .. cut[e + 1]
  <2>1. N \in Nat /\ \A e \in 0 .. N - 1 : cut[e] <= cut[e + 1]
    BY <1>0 DEF Executors
  <2> QED BY <1>1, <2>1, CutPoints DEF Executors
<1>4. \A k \in 1 .. cut[N] : own(k) \in Executors /\ k \in cut[own(k)] + 1 .. cut[own(k) + 1]
  BY <1>3
<1>5. ASSUME NEW e \in Executors, NEW f \in Executors, NEW k,
             k \in cut[e] + 1 .. cut[e + 1], k \in cut[f] + 1 .. cut[f + 1]
      PROVE  e = f
  <2>1. /\ e \in 0 .. N /\ f \in 0 .. N /\ e + 1 \in 0 .. N /\ f + 1 \in 0 .. N
        /\ e \in Int /\ f \in Int
    BY <1>0 DEF Executors
  <2>a. ASSUME NEW y \in 0 .. N PROVE cut[y] \in Int
    <3>1. cut[y] \in 0 .. l OBVIOUS
    <3> HIDE DEF l
    <3> QED BY <1>1, <3>1
  <2>2. cut[e] \in Int /\ cut[f] \in Int /\ cut[e + 1] \in Int /\ cut[f + 1] \in Int
    BY <2>1, <2>a
  <2>3. ~(e + 1 <= f) /\ ~(f + 1 <= e) BY <1>3, <1>5, <2>1, <2>2
  <2> QED BY <2>1, <2>3
<1>6. cut[N] \in 0 .. l /\ \A e \in Executors : /\ cut[e] \in 0 .. l /\ cut[e + 1] \in 0 .. l
                                                /\ cut[e] <= cut[e + 1] /\ cut[e + 1] <= cut[N]
  <2>1. \A e \in Executors : e \in 0 .. N /\ e + 1 \in 0 .. N /\ e + 1 <= N
    BY <1>0 DEF Executors
  <2>2. N \in 0 .. N BY <1>0
  <2> QED BY <1>3, <2>1, <2>2
<1> HIDE DEF l, own
<1>7. /\ DOMAIN G[c] = 1 .. l - cut[N]
      /\ \A k \in 1 .. l - cut[N] : G[c][k] = F[c][cut[N] + k]
  <2> DEFINE a == cut[N] + 1
             s == SubSeq(F[c], a, l)
  <2>1. a \in Int /\ l \in Int /\ \A k \in a .. l : F[c][k] \in S BY <1>1, <1>6
  <2> HIDE DEF a
  <2>2. /\ s \in Seq(S) /\ Len(s) = IF a <= l THEN l - a + 1 ELSE 0
        /\ \A k \in 1 .. l - a + 1 : s[k] = F[c][a + k - 1]
    BY <2>1, SubSeqProperties
  <2>3. G[c] = s BY DEF l, a
  <2> HIDE DEF s
  <2>4. DOMAIN s = 1 .. Len(s) BY <2>2, LenProperties
  <2>5. Len(s) = l - cut[N] /\ l - a + 1 = l - cut[N] BY <1>1, <1>6, <2>2 DEF a
  <2>6. \A k \in 1 .. l - cut[N] : a + k - 1 = cut[N] + k BY <1>1, <1>6 DEF a
  <2> QED BY <2>2, <2>3, <2>4, <2>5, <2>6
<1>8. ASSUME NEW e \in Executors
      PROVE  LET n == Len(F[R(e)])
             IN  /\ DOMAIN G[R(e)] = 1 .. n + cut[e + 1] - cut[e]
                 /\ \A k \in 1 .. n : G[R(e)][k] = F[R(e)][k]
                 /\ \A k \in cut[e] + 1 .. cut[e + 1] : G[R(e)][n + k - cut[e]] = F[c][k]
  <2> DEFINE n == Len(F[R(e)])
             a == cut[e] + 1
             b == cut[e + 1]
             s == SubSeq(F[c], a, b)
             t == F[R(e)] \o s
  <2>a. /\ cut[e] \in 0 .. l /\ cut[e + 1] \in 0 .. l /\ cut[e] <= cut[e + 1]
        /\ l \in Nat /\ n \in Nat
    BY <1>1, <1>2, <1>6
  <2>b. /\ a \in Int /\ b \in Int /\ a <= b + 1 /\ \A k \in a .. b : k \in 1 .. l
    <3> DEFINE z == cut[e]
    <3> HIDE DEF z, b, n
    <3>1. z \in 0 .. l /\ b \in 0 .. l /\ z <= b /\ l \in Nat BY <2>a DEF z, b
    <3>2. a = z + 1 BY DEF z
    <3> HIDE DEF a
    <3> QED BY <3>1, <3>2
  <2>1. /\ a \in Int /\ b \in Int /\ n \in Nat /\ a <= b + 1
        /\ \A k \in a .. b : k \in 1 .. l /\ F[c][k] \in S
    BY <1>1, <2>a, <2>b
  <2> HIDE DEF a, b
  <2>2. /\ s \in Seq(S) /\ Len(s) = IF a <= b THEN b - a + 1 ELSE 0
        /\ \A k \in 1 .. b - a + 1 : s[k] = F[c][a + k - 1]
    BY <2>1, SubSeqProperties
  <2>3. G[R(e)] = t BY DEF a, b
  <2>4. F[R(e)] \in Seq(S) OBVIOUS
  <2> HIDE DEF s
  <2>5. /\ t \in Seq(S) /\ Len(t) = n + Len(s)
        /\ \A k \in 1 .. n + Len(s) : t[k] = IF k <= n THEN F[R(e)][k] ELSE s[k - n]
    <3> DEFINE q == F[R(e)]
    <3>1. q \in Seq(S) BY <2>4
    <3> HIDE DEF q, R
    <3>a. s \in Seq(S) BY <2>2
    <3>2. /\ q \o s \in Seq(S) /\ Len(q \o s) = Len(q) + Len(s)
          /\ \A k \in 1 .. Len(q) + Len(s) : (q \o s)[k] = IF k <= Len(q) THEN q[k] ELSE s[k - Len(q)]
      BY <3>a, <3>1, ConcatProperties
    <3> QED BY <3>2 DEF q
  <2> HIDE DEF t, n
  <2>6. DOMAIN t = 1 .. Len(t) /\ Len(s) = b - a + 1
    BY <2>1, <2>2, <2>5, LenProperties
  <2>7. DOMAIN t = 1 .. n + b - cut[e]
    <3>1. n + (b - a + 1) = n + b - cut[e] BY <1>6, <2>1 DEF a
    <3> QED BY <2>5, <2>6, <3>1
  <2>8. \A k \in 1 .. n : t[k] = F[R(e)][k]
    <3> TAKE k \in 1 .. n
    <3>1. n \in Nat /\ Len(s) \in Nat BY <2>1, <2>2, LenProperties DEF n
    <3>2. k \in 1 .. n + Len(s) /\ k <= n BY <3>1
    <3> QED BY <2>5, <3>2
  <2>9. ASSUME NEW k \in a .. b PROVE t[n + k - cut[e]] = F[c][k]
    <3> DEFINE i == k - a + 1
    <3>1. i \in 1 .. b - a + 1 /\ a + i - 1 = k /\ n + i = n + k - cut[e]
      <4> DEFINE z == cut[e]
      <4>1. z \in Int /\ a = z + 1 /\ b \in Int /\ n \in Int
        BY <1>6, <2>1 DEF a, n
      <4> HIDE DEF z
      <4>2. i \in 1 .. b - a + 1 /\ a + i - 1 = k /\ n + i = n + k - z BY <4>1
      <4> QED BY <4>2 DEF z
    <3>2. n + i \in 1 .. n + Len(s) /\ ~(n + i <= n) /\ (n + i) - n = i
      BY <2>1, <2>6, <3>1
    <3>3. t[n + i] = s[i] /\ s[i] = F[c][k] BY <2>2, <2>5, <3>1, <3>2
    <3> QED BY <3>1, <3>3
  <2> QED BY <2>3, <2>7, <2>8, <2>9 DEF a, b, n
<1> HIDE DEF R
<1>9. \A q \in Queues : q = c \/ (\E e \in Executors : q = R(e)) \/ G[q] = F[q]
  BY DEF Queues, R
<1>10. \A e, f \in Executors : R(e) = R(f) => e = f BY DEF R
<1> DEFINE P(e) == Len(F[R(e)])
<1>11. ASSUME NEW p \in PlacesIn(F)
       PROVE  /\ p[1] \in Queues /\ p[2] \in DOMAIN F[p[1]] /\ p = <<p[1], p[2]>>
              /\ h[p] \in PlacesIn(G) /\ At(G, h[p]) = At(F, p)
  <2>1. p[1] \in Queues /\ p[2] \in DOMAIN F[p[1]] /\ p = <<p[1], p[2]>>
    BY PlaceFacts
  <2>2. CASE p[1] # c
    <3>1. h[p] = p BY <2>2
    <3> HIDE DEF h
    <3>2. CASE G[p[1]] = F[p[1]] BY <2>1, <3>1, <3>2, PlaceFacts DEF At
    <3>3. ASSUME NEW e \in Executors, p[1] = R(e)
          PROVE  p \in PlacesIn(G) /\ At(G, p) = At(F, p)
      <4>1. p[2] \in 1 .. P(e) /\ P(e) \in Nat BY <1>2, <2>1, <3>3
      <4>2. p[2] \in DOMAIN G[R(e)]
        <5>a. cut[e] \in Int /\ cut[e + 1] \in Int /\ cut[e] <= cut[e + 1]
          BY <1>1, <1>6
        <5>1. p[2] \in 1 .. P(e) + cut[e + 1] - cut[e] BY <4>1, <5>a
        <5> QED BY <1>8, <5>1
      <4>3. G[R(e)][p[2]] = F[R(e)][p[2]] BY <1>8, <4>1
      <4>4. <<R(e), p[2]>> \in PlacesIn(G) /\ p = <<R(e), p[2]>>
        BY <1>2, <2>1, <3>3, <4>2, PlaceFacts
      <4> QED BY <3>3, <4>3, <4>4 DEF At
    <3> QED BY <1>9, <2>1, <2>2, <3>1, <3>2, <3>3
  <2>3. CASE p[1] = c /\ p[2] <= cut[N]
    <3> DEFINE k == p[2]
               e == own(k)
    <3>1. k \in 1 .. cut[N] BY <1>1, <1>6, <2>1, <2>3
    <3>2. e \in Executors /\ k \in cut[e] + 1 .. cut[e + 1] BY <1>4, <3>1
    <3>3. h[p] = <<R(e), P(e) + k - cut[e]>> BY <2>3
    <3> HIDE DEF e, k, h
    <3>4. P(e) \in Nat /\ P(e) + k - cut[e] \in 1 .. P(e) + cut[e + 1] - cut[e]
      <4> DEFINE y == cut[e]
                 z == cut[e + 1]
                 w == P(e)
      <4>1. w \in Nat /\ y \in Int /\ z \in Int /\ k \in y + 1 .. z
        BY <1>2, <1>6, <3>2
      <4> HIDE DEF w, y, z
      <4>2. w \in Nat /\ w + k - y \in 1 .. w + z - y BY <4>1
      <4> QED BY <4>2 DEF w, y, z
    <3>5. /\ P(e) + k - cut[e] \in DOMAIN G[R(e)] /\ R(e) \in Queues
          /\ G[R(e)][P(e) + k - cut[e]] = F[c][k]
      BY <1>2, <1>8, <3>2, <3>4
    <3>6. h[p] \in PlacesIn(G) BY <3>3, <3>5, PlaceFacts
    <3>7. At(G, h[p]) = F[c][k] /\ At(F, p) = F[c][k]
      BY <2>3, <3>3, <3>5 DEF At, k
    <3> QED BY <2>1, <3>6, <3>7
  <2>4. CASE p[1] = c /\ ~(p[2] <= cut[N])
    <3>1. h[p] = <<c, p[2] - cut[N]>> BY <2>4
    <3> HIDE DEF h
    <3>2. p[2] - cut[N] \in 1 .. l - cut[N] /\ cut[N] + (p[2] - cut[N]) = p[2]
      BY <1>1, <1>6, <2>1, <2>4
    <3>3. p[2] - cut[N] \in DOMAIN G[c] /\ G[c][p[2] - cut[N]] = F[c][p[2]]
      BY <1>7, <3>2
    <3> QED
      <4> DEFINE u == p[2] - cut[N]
      <4>1. h[p] = <<c, u>> /\ u \in DOMAIN G[c] /\ G[c][u] = F[c][p[2]]
        BY <3>1, <3>3
      <4> HIDE DEF u
      <4>2. <<c, u>> \in PlacesIn(G) /\ At(G, <<c, u>>) = G[c][u]
        BY <4>1, PlaceFacts DEF At
      <4>3. h[p] \in PlacesIn(G) /\ At(G, h[p]) = F[c][p[2]] BY <4>1, <4>2
      <4> QED BY <2>1, <2>4, <4>3 DEF At
  <2> QED BY <2>2, <2>3, <2>4
<1>12. ASSUME NEW p \in PlacesIn(F)
       PROVE  \/ p[1] # c /\ h[p] = p
              \/ \E e \in Executors : /\ p[1] = c /\ p[2] \in cut[e] + 1 .. cut[e + 1]
                                      /\ h[p] = <<R(e), P(e) + p[2] - cut[e]>>
              \/ p[1] = c /\ p[2] \in cut[N] + 1 .. l /\ h[p] = <<c, p[2] - cut[N]>>
  <2>1. p[1] = c => p[2] \in 1 .. l BY <1>1, <1>11
  <2>2. CASE p[1] # c BY <2>2
  <2>3. CASE p[1] = c /\ p[2] <= cut[N]
    <3>1. p[2] \in 1 .. cut[N] BY <1>6, <2>1, <2>3
    <3>2. own(p[2]) \in Executors /\ p[2] \in cut[own(p[2])] + 1 .. cut[own(p[2]) + 1]
      BY <1>4, <3>1
    <3>3. h[p] = <<R(own(p[2])), P(own(p[2])) + p[2] - cut[own(p[2])]>> BY <2>3
    <3> HIDE DEF h
    <3> QED BY <2>3, <3>2, <3>3
  <2>4. CASE p[1] = c /\ ~(p[2] <= cut[N])
    <3>1. p[2] \in cut[N] + 1 .. l BY <1>1, <1>6, <2>1, <2>4
    <3>2. h[p] = <<c, p[2] - cut[N]>> BY <2>4
    <3> HIDE DEF h
    <3> QED BY <2>4, <3>1, <3>2
  <2> QED BY <2>2, <2>3, <2>4
<1> HIDE DEF h
<1>13. ASSUME NEW p \in PlacesIn(F), NEW q \in PlacesIn(F), h[p] = h[q] PROVE p = q
  <2>1. p = <<p[1], p[2]>> /\ q = <<q[1], q[2]>> /\ p[2] \in DOMAIN F[p[1]] /\ q[2] \in DOMAIN F[q[1]]
    BY <1>11
  <2>2. ASSUME NEW e \in Executors, NEW a \in PlacesIn(F), NEW b \in PlacesIn(F),
               a[1] = c, a[2] \in cut[e] + 1 .. cut[e + 1],
               h[a] = <<R(e), P(e) + a[2] - cut[e]>>, h[a] = h[b]
        PROVE  b[1] = c /\ b[2] \in cut[e] + 1 .. cut[e + 1] /\ b[2] = a[2]
    <3>1. P(e) \in Nat /\ DOMAIN F[R(e)] = 1 .. P(e) /\ R(e) # c BY <1>2
    <3>2. P(e) + a[2] - cut[e] > P(e) BY <1>6, <2>2, <3>1
    <3>3. CASE b[1] # c /\ h[b] = b
      <4>1. b[1] = R(e) /\ b[2] = P(e) + a[2] - cut[e] BY <2>2, <3>3
      <4>2. b[2] \in 1 .. P(e) BY <1>11, <3>1, <4>1
      <4> QED BY <3>1, <3>2, <4>1, <4>2
    <3>4. ASSUME NEW f \in Executors, b[1] = c, b[2] \in cut[f] + 1 .. cut[f + 1],
                 h[b] = <<R(f), P(f) + b[2] - cut[f]>>
          PROVE  b[2] \in cut[e] + 1 .. cut[e + 1] /\ b[2] = a[2]
      <4>1. e = f BY <1>10, <2>2, <3>4
      <4>2. P(e) + a[2] - cut[e] = P(e) + b[2] - cut[e] BY <2>2, <3>4, <4>1
      <4> QED
        <5> DEFINE y == cut[e]
                   z == P(e)
        <5>1. y \in Int /\ z \in Int /\ a[2] \in Int /\ b[2] \in Int
          BY <1>6, <2>2, <3>1, <3>4, <4>1
        <5>2. z + a[2] - y = z + b[2] - y BY <4>2
        <5> HIDE DEF y, z
        <5>3. a[2] = b[2] BY <5>1, <5>2
        <5> QED BY <2>2, <5>3
    <3>5. CASE b[1] = c /\ h[b] = <<c, b[2] - cut[N]>> BY <2>2, <3>1, <3>5
    <3> QED BY <1>12, <3>3, <3>4, <3>5
  <2>3. ASSUME NEW e \in Executors,
               p[1] = c, p[2] \in cut[e] + 1 .. cut[e + 1], h[p] = <<R(e), P(e) + p[2] - cut[e]>>
        PROVE  p = q
    BY <1>13, <2>1, <2>2, <2>3
  <2>4. ASSUME NEW e \in Executors,
               q[1] = c, q[2] \in cut[e] + 1 .. cut[e + 1], h[q] = <<R(e), P(e) + q[2] - cut[e]>>
        PROVE  p = q
    BY <1>13, <2>1, <2>2, <2>4
  <2> DEFINE u == p[2] - cut[N]
             v == q[2] - cut[N]
  <2>5. CASE p[1] = c /\ p[2] \in cut[N] + 1 .. l /\ h[p] = <<c, u>>
    <3>1. CASE q[1] = c /\ q[2] \in cut[N] + 1 .. l /\ h[q] = <<c, v>>
      <4>1. u = v
        <5> HIDE DEF u, v
        <5>1. <<c, u>> = <<c, v>> BY <1>13, <2>5, <3>1
        <5> QED BY <5>1
      <4>2. p[2] \in Int /\ q[2] \in Int /\ cut[N] \in Int
        BY <1>1, <1>6, <2>5, <3>1
      <4>3. p[2] = q[2] BY <4>1, <4>2
      <4> QED BY <2>1, <2>5, <3>1, <4>3
    <3>2. CASE q[1] # c /\ h[q] = q
      <4> HIDE DEF u, v
      <4>1. <<c, u>> = q /\ <<c, u>>[1] = c BY <1>13, <2>5, <3>2
      <4> QED BY <3>2, <4>1
    <3> QED BY <1>12, <2>4, <3>1, <3>2
  <2>6. CASE p[1] # c /\ h[p] = p
    <3>1. CASE q[1] = c /\ h[q] = <<c, v>>
      <4> HIDE DEF u, v
      <4>1. <<c, v>> = p /\ <<c, v>>[1] = c BY <1>13, <2>6, <3>1
      <4> QED BY <2>6, <4>1
    <3>2. CASE q[1] # c /\ h[q] = q BY <1>13, <2>6, <3>2
    <3> QED BY <1>12, <2>4, <3>1, <3>2
  <2> QED BY <1>12, <2>3, <2>5, <2>6
<1>14. ASSUME NEW q \in PlacesIn(G) PROVE \E p \in PlacesIn(F) : h[p] = q
  <2>1. q[1] \in Queues /\ q[2] \in DOMAIN G[q[1]] /\ q = <<q[1], q[2]>>
    BY PlaceFacts
  <2>2. CASE q[1] = c
    <3>1. q[2] \in 1 .. l - cut[N] BY <1>7, <2>1, <2>2
    <3>2. cut[N] + q[2] \in 1 .. l /\ ~(cut[N] + q[2] <= cut[N]) /\ (cut[N] + q[2]) - cut[N] = q[2]
      BY <1>1, <1>6, <3>1
    <3>3. <<c, cut[N] + q[2]>> \in PlacesIn(F) BY <1>1, <3>2, PlaceFacts
    <3>4. h[<<c, cut[N] + q[2]>>] = <<c, q[2]>> BY <3>2, <3>3 DEF h
    <3> QED BY <2>1, <2>2, <3>3, <3>4
  <2>3. CASE q[1] # c /\ G[q[1]] = F[q[1]]
    <3>1. q \in PlacesIn(F) BY <2>1, <2>3, PlaceFacts
    <3>2. h[q] = q BY <2>3, <3>1 DEF h
    <3> QED BY <3>1, <3>2
  <2>4. ASSUME NEW e \in Executors, q[1] = R(e)
        PROVE  \E p \in PlacesIn(F) : h[p] = q
    <3>1. /\ q[2] \in 1 .. P(e) + cut[e + 1] - cut[e]
          /\ P(e) \in Nat /\ DOMAIN F[R(e)] = 1 .. P(e) /\ R(e) \in Queues /\ R(e) # c
      BY <1>2, <1>8, <2>1, <2>4
    <3>2. CASE q[2] <= P(e)
      <4>1. q[2] \in DOMAIN F[R(e)] /\ q = <<R(e), q[2]>>
        BY <2>1, <2>4, <3>1, <3>2
      <4>2. q \in PlacesIn(F) BY <3>1, <4>1, PlaceFacts
      <4>3. h[q] = q BY <2>4, <3>1, <4>2 DEF h
      <4> QED BY <4>2, <4>3
    <3>3. CASE ~(q[2] <= P(e))
      <4> DEFINE k == q[2] - P(e) + cut[e]
      <4>1. /\ k \in cut[e] + 1 .. cut[e + 1] /\ k \in 1 .. l
            /\ P(e) + k - cut[e] = q[2] /\ k \in 1 .. cut[N]
        <5> DEFINE y == cut[e]
                   z == cut[e + 1]
                   w == P(e)
                   x == q[2]
        <5>1. /\ w \in Nat /\ l \in Nat /\ y \in 0 .. l /\ z \in 0 .. l
              /\ cut[N] \in 0 .. l /\ z <= cut[N]
              /\ x \in 1 .. w + z - y /\ ~(x <= w) /\ k = x - w + y
          BY <1>1, <1>6, <3>1, <3>3
        <5> HIDE DEF k, w, x, y, z
        <5>2. k \in y + 1 .. z /\ k \in 1 .. l /\ w + k - y = x /\ k \in 1 .. cut[N]
          BY <5>1
        <5> QED BY <5>2 DEF w, x, y, z
      <4> HIDE DEF k
      <4>2. <<c, k>> \in PlacesIn(F) BY <1>1, <4>1, PlaceFacts
      <4>3. own(k) = e BY <1>4, <1>5, <4>1
      <4>4. k <= cut[N] BY <1>6, <4>1
      <4>5. h[<<c, k>>] = <<R(e), P(e) + k - cut[e]>> BY <4>2, <4>3, <4>4 DEF h
      <4> QED BY <2>1, <2>4, <4>1, <4>2, <4>5
    <3> QED BY <3>2, <3>3
  <2> QED BY <1>9, <2>1, <2>2, <2>3, <2>4
<1>15. h \in [PlacesIn(F) \ {} -> PlacesIn(G) \ {}]
  <2>1. h = [p \in PlacesIn(F) \ {} |-> h[p]] BY DEF h
  <2> QED BY <1>11, <2>1
<1> QED BY <1>11, <1>13, <1>14, <1>15 DEF Changed

-----------------------------------------------------------------------------
(* The invariant.                                                            *)

Statics == {r \in Requests : ~Dynamic(r)}
StaticItems == {ItemOf[r] : r \in Statics}

\* The jobs that there may be, by their kind.
Fits(j) ==
  /\ j.kind = "load" => j.of \in Layers
  /\ j.kind = "file" => j.of \in Files /\ j = ParseFile(j.of)
  /\ j.kind = "lines" => j.of \in Files /\ j \in ToSet(LinesJobs(j.of))
  /\ j.kind = "group" => j.of \in Files /\ j.from \in Requests /\ j = ParseGroup(j.of, j.from)
  /\ j.kind = "build" => j.of \in StaticItems /\ j \in ToSet(BuildJobs(j.of))
  /\ j.kind = "init" => \E r \in Statics : j = InitType(ItemOf[r], TypeOf[r])
  /\ j.kind \in {"items", "save"} => j.of \in Subs

JobKinds == {"load", "file", "lines", "group", "build", "init", "items", "save"}

AllJobs ==
  {j \in [kind : JobKinds, of : Layers \cup Files \cup Items \cup Subs,
          from : Nat \cup Requests, count : Nat] : Fits(j)}

ItemsOf(s) == {j \in AllJobs : j.kind = "items" /\ j.of = s}

Labels == {"idle", "run", "wait", "cache", "push", "parse", "publish", "check", "count",
           "complete", "finish"}

\* Types of the variables that the invariant is about.
TypeOK ==
  /\ candidate \in Seq(AllJobs) /\ ready \in [Executors -> Seq(AllJobs)]
  /\ outbox \in [Executors -> Seq(AllJobs)]
  /\ job \in [Executors -> AllJobs \cup {NoJob}] /\ at \in [Executors -> Labels]
  /\ parseFiles \in Seq({ParseFile(f) : f \in Files})
  /\ cache \in [Subs -> Seq(AllJobs)] /\ \A s \in Subs : cache[s] \in Seq(ItemsOf(s))
  /\ readyCount \in [Files -> Nat] /\ groupJobs \in Int
  /\ added \in [Items -> Nat] /\ checked \in [Items -> Nat]

\* What an executor does goes with the job that it has in hand.
StepOf(e) ==
  /\ at[e] = "idle" <=> job[e] = NoJob
  /\ outbox[e] # <<>> => \/ job[e].kind = "lines" /\ at[e] \in {"cache", "push"}
                         \/ job[e].kind = "group" /\ at[e] \in {"parse", "publish"}
  /\ at[e] \in {"cache", "push"} => job[e].kind = "lines"
  /\ at[e] = "cache" =>
       outbox[e] = [k \in DOMAIN News(e) |-> ParseGroup(job[e].of, News(e)[k])]
  /\ at[e] \in {"check", "count"} => job[e].kind = "build"

Steps == \A e \in Executors : StepOf(e)

Present == JobsIn(Queue)
JobsOf(kind, x) == {j \in Present : j.kind = kind /\ j.of = x}
InHand(labels) == {job[e] : e \in {x \in Executors : at[x] \in labels}}

\* A file, a type and a part of its lines, of a group's items or of a layer's items have
\* one job each, and a job that lies in the cache is nowhere else.
OnceIn(c, jobs) == \A s \in Subs : IsInjective(c[s]) /\ ToSet(c[s]) \cap jobs = {}
NoneTwice ==
  /\ NoneTwiceIn(Queue)
  /\ \A k \in DOMAIN parseFiles : parseFiles[k] \notin Present
  /\ \A k, m \in DOMAIN parseFiles : parseFiles[k] = parseFiles[m] => k = m
  /\ OnceIn(cache, Present)

GroupsCounted == IsFiniteSet(GroupsIn(Queue)) /\ groupJobs = Cardinality(GroupsIn(Queue))

\* readyCount_ is what the jobs that have not counted their lines leave over.
FilePending(f) == ParseFile(f) \in Present \/ ParseFile(f) \in ToSet(parseFiles)
LinesLeft(f) == Span(JobsOf("lines", f) \ InHand({"push"}))
LinesCountedOf(f) ==
  /\ FilePending(f) => readyCount[f] = 0 /\ JobsOf("lines", f) = {}
  /\ ~FilePending(f) => readyCount[f] + Cardinality(LinesLeft(f)) = Len(Lines[f])
LinesCounted == \A f \in Files : LinesCountedOf(f)

\* A group that a counted line names has its pointer, or a job that will set it.
Counted(f, k) == ~FilePending(f) /\ k \notin LinesLeft(f)
NamesFollowedOf(f) ==
  \A k \in DOMAIN Lines[f] : \A r \in ToSet(Lines[f][k]) :
    Counted(f, k) => <<f, r>> \in resolved \/ ParseGroup(f, r) \in Present
NamesFollowed == \A f \in Files : NamesFollowedOf(f)

\* Items lie in the cache when their lines have been counted, as long as some
\* group is to be parsed, and leave it when every group they need is there.
Parsed(f) == ~FilePending(f) /\ JobsOf("lines", f) \subseteq InHand({"push"})
Resolved(f) == {f} \X RequestsOf(f) \subseteq resolved
ItemsHeldBack ==
  \A s \in Subs :
    /\ cache[s] # <<>> => Parsed(FileOf[s]) /\ groupJobs > 0
    /\ JobsOf("items", s) # {} => Parsed(FileOf[s]) /\ Resolved(FileOf[s])

\* group_ and checkedCount_ lack what the jobs that build the group have left.
Unadded(i) == Span(JobsOf("build", i) \ InHand({"check", "count"}))
Unchecked(i) == Span(JobsOf("build", i))
ItemsCountedOf(i) ==
  /\ <<"item", i>> \in known =>
       /\ added[i] + Cardinality(Unadded(i)) = Size[Plugin[i]]
       /\ checked[i] + Cardinality(Unchecked(i)) = Size[Plugin[i]]
  /\ <<"item", i>> \notin known =>
       added[i] = 0 /\ checked[i] = 0 /\ JobsOf("build", i) = {}
  /\ i \in itemReady => <<"item", i>> \in known /\ Unadded(i) = {}
ItemsCounted == \A i \in StaticItems : ItemsCountedOf(i)

TypesFollowItems ==
  /\ \A r \in Statics : <<"type", TypeOf[r]>> \in known => <<"item", ItemOf[r]>> \in known
  /\ \A t \in typeReady : \E r \in Statics : TypeOf[r] = t /\ ItemOf[r] \in itemReady
  /\ \A j \in Present : j.kind = "init" => <<"type", j.from>> \in known

Inv ==
  /\ TypeOK /\ Steps /\ NoneTwice /\ GroupsCounted
  /\ LinesCounted /\ NamesFollowed /\ ItemsHeldBack
  /\ ItemsCounted /\ TypesFollowItems

-----------------------------------------------------------------------------
(* The jobs that are made are jobs that there may be.                        *)

\* The jobs that are made singly are jobs that there may be.
LEMMA JobsAreJobs ==
  /\ \A l \in Layers : Load(l) \in AllJobs
  /\ \A f \in Files : ParseFile(f) \in AllJobs
  /\ \A f \in Files, r \in Requests : ParseGroup(f, r) \in AllJobs
  /\ \A r \in Statics : InitType(ItemOf[r], TypeOf[r]) \in AllJobs
  /\ \A s \in Subs : Save(s) \in AllJobs
  /\ NoJob.kind = "none" /\ NoJob \notin AllJobs
<1> DEFINE all == [kind : JobKinds, of : Layers \cup Files \cup Items \cup Subs,
                   from : Nat \cup Requests, count : Nat]
<1>1. \A kind \in JobKinds, of \in Layers \cup Files \cup Items \cup Subs,
         from \in Nat \cup Requests, count \in Nat : Job(kind, of, from, count) \in all
  BY DEF Job
<1> HIDE DEF all
<1>2. \A j \in all : Fits(j) => j \in AllJobs BY DEF AllJobs, all
<1>3. \A l \in Layers : Load(l) \in AllJobs
  <2> TAKE l \in Layers
  <2>1. Load(l) \in all BY <1>1 DEF Load, JobKinds
  <2>2. Fits(Load(l)) BY JobFields DEF Fits, Load
  <2> QED BY <1>2, <2>1, <2>2
<1>4. \A f \in Files : ParseFile(f) \in AllJobs
  <2> TAKE f \in Files
  <2>1. ParseFile(f) \in all BY <1>1 DEF ParseFile, JobKinds
  <2>2. Fits(ParseFile(f)) BY JobFields DEF Fits, ParseFile
  <2> QED BY <1>2, <2>1, <2>2
<1>5. \A f \in Files, r \in Requests : ParseGroup(f, r) \in AllJobs
  <2> TAKE f \in Files, r \in Requests
  <2>1. ParseGroup(f, r) \in all BY <1>1 DEF ParseGroup, JobKinds
  <2>2. Fits(ParseGroup(f, r)) BY JobFields DEF Fits, ParseGroup
  <2> QED BY <1>2, <2>1, <2>2
<1>6. \A r \in Statics : InitType(ItemOf[r], TypeOf[r]) \in AllJobs
  <2> TAKE r \in Statics
  <2>1. ItemOf[r] \in Items /\ TypeOf[r] \in Nat
    BY ScenarioAssumption DEF Statics
  <2>2. InitType(ItemOf[r], TypeOf[r]) \in all
    BY <1>1, <2>1 DEF InitType, JobKinds
  <2>3. Fits(InitType(ItemOf[r], TypeOf[r])) BY JobFields DEF Fits, InitType
  <2> QED BY <1>2, <2>2, <2>3
<1>7. \A s \in Subs : Save(s) \in AllJobs
  <2> TAKE s \in Subs
  <2>1. Save(s) \in all BY <1>1 DEF Save, JobKinds
  <2>2. Fits(Save(s)) BY JobFields DEF Fits, Save
  <2> QED BY <1>2, <2>1, <2>2
<1>8. NoJob.kind = "none" BY JobFields DEF NoJob
<1>9. NoJob \notin AllJobs
  <2>1. \A j \in AllJobs : j.kind \in JobKinds BY DEF AllJobs
  <2> QED BY <1>8, <2>1 DEF JobKinds
<1> QED BY <1>3, <1>4, <1>5, <1>6, <1>7, <1>8, <1>9

\* The kind of a job says what it is about.
LEMMA FieldsOfJobs ==
  \A j \in AllJobs : j.kind \in JobKinds /\ j.count \in Nat /\ Fits(j)
  BY DEF AllJobs

\* The types of the numbers a scenario gives.
LEMMA ConstantTypes ==
  /\ N \in Nat \ {0} /\ LinesPerJob \in Nat \ {0} /\ ItemsPerJob \in Nat \ {0}
  /\ Half(LinesPerJob) \in 0 .. LinesPerJob /\ Half(ItemsPerJob) \in 0 .. ItemsPerJob
  /\ Half(ItemsPerJob) + 1 \in 0 .. ItemsPerJob
  /\ \A f \in Files : Lines[f] \in Seq(Seq(Requests)) /\ Len(Lines[f]) \in Nat
  /\ \A i \in Items : Plugin[i] \in Layers /\ Size[Plugin[i]] \in Nat
  /\ \A s \in Subs : FileOf[s] \in Files /\ Src[s] \in Layers /\ Size[Src[s]] \in Nat
  /\ \A f \in Files : SubOf(f) \in Subs /\ FileOf[SubOf(f)] = f
  /\ Files \subseteq Nat /\ StaticItems \subseteq Items
<1>1. /\ N \in Nat \ {0} /\ LinesPerJob \in Nat \ {0} /\ ItemsPerJob \in Nat \ {0}
  BY ScenarioAssumption
<1>2. \A p \in Nat \ {0} : p \div 2 \in 0 .. p /\ p \div 2 + 1 \in 0 .. p
  BY SMT
<1>3. \A f \in Files : Lines[f] \in Seq(Seq(Requests)) /\ f \in Nat
  <2>1. Lines \in Seq(Seq(Seq(Requests))) BY ScenarioAssumption
  <2> QED BY <2>1, LenProperties, ElementOfSeq DEF Files
<1>4. \A f \in Files : Len(Lines[f]) \in Nat BY <1>3, LenProperties
<1>5. \A i \in Items : Plugin[i] \in Layers /\ Size[Plugin[i]] \in Nat
  BY ScenarioAssumption
<1>6. \A s \in Subs : FileOf[s] \in Files /\ Src[s] \in Layers /\ Size[Src[s]] \in Nat
  <2>1. FileOf \in Seq(Files) /\ Src \in [Subs -> Layers] /\ Size \in [Layers -> Nat]
    BY ScenarioAssumption
  <2>2. \A s \in Subs : FileOf[s] \in Files
    BY <2>1, LenProperties, ElementOfSeq DEF Subs
  <2> QED BY <2>1, <2>2
<1>7. \A f \in Files : SubOf(f) \in Subs /\ FileOf[SubOf(f)] = f
  BY ScenarioAssumption DEF SubOf
<1>8. StaticItems \subseteq Items
  BY ScenarioAssumption DEF StaticItems, Statics
<1> QED BY <1>1, <1>2, <1>3, <1>4, <1>5, <1>6, <1>7, <1>8 DEF Half

\* A line names groups.
LEMMA NamesAreRequests ==
  \A f \in Files : \A k \in DOMAIN Lines[f] :
    Lines[f][k] \in Seq(Requests) /\ ToSet(Lines[f][k]) \subseteq Requests
<1> TAKE f \in Files
<1> TAKE k \in DOMAIN Lines[f]
<1>1. Lines[f] \in Seq(Seq(Requests)) BY ConstantTypes
<1>2. Lines[f][k] \in Seq(Requests) BY <1>1, LenProperties, ElementOfSeq
<1>3. \A m \in DOMAIN Lines[f][k] : Lines[f][k][m] \in Requests
  BY <1>2, LenProperties, ElementOfSeq
<1> QED BY <1>2, <1>3 DEF ToSet

\* The parts of a whole: jobs of one kind and subject, apart from one another.
Parts(jobs, kind, of, total) ==
  /\ jobs \in Seq(AllJobs)
  /\ \A k \in DOMAIN jobs : jobs[k].kind = kind /\ jobs[k].of = of
  /\ \A k, m \in DOMAIN jobs : k # m => jobs[k] # jobs[m]
  /\ \A j, k \in ToSet(jobs) : j # k => Elems(j) \cap Elems(k) = {}
  /\ Span(ToSet(jobs)) = 1 .. total

\* The jobs of a partition are its parts, when they are jobs that there may be.
LEMMA PartsOfPartition ==
  ASSUME NEW kind \in JobKinds, NEW of \in Files \cup Items \cup Subs,
         NEW total \in Nat, NEW perJob \in Nat \ {0}, NEW limit \in 0 .. perJob,
         \A j \in ToSet(Jobs(kind, of, total, perJob, limit)) : Fits(j)
  PROVE  Parts(Jobs(kind, of, total, perJob, limit), kind, of, total)
<1> DEFINE made == Jobs(kind, of, total, perJob, limit)
<1>0. made = Jobs(kind, of, total, perJob, limit) OBVIOUS
<1> HIDE DEF made
<1>1. Divides(made, kind, of, total) BY <1>0, JobsOfPartition
<1>2. ASSUME NEW k \in DOMAIN made PROVE made[k] \in AllJobs /\ made[k].kind = kind /\ made[k].of = of
  <2>1. made[k] \in [kind : JobKinds, of : Layers \cup Files \cup Items \cup Subs,
                     from : Nat \cup Requests, count : Nat]
    <3> DEFINE a == made[k].from
               b == made[k].count
    <3>1. made[k] = Job(kind, of, a, b) /\ a \in Nat /\ b \in Nat
      BY <1>1 DEF Divides
    <3> HIDE DEF a, b
    <3> QED BY <3>1 DEF Job
  <2>2. Fits(made[k])
    <3>1. made[k] \in ToSet(made) BY DEF ToSet
    <3> QED BY <3>1 DEF made
  <2>3. made[k].kind = kind /\ made[k].of = of BY <1>1, JobFields DEF Divides
  <2> QED BY <2>1, <2>2, <2>3 DEF AllJobs
<1>3. made \in Seq(AllJobs)
  <2>1. ToSet(made) \subseteq AllJobs BY <1>2 DEF ToSet
  <2> QED BY <1>1, <2>1, SeqMonotonic DEF Divides
<1>4. \A j, k \in ToSet(made) : j # k => Elems(j) \cap Elems(k) = {}
  BY <1>1 DEF Divides, ToSet
<1>5. Span(ToSet(made)) = 1 .. total BY <1>1 DEF Divides, Span, ToSet
<1>6. \A k, m \in DOMAIN made : k # m => made[k] # made[m] BY <1>1 DEF Divides
<1>7. Parts(made, kind, of, total) BY <1>2, <1>3, <1>4, <1>5, <1>6 DEF Parts
<1> QED BY <1>0, <1>7

\* When elements are divided into several jobs, each job has some of them.
LEMMA NoEmptyParts ==
  ASSUME NEW kind \in JobKinds, NEW of, NEW total \in Nat, NEW p \in Nat \ {0},
         NEW limit \in 0 .. p, limit > 0, NEW a \in ToSet(Jobs(kind, of, total, p, limit)),
         NEW b \in ToSet(Jobs(kind, of, total, p, limit)), a # b
  PROVE  Elems(a) # {}
<1> DEFINE slice == Slice(total, p, limit)
           full == FullJobs(total, p, limit)
           made == Jobs(kind, of, total, p, limit)
<1>2. /\ made = [k \in DOMAIN slice |-> Job(kind, of, slice[k].start, slice[k].count)]
      /\ DOMAIN slice = 1 .. full + 1 /\ full \in Nat
      /\ \A k \in 1 .. full + 1 : slice[k].count = IF k <= full THEN p ELSE total - full * p
  <2>1. made = [k \in DOMAIN slice |-> Job(kind, of, slice[k].start, slice[k].count)]
    BY DEF Jobs
  <2>2. full \in Nat BY FullJobsBounds
  <2>3. /\ DOMAIN slice = 1 .. full + 1
        /\ \A k \in 1 .. full + 1 : slice[k].count = IF k <= full THEN p ELSE total - full * p
    BY DEF Slice
  <2> QED BY <2>1, <2>2, <2>3
<1>3. ASSUME full # 0 PROVE total - full * p > 0
  <2> DEFINE whole == total \div p
  <2>1. whole \in Nat /\ whole * p <= total /\ total < whole * p + p
    BY WholeJobs
  <2>2. full = IF total - whole * p < limit /\ whole > 0 THEN whole - 1 ELSE whole
    BY DEF FullJobs
  <2> HIDE DEF whole, full
  <2>3. CASE total - whole * p < limit /\ whole > 0
    <3>1. full = whole - 1 BY <2>2, <2>3
    <3>2. (whole - 1) * p = whole * p - p BY <2>1
    <3> QED BY <2>1, <3>1, <3>2
  <2>4. CASE ~(total - whole * p < limit /\ whole > 0)
    <3>1. full = whole BY <2>2, <2>4
    <3> QED BY <1>3, <2>1, <2>4, <3>1
  <2> QED BY <2>3, <2>4
<1> HIDE DEF full, slice
<1>4. PICK k \in 1 .. full + 1, m \in 1 .. full + 1 : made[k] = a /\ made[m] = b /\ k # m
  <2>1. DOMAIN made = 1 .. full + 1 BY <1>2
  <2> HIDE DEF made
  <2>2. a \in ToSet(made) /\ b \in ToSet(made) BY DEF made
  <2> QED BY <2>1, <2>2 DEF ToSet
<1>5. full # 0 BY <1>2, <1>4
<1>6. slice[k].count \in Nat /\ slice[k].count > 0
  <2>1. full * p \in Int BY <1>2
  <2> QED BY <1>2, <1>3, <1>5, <2>1
<1>7. a.from \in Nat /\ a.count = slice[k].count
  <2>1. Divides(made, kind, of, total) BY JobsOfPartition
  <2>2. a.count = slice[k].count BY <1>2, <1>4, JobFields
  <2> HIDE DEF made
  <2> QED BY <1>2, <1>4, <2>1, <2>2 DEF Divides
<1>8. a.from + 1 \in Elems(a) BY <1>6, <1>7 DEF Elems
<1> QED BY <1>8

\* When a file's lines or a group's items have several jobs, each job has some.
LEMMA NoEmptyLines ==
  ASSUME NEW f \in Files, NEW a \in ToSet(LinesJobs(f)), NEW b \in ToSet(LinesJobs(f)), a # b
  PROVE  Elems(a) # {}
<1> DEFINE total == Len(Lines[f])
           p == LinesPerJob
           limit == Half(p)
<1>1. total \in Nat /\ p \in Nat \ {0} /\ limit \in 0 .. p /\ limit > 0
  <2>1. total \in Nat /\ p \in Nat \ {0} /\ limit \in 0 .. p BY ConstantTypes
  <2>2. \A n \in Nat \ {0, 1} : n \div 2 > 0 BY SMT
  <2>3. p \in Nat \ {0, 1} BY ScenarioAssumption
  <2> HIDE DEF p
  <2> QED BY <2>1, <2>2, <2>3 DEF Half
<1>2. LinesJobs(f) = Jobs("lines", f, total, p, limit) /\ "lines" \in JobKinds
  BY DEF LinesJobs, JobKinds
<1> HIDE DEF total, p, limit
<1> QED BY <1>1, <1>2, NoEmptyParts

\* The same of the jobs that build a group.
LEMMA NoEmptyBuilds ==
  ASSUME NEW i \in StaticItems, NEW a \in ToSet(BuildJobs(i)), NEW b \in ToSet(BuildJobs(i)),
         a # b
  PROVE  Elems(a) # {}
<1> DEFINE total == Size[Plugin[i]]
           p == ItemsPerJob
           limit == Half(p) + 1
<1>1. total \in Nat /\ p \in Nat \ {0} /\ limit \in 0 .. p /\ limit > 0
  <2>1. total \in Nat /\ p \in Nat \ {0} /\ limit \in 0 .. p BY ConstantTypes
  <2>2. Half(p) \in Nat BY <2>1 DEF Half
  <2> HIDE DEF p
  <2> QED BY <2>1, <2>2
<1>2. BuildJobs(i) = Jobs("build", i, total, p, limit) /\ "build" \in JobKinds
  BY DEF BuildJobs, JobKinds
<1> HIDE DEF total, p, limit
<1> QED BY <1>1, <1>2, NoEmptyParts

\* The three partitions of the program.
LEMMA PartsOfLines ==
  ASSUME NEW f \in Files
  PROVE  Parts(LinesJobs(f), "lines", f, Len(Lines[f]))
<1>1. \A j \in ToSet(LinesJobs(f)) : j.kind = "lines" /\ j.of = f
  BY JobFields DEF ToSet, LinesJobs, Jobs
<1>2. \A j \in ToSet(LinesJobs(f)) : Fits(j) BY <1>1 DEF Fits
<1> QED BY <1>2, ConstantTypes, PartsOfPartition DEF LinesJobs, JobKinds

\* The jobs that the items of a file are divided into (ExecutorJobFunc.cpp:158-175).
LEMMA PartsOfItems ==
  ASSUME NEW s \in Subs, NEW size \in Nat
  PROVE  Parts(ItemsJobs(s, size), "items", s, size)
<1>1. \A j \in ToSet(ItemsJobs(s, size)) : j.kind = "items" /\ j.of = s
  BY JobFields DEF ToSet, ItemsJobs, Jobs
<1>2. \A j \in ToSet(ItemsJobs(s, size)) : Fits(j) BY <1>1 DEF Fits
<1> QED BY <1>2, ConstantTypes, PartsOfPartition DEF ItemsJobs, JobKinds

\* The jobs that build a group.
LEMMA PartsOfGroup ==
  ASSUME NEW i \in StaticItems
  PROVE  Parts(BuildJobs(i), "build", i, Size[Plugin[i]])
<1>1. \A j \in ToSet(BuildJobs(i)) : j.kind = "build" /\ j.of = i
  BY JobFields DEF ToSet, BuildJobs, Jobs
<1>2. \A j \in ToSet(BuildJobs(i)) : Fits(j) BY <1>1 DEF Fits
<1> QED BY <1>2, ConstantTypes, PartsOfPartition DEF BuildJobs, JobKinds

-----------------------------------------------------------------------------
(* What a step does to the jobs that are present.                            *)

\* Jobs in drop may go, those in more come, and delta is the change of the
\* number of ParseGroup jobs.
Effect(drop, more, delta) ==
  /\ Present \ drop \subseteq Present' /\ more \subseteq Present'
  /\ Present' \subseteq Present \cup more
  /\ \A j \in drop \ more : j.kind \in Once => j \notin Present'
  /\ NoneTwiceIn(Queue')
  /\ IsFiniteSet(GroupsIn(Queue'))
  /\ Cardinality(GroupsIn(Queue')) = Cardinality(GroupsIn(Queue)) + delta

Candidates == <<"candidate", 0>>
Ready(e) == <<"ready", e>>
Outbox(e) == <<"new", e>>
Hand(e) == <<"hand", e>>

\* The queues differ from one another.
LEMMA QueueNames ==
  /\ Candidates \in Queues
  /\ \A e \in Executors : /\ Ready(e) \in Queues /\ Outbox(e) \in Queues /\ Hand(e) \in Queues
                          /\ Ready(e) # Candidates /\ Outbox(e) # Candidates
                          /\ Hand(e) # Candidates /\ Ready(e) # Outbox(e)
                          /\ Ready(e) # Hand(e) /\ Outbox(e) # Hand(e)
  /\ \A e, x \in Executors : e # x => /\ Ready(e) # Ready(x) /\ Outbox(e) # Outbox(x)
                                      /\ Hand(e) # Hand(x)
  /\ \A q \in Queues : q = Candidates \/ \E e \in Executors : q \in {Ready(e), Outbox(e), Hand(e)}
  BY DEF Queues, Candidates, Ready, Outbox, Hand

\* What each queue holds.
LEMMA QueueValues ==
  /\ Queue[Candidates] = candidate
  /\ \A e \in Executors :
       /\ Queue[Ready(e)] = ready[e]
       /\ Queue[Outbox(e)] = IF at[e] = "cache" THEN <<>> ELSE outbox[e]
       /\ Queue[Hand(e)] = IF job[e] = NoJob THEN <<>> ELSE <<job[e]>>
  BY QueueNames DEF Queue, Candidates, Ready, Outbox, Hand

\* The same after a step.
LEMMA QueueValuesNext ==
  /\ Queue'[Candidates] = candidate'
  /\ \A e \in Executors :
       /\ Queue'[Ready(e)] = ready'[e]
       /\ Queue'[Outbox(e)] = IF at'[e] = "cache" THEN <<>> ELSE outbox'[e]
       /\ Queue'[Hand(e)] = IF job'[e] = NoJob THEN <<>> ELSE <<job'[e]>>
  BY QueueNames DEF Queue, Candidates, Ready, Outbox, Hand

\* An executor that keeps its job and its outbox keeps their queues.
LEMMA ExecutorKept ==
  ASSUME NEW e \in Executors, job'[e] = job[e], outbox'[e] = outbox[e],
         at'[e] = "cache" <=> at[e] = "cache"
  PROVE  /\ Queue'[Outbox(e)] = Queue[Outbox(e)] /\ Queue'[Hand(e)] = Queue[Hand(e)]
         /\ ready'[e] = ready[e] => Queue'[Ready(e)] = Queue[Ready(e)]
<1>1. Queue'[Outbox(e)] = Queue[Outbox(e)] BY QueueValues, QueueValuesNext
<1>2. Queue'[Hand(e)] = Queue[Hand(e)] BY QueueValues, QueueValuesNext
<1>3. ready'[e] = ready[e] => Queue'[Ready(e)] = Queue[Ready(e)]
  BY QueueValues, QueueValuesNext
<1> QED BY <1>1, <1>2, <1>3

\* The jobs after a step are those of the queues after it.
LEMMA PresentNext == Present' = JobsIn(Queue')
  BY DEF Present

\* A step that leaves every queue as it is.
LEMMA QueuesSame ==
  ASSUME NoneTwice, GroupsCounted, \A q \in Queues : Queue'[q] = Queue[q]
  PROVE  Effect({}, {}, 0) /\ Present' = Present
<1>1. PlacesIn(Queue') = PlacesIn(Queue) BY DEF PlacesIn
<1>2. \A p \in PlacesIn(Queue) : At(Queue', p) = At(Queue, p)
  BY PlaceFacts DEF At
<1>3. Present' = Present BY <1>1, <1>2, PresentNext DEF JobsIn, Present
<1>4. NoneTwiceIn(Queue') BY <1>1, <1>2 DEF NoneTwiceIn, NoneTwice
<1>5. GroupsIn(Queue') = GroupsIn(Queue) BY <1>1, <1>2 DEF GroupsIn
<1>6. Cardinality(GroupsIn(Queue)) \in Nat
  BY FS_CardinalityType DEF GroupsCounted
<1> QED BY <1>3, <1>4, <1>5, <1>6 DEF Effect, GroupsCounted

\* Jobs of a sequence that may be pushed.
Fresh(more) ==
  \A k \in DOMAIN more : more[k].kind \in Once =>
    more[k] \notin Present /\ \A m \in DOMAIN more : more[m] = more[k] => m = k

\* The jobs only change places.
LEMMA EffectOfMove ==
  ASSUME NoneTwice, GroupsCounted, Changed(Queue, Queue', {}, {})
  PROVE  Effect({}, {}, 0) /\ Present' = Present
<1>1. /\ JobsIn(Queue') \subseteq JobsIn(Queue) \cup {At(Queue', q) : q \in {}}
      /\ JobsIn(Queue) \ {At(Queue, p) : p \in {}} \subseteq JobsIn(Queue')
  BY ChangedJobs
<1>2. Present' = Present BY <1>1, PresentNext DEF Present
<1>3. NoneTwiceIn(Queue') BY ChangedOnce DEF NoneTwice
<1>4. /\ IsFiniteSet(GroupsIn(Queue'))
      /\ Cardinality(GroupsIn(Queue')) = Cardinality(GroupsIn(Queue))
  <2>1. GroupsIn(Queue') \cap {} = {} /\ GroupsIn(Queue) \ {} = GroupsIn(Queue)
    OBVIOUS
  <2>2. /\ IsFiniteSet(GroupsIn(Queue'))
        /\ Cardinality(GroupsIn(Queue')) = Cardinality(GroupsIn(Queue)) + Cardinality({})
    BY <2>1, ChangedGroups, FS_EmptySet DEF GroupsCounted
  <2>3. Cardinality({}) = 0 BY FS_EmptySet
  <2>4. Cardinality(GroupsIn(Queue)) \in Nat
    BY FS_CardinalityType DEF GroupsCounted
  <2> QED BY <2>2, <2>3, <2>4
<1>5. Cardinality(GroupsIn(Queue)) \in Nat
  BY FS_CardinalityType DEF GroupsCounted
<1> QED BY <1>2, <1>3, <1>4, <1>5 DEF Effect

\* Queue c grows by more, of which the first n are ParseGroup jobs.
LEMMA EffectOfGrowth ==
  ASSUME NoneTwice, GroupsCounted, NEW c \in Queues, NEW S,
         Queue[c] \in Seq(S), NEW more \in Seq(S), Fresh(more),
         Queue'[c] = Queue[c] \o more, \A q \in Queues \ {c} : Queue'[q] = Queue[q],
         NEW n \in 0 .. Len(more), \A k \in DOMAIN more : more[k].kind = "group" <=> k <= n
  PROVE  Effect({}, ToSet(more), n)
<1> DEFINE m == Len(Queue[c])
           new == {<<c, m + k>> : k \in DOMAIN more}
<1>1. /\ Changed(Queue, Queue', {}, new)
      /\ \A k \in DOMAIN more : At(Queue', <<c, m + k>>) = more[k]
  <2> DEFINE F == Queue
             G == Queue'
  <2>1. /\ F[c] \in Seq(S) /\ G[c] = F[c] \o more
        /\ \A q \in Queues \ {c} : G[q] = F[q]
    OBVIOUS
  <2> HIDE DEF F, G
  <2> HIDE DEF new
  <2>2. new = EndOf(c, Len(F[c]), more) BY DEF new, F, EndOf
  <2>3. Changed(F, G, {}, new) /\ AtEnd(G, c, Len(F[c]), more)
    BY <2>1, <2>2, GrowChanges
  <2> QED BY <2>3 DEF F, G, AtEnd
<1>2. m \in Nat /\ Len(more) \in Nat /\ DOMAIN more = 1 .. Len(more)
  BY LenProperties
<1> HIDE DEF m
<1>3. {At(Queue', q) : q \in new} = ToSet(more)
  <2>1. \A k \in DOMAIN more : At(Queue', <<c, m + k>>) = more[k] BY <1>1
  <2>2. ASSUME NEW q \in new PROVE At(Queue', q) \in ToSet(more)
    <3>1. PICK k \in DOMAIN more : q = <<c, m + k>> OBVIOUS
    <3> QED BY <2>1, <3>1 DEF ToSet
  <2>3. ASSUME NEW x \in ToSet(more) PROVE \E q \in new : x = At(Queue', q)
    <3>1. PICK k \in DOMAIN more : x = more[k] BY DEF ToSet
    <3>2. <<c, m + k>> \in new OBVIOUS
    <3> QED BY <2>1, <3>1, <3>2
  <2> HIDE DEF new
  <2> QED BY <2>2, <2>3
<1>4. /\ JobsIn(Queue') \subseteq JobsIn(Queue) \cup ToSet(more)
      /\ ToSet(more) \subseteq JobsIn(Queue') /\ JobsIn(Queue) \subseteq JobsIn(Queue')
  <2>1. /\ JobsIn(Queue') \subseteq JobsIn(Queue) \cup {At(Queue', q) : q \in new}
        /\ {At(Queue', q) : q \in new} \subseteq JobsIn(Queue')
        /\ JobsIn(Queue) \ {At(Queue, p) : p \in {}} \subseteq JobsIn(Queue')
    <3> HIDE DEF new
    <3> QED BY <1>1, ChangedJobs
  <2> QED BY <1>3, <2>1
<1>5. NoneTwiceIn(Queue')
  <2>1. ASSUME NEW p \in new, NEW q \in new, At(Queue', p) = At(Queue', q),
               At(Queue', p).kind \in Once
        PROVE  p = q
    BY <1>1, <2>1 DEF Fresh
  <2>2. ASSUME NEW q \in new, At(Queue', q).kind \in Once
        PROVE  At(Queue', q) \notin JobsIn(Queue)
    BY <1>1, <2>2 DEF Fresh, Present
  <2> HIDE DEF new
  <2> QED BY <1>1, <2>1, <2>2, ChangedOnce DEF NoneTwice
<1>6. /\ IsFiniteSet(GroupsIn(Queue') \cap new)
      /\ Cardinality(GroupsIn(Queue') \cap new) = n
  <2> DEFINE S1 == 1 .. n
             T == GroupsIn(Queue') \cap new
             h == [k \in S1 |-> <<c, m + k>>]
  <2>1. IsFiniteSet(S1) /\ Cardinality(S1) = n
    <3> HIDE DEF T, h, new
    <3>1. n \in Nat BY <1>2
    <3> QED BY <3>1, CountUpTo
  <2>2. new \subseteq PlacesIn(Queue') BY <1>1 DEF Changed
  <2>3. ASSUME NEW k \in S1 PROVE h[k] \in T
    <3>1. k \in DOMAIN more /\ k <= n BY <1>2
    <3>2. <<c, m + k>> \in new /\ At(Queue', <<c, m + k>>).kind = "group"
      BY <1>1, <3>1
    <3> QED BY <2>2, <3>2 DEF GroupsIn
  <2>4. ASSUME NEW q \in T PROVE \E k \in S1 : h[k] = q
    <3>1. PICK k \in DOMAIN more : q = <<c, m + k>> OBVIOUS
    <3>2. more[k].kind = "group" BY <1>1, <3>1 DEF GroupsIn
    <3>3. k \in S1 BY <1>2, <3>2
    <3> QED BY <3>1, <3>3
  <2>5. ASSUME NEW k \in S1, NEW l \in S1, h[k] = h[l] PROVE k = l
    <3>1. m + k = m + l BY <2>5
    <3> QED BY <1>2, <3>1
  <2>6. h \in [S1 -> T] BY <2>3
  <2>7. ExistsBijection(S1, T)
    <3> HIDE DEF S1, T, h
    <3>1. h \in Injection(S1, T)
      BY <2>5, <2>6, Zenon DEF Injection, IsInjective
    <3>2. h \in Surjection(S1, T) BY <2>4, <2>6, Zenon DEF Surjection
    <3> QED BY <3>1, <3>2, Zenon DEF ExistsBijection, Bijection
  <2> HIDE DEF S1, T
  <2>8. IsFiniteSet(T) /\ Cardinality(T) = Cardinality(S1)
    BY <2>1, <2>7, FS_Bijection
  <2> QED BY <2>1, <2>8 DEF T
<1>7. /\ IsFiniteSet(GroupsIn(Queue'))
      /\ Cardinality(GroupsIn(Queue')) = Cardinality(GroupsIn(Queue)) + n
  <2>1. GroupsIn(Queue) \ {} = GroupsIn(Queue) OBVIOUS
  <2> HIDE DEF new
  <2> QED BY <1>1, <1>6, <2>1, ChangedGroups DEF GroupsCounted
<1> QED BY <1>4, <1>5, <1>7, PresentNext DEF Effect, Present

\* A job ends: what it has made goes to the candidates, and more.
JobEnded(e, more) ==
  /\ job[e] # NoJob /\ job'[e] = NoJob /\ at[e] # "cache" /\ outbox'[e] = <<>>
  /\ candidate' = candidate \o (outbox[e] \o more) /\ ready' = ready
  /\ \A y \in Executors \ {e} : job'[y] = job[y] /\ outbox'[y] = outbox[y] /\ at'[y] = at[y]

NoGroups(more) == \A k \in DOMAIN more : more[k].kind # "group"

\* A job ends and its executor pushes more: one job goes, more come.
LEMMA EffectOfEnd ==
  ASSUME NoneTwice, GroupsCounted, TypeOK, NEW e \in Executors,
         NEW more \in Seq(AllJobs), JobEnded(e, more), Fresh(more), NoGroups(more)
  PROVE  Effect({job[e]}, ToSet(more), IF job[e].kind = "group" THEN -1 ELSE 0)
<1> DEFINE x == <<Hand(e), 1>>
           m == Len(candidate) + Len(outbox[e])
           new == {<<Candidates, m + k>> : k \in DOMAIN more}
<1>1. /\ Changed(Queue, Queue', {x}, new) /\ At(Queue, x) = job[e]
      /\ \A k \in DOMAIN more : At(Queue', <<Candidates, m + k>>) = more[k]
  <2>1. /\ Queue[Candidates] = candidate /\ Queue[Outbox(e)] = outbox[e]
        /\ Queue[Hand(e)] = <<job[e]>>
        /\ Queue'[Candidates] = candidate \o (outbox[e] \o more)
        /\ Queue'[Outbox(e)] = <<>> /\ Queue'[Hand(e)] = <<>>
    BY QueueValues, QueueValuesNext DEF JobEnded
  <2>2. ASSUME NEW q \in Queues \ {Candidates, Outbox(e), Hand(e)} PROVE Queue'[q] = Queue[q]
    <3>1. PICK y \in Executors : q \in {Ready(y), Outbox(y), Hand(y)}
      BY QueueNames
    <3>2. CASE q = Ready(y) BY <3>2, QueueValues, QueueValuesNext DEF JobEnded
    <3>3. q # Ready(y) => y # e BY <3>1
    <3>4. CASE q = Outbox(y) /\ y # e
      <4>1. at'[y] = at[y] /\ outbox'[y] = outbox[y] BY <3>4 DEF JobEnded
      <4>2. Queue'[q] = (IF at'[y] = "cache" THEN <<>> ELSE outbox'[y])
        BY <3>4, QueueValuesNext
      <4>3. Queue[q] = (IF at[y] = "cache" THEN <<>> ELSE outbox[y])
        BY <3>4, QueueValues
      <4> QED BY <4>1, <4>2, <4>3
    <3>5. CASE q = Hand(y) /\ y # e
      <4>1. job'[y] = job[y] BY <3>5 DEF JobEnded
      <4>2. Queue'[q] = (IF job'[y] = NoJob THEN <<>> ELSE <<job'[y]>>)
        BY <3>5, QueueValuesNext
      <4>3. Queue[q] = (IF job[y] = NoJob THEN <<>> ELSE <<job[y]>>)
        BY <3>5, QueueValues
      <4> QED BY <4>1, <4>2, <4>3
    <3> QED BY <3>1, <3>2, <3>3, <3>4, <3>5
  <2>3. candidate \in Seq(AllJobs) /\ outbox[e] \in Seq(AllJobs) BY DEF TypeOK
  <2>4. /\ Candidates \in Queues /\ Outbox(e) \in Queues /\ Hand(e) \in Queues
        /\ Candidates # Outbox(e) /\ Candidates # Hand(e) /\ Outbox(e) # Hand(e)
    BY QueueNames
  <2> DEFINE c == Candidates
             w == Outbox(e)
             y == Hand(e)
             G == Queue'
             F == Queue
             j == job[e]
  <2>5. /\ G[c] = F[c] \o (F[w] \o more) /\ G[w] = <<>> /\ G[y] = <<>>
        /\ F[c] \in Seq(AllJobs) /\ F[w] \in Seq(AllJobs) /\ F[y] = <<j>>
        /\ \A q \in Queues \ {c, w, y} : G[q] = F[q]
    BY <2>1, <2>2, <2>3
  <2>6. c \in Queues /\ w \in Queues /\ y \in Queues /\ c # w /\ c # y /\ w # y
    BY <2>4
  <2> HIDE DEF c, w, y, F, G, j
  <2> DEFINE fresh == EndOf(c, Len(F[c]) + Len(F[w]), more)
             gone == {<<y, 1>>}
  <2>7. fresh = EndOf(c, Len(F[c]) + Len(F[w]), more) /\ gone = {<<y, 1>>}
    OBVIOUS
  <2>8. fresh = new /\ gone = {x} BY <2>1 DEF c, w, F, y, EndOf
  <2> HIDE DEF fresh, gone
  <2>9. Changed(F, G, gone, fresh) /\ AtEnd(G, c, Len(F[c]) + Len(F[w]), more)
    BY <2>5, <2>6, <2>7, EndChanges
  <2>10. At(F, <<y, 1>>) = j BY <2>5 DEF At
  <2> HIDE DEF new
  <2> QED BY <2>1, <2>8, <2>9, <2>10 DEF c, w, y, F, G, j, AtEnd
<1>2. m \in Nat /\ Len(more) \in Nat /\ DOMAIN more = 1 .. Len(more)
  BY LenProperties DEF TypeOK
<1> HIDE DEF m
<1>3. {At(Queue', q) : q \in new} = ToSet(more) /\ {At(Queue, p) : p \in {x}} = {job[e]}
  <2>1. {At(Queue', q) : q \in new} = ToSet(more)
    <3> HIDE DEF x
    <3>1. \A q \in new : At(Queue', q) \in ToSet(more) BY <1>1 DEF ToSet
    <3>2. \A j \in ToSet(more) : \E q \in new : At(Queue', q) = j
      BY <1>1 DEF ToSet
    <3> HIDE DEF new
    <3> QED BY <3>1, <3>2
  <2> HIDE DEF x, new
  <2>2. {At(Queue, p) : p \in {x}} = {job[e]} BY <1>1
  <2> QED BY <2>1, <2>2
<1>4. /\ JobsIn(Queue') \subseteq JobsIn(Queue) \cup ToSet(more)
      /\ ToSet(more) \subseteq JobsIn(Queue') /\ JobsIn(Queue) \ {job[e]} \subseteq JobsIn(Queue')
      /\ job[e].kind \in Once /\ job[e] \notin ToSet(more) => job[e] \notin JobsIn(Queue')
  <2> HIDE DEF new, x
  <2>1. /\ JobsIn(Queue') \subseteq JobsIn(Queue) \cup {At(Queue', q) : q \in new}
        /\ {At(Queue', q) : q \in new} \subseteq JobsIn(Queue')
        /\ JobsIn(Queue) \ {At(Queue, p) : p \in {x}} \subseteq JobsIn(Queue')
        /\ \A p \in {x} : At(Queue, p).kind \in Once /\ At(Queue, p) \notin {At(Queue', q) : q \in new}
                          => At(Queue, p) \notin JobsIn(Queue')
    BY <1>1, ChangedJobs DEF NoneTwice
  <2> QED BY <1>1, <1>3, <2>1
<1>5. NoneTwiceIn(Queue')
  <2>1. ASSUME NEW p \in new, NEW q \in new, At(Queue', p) = At(Queue', q),
               At(Queue', p).kind \in Once
        PROVE  p = q
    BY <1>1, <2>1 DEF Fresh
  <2>2. ASSUME NEW q \in new, At(Queue', q).kind \in Once
        PROVE  At(Queue', q) \notin JobsIn(Queue)
    BY <1>1, <2>2 DEF Fresh, Present
  <2> HIDE DEF new, x
  <2> QED BY <1>1, <2>1, <2>2, ChangedOnce DEF NoneTwice
<1>6. GroupsIn(Queue') \cap new = {} BY <1>1 DEF GroupsIn, NoGroups
<1>7. /\ IsFiniteSet(GroupsIn(Queue'))
      /\ Cardinality(GroupsIn(Queue')) = Cardinality(GroupsIn(Queue) \ {x})
  <2> HIDE DEF new, x
  <2>1. IsFiniteSet(GroupsIn(Queue') \cap new) /\ Cardinality(GroupsIn(Queue') \cap new) = 0
    BY <1>6, FS_EmptySet
  <2>2. /\ IsFiniteSet(GroupsIn(Queue'))
        /\ Cardinality(GroupsIn(Queue'))
             = Cardinality(GroupsIn(Queue) \ {x}) + Cardinality(GroupsIn(Queue') \cap new)
    <3> DEFINE lost == {x}
    <3>1. Changed(Queue, Queue', lost, new) /\ IsFiniteSet(GroupsIn(Queue))
      BY <1>1 DEF GroupsCounted
    <3> HIDE DEF lost
    <3>2. Cardinality(GroupsIn(Queue'))
            = Cardinality(GroupsIn(Queue) \ lost) + Cardinality(GroupsIn(Queue') \cap new)
          /\ IsFiniteSet(GroupsIn(Queue'))
      BY <2>1, <3>1, ChangedGroups
    <3> QED BY <3>2 DEF lost
  <2>3. Cardinality(GroupsIn(Queue) \ {x}) \in Nat
    BY FS_Subset, FS_CardinalityType DEF GroupsCounted
  <2> QED BY <2>1, <2>2, <2>3
<1>8. Cardinality(GroupsIn(Queue) \ {x})
        = Cardinality(GroupsIn(Queue)) + IF job[e].kind = "group" THEN -1 ELSE 0
  <2>1. x \in GroupsIn(Queue) <=> job[e].kind = "group"
    BY <1>1 DEF Changed, GroupsIn
  <2>2. Cardinality(GroupsIn(Queue)) \in Nat
    BY FS_CardinalityType DEF GroupsCounted
  <2> HIDE DEF x
  <2>3. Cardinality(GroupsIn(Queue) \ {x})
          = IF x \in GroupsIn(Queue) THEN Cardinality(GroupsIn(Queue)) - 1
                                     ELSE Cardinality(GroupsIn(Queue))
    BY FS_RemoveElement DEF GroupsCounted
  <2> QED BY <2>1, <2>2, <2>3
<1> QED BY <1>4, <1>5, <1>7, <1>8, PresentNext DEF Effect, Present

-----------------------------------------------------------------------------
(* What a step leaves alone.                                                 *)

\* The executors besides e go on with what they were doing.
Others(e) ==
  \A x \in Executors \ {e} : job'[x] = job[x] /\ at'[x] = at[x] /\ outbox'[x] = outbox[x]

\* A step of one executor leaves the others at theirs.
LEMMA StepsKept ==
  ASSUME Steps, NEW e \in Executors, Others(e), StepOf(e)'
  PROVE  Steps'
<1> SUFFICES ASSUME NEW x \in Executors PROVE StepOf(x)' BY DEF Steps
<1>1. CASE x = e BY <1>1
<1>2. CASE x # e
  <2>1. job'[x] = job[x] /\ at'[x] = at[x] /\ outbox'[x] = outbox[x]
    BY <1>2 DEF Others
  <2>2. StepOf(x) BY DEF Steps
  <2>3. News(x)' = News(x) BY <2>1 DEF News
  <2> QED BY <2>1, <2>2, <2>3 DEF StepOf
<1> QED BY <1>1, <1>2

\* The job in hand, while it takes a step.
LEMMA JobInHand ==
  ASSUME TypeOK, NEW e \in Executors, NEW kind \in JobKinds, NEW label, InStep(e, kind, label)
  PROVE  /\ job[e] # NoJob /\ job[e] \in AllJobs /\ Fits(job[e]) /\ job[e] \in Present
         /\ job[e].kind = kind /\ at[e] = label /\ job[e].count \in Nat
<1>1. job[e].kind = kind /\ at[e] = label BY DEF InStep
<1>2. job[e] # NoJob BY <1>1, JobsAreJobs DEF JobKinds
<1>3. job[e] \in AllJobs BY <1>2 DEF TypeOK
<1>4. <<Hand(e), 1>> \in PlacesIn(Queue) /\ At(Queue, <<Hand(e), 1>>) = job[e]
  <2>1. Queue[Hand(e)] = <<job[e]>> /\ Hand(e) \in Queues
    BY <1>2, QueueValues, QueueNames
  <2>2. DOMAIN Queue[Hand(e)] = {1} /\ Queue[Hand(e)][1] = job[e] BY <2>1
  <2> QED BY <2>1, <2>2, PlaceFacts DEF At
<1>5. job[e] \in Present BY <1>4 DEF Present, JobsIn
<1> QED BY <1>1, <1>2, <1>3, <1>5, FieldsOfJobs

\* An executor that continues keeps its job.
LEMMA Continued ==
  ASSUME TypeOK, NEW e \in Executors, NEW label \in Labels, Continue(e, label)
  PROVE  /\ job' = job /\ at'[e] = label /\ \A x \in Executors \ {e} : at'[x] = at[x]
         /\ job' \in [Executors -> AllJobs \cup {NoJob}] /\ at' \in [Executors -> Labels]
  BY DEF Continue, TypeOK

\* An executor that ends its job is idle.
LEMMA Ended ==
  ASSUME TypeOK, NEW e \in Executors, JobEnds(e)
  PROVE  /\ job'[e] = NoJob /\ at'[e] = "idle"
         /\ \A x \in Executors \ {e} : job'[x] = job[x] /\ at'[x] = at[x]
         /\ job' \in [Executors -> AllJobs \cup {NoJob}] /\ at' \in [Executors -> Labels]
<1>1. /\ job \in [Executors -> AllJobs \cup {NoJob}] /\ at \in [Executors -> Labels]
      /\ job' = [job EXCEPT ![e] = NoJob] /\ at' = [at EXCEPT ![e] = "idle"]
  BY DEF JobEnds, TypeOK
<1>2. job'[e] = NoJob /\ \A x \in Executors \ {e} : job'[x] = job[x] BY <1>1
<1>3. at'[e] = "idle" /\ \A x \in Executors \ {e} : at'[x] = at[x] BY <1>1
<1>4. job' \in [Executors -> AllJobs \cup {NoJob}]
  <2> DEFINE S == AllJobs \cup {NoJob}
  <2>1. NoJob \in S /\ job \in [Executors -> S] /\ job' = [job EXCEPT ![e] = NoJob]
    BY <1>1
  <2> HIDE DEF S
  <2>2. job' \in [Executors -> S] BY <2>1
  <2> QED BY <2>2 DEF S
<1>5. at' \in [Executors -> Labels]
  <2>1. "idle" \in Labels BY DEF Labels
  <2> QED BY <1>1, <2>1
<1> QED BY <1>2, <1>3, <1>4, <1>5

\* The jobs in hand at some labels.
LEMMA HandsSame ==
  ASSUME NEW e \in Executors, NEW labels, Others(e), at[e] \notin labels, at'[e] \notin labels
  PROVE  InHand(labels)' = InHand(labels)
  BY DEF InHand, Others

\* Only the job of the executor that steps leaves the hands.
LEMMA HandsEnd ==
  ASSUME NEW e \in Executors, NEW labels, Others(e), at'[e] \notin labels
  PROVE  \A j : j # job[e] => (j \in InHand(labels)' <=> j \in InHand(labels))
  BY DEF InHand, Others

\* Files are waited for, and lines and items are left over, as before the step.
SameLinesOf(f) ==
  /\ FilePending(f)' <=> FilePending(f)
  /\ JobsOf("lines", f)' \subseteq JobsOf("lines", f) /\ LinesLeft(f)' = LinesLeft(f)
  /\ Parsed(f)' <=> Parsed(f)
SameLines == \A f \in Files : SameLinesOf(f)

SameGroups ==
  /\ resolved \subseteq resolved'
  /\ \A f \in Files, r \in Requests :
       ParseGroup(f, r) \in Present => ParseGroup(f, r) \in Present' \/ <<f, r>> \in resolved'

NoNewItems == \A s \in Subs : JobsOf("items", s)' \subseteq JobsOf("items", s)

SameBuildsOf(i) ==
  /\ JobsOf("build", i)' \subseteq JobsOf("build", i)
  /\ Unadded(i)' = Unadded(i) /\ Unchecked(i)' = Unchecked(i)
SameBuilds == \A i \in StaticItems : SameBuildsOf(i)

Avoid(kinds, jobs) == \A j \in jobs : j.kind \notin kinds

\* The jobs of a kind that neither come nor go stay.
LEMMA JobsOfSame ==
  ASSUME NEW drop, NEW more, NEW delta, Effect(drop, more, delta), NEW kind,
         \A j \in drop : j.kind # kind, \A j \in more : j.kind # kind
  PROVE  /\ \A x : JobsOf(kind, x)' = JobsOf(kind, x)
         /\ \A j : j.kind = kind => (j \in Present' <=> j \in Present)
<1>1. \A j : j.kind = kind => (j \in Present' <=> j \in Present) BY DEF Effect
<1>2. \A x : JobsOf(kind, x)' = {j \in Present' : j.kind = kind /\ j.of = x}
  BY DEF JobsOf
<1>3. \A x : JobsOf(kind, x) = {j \in Present : j.kind = kind /\ j.of = x}
  BY DEF JobsOf
<1> QED BY <1>1, <1>2, <1>3

\* What it means that a file will have been parsed.
LEMMA ParsedNext ==
  \A f : Parsed(f)' <=> ~FilePending(f)' /\ JobsOf("lines", f)' \subseteq InHand({"push"})'
  BY DEF Parsed

\* The lines of a file whose jobs neither come nor go.
LEMMA LinesKeptOf ==
  ASSUME NEW drop, NEW more, NEW delta, Effect(drop, more, delta), NEW f,
         \A j \in drop : j.kind \in {"file", "lines"} => j.of # f,
         \A j \in more : j.kind \in {"file", "lines"} => j.of # f,
         parseFiles' = parseFiles,
         \A j : j.of = f => (j \in InHand({"push"})' <=> j \in InHand({"push"}))
  PROVE  SameLinesOf(f)
<1>1. \A j : j.kind \in {"file", "lines"} /\ j.of = f => (j \in Present' <=> j \in Present)
  BY DEF Effect
<1>2. JobsOf("lines", f)' = JobsOf("lines", f)
  <2>1. JobsOf("lines", f)' = {j \in Present' : j.kind = "lines" /\ j.of = f}
    BY DEF JobsOf
  <2>2. JobsOf("lines", f) = {j \in Present : j.kind = "lines" /\ j.of = f}
    BY DEF JobsOf
  <2> QED BY <1>1, <2>1, <2>2
<1>3. FilePending(f)' <=> FilePending(f)
  <2>1. FilePending(f)' <=> ParseFile(f) \in Present' \/ ParseFile(f) \in ToSet(parseFiles)'
    BY DEF FilePending, ParseFile
  <2>2. ToSet(parseFiles)' = ToSet(parseFiles) BY DEF ToSet
  <2>3. ParseFile(f).kind = "file" /\ ParseFile(f).of = f
    BY JobFields DEF ParseFile
  <2> QED BY <1>1, <2>1, <2>2, <2>3 DEF FilePending
<1>4. JobsOf("lines", f)' \ InHand({"push"})' = JobsOf("lines", f) \ InHand({"push"})
  <2>1. \A j \in JobsOf("lines", f) : j.of = f BY DEF JobsOf
  <2> QED BY <1>2, <2>1
<1>5. LinesLeft(f)' = LinesLeft(f)
  <2>1. LinesLeft(f)' = Span(JobsOf("lines", f)' \ InHand({"push"})')
    BY DEF LinesLeft, Span, Elems
  <2> QED BY <1>4, <2>1 DEF LinesLeft
<1>6. Parsed(f)' <=> Parsed(f) BY <1>3, <1>4, ParsedNext DEF Parsed
<1> QED BY <1>2, <1>3, <1>5, <1>6 DEF SameLinesOf

\* The lines of all files, when no job of lines or of a file comes or goes.
LEMMA LinesKept ==
  ASSUME NEW drop, NEW more, NEW delta, Effect(drop, more, delta),
         Avoid({"file", "lines"}, drop), Avoid({"file", "lines"}, more),
         parseFiles' = parseFiles, InHand({"push"})' = InHand({"push"})
  PROVE  SameLines
<1> SUFFICES ASSUME NEW f \in Files PROVE SameLinesOf(f) BY DEF SameLines
<1>1. /\ \A j \in drop : j.kind \in {"file", "lines"} => j.of # f
      /\ \A j \in more : j.kind \in {"file", "lines"} => j.of # f
      /\ \A j : j.of = f => (j \in InHand({"push"})' <=> j \in InHand({"push"}))
  BY DEF Avoid
<1> QED BY <1>1, LinesKeptOf

\* Nothing is saved or processed, and no file is parsed, by the step.
SameSaves ==
  /\ SameLines
  /\ \A j : j.kind \in {"items", "save"} => (j \in Present' <=> j \in Present)

\* Jobs that come with the step are of these kinds.
Comes(kinds) == \A j \in Present' \ Present : j.kind \in kinds

\* The jobs that process items or save them, when none of them comes or goes.
LEMMA SavesKept ==
  ASSUME NEW drop, NEW more, NEW delta, Effect(drop, more, delta), SameLines,
         Avoid({"items", "save"}, drop), Avoid({"items", "save"}, more)
  PROVE  SameSaves
  BY DEF Effect, Avoid, SameSaves

\* What is left to add and to check of a group whose jobs neither come nor go.
LEMMA BuildsKeptOf ==
  ASSUME NEW drop, NEW more, NEW delta, Effect(drop, more, delta), NEW i,
         \A j \in drop : j.kind = "build" => j.of # i,
         \A j \in more : j.kind = "build" => j.of # i,
         \A j : j.of = i => (j \in InHand({"check", "count"})' <=> j \in InHand({"check", "count"}))
  PROVE  SameBuildsOf(i)
<1>1. JobsOf("build", i)' = JobsOf("build", i)
  <2>1. JobsOf("build", i)' = {j \in Present' : j.kind = "build" /\ j.of = i}
    BY DEF JobsOf
  <2>2. JobsOf("build", i) = {j \in Present : j.kind = "build" /\ j.of = i}
    BY DEF JobsOf
  <2> QED BY <2>1, <2>2 DEF Effect
<1>2. Unadded(i)' = Unadded(i)
  <2>1. Unadded(i)' = Span(JobsOf("build", i)' \ InHand({"check", "count"})')
    BY DEF Unadded, Span, Elems
  <2>2. JobsOf("build", i)' \ InHand({"check", "count"})' = JobsOf("build", i) \ InHand({"check", "count"})
    <3>1. \A j \in JobsOf("build", i) : j.of = i BY DEF JobsOf
    <3> QED BY <1>1, <3>1
  <2> QED BY <2>1, <2>2 DEF Unadded
<1>3. Unchecked(i)' = Unchecked(i)
  <2>1. Unchecked(i)' = Span(JobsOf("build", i)') BY DEF Unchecked, Span, Elems
  <2> QED BY <1>1, <2>1 DEF Unchecked
<1> QED BY <1>1, <1>2, <1>3 DEF SameBuildsOf

\* The same of all groups, when no job that builds one comes or goes.
LEMMA BuildsKept ==
  ASSUME NEW drop, NEW more, NEW delta, Effect(drop, more, delta),
         Avoid({"build"}, drop), Avoid({"build"}, more),
         InHand({"check", "count"})' = InHand({"check", "count"})
  PROVE  SameBuilds
<1> SUFFICES ASSUME NEW i \in StaticItems PROVE SameBuildsOf(i)
  BY DEF SameBuilds
<1>1. /\ \A j \in drop : j.kind = "build" => j.of # i
      /\ \A j \in more : j.kind = "build" => j.of # i
      /\ \A j : j.of = i => (j \in InHand({"check", "count"})' <=> j \in InHand({"check", "count"}))
  BY DEF Avoid
<1> QED BY <1>1, BuildsKeptOf

\* Groups that are to be resolved stay so or are resolved.
LEMMA GroupsKept ==
  ASSUME NEW drop, NEW more, NEW delta, Effect(drop, more, delta),
         Avoid({"group"}, drop), resolved \subseteq resolved'
  PROVE  SameGroups
<1>1. \A f, r : ParseGroup(f, r).kind = "group" BY JobFields DEF ParseGroup
<1> QED BY <1>1 DEF Effect, Avoid, SameGroups

\* No job of items comes.
LEMMA ItemsKept ==
  ASSUME NEW drop, NEW more, NEW delta, Effect(drop, more, delta), Avoid({"items"}, more)
  PROVE  NoNewItems
<1>1. \A s : JobsOf("items", s)' = {j \in Present' : j.kind = "items" /\ j.of = s}
  BY DEF JobsOf
<1>2. \A s : JobsOf("items", s) = {j \in Present : j.kind = "items" /\ j.of = s}
  BY DEF JobsOf
<1> QED BY <1>1, <1>2 DEF Effect, Avoid, NoNewItems

\* The cache holds jobs that process items.
LEMMA CachedItems ==
  ASSUME TypeOK, NEW s \in Subs
  PROVE  /\ cache[s] \in Seq(ItemsOf(s))
         /\ \A k \in DOMAIN cache[s] : cache[s][k].kind = "items" /\ cache[s][k].of = s
<1>1. cache[s] \in Seq(ItemsOf(s)) BY DEF TypeOK
<1>2. ASSUME NEW k \in DOMAIN cache[s] PROVE cache[s][k].kind = "items" /\ cache[s][k].of = s
  <2>1. cache[s][k] \in ItemsOf(s) BY <1>1, ElementOfSeq, LenProperties
  <2> QED BY <2>1 DEF ItemsOf
<1> QED BY <1>1, <1>2

\* Files and parts still have one job each when no job of a file comes.
LEMMA OnceStays ==
  ASSUME NoneTwice, TypeOK, parseFiles' = parseFiles,
         \A x \in Present' : x \in Present \/ x.kind # "file",
         NoneTwiceIn(Queue'), OnceIn(cache', Present')
  PROVE  NoneTwice'
<1>1. \A k \in DOMAIN parseFiles : parseFiles[k].kind = "file"
  <2>1. \A f : ParseFile(f).kind = "file" BY JobFields DEF ParseFile
  <2>2. \A k \in DOMAIN parseFiles : \E f \in Files : parseFiles[k] = ParseFile(f)
    BY DEF TypeOK
  <2> QED BY <2>1, <2>2
<1>2. \A k \in DOMAIN parseFiles : parseFiles[k] \notin Present'
  BY <1>1 DEF NoneTwice
<1> QED BY <1>2 DEF NoneTwice, OnceIn

\* The same when no job of items comes either, and the cache stays as it is.
LEMMA FilesKept ==
  ASSUME NoneTwice, TypeOK, NEW drop, NEW more, NEW delta, Effect(drop, more, delta),
         Avoid({"file", "items"}, more), parseFiles' = parseFiles, cache' = cache
  PROVE  NoneTwice'
<1>1. NoneTwiceIn(Queue') BY DEF Effect
<1>2. \A x \in Present' : x \in Present \/ x.kind # "file" BY DEF Effect, Avoid
<1>3. OnceIn(cache', Present')
  <2>1. \A s \in Subs : \A k \in DOMAIN cache[s] : cache[s][k].kind = "items"
    BY CachedItems
  <2>2. \A s \in Subs : \A j \in ToSet(cache[s]) : j.kind = "items"
    BY <2>1 DEF ToSet
  <2> QED BY <2>2 DEF Effect, Avoid, NoneTwice, OnceIn
<1> QED BY <1>1, <1>2, <1>3, OnceStays

\* What follows from a step that leaves the lines, the groups or the items alone.
LEMMA LinesStayCounted ==
  ASSUME NEW f, LinesCountedOf(f), SameLinesOf(f), readyCount'[f] = readyCount[f]
  PROVE  LinesCountedOf(f)'
<1>1. SUFFICES /\ FilePending(f)' => readyCount'[f] = 0 /\ JobsOf("lines", f)' = {}
               /\ ~FilePending(f)' => readyCount'[f] + Cardinality(LinesLeft(f)') = Len(Lines[f])
  BY DEF LinesCountedOf
<1>2. /\ FilePending(f)' <=> FilePending(f)
      /\ JobsOf("lines", f)' \subseteq JobsOf("lines", f) /\ LinesLeft(f)' = LinesLeft(f)
  BY DEF SameLinesOf
<1>3. /\ FilePending(f) => readyCount[f] = 0 /\ JobsOf("lines", f) = {}
      /\ ~FilePending(f) => readyCount[f] + Cardinality(LinesLeft(f)) = Len(Lines[f])
  BY DEF LinesCountedOf
<1> QED BY <1>2, <1>3

\* Every group that is named is followed as long as no line is counted.
LEMMA NamesStayFollowed ==
  ASSUME NEW f \in Files, NamesFollowedOf(f), SameLinesOf(f), SameGroups
  PROVE  NamesFollowedOf(f)'
<1> SUFFICES ASSUME NEW k \in DOMAIN Lines[f], NEW r \in ToSet(Lines[f][k]),
                    ~FilePending(f)', k \notin LinesLeft(f)'
             PROVE  <<f, r>> \in resolved' \/ ParseGroup(f, r) \in Present'
  BY DEF NamesFollowedOf, Counted, ParseGroup
<1>1. Counted(f, k) BY DEF SameLinesOf, Counted
<1>2. <<f, r>> \in resolved \/ ParseGroup(f, r) \in Present
  BY <1>1 DEF NamesFollowedOf
<1>3. r \in Requests BY ConstantTypes, NamesAreRequests
<1> QED BY <1>2, <1>3 DEF SameGroups

\* The count of lines and their names, after a step that does not touch them.
LEMMA LinesStay ==
  ASSUME LinesCounted, NamesFollowed, SameLines, SameGroups, readyCount' = readyCount
  PROVE  LinesCounted' /\ NamesFollowed'
<1>1. ASSUME NEW f \in Files PROVE LinesCountedOf(f)'
  BY LinesStayCounted DEF LinesCounted, SameLines
<1>2. ASSUME NEW f \in Files PROVE NamesFollowedOf(f)'
  BY NamesStayFollowed DEF NamesFollowed, SameLines
<1> QED BY <1>1, <1>2 DEF LinesCounted, NamesFollowed

\* The items held back, after a step that counts no line and resolves nothing less.
LEMMA ItemsStayHeldBack ==
  ASSUME ItemsHeldBack, SameLines, resolved \subseteq resolved', NoNewItems,
         cache' = cache, groupJobs' = groupJobs
  PROVE  ItemsHeldBack'
<1> SUFFICES ASSUME NEW s \in Subs
             PROVE  /\ cache[s] # <<>> => Parsed(FileOf[s])' /\ groupJobs > 0
                    /\ JobsOf("items", s)' # {} => Parsed(FileOf[s])' /\ Resolved(FileOf[s])'
  BY DEF ItemsHeldBack
<1>1. FileOf[s] \in Files BY ConstantTypes
<1>2. Parsed(FileOf[s])' <=> Parsed(FileOf[s])
  BY <1>1 DEF SameLines, SameLinesOf
<1>3. Resolved(FileOf[s]) => Resolved(FileOf[s])' BY DEF Resolved
<1>4. JobsOf("items", s)' \subseteq JobsOf("items", s) BY DEF NoNewItems
<1> QED BY <1>2, <1>3, <1>4 DEF ItemsHeldBack

\* The two counts of a group, after a step that does not touch it.
LEMMA ItemsStayCounted ==
  ASSUME NEW i, ItemsCountedOf(i), SameBuildsOf(i), added'[i] = added[i], checked'[i] = checked[i],
         <<"item", i>> \in known' <=> <<"item", i>> \in known, i \in itemReady' => i \in itemReady
  PROVE  ItemsCountedOf(i)'
<1> SUFFICES /\ <<"item", i>> \in known' =>
                   /\ added'[i] + Cardinality(Unadded(i)') = Size[Plugin[i]]
                   /\ checked'[i] + Cardinality(Unchecked(i)') = Size[Plugin[i]]
             /\ <<"item", i>> \notin known' =>
                   added'[i] = 0 /\ checked'[i] = 0 /\ JobsOf("build", i)' = {}
             /\ i \in itemReady' => <<"item", i>> \in known' /\ Unadded(i)' = {}
  BY DEF ItemsCountedOf
<1>1. /\ JobsOf("build", i)' \subseteq JobsOf("build", i)
      /\ Unadded(i)' = Unadded(i) /\ Unchecked(i)' = Unchecked(i)
  BY DEF SameBuildsOf
<1> QED BY <1>1 DEF ItemsCountedOf

\* The same of all groups.
LEMMA ItemsStay ==
  ASSUME ItemsCounted, SameBuilds, added' = added, checked' = checked,
         \A i \in StaticItems : <<"item", i>> \in known' <=> <<"item", i>> \in known,
         \A i \in StaticItems : i \in itemReady' => i \in itemReady
  PROVE  ItemsCounted'
<1> SUFFICES ASSUME NEW i \in StaticItems PROVE ItemsCountedOf(i)'
  BY DEF ItemsCounted
<1>1. ItemsCountedOf(i) /\ SameBuildsOf(i) BY DEF ItemsCounted, SameBuilds
<1> QED BY <1>1, ItemsStayCounted

\* Types follow their items, after a step that makes neither.
LEMMA TypesStay ==
  ASSUME TypesFollowItems, known' = known, typeReady' = typeReady, itemReady \subseteq itemReady',
         NEW drop, NEW more, NEW delta, Effect(drop, more, delta), Avoid({"init"}, more)
  PROVE  TypesFollowItems'
  BY DEF TypesFollowItems, Effect, Avoid

\* The number of ParseGroup jobs.
LEMMA GroupsStayCounted ==
  ASSUME GroupsCounted, NEW drop, NEW more, NEW delta, Effect(drop, more, delta),
         groupJobs' = groupJobs + delta
  PROVE  GroupsCounted'
<1>1. GroupsCounted' <=> /\ IsFiniteSet(GroupsIn(Queue'))
                         /\ groupJobs' = Cardinality(GroupsIn(Queue'))
  BY DEF GroupsCounted
<1> QED BY <1>1 DEF Effect, GroupsCounted

\* A step that makes no file, lines, group or build job, and ends none.
Fixed == <<parseFiles, readyCount, groupJobs, cache, added, checked, known, itemReady, typeReady,
           resolved>>

\* A step that at most loads, saves, initialises or pushes jobs of no counted kind.
LEMMA PlainStep ==
  ASSUME Inv, TypeOK', Steps', NEW drop, NEW more, Effect(drop, more, 0),
         Avoid({"file", "lines", "group", "build"}, drop),
         Avoid({"file", "lines", "build", "init", "items"}, more),
         InHand({"push"})' = InHand({"push"}),
         InHand({"check", "count"})' = InHand({"check", "count"}), UNCHANGED Fixed
  PROVE  Inv'
<1>0. /\ TypeOK /\ NoneTwice /\ GroupsCounted /\ LinesCounted /\ NamesFollowed /\ ItemsHeldBack
      /\ ItemsCounted /\ TypesFollowItems
  BY DEF Inv
<1>1. /\ parseFiles' = parseFiles /\ readyCount' = readyCount /\ groupJobs' = groupJobs
      /\ cache' = cache /\ added' = added /\ checked' = checked /\ known' = known
      /\ itemReady' = itemReady /\ typeReady' = typeReady /\ resolved' = resolved
  BY DEF Fixed
<1>2. SameLines BY <1>1, LinesKept DEF Avoid
<1>3. SameGroups /\ resolved \subseteq resolved' BY <1>1, GroupsKept DEF Avoid
<1>4. SameBuilds BY BuildsKept DEF Avoid
<1>5. NoNewItems BY ItemsKept DEF Avoid
<1>6. NoneTwice' BY <1>0, <1>1, FilesKept DEF Avoid
<1>7. GroupsCounted'
  <2>1. groupJobs' = groupJobs + 0 BY <1>0, <1>1 DEF TypeOK
  <2> QED BY <1>0, <2>1, GroupsStayCounted
<1>8. LinesCounted' /\ NamesFollowed' /\ ItemsHeldBack'
  BY <1>0, <1>1, <1>2, <1>3, <1>5, LinesStay, ItemsStayHeldBack
<1>9. ItemsCounted' /\ TypesFollowItems'
  BY <1>0, <1>1, <1>4, ItemsStay, TypesStay DEF Avoid
<1> QED BY <1>6, <1>7, <1>8, <1>9 DEF Inv

\* The job in hand goes on, and the queues stay.
LEMMA ContinueEffect ==
  ASSUME Inv, NEW e \in Executors, NEW kind \in JobKinds, NEW from, NEW to \in Labels,
         InStep(e, kind, from), Continue(e, to), from # "cache", to \notin {"cache", "idle"},
         UNCHANGED <<candidate, ready, outbox>>
  PROVE  /\ Effect({}, {}, 0) /\ Others(e) /\ job'[e] = job[e] /\ at'[e] = to
         /\ job' \in [Executors -> AllJobs \cup {NoJob}] /\ at' \in [Executors -> Labels]
<1>1. TypeOK /\ NoneTwice /\ GroupsCounted BY DEF Inv
<1>2. /\ job' = job /\ at'[e] = to /\ \A x \in Executors \ {e} : at'[x] = at[x]
      /\ job' \in [Executors -> AllJobs \cup {NoJob}] /\ at' \in [Executors -> Labels]
  BY <1>1, Continued
<1>3. ASSUME NEW q \in Queues PROVE Queue'[q] = Queue[q]
  <2>1. CASE q = Candidates BY <2>1, QueueValues, QueueValuesNext
  <2>2. ASSUME NEW x \in Executors, q \in {Ready(x), Outbox(x), Hand(x)}
        PROVE  Queue'[q] = Queue[q]
    <3>1. ready'[x] = ready[x] /\ outbox'[x] = outbox[x] /\ job'[x] = job[x]
      BY <1>2
    <3>2. at'[x] = "cache" <=> at[x] = "cache" BY <1>2 DEF InStep
    <3>3. /\ Queue'[Outbox(x)] = Queue[Outbox(x)] /\ Queue'[Hand(x)] = Queue[Hand(x)]
          /\ Queue'[Ready(x)] = Queue[Ready(x)]
      BY <3>1, <3>2, ExecutorKept
    <3> QED BY <2>2, <3>3
  <2> QED BY <2>1, <2>2, QueueNames
<1>4. Effect({}, {}, 0) BY <1>1, <1>3, QueuesSame
<1> QED BY <1>2, <1>4 DEF Others

\* The job in hand ends, and pushes more.
LEMMA EndEffectMore ==
  ASSUME Inv, NEW e \in Executors, NEW kind \in JobKinds \ {"lines", "group"}, NEW from,
         InStep(e, kind, from), JobEnds(e), NEW more \in Seq(AllJobs), Fresh(more), NoGroups(more),
         candidate' = candidate \o more, UNCHANGED <<ready, outbox>>
  PROVE  /\ Effect({job[e]}, ToSet(more), 0) /\ Others(e) /\ job'[e] = NoJob /\ at'[e] = "idle"
         /\ outbox'[e] = <<>> /\ candidate' \in Seq(AllJobs)
         /\ job' \in [Executors -> AllJobs \cup {NoJob}] /\ at' \in [Executors -> Labels]
<1>1. TypeOK /\ NoneTwice /\ GroupsCounted /\ Steps BY DEF Inv
<1>2. job[e] # NoJob /\ job[e].kind = kind /\ at[e] = from BY <1>1, JobInHand
<1>3. /\ job'[e] = NoJob /\ at'[e] = "idle"
      /\ \A x \in Executors \ {e} : job'[x] = job[x] /\ at'[x] = at[x]
      /\ job' \in [Executors -> AllJobs \cup {NoJob}] /\ at' \in [Executors -> Labels]
  BY <1>1, Ended
<1>4. outbox[e] = <<>> /\ at[e] # "cache" BY <1>1, <1>2 DEF Steps, StepOf
<1>5. candidate' = candidate \o (outbox[e] \o more) /\ candidate' \in Seq(AllJobs)
  <2>1. <<>> \o more = more OBVIOUS
  <2>2. candidate \o more \in Seq(AllJobs) BY <1>1, ConcatProperties DEF TypeOK
  <2> QED BY <1>4, <2>1, <2>2
<1>6. JobEnded(e, more) BY <1>2, <1>3, <1>4, <1>5 DEF JobEnded
<1>7. Effect({job[e]}, ToSet(more), 0)
  <2>1. Effect({job[e]}, ToSet(more), IF job[e].kind = "group" THEN -1 ELSE 0)
    BY <1>1, <1>6, EffectOfEnd
  <2> QED BY <1>2, <2>1
<1> QED BY <1>3, <1>4, <1>5, <1>7 DEF Others

\* The end of a job that pushes nothing.
LEMMA EndEffect ==
  ASSUME Inv, NEW e \in Executors, NEW kind \in JobKinds \ {"lines", "group"}, NEW from,
         InStep(e, kind, from), JobEnds(e), UNCHANGED <<candidate, ready, outbox>>
  PROVE  /\ Effect({job[e]}, {}, 0) /\ Others(e) /\ job'[e] = NoJob /\ at'[e] = "idle"
         /\ outbox'[e] = <<>>
         /\ job' \in [Executors -> AllJobs \cup {NoJob}] /\ at' \in [Executors -> Labels]
<1>1. Fresh(<<>>) /\ NoGroups(<<>>) /\ <<>> \in Seq(AllJobs) /\ ToSet(<<>>) = {}
  BY DEF Fresh, NoGroups, ToSet
<1>2. candidate' = candidate \o <<>> BY DEF Inv, TypeOK
<1> QED BY <1>1, <1>2, EndEffectMore

\* The steps of an executor that has nothing to push.
LEMMA PlainSteps ==
  ASSUME Steps, NEW e \in Executors, Others(e), outbox'[e] = <<>>,
         \/ job'[e] = NoJob /\ at'[e] = "idle"
         \/ job'[e] # NoJob /\ at'[e] \notin {"idle", "cache", "push", "check", "count"}
  PROVE  Steps'
<1>1. StepOf(e)' BY DEF StepOf
<1> QED BY <1>1, StepsKept

-----------------------------------------------------------------------------
(* The steps that leave files, lines, groups and items alone.                *)

\* An executor takes the first job of its queue (ResourcePool.cpp:409-425).
LEMMA TakeKeepsInv ==
  ASSUME Inv, NEW e \in Executors, Take(e)
  PROVE  Inv' /\ SameSaves /\ Comes({})
<1>1. TypeOK /\ NoneTwice /\ GroupsCounted /\ Steps BY DEF Inv
<1>2. /\ job[e] = NoJob /\ ready[e] # <<>> /\ ready[e] \in Seq(AllJobs)
      /\ job' = [job EXCEPT ![e] = Head(ready[e])] /\ at' = [at EXCEPT ![e] = "run"]
      /\ ready' = [ready EXCEPT ![e] = Tail(@)]
      /\ candidate' = candidate /\ outbox' = outbox /\ cache' = cache /\ UNCHANGED Fixed
  BY <1>1 DEF Take, Fixed, parsing, groups, saving, TypeOK
<1>3. /\ job'[e] = Head(ready[e]) /\ at'[e] = "run" /\ ready'[e] = Tail(ready[e])
      /\ \A x \in Executors \ {e} : /\ job'[x] = job[x] /\ at'[x] = at[x]
                                    /\ ready'[x] = ready[x]
  BY <1>1, <1>2 DEF TypeOK
<1>4. Head(ready[e]) \in AllJobs /\ Tail(ready[e]) \in Seq(AllJobs)
  BY <1>2, HeadTailProperties
<1>5. at[e] = "idle" /\ outbox[e] = <<>>
  <2>1. at[e] = "idle" BY <1>1, <1>2 DEF Steps, StepOf
  <2> QED BY <1>1, <2>1 DEF Steps, StepOf
<1>6. job'[e] # NoJob BY <1>3, <1>4, JobsAreJobs
<1>7. Effect({}, {}, 0)
  <2> DEFINE F == Queue
             G == Queue'
             r == Ready(e)
             x == Hand(e)
  <2>1. r \in Queues /\ x \in Queues /\ r # x BY QueueNames
  <2>2. F[r] = ready[e] /\ F[x] = <<>> /\ G[r] = Tail(ready[e]) /\ G[x] = <<Head(ready[e])>>
    <3>1. F[r] = ready[e] /\ F[x] = IF job[e] = NoJob THEN <<>> ELSE <<job[e]>>
      BY QueueValues
    <3>2. G[r] = ready'[e] /\ G[x] = IF job'[e] = NoJob THEN <<>> ELSE <<job'[e]>>
      BY QueueValuesNext
    <3> HIDE DEF F, G, r, x
    <3>3. job[e] = NoJob /\ job'[e] = Head(ready[e]) /\ ready'[e] = Tail(ready[e])
      BY <1>2, <1>3
    <3> QED BY <1>6, <3>1, <3>2, <3>3
  <2>3. ASSUME NEW q \in Queues \ {r, x} PROVE G[q] = F[q]
    <3>1. CASE q = Candidates BY <1>2, <3>1, QueueValues, QueueValuesNext
    <3>2. CASE q = Outbox(e)
      <4>1. at[e] # "cache" /\ at'[e] # "cache" /\ outbox'[e] = outbox[e]
        BY <1>2, <1>3, <1>5
      <4> QED BY <3>2, <4>1, QueueValues, QueueValuesNext
    <3>3. ASSUME NEW y \in Executors \ {e}, q \in {Ready(y), Outbox(y), Hand(y)}
          PROVE  G[q] = F[q]
      <4>1. job'[y] = job[y] /\ at'[y] = at[y] /\ ready'[y] = ready[y] /\ outbox'[y] = outbox[y]
        BY <1>2, <1>3
      <4> QED BY <3>3, <4>1, ExecutorKept
    <3> QED BY <3>1, <3>2, <3>3, QueueNames
  <2>4. /\ F[r] \in Seq(AllJobs) /\ F[r] # <<>> /\ F[x] = <<>>
        /\ G[r] = Tail(F[r]) /\ G[x] = <<Head(F[r])>> /\ \A q \in Queues \ {r, x} : G[q] = F[q]
    BY <1>2, <2>2, <2>3
  <2> HIDE DEF F, G, r, x
  <2>5. Changed(F, G, {}, {}) BY <2>1, <2>4, TakeChanges
  <2> QED BY <1>1, <2>5, EffectOfMove DEF F, G
<1>8. Others(e) BY <1>2, <1>3 DEF Others
<1>9. TypeOK'
  <2>1. job' \in [Executors -> AllJobs \cup {NoJob}]
    BY <1>1, <1>2, <1>4 DEF TypeOK
  <2>2. ready' \in [Executors -> Seq(AllJobs)] BY <1>1, <1>2, <1>4 DEF TypeOK
  <2>3. at' \in [Executors -> Labels] BY <1>1, <1>2 DEF TypeOK, Labels
  <2> QED BY <1>1, <1>2, <2>1, <2>2, <2>3 DEF TypeOK, Fixed
<1>10. Steps'
  <2>1. outbox'[e] = <<>> /\ at'[e] \notin {"idle", "cache", "push", "check", "count"}
    BY <1>2, <1>3, <1>5
  <2> QED BY <1>1, <1>6, <1>8, <2>1, PlainSteps
<1>11. /\ InHand({"push"})' = InHand({"push"})
       /\ InHand({"check", "count"})' = InHand({"check", "count"})
  BY <1>3, <1>5, <1>8, HandsSame
<1>12. Inv' BY <1>2, <1>7, <1>9, <1>10, <1>11, PlainStep DEF Avoid
<1>13. SameSaves
  <2>1. SameLines BY <1>2, <1>7, <1>11, LinesKept DEF Avoid, Fixed
  <2> QED BY <1>7, <2>1, SavesKept DEF Avoid
<1>14. Comes({}) BY <1>7 DEF Effect, Comes
<1> QED BY <1>12, <1>13, <1>14

\* The candidates are dealt to the executors (ResourcePool.cpp:427-486).
LEMMA SelectKeepsInv ==
  ASSUME Inv, Select
  PROVE  Inv' /\ SameSaves /\ Comes({})
<1>1. TypeOK /\ NoneTwice /\ GroupsCounted /\ Steps BY DEF Inv
<1>2. /\ job' = job /\ at' = at /\ outbox' = outbox /\ UNCHANGED Fixed
  BY DEF Select, Fixed, parsing, groups, saving
<1>3. PICK cut \in [0 .. N -> 0 .. Len(candidate)] :
        /\ Even(cut)
        /\ ready' = [e \in Executors |-> ready[e] \o SubSeq(candidate, cut[e] + 1, cut[e + 1])]
        /\ candidate' = SubSeq(candidate, cut[N] + 1, Len(candidate))
  BY DEF Select
<1>4. cut[0] = 0 /\ \A e \in Executors : cut[e] <= cut[e + 1] BY <1>3 DEF Even
<1>5. candidate \in Seq(AllJobs) /\ Len(candidate) \in Nat /\ ready \in [Executors -> Seq(AllJobs)]
      /\ N \in Nat \ {0}
  BY <1>1, LenProperties, ConstantTypes DEF TypeOK
<1>6. \A k \in 0 .. N : cut[k] \in 0 .. Len(candidate) BY <1>3
<1>7. \A e \in Executors : SubSeq(candidate, cut[e] + 1, cut[e + 1]) \in Seq(AllJobs)
  <2> TAKE e \in Executors
  <2>1. e \in 0 .. N /\ e + 1 \in 0 .. N BY <1>5 DEF Executors
  <2>2. cut[e] + 1 \in Nat \ {0} /\ cut[e + 1] \in Nat /\ cut[e + 1] <= Len(candidate)
    BY <1>5, <1>6, <2>1
  <2> QED BY <1>5, <2>2, Segment
<1>8. candidate' \in Seq(AllJobs)
  <2>1. cut[N] + 1 \in Nat \ {0} /\ Len(candidate) <= Len(candidate)
    BY <1>5, <1>6
  <2> QED BY <1>3, <1>5, <2>1, Segment
<1>9. ready' \in [Executors -> Seq(AllJobs)] BY <1>3, <1>5, <1>7
<1>10. Effect({}, {}, 0)
  <2> DEFINE F == Queue
             G == Queue'
             c == Candidates
  <2>1. c \in Queues /\ c = <<"candidate", 0>> BY QueueNames DEF Candidates
  <2>2. F[c] = candidate /\ G[c] = SubSeq(F[c], cut[N] + 1, Len(F[c]))
    BY <1>3, QueueValues, QueueValuesNext
  <2>3. \A e \in Executors :
          /\ F[<<"ready", e>>] \in Seq(AllJobs)
          /\ G[<<"ready", e>>] = F[<<"ready", e>>] \o SubSeq(F[c], cut[e] + 1, cut[e + 1])
    <3> TAKE e \in Executors
    <3>1. F[<<"ready", e>>] = ready[e] BY QueueValues DEF Ready
    <3>2. G[<<"ready", e>>] = ready'[e] BY QueueValuesNext DEF Ready
    <3> HIDE DEF F, G
    <3>3. ready[e] \in Seq(AllJobs) BY <1>5
    <3>4. ready'[e] = ready[e] \o SubSeq(candidate, cut[e] + 1, cut[e + 1])
      BY <1>3, <1>5
    <3>5. F[c] = candidate BY <2>2
    <3> QED BY <3>1, <3>2, <3>3, <3>4, <3>5
  <2>4. \A q \in Queues : q # c /\ q[1] # "ready" => G[q] = F[q]
    <3> TAKE q \in Queues
    <3>1. CASE q = Candidates BY <3>1
    <3>2. ASSUME NEW x \in Executors, q = Ready(x) PROVE q[1] = "ready"
      BY <3>2 DEF Ready
    <3>3. ASSUME NEW x \in Executors, q \in {Outbox(x), Hand(x)} PROVE G[q] = F[q]
      BY <1>2, <3>3, ExecutorKept
    <3> QED BY <3>1, <3>2, <3>3, QueueNames
  <2> HIDE DEF F, G, c
  <2>5. F[c] \in Seq(AllJobs) /\ cut \in [0 .. N -> 0 .. Len(F[c])]
    BY <1>3, <1>5, <2>2
  <2>6. Changed(F, G, {}, {})
    BY <1>4, <2>1, <2>2, <2>3, <2>4, <2>5, DealChanges
  <2> QED BY <1>1, <2>6, EffectOfMove DEF F, G
<1>11. TypeOK' BY <1>1, <1>2, <1>8, <1>9 DEF TypeOK, Fixed
<1>12. Steps' BY <1>1, <1>2 DEF Steps, StepOf, News
<1>13. /\ InHand({"push"})' = InHand({"push"})
       /\ InHand({"check", "count"})' = InHand({"check", "count"})
  BY <1>2 DEF InHand
<1>14. Inv' BY <1>2, <1>10, <1>11, <1>12, <1>13, PlainStep DEF Avoid
<1>15. SameSaves
  <2>1. SameLines BY <1>2, <1>10, <1>13, LinesKept DEF Avoid, Fixed
  <2> QED BY <1>10, <2>1, SavesKept DEF Avoid
<1>16. Comes({}) BY <1>10 DEF Effect, Comes
<1> QED BY <1>14, <1>15, <1>16

Elsewhere == {"idle", "cache", "push", "check", "count"}

\* The end of a job that counts nothing.
LEMMA PlainEnd ==
  ASSUME Inv, NEW e \in Executors, NEW kind \in {"load", "items"}, NEW from,
         InStep(e, kind, from), from \notin Elsewhere, JobEnds(e),
         UNCHANGED <<candidate, ready, outbox>>, UNCHANGED Fixed
  PROVE  Inv'
<1>1. TypeOK /\ Steps /\ kind \in JobKinds \ {"lines", "group"}
  BY DEF Inv, JobKinds
<1>2. /\ Effect({job[e]}, {}, 0) /\ Others(e) /\ job'[e] = NoJob /\ at'[e] = "idle"
      /\ outbox'[e] = <<>>
      /\ job' \in [Executors -> AllJobs \cup {NoJob}] /\ at' \in [Executors -> Labels]
  BY <1>1, EndEffect
<1>3. job[e].kind = kind /\ at[e] = from BY DEF InStep
<1>4. TypeOK' BY <1>1, <1>2 DEF TypeOK, Fixed
<1>5. Steps' BY <1>1, <1>2, PlainSteps
<1>6. /\ InHand({"push"})' = InHand({"push"})
      /\ InHand({"check", "count"})' = InHand({"check", "count"})
  BY <1>2, <1>3, HandsSame DEF Elsewhere
<1> QED BY <1>2, <1>3, <1>4, <1>5, <1>6, PlainStep DEF Avoid

\* A step of a job that counts nothing.
LEMMA PlainContinue ==
  ASSUME Inv, NEW e \in Executors, NEW kind \in JobKinds, NEW from, NEW to \in Labels,
         InStep(e, kind, from), from \notin Elsewhere, to \notin Elsewhere, Continue(e, to),
         kind # "group" \/ to \in {"parse", "publish"},
         UNCHANGED <<candidate, ready, outbox>>, UNCHANGED Fixed
  PROVE  Inv'
<1>1. TypeOK /\ Steps BY DEF Inv
<1>2. /\ Effect({}, {}, 0) /\ Others(e) /\ job'[e] = job[e] /\ at'[e] = to
      /\ job' \in [Executors -> AllJobs \cup {NoJob}] /\ at' \in [Executors -> Labels]
  BY ContinueEffect DEF Elsewhere
<1>3. job[e].kind = kind /\ at[e] = from /\ job[e] # NoJob BY <1>1, JobInHand
<1>4. TypeOK' BY <1>1, <1>2 DEF TypeOK, Fixed
<1>5. Steps'
  <2>1. StepOf(e) BY <1>1 DEF Steps
  <2>2. StepOf(e)' BY <1>2, <1>3, <2>1 DEF StepOf, Elsewhere
  <2> QED BY <1>1, <1>2, <2>2, StepsKept
<1>6. /\ InHand({"push"})' = InHand({"push"})
      /\ InHand({"check", "count"})' = InHand({"check", "count"})
  BY <1>2, <1>3, HandsSame DEF Elsewhere
<1> QED BY <1>2, <1>3, <1>4, <1>5, <1>6, PlainStep DEF Avoid

\* The steps of the jobs that count nothing.
LEMMA PlainActions ==
  ASSUME Inv, NEW e \in Executors,
         \/ LoadLayer(e) \/ CopyLoad(e) \/ ParseConditions(e) \/ CopyInfo(e) \/ ReadTagName(e)
         \/ ProcessItems(e) \/ CountFile(e)
  PROVE  Inv'
<1>1. ASSUME LoadLayer(e) PROVE Inv'
  <2>1. InStep(e, "load", "run") /\ JobEnds(e) BY <1>1 DEF LoadLayer
  <2>2. UNCHANGED <<candidate, ready, outbox>> /\ UNCHANGED Fixed
    BY <1>1 DEF LoadLayer, Fixed, queues, parsing, groups, saving
  <2> QED BY <2>1, <2>2, PlainEnd DEF Elsewhere
<1>2. ASSUME CopyLoad(e) PROVE Inv'
  <2>1. InStep(e, "file", "run") /\ Continue(e, "wait") BY <1>2 DEF CopyLoad
  <2>2. UNCHANGED <<candidate, ready, outbox>> /\ UNCHANGED Fixed
    BY <1>2 DEF CopyLoad, Fixed, queues, parsing, groups, saving
  <2> QED BY <2>1, <2>2, PlainContinue DEF Elsewhere, Labels, JobKinds
<1>3. ASSUME ParseConditions(e) PROVE Inv'
  <2>1. InStep(e, "group", "parse") /\ Continue(e, "publish")
    BY <1>3 DEF ParseConditions
  <2>2. UNCHANGED <<candidate, ready, outbox>> /\ UNCHANGED Fixed
    BY <1>3 DEF ParseConditions, Fixed, queues, parsing, saving
  <2> QED BY <2>1, <2>2, PlainContinue DEF Elsewhere, Labels, JobKinds
<1>4. ASSUME CopyInfo(e) PROVE Inv'
  <2>1. InStep(e, "group", "parse") /\ Continue(e, "publish")
    BY <1>4 DEF CopyInfo
  <2>2. UNCHANGED <<candidate, ready, outbox>> /\ UNCHANGED Fixed
    BY <1>4 DEF CopyInfo, Fixed, queues, parsing, saving
  <2> QED BY <2>1, <2>2, PlainContinue DEF Elsewhere, Labels, JobKinds
<1>5. ASSUME ReadTagName(e) PROVE Inv'
  <2>1. InStep(e, "init", "run") /\ Continue(e, "wait") BY <1>5 DEF ReadTagName
  <2>2. UNCHANGED <<candidate, ready, outbox>> /\ UNCHANGED Fixed
    BY <1>5 DEF ReadTagName, Fixed, queues, parsing, groups, saving
  <2> QED BY <2>1, <2>2, PlainContinue DEF Elsewhere, Labels, JobKinds
<1>6. ASSUME ProcessItems(e) PROVE Inv'
  <2>1. InStep(e, "items", "run") /\ (Continue(e, "complete") \/ JobEnds(e))
    BY <1>6 DEF ProcessItems
  <2>2. UNCHANGED <<candidate, ready, outbox>> /\ UNCHANGED Fixed
    BY <1>6 DEF ProcessItems, Fixed, queues, parsing, groups
  <2>3. CASE Continue(e, "complete")
    BY <2>1, <2>2, <2>3, PlainContinue DEF Elsewhere, Labels, JobKinds
  <2>4. CASE JobEnds(e) BY <2>1, <2>2, <2>4, PlainEnd DEF Elsewhere
  <2> QED BY <2>1, <2>3, <2>4
<1>7. ASSUME CountFile(e) PROVE Inv'
  <2>1. InStep(e, "items", "finish") /\ JobEnds(e) BY <1>7 DEF CountFile
  <2>2. UNCHANGED <<candidate, ready, outbox>> /\ UNCHANGED Fixed
    BY <1>7 DEF CountFile, Fixed, queues, parsing, groups
  <2> QED BY <2>1, <2>2, PlainEnd DEF Elsewhere
<1> QED BY <1>1, <1>2, <1>3, <1>4, <1>5, <1>6, <1>7

-----------------------------------------------------------------------------
(* The lines of a file.                                                      *)

\* The lines of a ParseConfigLines job are lines of its file.
LEMMA LinesOfJob ==
  ASSUME NEW f \in Files, NEW j \in ToSet(LinesJobs(f))
  PROVE  LET s == SubSeq(Lines[f], j.from + 1, j.from + j.count)
         IN  /\ j.from \in Nat /\ j.count \in Nat
             /\ j.kind = "lines" /\ j.of = f /\ Elems(j) \subseteq DOMAIN Lines[f]
             /\ s \in Seq(Seq(Requests)) /\ ToSet(s) = {Lines[f][k] : k \in Elems(j)}
<1> DEFINE q == Lines[f]
           a == j.from
           n == j.count
           s == SubSeq(q, a + 1, a + n)
<1>1. q \in Seq(Seq(Requests)) /\ Len(q) \in Nat /\ DOMAIN q = 1 .. Len(q)
  BY ConstantTypes, LenProperties
<1>2. Parts(LinesJobs(f), "lines", f, Len(q)) BY PartsOfLines
<1>3. PICK m \in DOMAIN LinesJobs(f) : j = LinesJobs(f)[m] BY DEF ToSet
<1>4. a \in Nat /\ n \in Nat
  <2>1. Divides(LinesJobs(f), "lines", f, Len(q))
    BY ConstantTypes, JobsOfPartition DEF LinesJobs
  <2> QED BY <1>3, <2>1 DEF Divides
<1>5. j.kind = "lines" /\ j.of = f BY <1>2, <1>3 DEF Parts
<1>6. Elems(j) \subseteq 1 .. Len(q)
  <2>1. Elems(j) \subseteq Span(ToSet(LinesJobs(f))) BY DEF Span
  <2> QED BY <1>2, <2>1 DEF Parts
<1>7. Elems(j) = a + 1 .. a + n BY DEF Elems
<1>8. s \in Seq(Seq(Requests)) /\ ToSet(s) = {q[k] : k \in a + 1 .. a + n}
  <2> HIDE DEF q, a, n
  <2>1. CASE n = 0
    <3>1. s = <<>> /\ a + 1 .. a + n = {} BY <1>1, <1>4, <2>1
    <3> HIDE DEF s
    <3> QED BY <3>1 DEF ToSet
  <2>2. CASE n # 0
    <3>1. a + n \in 1 .. Len(q) BY <1>4, <1>6, <1>7, <2>2
    <3>2. a + 1 \in Nat \ {0} /\ a + n \in Nat /\ a + n <= Len(q)
      BY <1>1, <1>4, <3>1
    <3>3. /\ s \in Seq(Seq(Requests))
          /\ \A x : x \in Range(s) <=> \E i \in a + 1 .. a + n : x = q[i]
      <4> DEFINE x == a + 1
                 y == a + n
                 S == Seq(Requests)
      <4>1. q \in Seq(S) /\ x \in Nat \ {0} /\ y \in Nat /\ y <= Len(q) /\ s = SubSeq(q, x, y)
        BY <1>1, <3>2
      <4> HIDE DEF x, y, S, s
      <4>2. /\ SubSeq(q, x, y) \in Seq(S)
            /\ \A z : z \in Range(SubSeq(q, x, y)) <=> \E i \in x .. y : z = q[i]
        BY <4>1, Segment
      <4> QED BY <4>1, <4>2 DEF x, y, S
    <3> HIDE DEF s
    <3>4. ToSet(s) = Range(s) BY <3>3 DEF Range, ToSet
    <3> QED BY <3>3, <3>4
  <2> QED BY <2>1, <2>2
<1> QED BY <1>1, <1>4, <1>5, <1>6, <1>7, <1>8

\* What parseConfigLine() finds in the lines of the job in hand.
LEMMA NewsOfJob ==
  ASSUME TypeOK, NEW e \in Executors, NEW label, InStep(e, "lines", label)
  PROVE  LET made == [k \in DOMAIN News(e) |-> ParseGroup(job[e].of, News(e)[k])]
         IN  /\ job[e].of \in Files /\ job[e] \in ToSet(LinesJobs(job[e].of))
             /\ made \in Seq(AllJobs) /\ \A k \in DOMAIN made : made[k].kind = "group"
             /\ \A k \in Elems(job[e]) : \A r \in ToSet(Lines[job[e].of][k]) :
                  ParseGroup(job[e].of, r) \in ToSet(made)
<1> DEFINE f == job[e].of
           j == job[e]
           s == SubSeq(Lines[f], j.from + 1, j.from + j.count)
           news == News(e)
           made == [k \in DOMAIN news |-> ParseGroup(f, news[k])]
<1>1. f \in Files /\ j \in ToSet(LinesJobs(f))
  <2>1. Fits(j) /\ j.kind = "lines" BY JobInHand DEF JobKinds
  <2> QED BY <2>1 DEF Fits
<1>2. s \in Seq(Seq(Requests)) /\ ToSet(s) = {Lines[f][k] : k \in Elems(j)}
  <2> HIDE DEF f, j
  <2> QED BY <1>1, LinesOfJob
<1>3. news = FlattenSeq(s) BY DEF News
<1> HIDE DEF f, j, s, news
<1>4. news \in Seq(Requests) /\ ToSet(news) = UNION {ToSet(s[k]) : k \in DOMAIN s}
  BY <1>2, <1>3, ElementsOfFlattened
<1>5. Len(news) \in Nat /\ DOMAIN news = 1 .. Len(news) /\ \A k \in DOMAIN news : news[k] \in Requests
  BY <1>4, LenProperties, ElementOfSeq
<1>6. \A k \in DOMAIN news : ParseGroup(f, news[k]) \in AllJobs
  BY <1>1, <1>5, JobsAreJobs
<1>7. made \in Seq(AllJobs) /\ \A k \in DOMAIN made : made[k].kind = "group"
  <2>1. \A k \in DOMAIN made : made[k].kind = "group"
    BY JobFields DEF ParseGroup
  <2> QED BY <1>5, <1>6, <2>1
<1>8. ASSUME NEW k \in Elems(j), NEW r \in ToSet(Lines[f][k])
      PROVE  ParseGroup(f, r) \in ToSet(made)
  <2>1. Lines[f][k] \in ToSet(s) BY <1>2
  <2>2. PICK m \in DOMAIN s : s[m] = Lines[f][k] BY <2>1 DEF ToSet
  <2>3. r \in ToSet(news) BY <1>4, <1>8, <2>2
  <2>4. PICK i \in DOMAIN news : news[i] = r BY <2>3 DEF ToSet
  <2>5. made[i] = ParseGroup(f, r) /\ i \in DOMAIN made BY <2>4
  <2> HIDE DEF made
  <2> QED BY <2>5 DEF ToSet
<1> QED BY <1>1, <1>7, <1>8 DEF f, j, news

\* The lines of a job are parsed; their groups lie in the outbox.
LEMMA ParseLinesKeepsInv ==
  ASSUME Inv, NEW e \in Executors, ParseLines(e)
  PROVE  Inv' /\ SameSaves /\ Comes({})
<1>1. TypeOK /\ NoneTwice /\ GroupsCounted /\ Steps BY DEF Inv
<1>2. /\ InStep(e, "lines", "run") /\ Continue(e, "cache")
      /\ outbox' = [outbox EXCEPT ![e] =
                      [k \in DOMAIN News(e) |-> ParseGroup(job[e].of, News(e)[k])]]
      /\ UNCHANGED <<candidate, ready>> /\ UNCHANGED Fixed
  BY <1>1 DEF ParseLines, Fixed, queues, parsing, groups, saving
<1> DEFINE made == [k \in DOMAIN News(e) |-> ParseGroup(job[e].of, News(e)[k])]
<1>3. /\ job' = job /\ at'[e] = "cache" /\ \A x \in Executors \ {e} : at'[x] = at[x]
      /\ job' \in [Executors -> AllJobs \cup {NoJob}] /\ at' \in [Executors -> Labels]
  BY <1>1, <1>2, Continued DEF Labels
<1>4. job[e] # NoJob /\ job[e].kind = "lines" /\ at[e] = "run" /\ made \in Seq(AllJobs)
  BY <1>1, <1>2, JobInHand, NewsOfJob DEF JobKinds
<1>5. outbox[e] = <<>> BY <1>1, <1>4 DEF Steps, StepOf
<1>6. outbox'[e] = made /\ \A x \in Executors \ {e} : outbox'[x] = outbox[x]
  BY <1>1, <1>2 DEF TypeOK
<1>7. Others(e) BY <1>3, <1>6 DEF Others
<1>8. Effect({}, {}, 0)
  <2>1. ASSUME NEW q \in Queues PROVE Queue'[q] = Queue[q]
    <3>1. CASE q = Candidates BY <1>2, <3>1, QueueValues, QueueValuesNext
    <3>2. CASE q = Ready(e) BY <1>2, <3>2, QueueValues, QueueValuesNext
    <3>3. CASE q = Hand(e) BY <1>3, <3>3, QueueValues, QueueValuesNext
    <3>4. CASE q = Outbox(e)
      <4>1. Queue'[q] = <<>> BY <1>3, <3>4, QueueValuesNext
      <4>2. Queue[q] = <<>> BY <1>5, <3>4, QueueValues
      <4> QED BY <4>1, <4>2
    <3>5. ASSUME NEW x \in Executors \ {e}, q \in {Ready(x), Outbox(x), Hand(x)}
          PROVE  Queue'[q] = Queue[q]
      <4>1. /\ ready'[x] = ready[x] /\ outbox'[x] = outbox[x] /\ job'[x] = job[x]
            /\ at'[x] = at[x]
        BY <1>2, <1>3, <1>6
      <4> QED BY <3>5, <4>1, ExecutorKept
    <3> QED BY <3>1, <3>2, <3>3, <3>4, <3>5, QueueNames
  <2> QED BY <1>1, <2>1, QueuesSame
<1>9. TypeOK'
  <2>1. outbox' \in [Executors -> Seq(AllJobs)]
    <3> HIDE DEF made
    <3>1. outbox \in [Executors -> Seq(AllJobs)] /\ outbox' = [outbox EXCEPT ![e] = made]
      BY <1>1, <1>2 DEF TypeOK, made
    <3> QED BY <1>4, <3>1
  <2> QED BY <1>1, <1>2, <1>3, <2>1 DEF TypeOK, Fixed
<1>10. Steps'
  <2>1. StepOf(e)'
    <3>1. job'[e] = job[e] /\ News(e)' = News(e) BY <1>3 DEF News
    <3>2. outbox'[e] = [k \in DOMAIN News(e)' |-> ParseGroup(job'[e].of, News(e)'[k])]
      BY <1>6, <3>1
    <3> HIDE DEF made
    <3> QED BY <1>3, <1>4, <3>1, <3>2 DEF StepOf
  <2> QED BY <1>1, <1>7, <2>1, StepsKept
<1>11. /\ InHand({"push"})' = InHand({"push"})
       /\ InHand({"check", "count"})' = InHand({"check", "count"})
  BY <1>3, <1>4, <1>7, HandsSame
<1>12. Inv' BY <1>2, <1>8, <1>9, <1>10, <1>11, PlainStep DEF Avoid
<1>13. SameSaves
  <2>1. SameLines BY <1>2, <1>8, <1>11, LinesKept DEF Avoid, Fixed
  <2> QED BY <1>8, <2>1, SavesKept DEF Avoid
<1>14. Comes({}) BY <1>8 DEF Effect, Comes
<1> QED BY <1>12, <1>13, <1>14

\* A job in hand is present, and its label is not that of an idle executor.
LEMMA HandIsPresent ==
  ASSUME TypeOK, Steps, NEW labels, "idle" \notin labels
  PROVE  InHand(labels) \subseteq Present
<1> SUFFICES ASSUME NEW e \in Executors, at[e] \in labels PROVE job[e] \in Present
  BY DEF InHand
<1>1. job[e] # NoJob BY DEF Steps, StepOf
<1>2. Queue[Hand(e)] = <<job[e]>> /\ Hand(e) \in Queues
  BY <1>1, QueueValues, QueueNames
<1>3. DOMAIN Queue[Hand(e)] = {1} /\ Queue[Hand(e)][1] = job[e] BY <1>2
<1>4. <<Hand(e), 1>> \in PlacesIn(Queue) /\ At(Queue, <<Hand(e), 1>>) = job[e]
  BY <1>2, <1>3, PlaceFacts DEF At
<1> QED BY <1>4 DEF Present, JobsIn

\* A file's lines have at least one job.
LEMMA SomeLines ==
  ASSUME NEW f \in Files
  PROVE  ToSet(LinesJobs(f)) # {}
<1> DEFINE slice == Slice(Len(Lines[f]), LinesPerJob, Half(LinesPerJob))
           full == FullJobs(Len(Lines[f]), LinesPerJob, Half(LinesPerJob))
<1>1. full \in Nat BY ConstantTypes, FullJobsBounds
<1>2. DOMAIN slice = 1 .. full + 1 BY DEF Slice
<1>3. DOMAIN LinesJobs(f) = DOMAIN slice BY DEF LinesJobs, Jobs
<1> HIDE DEF full, slice
<1>4. 1 \in DOMAIN LinesJobs(f) BY <1>1, <1>2, <1>3
<1> QED BY <1>4 DEF ToSet

\* The jobs of a file's lines replace the job of the file.
LinesPushed(e) ==
  \E f \in Files :
    /\ f = job[e].of /\ FilePending(f) /\ ~Parsed(f)'
    /\ \A g \in Files \ {f} : SameLinesOf(g)
    /\ \A j : j.kind \in {"items", "save"} => (j \in Present' <=> j \in Present)

\* A file's lines are divided into jobs.
LEMMA PushLinesKeepsInv ==
  ASSUME Inv, NEW e \in Executors, PushLines(e)
  PROVE  Inv' /\ LinesPushed(e) /\ Comes({"lines"})
<1>0. /\ TypeOK /\ Steps /\ NoneTwice /\ GroupsCounted /\ LinesCounted /\ NamesFollowed
      /\ ItemsHeldBack /\ ItemsCounted /\ TypesFollowItems
  BY DEF Inv
<1>a. InStep(e, "file", "wait") BY DEF PushLines
<1>2. PICK f \in Files : /\ f = job[e].of /\ job[e] = ParseFile(f) /\ job[e] \in Present
                         /\ job[e].kind = "file" /\ at[e] = "wait"
  BY <1>0, <1>a, JobInHand DEF Fits, JobKinds
<1> DEFINE more == LinesJobs(f)
<1>1. /\ JobEnds(e) /\ candidate' = candidate \o more
      /\ UNCHANGED <<ready, outbox>> /\ UNCHANGED Fixed
  BY <1>2 DEF PushLines, Push, Fixed, parsing, groups, saving
<1>3. FilePending(f) /\ JobsOf("lines", f) = {} /\ readyCount[f] = 0
  BY <1>0, <1>2 DEF FilePending, LinesCounted, LinesCountedOf
<1>4. /\ more \in Seq(AllJobs) /\ \A k \in DOMAIN more : more[k].kind = "lines" /\ more[k].of = f
      /\ \A k, m \in DOMAIN more : k # m => more[k] # more[m]
      /\ Span(ToSet(more)) = 1 .. Len(Lines[f])
  BY PartsOfLines DEF Parts
<1> HIDE DEF more
<1>5. \A j \in ToSet(more) : j.kind = "lines" /\ j.of = f BY <1>4 DEF ToSet
<1>6. \A j \in Present : ~(j.kind = "lines" /\ j.of = f) BY <1>3 DEF JobsOf
<1>7. Fresh(more) /\ NoGroups(more) BY <1>4, <1>6 DEF Fresh, NoGroups
<1>8. /\ Effect({job[e]}, ToSet(more), 0) /\ Others(e) /\ job'[e] = NoJob /\ at'[e] = "idle"
      /\ outbox'[e] = <<>> /\ candidate' \in Seq(AllJobs)
      /\ job' \in [Executors -> AllJobs \cup {NoJob}] /\ at' \in [Executors -> Labels]
  BY <1>1, <1>a, <1>4, <1>7, EndEffectMore DEF JobKinds
<1>9. TypeOK' /\ Steps'
  <2>1. TypeOK' BY <1>0, <1>1, <1>8 DEF TypeOK, Fixed
  <2> QED BY <1>0, <1>8, <2>1, PlainSteps
<1>10. /\ InHand({"push"})' = InHand({"push"})
       /\ InHand({"check", "count"})' = InHand({"check", "count"})
  BY <1>2, <1>8, HandsSame
<1>11. /\ parseFiles' = parseFiles /\ readyCount' = readyCount /\ groupJobs' = groupJobs
       /\ cache' = cache /\ added' = added /\ checked' = checked /\ known' = known
       /\ itemReady' = itemReady /\ typeReady' = typeReady /\ resolved' = resolved
  BY <1>1 DEF Fixed
<1>12. NoneTwice' /\ GroupsCounted'
  <2>1. groupJobs' = groupJobs + 0 BY <1>0, <1>11 DEF TypeOK
  <2> QED
    BY <1>0, <1>5, <1>8, <1>11, <2>1, FilesKept, GroupsStayCounted DEF Avoid
<1>13. ItemsCounted' /\ TypesFollowItems'
  <2>1. SameBuilds BY <1>2, <1>5, <1>8, <1>10, BuildsKept DEF Avoid
  <2> QED BY <1>0, <1>5, <1>8, <1>11, <2>1, ItemsStay, TypesStay DEF Avoid
<1>14. SameGroups /\ NoNewItems
  BY <1>2, <1>5, <1>8, <1>11, GroupsKept, ItemsKept DEF Avoid
<1>15. \A g \in Files \ {f} : SameLinesOf(g)
  BY <1>2, <1>5, <1>8, <1>10, <1>11, LinesKeptOf
<1>16. ~FilePending(f)'
  <2>1. job[e] \notin Present' BY <1>2, <1>5, <1>8 DEF Effect, Once
  <2>2. ParseFile(f) \notin ToSet(parseFiles)
    BY <1>0, <1>2 DEF NoneTwice, ToSet
  <2>3. FilePending(f)' <=> ParseFile(f) \in Present' \/ ParseFile(f) \in ToSet(parseFiles)'
    BY DEF FilePending, ParseFile
  <2> QED BY <1>2, <1>11, <2>1, <2>2, <2>3 DEF ToSet
<1>17. /\ LinesLeft(f)' = 1 .. Len(Lines[f])
       /\ ~(JobsOf("lines", f)' \subseteq InHand({"push"})')
  <2>1. JobsOf("lines", f)' = ToSet(more)
    <3>1. JobsOf("lines", f)' = {j \in Present' : j.kind = "lines" /\ j.of = f}
      BY DEF JobsOf
    <3> QED BY <1>5, <1>6, <1>8, <3>1 DEF Effect
  <2>2. InHand({"push"}) \subseteq Present BY <1>0, HandIsPresent
  <2>3. JobsOf("lines", f)' \ InHand({"push"})' = ToSet(more)
    BY <1>5, <1>6, <1>10, <2>1, <2>2
  <2>4. LinesLeft(f)' = Span(JobsOf("lines", f)' \ InHand({"push"})')
    BY DEF LinesLeft, Span, Elems
  <2>5. ToSet(more) # {} BY SomeLines DEF more
  <2> QED BY <1>4, <2>3, <2>4, <2>5
<1>18. LinesCounted' /\ NamesFollowed'
  <2>1. LinesCountedOf(f)'
    <3>1. Cardinality(1 .. Len(Lines[f])) = Len(Lines[f]) /\ Len(Lines[f]) \in Nat
      <4>1. Len(Lines[f]) \in Nat BY <1>2, ConstantTypes
      <4> QED BY <4>1, CountUpTo
    <3>2. readyCount'[f] + Cardinality(LinesLeft(f)') = Len(Lines[f])
      BY <1>3, <1>11, <1>17, <3>1
    <3> QED BY <1>16, <3>2 DEF LinesCountedOf
  <2>2. NamesFollowedOf(f)'
    <3>1. \A k \in DOMAIN Lines[f] : ~Counted(f, k)'
      <4>1. DOMAIN Lines[f] = 1 .. Len(Lines[f])
        BY <1>2, ConstantTypes, LenProperties
      <4> QED BY <1>17, <4>1 DEF Counted
    <3> QED BY <3>1 DEF NamesFollowedOf
  <2>3. ASSUME NEW g \in Files PROVE LinesCountedOf(g)' /\ NamesFollowedOf(g)'
    <3>1. CASE g = f BY <2>1, <2>2, <3>1
    <3>2. CASE g # f
      BY <1>0, <1>11, <1>14, <1>15, <3>2, LinesStayCounted, NamesStayFollowed
         DEF LinesCounted, NamesFollowed
    <3> QED BY <3>1, <3>2
  <2> QED BY <2>3 DEF LinesCounted, NamesFollowed
<1>19. ItemsHeldBack'
  <2> SUFFICES ASSUME NEW s \in Subs
               PROVE  /\ cache'[s] # <<>> => Parsed(FileOf[s])' /\ groupJobs' > 0
                      /\ JobsOf("items", s)' # {} => Parsed(FileOf[s])' /\ Resolved(FileOf[s])'
    BY DEF ItemsHeldBack
  <2>1. FileOf[s] \in Files BY ConstantTypes
  <2>2. Parsed(FileOf[s]) => Parsed(FileOf[s])'
    <3>1. CASE FileOf[s] = f BY <1>3, <3>1 DEF Parsed
    <3>2. CASE FileOf[s] # f BY <1>15, <2>1, <3>2 DEF SameLinesOf
    <3> QED BY <3>1, <3>2
  <2>3. Resolved(FileOf[s]) => Resolved(FileOf[s])' BY <1>11 DEF Resolved
  <2> QED BY <1>0, <1>11, <1>14, <2>2, <2>3 DEF ItemsHeldBack, NoNewItems
<1>20. Inv' BY <1>9, <1>12, <1>13, <1>18, <1>19 DEF Inv
<1>21. ~Parsed(f)' BY <1>17, ParsedNext
<1>22. \A j : j.kind \in {"items", "save"} => (j \in Present' <=> j \in Present)
  BY <1>2, <1>5, <1>8 DEF Effect
<1>23. Comes({"lines"}) BY <1>5, <1>8 DEF Effect, Comes
<1> QED BY <1>2, <1>3, <1>15, <1>20, <1>21, <1>22, <1>23 DEF LinesPushed

\* The jobs of the groups that lines name are pushed, after the lines are counted.
LEMMA PushParsedKeepsInv ==
  ASSUME Inv, NEW e \in Executors, PushParsed(e)
  PROVE  Inv' /\ SameSaves /\ Comes({})
<1>0. /\ TypeOK /\ Steps /\ NoneTwice /\ GroupsCounted /\ LinesCounted /\ NamesFollowed
      /\ ItemsHeldBack /\ ItemsCounted /\ TypesFollowItems
  BY DEF Inv
<1>1. /\ InStep(e, "lines", "push") /\ JobEnds(e) /\ candidate' = candidate \o outbox[e]
      /\ outbox' = [outbox EXCEPT ![e] = <<>>] /\ ready' = ready /\ UNCHANGED Fixed
  BY DEF PushParsed, Push, Fixed, parsing, groups, saving
<1>2. /\ job[e] # NoJob /\ job[e].kind = "lines" /\ at[e] = "push" /\ job[e] \in Present
  BY <1>0, <1>1, JobInHand DEF JobKinds
<1>3. /\ job'[e] = NoJob /\ at'[e] = "idle"
      /\ \A x \in Executors \ {e} : job'[x] = job[x] /\ at'[x] = at[x]
      /\ job' \in [Executors -> AllJobs \cup {NoJob}] /\ at' \in [Executors -> Labels]
  BY <1>0, <1>1, Ended
<1>4. /\ outbox'[e] = <<>> /\ \A x \in Executors \ {e} : outbox'[x] = outbox[x]
      /\ outbox' \in [Executors -> Seq(AllJobs)]
  BY <1>0, <1>1 DEF TypeOK
<1>5. outbox[e] \in Seq(AllJobs) /\ candidate \in Seq(AllJobs)
  BY <1>0 DEF TypeOK
<1>6. candidate' \in Seq(AllJobs) BY <1>1, <1>5, ConcatProperties
<1>7. Effect({job[e]}, {}, 0) /\ Others(e)
  <2>1. outbox[e] \o <<>> = outbox[e] BY <1>5
  <2>2. JobEnded(e, <<>>) BY <1>1, <1>2, <1>3, <1>4, <2>1 DEF JobEnded
  <2>3. Fresh(<<>>) /\ NoGroups(<<>>) /\ <<>> \in Seq(AllJobs) /\ ToSet(<<>>) = {}
    BY DEF Fresh, NoGroups, ToSet
  <2>4. Effect({job[e]}, ToSet(<<>>), IF job[e].kind = "group" THEN -1 ELSE 0)
    BY <1>0, <2>2, <2>3, EffectOfEnd
  <2> QED BY <1>2, <1>3, <1>4, <2>3, <2>4 DEF Others
<1>8. TypeOK' /\ Steps'
  <2>1. TypeOK' BY <1>0, <1>1, <1>3, <1>4, <1>6 DEF TypeOK, Fixed
  <2> QED BY <1>0, <1>3, <1>4, <1>7, <2>1, PlainSteps
<1>9. InHand({"check", "count"})' = InHand({"check", "count"})
  BY <1>2, <1>3, <1>7, HandsSame
<1>10. /\ parseFiles' = parseFiles /\ readyCount' = readyCount /\ groupJobs' = groupJobs
       /\ cache' = cache /\ added' = added /\ checked' = checked /\ known' = known
       /\ itemReady' = itemReady /\ typeReady' = typeReady /\ resolved' = resolved
  BY <1>1 DEF Fixed
<1>11. NoneTwice' /\ GroupsCounted'
  <2>1. groupJobs' = groupJobs + 0 BY <1>0, <1>10 DEF TypeOK
  <2> QED BY <1>0, <1>7, <1>10, <2>1, FilesKept, GroupsStayCounted DEF Avoid
<1>12. ItemsCounted' /\ TypesFollowItems'
  <2>1. SameBuilds BY <1>2, <1>7, <1>9, BuildsKept DEF Avoid
  <2> QED BY <1>0, <1>7, <1>10, <2>1, ItemsStay, TypesStay DEF Avoid
<1>13. SameGroups /\ NoNewItems
  BY <1>2, <1>7, <1>10, GroupsKept, ItemsKept DEF Avoid
<1>14. SameLines
  <2> SUFFICES ASSUME NEW f \in Files PROVE SameLinesOf(f) BY DEF SameLines
  <2>1. \A j : j # job[e] => (j \in InHand({"push"})' <=> j \in InHand({"push"}))
    BY <1>3, <1>7, HandsEnd
  <2>2. job[e] \in InHand({"push"}) /\ job[e] \notin Present'
    <3>1. job[e] \in InHand({"push"}) BY <1>2 DEF InHand
    <3> QED BY <1>2, <1>7, <3>1 DEF Effect, Once
  <2>3. \A j : j # job[e] => (j \in Present' <=> j \in Present)
    BY <1>7 DEF Effect
  <2>4. JobsOf("lines", f)' = {j \in Present' : j.kind = "lines" /\ j.of = f}
    BY DEF JobsOf
  <2>5. JobsOf("lines", f) = {j \in Present : j.kind = "lines" /\ j.of = f}
    BY DEF JobsOf
  <2>6. JobsOf("lines", f)' \ InHand({"push"})' = JobsOf("lines", f) \ InHand({"push"})
    BY <2>1, <2>2, <2>3, <2>4, <2>5
  <2>7. LinesLeft(f)' = Span(JobsOf("lines", f)' \ InHand({"push"})')
    BY DEF LinesLeft, Span, Elems
  <2>8. FilePending(f)' <=> FilePending(f)
    <3>1. FilePending(f)' <=> ParseFile(f) \in Present' \/ ParseFile(f) \in ToSet(parseFiles)'
      BY DEF FilePending, ParseFile
    <3>2. ParseFile(f).kind = "file" BY JobFields DEF ParseFile
    <3> QED BY <1>2, <1>10, <2>3, <3>1, <3>2 DEF FilePending, ToSet
  <2>9. JobsOf("lines", f)' \subseteq JobsOf("lines", f)
    BY <2>2, <2>3, <2>4, <2>5
  <2>10. Parsed(f)' <=> Parsed(f) BY <2>6, <2>8, ParsedNext DEF Parsed
  <2> QED BY <2>6, <2>7, <2>8, <2>9, <2>10 DEF SameLinesOf, LinesLeft
<1>15. LinesCounted' /\ NamesFollowed' /\ ItemsHeldBack'
  BY <1>0, <1>10, <1>13, <1>14, LinesStay, ItemsStayHeldBack DEF SameGroups
<1>16. Inv' BY <1>8, <1>11, <1>12, <1>15 DEF Inv
<1>17. SameSaves BY <1>2, <1>7, <1>14, SavesKept DEF Avoid
<1>18. Comes({}) BY <1>7 DEF Effect, Comes
<1> QED BY <1>16, <1>17, <1>18

-----------------------------------------------------------------------------
(* Lines and items are taken off what is left over job by job.               *)

\* What is in a queue is a job that there may be.
LEMMA PresentAreJobs ==
  ASSUME TypeOK
  PROVE  Present \subseteq AllJobs
<1> SUFFICES ASSUME NEW p \in PlacesIn(Queue) PROVE At(Queue, p) \in AllJobs
  BY DEF Present, JobsIn
<1>1. p[1] \in Queues /\ p[2] \in DOMAIN Queue[p[1]] /\ At(Queue, p) = Queue[p[1]][p[2]]
  BY PlaceFacts DEF At
<1>2. Queue[p[1]] \in Seq(AllJobs)
  <2>1. CASE p[1] = Candidates BY <2>1, QueueValues DEF TypeOK
  <2>2. ASSUME NEW e \in Executors, p[1] = Ready(e) PROVE Queue[p[1]] \in Seq(AllJobs)
    <3>1. ready[e] \in Seq(AllJobs) BY DEF TypeOK
    <3> QED BY <2>2, <3>1, QueueValues
  <2>3. ASSUME NEW e \in Executors, p[1] = Outbox(e) PROVE Queue[p[1]] \in Seq(AllJobs)
    <3>1. outbox[e] \in Seq(AllJobs) /\ <<>> \in Seq(AllJobs) BY DEF TypeOK
    <3> QED BY <2>3, <3>1, QueueValues
  <2>4. ASSUME NEW e \in Executors, p[1] = Hand(e) PROVE Queue[p[1]] \in Seq(AllJobs)
    <3>1. CASE job[e] = NoJob
      <4>1. Queue[p[1]] = <<>> BY <2>4, <3>1, QueueValues
      <4> QED BY <4>1
    <3>2. CASE job[e] # NoJob
      <4>1. job[e] \in AllJobs BY <3>2 DEF TypeOK
      <4>2. Queue[p[1]] = <<job[e]>> BY <2>4, <3>2, QueueValues
      <4> QED BY <4>1, <4>2
    <3> QED BY <3>1, <3>2
  <2> QED BY <1>1, <2>1, <2>2, <2>3, <2>4, QueueNames
<1>3. \A k \in DOMAIN Queue[p[1]] : Queue[p[1]][k] \in AllJobs
  <2> DEFINE q == Queue[p[1]]
  <2>1. q \in Seq(AllJobs) BY <1>2
  <2> HIDE DEF q
  <2>2. \A k \in DOMAIN q : q[k] \in AllJobs
    BY <2>1, LenProperties, ElementOfSeq
  <2> QED BY <2>2 DEF q
<1> QED BY <1>1, <1>3

\* No two executors have the same part of a file or of a group in hand.
LEMMA OneHand ==
  ASSUME NoneTwice, NEW e \in Executors, NEW x \in Executors, job[x] = job[e],
         job[e] # NoJob, job[e].kind \in Once
  PROVE  x = e
<1>1. /\ Queue[Hand(e)] = <<job[e]>> /\ Hand(e) \in Queues
      /\ Queue[Hand(x)] = <<job[e]>> /\ Hand(x) \in Queues
  BY QueueValues, QueueNames
<1>2. /\ DOMAIN Queue[Hand(e)] = {1} /\ Queue[Hand(e)][1] = job[e]
      /\ DOMAIN Queue[Hand(x)] = {1} /\ Queue[Hand(x)][1] = job[e]
  BY <1>1
<1>3. /\ <<Hand(e), 1>> \in PlacesIn(Queue) /\ At(Queue, <<Hand(e), 1>>) = job[e]
      /\ <<Hand(x), 1>> \in PlacesIn(Queue) /\ At(Queue, <<Hand(x), 1>>) = job[e]
  BY <1>1, <1>2, PlaceFacts DEF At
<1>4. <<Hand(e), 1>> = <<Hand(x), 1>> BY <1>3 DEF NoneTwice, NoneTwiceIn
<1> QED BY <1>4, QueueNames

\* An executor that comes to a step brings its job along.
LEMMA HandsJoin ==
  ASSUME NEW e \in Executors, NEW labels, Others(e), at[e] \notin labels, at'[e] \in labels,
         job'[e] = job[e]
  PROVE  InHand(labels)' = InHand(labels) \cup {job[e]}
  BY DEF InHand, Others

\* The jobs of a file's lines share no line.
LEMMA LinesApart ==
  ASSUME TypeOK, NEW f \in Files
  PROVE  /\ \A a, b \in JobsOf("lines", f) : a # b => Elems(a) \cap Elems(b) = {}
         /\ JobsOf("lines", f) \subseteq ToSet(LinesJobs(f))
         /\ Span(JobsOf("lines", f)) \subseteq 1 .. Len(Lines[f])
<1>1. JobsOf("lines", f) \subseteq ToSet(LinesJobs(f))
  <2> SUFFICES ASSUME NEW j \in Present, j.kind = "lines", j.of = f PROVE j \in ToSet(LinesJobs(f))
    BY DEF JobsOf
  <2>1. Fits(j) BY PresentAreJobs, FieldsOfJobs
  <2> QED BY <2>1 DEF Fits
<1>2. /\ \A a, b \in ToSet(LinesJobs(f)) : a # b => Elems(a) \cap Elems(b) = {}
      /\ Span(ToSet(LinesJobs(f))) = 1 .. Len(Lines[f])
  BY PartsOfLines DEF Parts
<1> QED BY <1>1, <1>2 DEF Span

\* The jobs of a group's items share no item.
LEMMA BuildsApart ==
  ASSUME TypeOK, NEW i \in StaticItems
  PROVE  /\ \A a, b \in JobsOf("build", i) : a # b => Elems(a) \cap Elems(b) = {}
         /\ JobsOf("build", i) \subseteq ToSet(BuildJobs(i))
         /\ Span(JobsOf("build", i)) \subseteq 1 .. Size[Plugin[i]]
<1>1. JobsOf("build", i) \subseteq ToSet(BuildJobs(i))
  <2> SUFFICES ASSUME NEW j \in Present, j.kind = "build", j.of = i PROVE j \in ToSet(BuildJobs(i))
    BY DEF JobsOf
  <2>1. Fits(j) BY PresentAreJobs, FieldsOfJobs
  <2> QED BY <2>1 DEF Fits
<1>2. /\ \A a, b \in ToSet(BuildJobs(i)) : a # b => Elems(a) \cap Elems(b) = {}
      /\ Span(ToSet(BuildJobs(i))) = 1 .. Size[Plugin[i]]
  BY PartsOfGroup DEF Parts
<1> QED BY <1>1, <1>2 DEF Span

\* When no ParseGroup job is left, a parsed file has all its groups.
LEMMA AllResolved ==
  ASSUME NamesFollowed, GroupsCounted, groupJobs = 0, NEW f \in Files, Parsed(f)
  PROVE  Resolved(f)
<1>1. GroupsIn(Queue) = {} BY FS_EmptySet DEF GroupsCounted
<1>2. \A r : ParseGroup(f, r) \notin Present
  <2>1. \A r : ParseGroup(f, r).kind = "group" BY JobFields DEF ParseGroup
  <2> QED BY <1>1, <2>1 DEF GroupsIn, Present, JobsIn
<1>3. ASSUME NEW r \in RequestsOf(f) PROVE <<f, r>> \in resolved
  <2>1. PICK k \in DOMAIN Lines[f] : r \in ToSet(Lines[f][k]) BY DEF RequestsOf
  <2>2. Counted(f, k)
    <3>1. LinesLeft(f) = {} BY DEF LinesLeft, Span, Parsed
    <3> QED BY <3>1 DEF Counted, Parsed
  <2> QED BY <1>2, <2>1, <2>2 DEF NamesFollowed, NamesFollowedOf
<1> QED BY <1>3 DEF Resolved

\* With no group left to parse, a file whose lines are parsed has all its groups.
LEMMA ResolvedWhenParsed ==
  NamesFollowed /\ GroupsCounted /\ groupJobs = 0 => \A f \in Files : Parsed(f) => Resolved(f)
  BY AllResolved

\* The same after a step.
LEMMA ResolvedWhenParsedNext ==
  (NamesFollowed /\ GroupsCounted /\ groupJobs = 0 => \A f \in Files : Parsed(f) => Resolved(f))'
  BY ResolvedWhenParsed, PTL

-----------------------------------------------------------------------------
(* The cache.                                                                *)

\* What the cache holds are jobs of items.
LEMMA Cached ==
  ASSUME NEW c \in [Subs -> Seq(AllJobs)], \A s \in Subs : c[s] \in Seq(ItemsOf(s))
  PROVE  /\ FlattenSeq(c) \in Seq(AllJobs)
         /\ \A j \in ToSet(FlattenSeq(c)) : j.kind = "items" /\ (j.of \in Subs => c[j.of] # <<>>)
         /\ \A s \in Subs : \A j : j.of = s => (j \in ToSet(FlattenSeq(c)) <=> j \in ToSet(c[s]))
         /\ \A jobs : OnceIn(c, jobs) =>
              IsInjective(FlattenSeq(c)) /\ ToSet(FlattenSeq(c)) \cap jobs = {}
<1>1. c \in Seq(Seq(AllJobs)) /\ DOMAIN c = Subs
  <2>1. DOMAIN FileOf = 1 .. Len(FileOf) /\ Len(FileOf) \in Nat
    BY ScenarioAssumption, LenProperties
  <2>2. c \in [1 .. Len(FileOf) -> Seq(AllJobs)] BY <2>1 DEF Subs
  <2> QED BY <2>1, <2>2 DEF Subs
<1>2. /\ FlattenSeq(c) \in Seq(AllJobs)
      /\ ToSet(FlattenSeq(c)) = UNION {ToSet(c[k]) : k \in DOMAIN c}
  BY <1>1, ElementsOfFlattened
<1>3. ASSUME NEW s \in Subs, NEW j \in ToSet(c[s]) PROVE j.kind = "items" /\ j.of = s
  <2>1. c[s] \in Seq(ItemsOf(s)) OBVIOUS
  <2>2. PICK k \in DOMAIN c[s] : j = c[s][k] BY <1>3 DEF ToSet
  <2>3. j \in ItemsOf(s)
    <3> DEFINE q == c[s]
               S == ItemsOf(s)
    <3>1. q \in Seq(S) /\ k \in DOMAIN q /\ j = q[k] BY <2>1, <2>2
    <3> HIDE DEF q, S
    <3>2. j \in S BY <3>1, LenProperties, ElementOfSeq
    <3> QED BY <3>2 DEF S
  <2> QED BY <2>3 DEF ItemsOf
<1>4. ASSUME NEW j \in ToSet(FlattenSeq(c))
      PROVE  j.kind = "items" /\ j.of \in Subs /\ j \in ToSet(c[j.of]) /\ c[j.of] # <<>>
  <2>1. PICK s \in Subs : j \in ToSet(c[s]) BY <1>1, <1>2, <1>4
  <2>2. j.kind = "items" /\ j.of = s BY <1>3, <2>1
  <2>3. c[s] # <<>> BY <2>1 DEF ToSet
  <2> QED BY <2>1, <2>2, <2>3
<1>5. \A s \in Subs : \A j \in ToSet(c[s]) : j \in ToSet(FlattenSeq(c))
  BY <1>1, <1>2
<1>6. ASSUME NEW jobs, OnceIn(c, jobs)
      PROVE  IsInjective(FlattenSeq(c)) /\ ToSet(FlattenSeq(c)) \cap jobs = {}
  <2>1. \A s, u \in Subs : s # u => ToSet(c[s]) \cap ToSet(c[u]) = {} BY <1>3
  <2>2. AllApart(c) BY <1>1, <1>6, <2>1 DEF AllApart, OnceIn
  <2>3. IsInjective(FlattenSeq(c)) BY <1>1, <2>2, ElementsOfFlattened
  <2>4. ToSet(FlattenSeq(c)) \cap jobs = {} BY <1>4, <1>6 DEF OnceIn
  <2> QED BY <2>3, <2>4
<1> QED BY <1>2, <1>4, <1>5, <1>6

\* The first n of the jobs are ParseGroup jobs.
FirstAreGroups(more, n) == \A k \in DOMAIN more : more[k].kind = "group" <=> k <= n

\* The job in hand goes on, and its newJobs are counted now.
LEMMA OutboxEffect ==
  ASSUME Inv, NEW e \in Executors, NEW kind \in JobKinds, NEW from, NEW to \in Labels,
         InStep(e, kind, from), Continue(e, to), to \notin {"cache", "idle"},
         Queue[Outbox(e)] = <<>>, NEW more \in Seq(AllJobs), Fresh(more),
         NEW n \in 0 .. Len(more), FirstAreGroups(more, n),
         outbox' = [outbox EXCEPT ![e] = more], UNCHANGED <<candidate, ready>>
  PROVE  /\ Effect({}, ToSet(more), n) /\ Others(e) /\ job' = job /\ at'[e] = to
         /\ outbox'[e] = more /\ outbox' \in [Executors -> Seq(AllJobs)]
         /\ job' \in [Executors -> AllJobs \cup {NoJob}] /\ at' \in [Executors -> Labels]
<1>1. TypeOK /\ NoneTwice /\ GroupsCounted BY DEF Inv
<1>2. /\ job' = job /\ at'[e] = to /\ \A x \in Executors \ {e} : at'[x] = at[x]
      /\ job' \in [Executors -> AllJobs \cup {NoJob}] /\ at' \in [Executors -> Labels]
  BY <1>1, Continued
<1>3. /\ outbox'[e] = more /\ \A x \in Executors \ {e} : outbox'[x] = outbox[x]
      /\ outbox' \in [Executors -> Seq(AllJobs)]
  BY <1>1 DEF TypeOK
<1>4. ASSUME NEW q \in Queues \ {Outbox(e)} PROVE Queue'[q] = Queue[q]
  <2>1. CASE q = Candidates BY <2>1, QueueValues, QueueValuesNext
  <2>2. CASE q = Ready(e) BY <2>2, QueueValues, QueueValuesNext
  <2>3. CASE q = Hand(e) BY <1>2, <2>3, QueueValues, QueueValuesNext
  <2>4. ASSUME NEW x \in Executors \ {e}, q \in {Ready(x), Outbox(x), Hand(x)}
        PROVE  Queue'[q] = Queue[q]
    <3>1. /\ ready'[x] = ready[x] /\ outbox'[x] = outbox[x] /\ job'[x] = job[x]
          /\ at'[x] = at[x]
      BY <1>2, <1>3
    <3> QED BY <2>4, <3>1, ExecutorKept
  <2> QED BY <2>1, <2>2, <2>3, <2>4, QueueNames
<1>5. Effect({}, ToSet(more), n)
  <2>1. /\ Outbox(e) \in Queues /\ Queue[Outbox(e)] \in Seq(AllJobs)
        /\ Queue'[Outbox(e)] = Queue[Outbox(e)] \o more
    <3>1. Queue'[Outbox(e)] = more BY <1>2, <1>3, QueueValuesNext
    <3>2. <<>> \o more = more /\ <<>> \in Seq(AllJobs) OBVIOUS
    <3> QED BY <3>1, <3>2, QueueNames
  <2>2. \A k \in DOMAIN more : more[k].kind = "group" <=> k <= n
    BY DEF FirstAreGroups
  <2> QED BY <1>1, <1>4, <2>1, <2>2, EffectOfGrowth
<1> QED BY <1>2, <1>3, <1>5 DEF Others

IsLast(f, j) == readyCount[f] + j.count = Len(Lines[f])
Releases(e) == IsLast(job[e].of, job[e]) /\ groupJobs + Len(outbox[e]) = 0

\* The last lines of a file bring the first jobs for its items.
FilledBy(e, f, filled) ==
  /\ \A s \in Subs : FileOf[s] # f \/ ~IsLast(f, job[e]) => filled[s] = cache[s]
  /\ \A s \in Subs : FileOf[s] = f => cache[s] = <<>> /\ JobsOf("items", s) = {}
  /\ IsLast(f, job[e]) =>
       \A s \in Subs : FileOf[s] = f =>
         \E size \in SizesOf(Src[s]) : filled[s] = ItemsJobs(s, size)

\* The cache and the newJobs of a ParseConfigLines job, once its lines are counted.
CountedBy(e, f, filled, more) ==
  /\ \A s \in Subs : filled[s] \in Seq(ItemsOf(s))
  /\ \A s \in Subs : filled[s] # <<>> => cache[s] # <<>> \/ (IsLast(f, job[e]) /\ FileOf[s] = f)
  /\ cache' = IF Releases(e) THEN Emptied ELSE filled
  /\ outbox' = [outbox EXCEPT ![e] = more]
  /\ ToSet(more) = ToSet(outbox[e]) \cup (IF Releases(e) THEN ToSet(FlattenSeq(filled)) ELSE {})
  /\ Len(outbox[e]) \in 0 .. Len(more) /\ FirstAreGroups(more, Len(outbox[e]))
  /\ \A j \in ToSet(outbox[e]) : j.kind = "group"
  /\ OnceIn(filled, Present) /\ Fresh(more) /\ FilledBy(e, f, filled)

\* What counting the lines of a job does to the cache and the queues, in all four cases.
LEMMA CacheItemsQueues ==
  ASSUME Inv, NEW e \in Executors, NEW f \in Files, f = job[e].of, CacheItems(e)
  PROVE  \E filled \in [Subs -> Seq(AllJobs)], more \in Seq(AllJobs) : CountedBy(e, f, filled, more)
<1>0. PICK last \in BOOLEAN, release \in BOOLEAN :
        /\ last = (readyCount[f] + job[e].count = Len(Lines[f]))
        /\ release = (last /\ groupJobs + Len(outbox[e]) = 0)
        /\ last = IsLast(f, job[e]) /\ release = Releases(e)
  BY DEF IsLast, Releases
<1> DEFINE s == SubOf(f)
<1>1. TypeOK /\ Steps /\ NoneTwice /\ ItemsHeldBack BY DEF Inv
<1>2. PICK size \in SizesOf(Src[s]) :
        LET filled == IF last THEN [cache EXCEPT ![s] = @ \o ItemsJobs(s, size)] ELSE cache
        IN  /\ cache' = IF release THEN Emptied ELSE filled
            /\ outbox' = [outbox EXCEPT ![e] = IF release THEN @ \o FlattenSeq(filled) ELSE @]
  BY <1>0 DEF CacheItems, WithNews, NoGroupLeft
<1>3. s \in Subs /\ FileOf[s] = f /\ size \in Nat
  BY <1>2, ConstantTypes DEF SizesOf
<1> HIDE DEF s
<1> DEFINE items == ItemsJobs(s, size)
           filled == IF last THEN [cache EXCEPT ![s] = @ \o items] ELSE cache
           old == outbox[e]
           more == IF release THEN old \o FlattenSeq(filled) ELSE old
<1>4. /\ items \in Seq(AllJobs) /\ items \in Seq(ItemsOf(s)) /\ IsInjective(items)
      /\ \A j \in ToSet(items) : j.kind = "items" /\ j.of = s
  <2>1. Parts(items, "items", s, size) BY <1>3, PartsOfItems
  <2> HIDE DEF items
  <2>2. items \in Seq(AllJobs) /\ \A k \in DOMAIN items : items[k].kind = "items" /\ items[k].of = s
    BY <2>1 DEF Parts
  <2>3. \A k \in DOMAIN items : items[k] \in ItemsOf(s)
    <3> TAKE k \in DOMAIN items
    <3>1. items[k] \in AllJobs BY <2>2, LenProperties, ElementOfSeq
    <3> QED BY <2>2, <3>1 DEF ItemsOf
  <2>4. Len(items) \in Nat /\ DOMAIN items = 1 .. Len(items)
    BY <2>2, LenProperties
  <2>5. items = [k \in 1 .. Len(items) |-> items[k]] BY <2>2, <2>4
  <2>6. items \in Seq(ItemsOf(s)) BY <2>3, <2>4, <2>5
  <2>7. IsInjective(items) BY <2>1 DEF Parts, IsInjective
  <2>8. \A j \in ToSet(items) : j.kind = "items" /\ j.of = s BY <2>2 DEF ToSet
  <2> QED BY <2>2, <2>6, <2>7, <2>8
<1> HIDE DEF items
<1>5. cache \in [Subs -> Seq(AllJobs)] /\ \A u \in Subs : cache[u] \in Seq(ItemsOf(u))
  BY <1>1 DEF TypeOK
<1>6. filled \in [Subs -> Seq(AllJobs)] /\ \A u \in Subs : filled[u] \in Seq(ItemsOf(u))
  <2>1. CASE last
    <3>1. cache[s] \o items \in Seq(AllJobs) /\ cache[s] \o items \in Seq(ItemsOf(s))
      BY <1>3, <1>4, <1>5, ConcatProperties
    <3> QED BY <1>3, <1>5, <2>1, <3>1
  <2>2. CASE ~last BY <1>5, <2>2
  <2> QED BY <2>1, <2>2
<1>7. ASSUME NEW u \in Subs PROVE filled[u] # <<>> => cache[u] # <<>> \/ (last /\ FileOf[u] = f)
  <2>1. CASE last /\ u = s BY <1>3, <2>1
  <2>2. CASE ~(last /\ u = s)
    <3>1. filled[u] = cache[u] BY <1>3, <1>5, <2>2
    <3> HIDE DEF filled
    <3> QED BY <3>1
  <2> QED BY <2>1, <2>2
<1>8. /\ old \in Seq(AllJobs) /\ \A k \in DOMAIN old : old[k].kind = "group"
      /\ \A j \in ToSet(old) : j.kind = "group"
  <2>1. InStep(e, "lines", "cache") /\ at[e] = "cache"
    BY DEF CacheItems, InStep
  <2>2. old = [k \in DOMAIN News(e) |-> ParseGroup(job[e].of, News(e)[k])]
    BY <1>1, <2>1 DEF Steps, StepOf
  <2>3. old \in Seq(AllJobs) /\ \A k \in DOMAIN old : old[k].kind = "group"
    <3> HIDE DEF old
    <3> QED BY <1>1, <2>1, <2>2, NewsOfJob
  <2> QED
    BY <2>3 DEF ToSet
\* The file is being parsed, so its items are neither in the cache nor anywhere else.
<1>13. cache[s] = <<>> /\ JobsOf("items", s) = {}
  <2>1. InStep(e, "lines", "cache") /\ at[e] = "cache" /\ job[e].kind = "lines"
    BY DEF CacheItems, InStep
  <2>2. job[e] \in Present /\ job[e] # NoJob
    BY <1>1, <2>1, JobInHand DEF JobKinds
  <2>3. job[e] \notin InHand({"push"})
    <3>1. ASSUME NEW x \in Executors, at[x] = "push" PROVE job[x] # job[e]
      BY <1>1, <2>1, <2>2, <3>1, OneHand DEF Once
    <3> QED BY <3>1 DEF InHand
  <2>4. ~Parsed(f) BY <2>1, <2>2, <2>3 DEF Parsed, JobsOf
  <2> QED BY <1>1, <1>3, <2>4 DEF ItemsHeldBack
<1>14. cache[s] \o items = items
  <2>1. <<>> \o items = items BY <1>4
  <2> QED BY <1>13, <2>1
<1>15. /\ \A u \in Subs : u # s \/ ~last => filled[u] = cache[u]
       /\ last => filled[s] = items
  BY <1>3, <1>5, <1>14
<1>16. \A u \in Subs : FileOf[u] = f => u = s BY <1>3, ScenarioAssumption
<1> HIDE DEF filled, old
<1>17. OnceIn(filled, Present)
  <2> SUFFICES ASSUME NEW u \in Subs
               PROVE  IsInjective(filled[u]) /\ ToSet(filled[u]) \cap Present = {}
    BY DEF OnceIn
  <2>1. CASE u # s \/ ~last BY <1>1, <1>15, <2>1 DEF NoneTwice, OnceIn
  <2>2. CASE u = s /\ last BY <1>4, <1>13, <1>15, <2>2 DEF JobsOf
  <2> QED BY <2>1, <2>2
<1>18. FilledBy(e, f, filled)
  <2>1. \A u \in Subs : FileOf[u] # f \/ ~IsLast(f, job[e]) => filled[u] = cache[u]
    BY <1>0, <1>3, <1>15
  <2>2. \A u \in Subs : FileOf[u] = f => cache[u] = <<>> /\ JobsOf("items", u) = {}
    BY <1>13, <1>16
  <2>3. ASSUME IsLast(f, job[e]), NEW u \in Subs, FileOf[u] = f
        PROVE  \E z \in SizesOf(Src[u]) : filled[u] = ItemsJobs(u, z)
    <3>1. u = s /\ last BY <1>0, <1>16, <2>3
    <3>2. size \in SizesOf(Src[s]) /\ filled[s] = ItemsJobs(s, size)
      BY <1>15, <3>1 DEF items
    <3> QED BY <3>1, <3>2
  <2> QED BY <2>1, <2>2, <2>3 DEF FilledBy
<1>9. /\ FlattenSeq(filled) \in Seq(AllJobs)
      /\ \A j \in ToSet(FlattenSeq(filled)) : j.kind = "items"
      /\ IsInjective(FlattenSeq(filled)) /\ ToSet(FlattenSeq(filled)) \cap Present = {}
  BY <1>6, <1>17, Cached
<1>10. /\ more \in Seq(AllJobs)
       /\ ToSet(more) = ToSet(old) \cup (IF release THEN ToSet(FlattenSeq(filled)) ELSE {})
  BY <1>8, <1>9, ElementsOfConcat
<1>11. /\ Len(old) \in 0 .. Len(more) /\ FirstAreGroups(more, Len(old))
       /\ Fresh(more)
  <2> DEFINE rest == FlattenSeq(filled)
             n == Len(old)
  <2>1. n \in Nat /\ DOMAIN old = 1 .. n /\ Len(rest) \in Nat /\ DOMAIN rest = 1 .. Len(rest)
    BY <1>8, <1>9, LenProperties
  <2>2. \A k \in DOMAIN rest : rest[k].kind # "group" BY <1>9 DEF ToSet
  <2>3. CASE release
    <3> HIDE DEF rest
    <3>1. /\ Len(old \o rest) = n + Len(rest) /\ DOMAIN (old \o rest) = 1 .. n + Len(rest)
          /\ \A k \in 1 .. n + Len(rest) : (old \o rest)[k] = IF k <= n THEN old[k] ELSE rest[k - n]
      BY <1>8, <1>9, <2>1, ConcatProperties, LenProperties DEF rest
    <3>2. more = old \o rest BY <2>3 DEF rest
    <3> HIDE DEF more, n
    <3>3. ASSUME NEW k \in DOMAIN more PROVE more[k].kind = "group" <=> k <= n
      <4>1. k \in 1 .. n + Len(rest) BY <3>1, <3>2
      <4>2. CASE k <= n BY <1>8, <2>1, <3>1, <3>2, <4>1, <4>2
      <4>3. CASE ~(k <= n)
        <5>1. more[k] = rest[k - n] /\ k - n \in DOMAIN rest
          BY <2>1, <3>1, <3>2, <4>1, <4>3
        <5> QED BY <2>2, <4>3, <5>1
      <4> QED BY <4>2, <4>3
    <3>4. n \in 0 .. Len(more) BY <2>1, <3>1, <3>2
    <3>5. ASSUME NEW k \in DOMAIN more, more[k].kind \in Once
          PROVE  k - n \in DOMAIN rest /\ more[k] = rest[k - n] /\ k \in Int
      <4>1. k \in 1 .. n + Len(rest) /\ ~(k <= n)
        BY <3>1, <3>2, <3>3, <3>5 DEF Once
      <4> QED BY <2>1, <3>1, <3>2, <4>1
    <3>6. Fresh(more)
      <4> SUFFICES ASSUME NEW k \in DOMAIN more, more[k].kind \in Once
                   PROVE  more[k] \notin Present /\ \A m \in DOMAIN more : more[m] = more[k] => m = k
        BY DEF Fresh
      <4>1. more[k] \in ToSet(rest) BY <3>5 DEF ToSet
      <4>2. ASSUME NEW m \in DOMAIN more, more[m] = more[k] PROVE m = k
        <5>1. rest[m - n] = rest[k - n] /\ m - n \in DOMAIN rest /\ k - n \in DOMAIN rest
              /\ m \in Int /\ k \in Int
          BY <3>5, <4>2
        <5>2. m - n = k - n BY <1>9, <5>1 DEF IsInjective, rest
        <5> QED BY <2>1, <5>1, <5>2
      <4> QED BY <1>9, <4>1, <4>2 DEF rest
    <3> QED BY <3>3, <3>4, <3>6 DEF FirstAreGroups, n
  <2>4. CASE ~release
    <3>1. more = old BY <2>4
    <3> HIDE DEF more
    <3>2. Len(old) \in 0 .. Len(more) BY <2>1, <3>1
    <3>3. FirstAreGroups(more, Len(old)) BY <1>8, <2>1, <3>1 DEF FirstAreGroups
    <3>4. Fresh(more) BY <1>8, <3>1 DEF Fresh, Once
    <3> QED BY <3>2, <3>3, <3>4
  <2> QED BY <2>3, <2>4
<1>12. cache' = (IF release THEN Emptied ELSE filled) /\ outbox' = [outbox EXCEPT ![e] = more]
  <2>1. outbox \in [Executors -> Seq(AllJobs)] BY <1>1 DEF TypeOK
  <2> QED BY <1>2, <2>1 DEF filled, items, old
<1> HIDE DEF more
<1> QED
  BY <1>0, <1>6, <1>7, <1>8, <1>10, <1>11, <1>12, <1>17, <1>18 DEF old, CountedBy

\* The jobs of the cache stay in it, or go to the queues.
CacheGoes(filled) ==
  \A s \in Subs :
    \/ cache'[s] = filled[s] /\ JobsOf("items", s)' = JobsOf("items", s)
    \/ cache'[s] = <<>> /\ JobsOf("items", s)' = JobsOf("items", s) \cup ToSet(filled[s])

\* A file's lines are counted; it is parsed with the last of them.
LinesCountedBy(e) ==
  \E f \in Files : \E filled \in [Subs -> Seq(AllJobs)] :
    /\ f = job[e].of /\ ~FilePending(f) /\ ~FilePending(f)' /\ ~Parsed(f)
    /\ IsLast(f, job[e]) <=> Parsed(f)'
    /\ \A g \in Files \ {f} : SameLinesOf(g)
    /\ \A j : j.kind = "save" => (j \in Present' <=> j \in Present)
    /\ OnceIn(filled, Present) /\ FilledBy(e, f, filled) /\ CacheGoes(filled)

\* Lines are counted; the last of a file fill the cache, or release it.
LEMMA CacheItemsKeepsInv ==
  ASSUME Inv, NEW e \in Executors, CacheItems(e)
  PROVE  /\ Inv' /\ LinesCountedBy(e)
         /\ \A x \in Present' \ Present :
              \/ x.kind = "group" /\ x \in ToSet(outbox[e])
              \/ x.kind = "items" /\ Releases(e)
<1>0. /\ TypeOK /\ Steps /\ NoneTwice /\ GroupsCounted /\ LinesCounted /\ NamesFollowed
      /\ ItemsHeldBack /\ ItemsCounted /\ TypesFollowItems
  BY DEF Inv
<1>1. InStep(e, "lines", "cache") /\ Continue(e, "push") BY DEF CacheItems
<1>2. PICK f \in Files, j \in AllJobs :
        /\ f = job[e].of /\ j = job[e] /\ j.kind = "lines" /\ j.of = f
        /\ j \in ToSet(LinesJobs(f)) /\ j \in Present /\ j # NoJob /\ at[e] = "cache"
  BY <1>0, <1>1, JobInHand DEF Fits, JobKinds
<1>3. PICK last \in BOOLEAN, release \in BOOLEAN :
        /\ last = (readyCount[f] + j.count = Len(Lines[f])) /\ last = IsLast(f, job[e])
        /\ release = (last /\ groupJobs + Len(outbox[e]) = 0) /\ release = Releases(e)
  BY <1>2 DEF IsLast, Releases
<1>c. /\ last <=> readyCount[f] + j.count = Len(Lines[f])
      /\ release => last /\ groupJobs + Len(outbox[e]) = 0
      /\ last /\ ~release => groupJobs + Len(outbox[e]) # 0
  BY <1>3, Zenon
<1>4. /\ groupJobs' = groupJobs + Len(outbox[e])
      /\ readyCount' = [readyCount EXCEPT ![f] = @ + j.count]
      /\ UNCHANGED <<candidate, ready, parseFiles, known, added, checked, itemReady, typeReady,
                     resolved>>
  BY <1>2 DEF CacheItems, WithNews, queues, groups, saving
<1>a. PICK filled \in [Subs -> Seq(AllJobs)], more \in Seq(AllJobs) : CountedBy(e, f, filled, more)
  BY <1>2, CacheItemsQueues
<1>5. /\ \A s \in Subs : filled[s] \in Seq(ItemsOf(s))
      /\ \A s \in Subs : filled[s] # <<>> => cache[s] # <<>> \/ (last /\ FileOf[s] = f)
      /\ cache' = IF release THEN Emptied ELSE filled
      /\ outbox' = [outbox EXCEPT ![e] = more]
      /\ ToSet(more) = ToSet(outbox[e]) \cup (IF release THEN ToSet(FlattenSeq(filled)) ELSE {})
      /\ Len(outbox[e]) \in 0 .. Len(more) /\ FirstAreGroups(more, Len(outbox[e]))
      /\ \A x \in ToSet(outbox[e]) : x.kind = "group"
      /\ OnceIn(filled, Present)
  BY <1>a, <1>3 DEF CountedBy
<1>6. \A x \in ToSet(more) :
        \/ x.kind = "group" /\ x \in ToSet(outbox[e])
        \/ release /\ x.kind = "items" /\ (x.of \in Subs => filled[x.of] # <<>>)
  BY <1>5, Cached
<1>b. \A x \in ToSet(more) : x.kind \in {"group", "items"} BY <1>6
<1>7. Fresh(more) BY <1>a DEF CountedBy
<1>8. /\ Effect({}, ToSet(more), Len(outbox[e])) /\ Others(e) /\ job' = job /\ at'[e] = "push"
      /\ outbox'[e] = more /\ outbox' \in [Executors -> Seq(AllJobs)]
      /\ job' \in [Executors -> AllJobs \cup {NoJob}] /\ at' \in [Executors -> Labels]
  <2>1. Queue[Outbox(e)] = <<>> BY <1>2, QueueValues
  <2> QED BY <1>1, <1>4, <1>5, <1>7, <2>1, OutboxEffect DEF JobKinds, Labels
<1>9. TypeOK'
  <2>1. cache' \in [Subs -> Seq(AllJobs)] /\ \A s \in Subs : cache'[s] \in Seq(ItemsOf(s))
    BY <1>5 DEF Emptied
  <2>2. readyCount' \in [Files -> Nat]
    <3>1. readyCount[f] + j.count \in Nat BY <1>0, FieldsOfJobs DEF TypeOK
    <3> QED BY <1>0, <1>4, <3>1 DEF TypeOK
  <2>3. groupJobs' \in Int
    <3>1. Len(outbox[e]) \in Nat BY <1>0, LenProperties DEF TypeOK
    <3> QED BY <1>0, <1>4, <3>1 DEF TypeOK
  <2> QED BY <1>0, <1>4, <1>8, <2>1, <2>2, <2>3 DEF TypeOK
<1>10. Steps'
  <2>1. StepOf(e)' BY <1>2, <1>8 DEF StepOf
  <2> QED BY <1>0, <1>8, <2>1, StepsKept
<1>11. NoneTwice' /\ GroupsCounted'
  <2>1. OnceIn(cache', Present')
    <3>1. CASE release
      <4>1. \A s \in Subs : cache'[s] = <<>> BY <1>5, <3>1 DEF Emptied
      <4> QED BY <4>1 DEF OnceIn, IsInjective, ToSet
    <3>2. CASE ~release
      <4>1. cache' = filled BY <1>5, <3>2
      <4> PICK new : new = ToSet(more) OBVIOUS
      <4>2. Present' \subseteq Present \cup new /\ \A x \in new : x.kind = "group"
        BY <1>6, <1>8, <3>2 DEF Effect
      <4>3. \A s \in Subs : \A x \in ToSet(filled[s]) : x.kind = "items"
        <5> TAKE s \in Subs
        <5> DEFINE q == filled[s]
                   S == ItemsOf(s)
        <5>1. q \in Seq(S) BY <1>5
        <5> HIDE DEF q, S
        <5>2. \A k \in DOMAIN q : q[k] \in S
          BY <5>1, LenProperties, ElementOfSeq
        <5>3. \A x \in ToSet(q) : x \in S BY <5>2 DEF ToSet
        <5> QED BY <5>3 DEF q, S, ItemsOf
      <4> QED BY <1>5, <4>1, <4>2, <4>3 DEF OnceIn
    <3> QED BY <3>1, <3>2
  <2>2. \A x \in Present' : x \in Present \/ x.kind \in {"group", "items"}
    <3> PICK new : new = ToSet(more) OBVIOUS
    <3>1. Present' \subseteq Present \cup new /\ \A x \in new : x.kind \in {"group", "items"}
      BY <1>b, <1>8 DEF Effect
    <3> QED BY <3>1
  <2>3. NoneTwiceIn(Queue') BY <1>8 DEF Effect
  <2>4. NoneTwice' BY <1>0, <1>4, <2>1, <2>2, <2>3, OnceStays
  <2> QED BY <1>0, <1>4, <1>8, <2>4, GroupsStayCounted
<1>12. ItemsCounted' /\ TypesFollowItems'
  <2>1. InHand({"check", "count"})' = InHand({"check", "count"})
    BY <1>2, <1>8, HandsSame
  <2>2. SameBuilds
    <3>1. Avoid({"build"}, {}) /\ Avoid({"build"}, ToSet(more))
      BY <1>b DEF Avoid
    <3> QED BY <1>8, <2>1, <3>1, BuildsKept
  <2>3. Avoid({"init"}, ToSet(more)) BY <1>b DEF Avoid
  <2> QED BY <1>0, <1>4, <1>8, <2>2, <2>3, ItemsStay, TypesStay
<1>13. SameGroups BY <1>4, <1>8, GroupsKept DEF Avoid
<1>14. \A g \in Files \ {f} : SameLinesOf(g)
  <2> TAKE g \in Files \ {f}
  <2>1. InHand({"push"})' = InHand({"push"}) \cup {j} BY <1>2, <1>8, HandsJoin
  <2>2. \A x : x.of = g => (x \in InHand({"push"})' <=> x \in InHand({"push"}))
    BY <1>2, <2>1
  <2> DEFINE new == ToSet(more)
             n == Len(outbox[e])
  <2>3. \A x \in new : x.kind \in {"file", "lines"} => x.of # g BY <1>b
  <2>4. Effect({}, new, n) BY <1>8
  <2> HIDE DEF new, n
  <2> QED BY <1>4, <2>2, <2>3, <2>4, LinesKeptOf
<1> DEFINE J == JobsOf("lines", f) \ InHand({"push"})
<1>15. /\ JobsOf("lines", f)' = JobsOf("lines", f) /\ (FilePending(f)' <=> FilePending(f))
       /\ LinesLeft(f) = Span(J) /\ LinesLeft(f)' = Span(J \ {j}) /\ j \in J
  <2>1. /\ JobsOf("lines", f)' = JobsOf("lines", f)
        /\ \A x : x.kind = "file" => (x \in Present' <=> x \in Present)
    <3> DEFINE new == ToSet(more)
               n == Len(outbox[e])
    <3>1. \A x \in new : x.kind # "lines" /\ x.kind # "file" BY <1>b
    <3>2. Effect({}, new, n) BY <1>8
    <3> HIDE DEF new, n
    <3>3. JobsOf("lines", f)' = JobsOf("lines", f) BY <3>1, <3>2, JobsOfSame
    <3>4. \A x : x.kind = "file" => (x \in Present' <=> x \in Present)
      BY <3>1, <3>2 DEF Effect
    <3> QED BY <3>3, <3>4
  <2>2. FilePending(f)' <=> FilePending(f)
    <3>1. FilePending(f)' <=> ParseFile(f) \in Present' \/ ParseFile(f) \in ToSet(parseFiles)'
      BY DEF FilePending, ParseFile
    <3>2. ParseFile(f).kind = "file" BY JobFields DEF ParseFile
    <3> QED BY <1>4, <2>1, <3>1, <3>2 DEF FilePending, ToSet
  <2>3. InHand({"push"})' = InHand({"push"}) \cup {j} BY <1>2, <1>8, HandsJoin
  <2>4. LinesLeft(f)' = Span(JobsOf("lines", f)' \ InHand({"push"})')
    BY DEF LinesLeft, Span, Elems
  <2>5. j \in J
    <3>1. j \in JobsOf("lines", f) BY <1>2 DEF JobsOf
    <3>2. ASSUME NEW x \in Executors, at[x] = "push" PROVE job[x] # j
      BY <1>0, <1>2, <3>2, OneHand DEF Once
    <3> QED BY <3>1, <3>2 DEF InHand
  <2>6. JobsOf("lines", f)' \ InHand({"push"})' = J \ {j} BY <2>1, <2>3
  <2> QED BY <2>1, <2>2, <2>4, <2>5, <2>6 DEF LinesLeft
<1>16. /\ LinesLeft(f)' = LinesLeft(f) \ Elems(j)
       /\ IsFiniteSet(LinesLeft(f)') /\ Cardinality(LinesLeft(f)') \in Nat
       /\ Cardinality(LinesLeft(f)) = Cardinality(LinesLeft(f)') + j.count
  <2>1. /\ \A a, b \in J : a # b => Elems(a) \cap Elems(b) = {}
        /\ Span(J) \subseteq 1 .. Len(Lines[f])
    BY <1>0, LinesApart DEF Span
  <2>2. Len(Lines[f]) \in Nat /\ j.from \in Nat /\ j.count \in Nat
    BY <1>2, ConstantTypes, LinesOfJob
  <2> HIDE DEF J
  <2>3. /\ Span(J \ {j}) = Span(J) \ Elems(j)
        /\ IsFiniteSet(Span(J \ {j})) /\ Cardinality(Span(J \ {j})) \in Nat
        /\ Cardinality(Span(J)) = Cardinality(Span(J \ {j})) + j.count
    BY <1>15, <2>1, <2>2, SpanLess
  <2> QED BY <1>15, <2>3
<1>17. ~FilePending(f) /\ ~FilePending(f)'
  BY <1>0, <1>15 DEF LinesCounted, LinesCountedOf
<1>18. readyCount[f] + Cardinality(LinesLeft(f)) = Len(Lines[f]) /\ readyCount[f] \in Nat
  BY <1>0, <1>17 DEF LinesCounted, LinesCountedOf, TypeOK
<1>19. readyCount'[f] = readyCount[f] + j.count /\ j.count \in Nat
  BY <1>0, <1>4, FieldsOfJobs DEF TypeOK
<1> HIDE DEF J
<1>20. LinesCounted' /\ NamesFollowed'
  <2>1. LinesCountedOf(f)'
    <3>1. readyCount'[f] + Cardinality(LinesLeft(f)') = Len(Lines[f])
      BY <1>16, <1>18, <1>19
    <3> QED BY <1>17, <3>1 DEF LinesCountedOf
  <2>2. NamesFollowedOf(f)'
    <3> SUFFICES ASSUME NEW k \in DOMAIN Lines[f], NEW r \in ToSet(Lines[f][k]),
                        k \notin LinesLeft(f)'
                 PROVE  <<f, r>> \in resolved' \/ ParseGroup(f, r) \in Present'
      BY DEF NamesFollowedOf, Counted, ParseGroup
    <3>1. r \in Requests BY NamesAreRequests
    <3>2. CASE k \notin LinesLeft(f)
      <4>1. <<f, r>> \in resolved \/ ParseGroup(f, r) \in Present
        BY <1>0, <1>17, <3>2 DEF NamesFollowed, NamesFollowedOf, Counted
      <4> QED BY <1>13, <3>1, <4>1 DEF SameGroups
    <3>3. CASE k \in Elems(j)
      <4> DEFINE made == [m \in DOMAIN News(e) |-> ParseGroup(job[e].of, News(e)[m])]
      <4>1. outbox[e] = made BY <1>0, <1>2 DEF Steps, StepOf
      <4>2. ParseGroup(f, r) \in ToSet(made)
        <5>1. k \in Elems(job[e]) /\ r \in ToSet(Lines[job[e].of][k])
          BY <1>2, <3>3
        <5> QED BY <1>0, <1>1, <1>2, <5>1, NewsOfJob
      <4> HIDE DEF made
      <4> QED BY <1>5, <1>8, <4>1, <4>2 DEF Effect
    <3> QED BY <1>16, <3>2, <3>3
  <2>3. ASSUME NEW g \in Files PROVE LinesCountedOf(g)' /\ NamesFollowedOf(g)'
    <3>1. CASE g = f BY <2>1, <2>2, <3>1
    <3>2. CASE g # f
      <4>1. readyCount'[g] = readyCount[g] BY <1>0, <1>4, <3>2 DEF TypeOK
      <4> QED
        BY <1>0, <1>13, <1>14, <3>2, <4>1, LinesStayCounted, NamesStayFollowed
           DEF LinesCounted, NamesFollowed
    <3> QED BY <3>1, <3>2
  <2> QED BY <2>3 DEF LinesCounted, NamesFollowed
<1>d. ~Parsed(f) BY <1>15 DEF Parsed, J
<1>21. last <=> Parsed(f)'
  <2>1. last <=> Cardinality(LinesLeft(f)') = 0 BY <1>c, <1>16, <1>18, <1>19
  <2>2. Cardinality(LinesLeft(f)') = 0 => LinesLeft(f)' = {}
    <3> DEFINE L == LinesLeft(f)'
    <3>1. IsFiniteSet(L) BY <1>16
    <3> HIDE DEF L
    <3>2. Cardinality(L) = 0 => L = {} BY <3>1, FS_EmptySet
    <3> QED BY <3>2 DEF L
  <2>3. LinesLeft(f)' = {} => Cardinality(LinesLeft(f)') = 0 BY FS_EmptySet
  <2>4. LinesLeft(f)' = {} <=> J \subseteq {j}
    <3>1. ASSUME NEW x \in J, x # j PROVE Span(J \ {j}) # {}
      <4>1. Elems(x) # {}
        <5>1. x \in ToSet(LinesJobs(f)) /\ j \in ToSet(LinesJobs(f))
          BY <1>0, <1>2, <3>1, LinesApart DEF J
        <5> QED BY <3>1, <5>1, NoEmptyLines
      <4> QED BY <3>1, <4>1 DEF Span
    <3>2. J \subseteq {j} => Span(J \ {j}) = {} BY DEF Span
    <3> QED BY <1>15, <3>1, <3>2
  <2>5. J \subseteq {j} <=> JobsOf("lines", f)' \subseteq InHand({"push"})'
    <3>1. InHand({"push"})' = InHand({"push"}) \cup {j}
      BY <1>2, <1>8, HandsJoin
    <3> QED BY <1>15, <3>1 DEF J
  <2> QED BY <1>17, <2>1, <2>2, <2>3, <2>4, <2>5, ParsedNext
<1>22. groupJobs' \in Nat
  <2>1. GroupsCounted' <=> /\ IsFiniteSet(GroupsIn(Queue'))
                           /\ groupJobs' = Cardinality(GroupsIn(Queue'))
    BY DEF GroupsCounted
  <2> QED BY <1>11, <2>1, FS_CardinalityType
<1>23. ItemsHeldBack'
  <2> SUFFICES ASSUME NEW s \in Subs
               PROVE  /\ cache'[s] # <<>> => Parsed(FileOf[s])' /\ groupJobs' > 0
                      /\ JobsOf("items", s)' # {} => Parsed(FileOf[s])' /\ Resolved(FileOf[s])'
    BY DEF ItemsHeldBack
  <2>1. FileOf[s] \in Files BY ConstantTypes
  <2>2. Parsed(FileOf[s]) => Parsed(FileOf[s])'
    <3>1. CASE FileOf[s] = f BY <1>d, <3>1
    <3>2. CASE FileOf[s] # f BY <1>14, <2>1, <3>2 DEF SameLinesOf
    <3> QED BY <3>1, <3>2
  <2>3. filled[s] # <<>> => Parsed(FileOf[s])'
    BY <1>0, <1>5, <1>21, <2>2 DEF ItemsHeldBack
  <2>4. cache'[s] # <<>> => Parsed(FileOf[s])' /\ groupJobs' > 0
    <3> SUFFICES ASSUME cache'[s] # <<>> PROVE Parsed(FileOf[s])' /\ groupJobs' > 0
      OBVIOUS
    <3>1. ~release /\ filled[s] # <<>> BY <1>5 DEF Emptied
    <3>2. Len(outbox[e]) \in Nat /\ groupJobs \in Int
      BY <1>0, LenProperties DEF TypeOK
    <3>3. groupJobs' > 0
      <4>1. CASE cache[s] # <<>> BY <1>0, <1>4, <3>2, <4>1 DEF ItemsHeldBack
      <4>2. CASE last BY <1>c, <1>4, <1>22, <3>1, <4>2
      <4> QED BY <1>5, <3>1, <4>1, <4>2
    <3> QED BY <2>3, <3>1, <3>3
  <2>5. ASSUME NEW x \in JobsOf("items", s)' PROVE Parsed(FileOf[s])' /\ Resolved(FileOf[s])'
    <3>1. x \in Present' /\ x.kind = "items" /\ x.of = s BY <2>5 DEF JobsOf
    <3>2. CASE x \in Present
      <4>1. x \in JobsOf("items", s) BY <3>1, <3>2 DEF JobsOf
      <4>2. Parsed(FileOf[s]) /\ Resolved(FileOf[s])
        BY <1>0, <4>1 DEF ItemsHeldBack
      <4> QED BY <1>4, <2>2, <4>2 DEF Resolved
    <3>3. CASE x \in ToSet(more)
      <4>1. release /\ filled[s] # <<>> BY <1>6, <3>1, <3>3
      <4>2. Parsed(FileOf[s])' BY <2>3, <4>1
      <4>3. groupJobs' = 0 BY <1>c, <1>4, <4>1
      <4>4. Resolved(FileOf[s])'
        BY <1>11, <1>20, <2>1, <4>2, <4>3, ResolvedWhenParsedNext
      <4> QED BY <4>2, <4>4
    <3> QED BY <1>8, <3>1, <3>2, <3>3 DEF Effect
  <2> QED BY <2>4, <2>5
<1>24. Inv' BY <1>9, <1>10, <1>11, <1>12, <1>20, <1>23 DEF Inv
<1>25. CacheGoes(filled)
  <2> PICK new : new = ToSet(more) OBVIOUS
  <2>1. /\ Present' = Present \cup new
        /\ \A x \in new : x.kind = "items" => release
    BY <1>6, <1>8 DEF Effect
  <2> SUFFICES ASSUME NEW s \in Subs
               PROVE  \/ cache'[s] = filled[s] /\ JobsOf("items", s)' = JobsOf("items", s)
                      \/ /\ cache'[s] = <<>>
                         /\ JobsOf("items", s)' = JobsOf("items", s) \cup ToSet(filled[s])
    BY DEF CacheGoes
  <2>2. JobsOf("items", s)' = {x \in Present' : x.kind = "items" /\ x.of = s}
    BY DEF JobsOf
  <2>3. CASE ~release
    <3>1. cache'[s] = filled[s] BY <1>5, <2>3
    <3> QED BY <2>1, <2>2, <2>3, <3>1 DEF JobsOf
  <2>4. CASE release
    <3>1. cache'[s] = <<>> BY <1>5, <2>4 DEF Emptied
    <3>2. \A x : x \in new /\ x.kind = "items" /\ x.of = s => x \in ToSet(filled[s])
      <4>1. \A x : x \in new /\ x.kind = "items" => x \in ToSet(FlattenSeq(filled))
        BY <1>5, <2>4
      <4>2. \A x : x.of = s => (x \in ToSet(FlattenSeq(filled)) <=> x \in ToSet(filled[s]))
        BY <1>5, Cached
      <4> QED BY <4>1, <4>2
    <3>3. \A x \in ToSet(filled[s]) : x \in new /\ x.kind = "items" /\ x.of = s
      <4>1. \A x \in ToSet(filled[s]) : x.kind = "items" /\ x.of = s
        <5> DEFINE q == filled[s]
                   S == ItemsOf(s)
        <5>1. q \in Seq(S) BY <1>5
        <5> HIDE DEF q, S
        <5>2. \A k \in DOMAIN q : q[k] \in S
          BY <5>1, LenProperties, ElementOfSeq
        <5>3. \A x \in ToSet(q) : x \in S BY <5>2 DEF ToSet
        <5> QED BY <5>3 DEF q, S, ItemsOf
      <4>2. \A x : x.of = s => (x \in ToSet(FlattenSeq(filled)) <=> x \in ToSet(filled[s]))
        BY <1>5, Cached
      <4>3. ToSet(FlattenSeq(filled)) \subseteq new BY <1>5, <2>4
      <4> QED BY <4>1, <4>2, <4>3
    <3> QED BY <2>1, <2>2, <3>1, <3>2, <3>3 DEF JobsOf
  <2> QED BY <2>3, <2>4
<1>26. \A x : x.kind = "save" => (x \in Present' <=> x \in Present)
  <2> PICK new : new = ToSet(more) OBVIOUS
  <2>1. Present' = Present \cup new /\ \A x \in new : x.kind # "save"
    BY <1>b, <1>8 DEF Effect
  <2> QED BY <2>1
<1>27. FilledBy(e, f, filled) /\ OnceIn(filled, Present) BY <1>a DEF CountedBy
<1>28. IsLast(f, job[e]) <=> Parsed(f)' BY <1>3, <1>21
<1>29. \A x \in Present' \ Present :
         \/ x.kind = "group" /\ x \in ToSet(outbox[e])
         \/ x.kind = "items" /\ Releases(e)
  <2> PICK new : new = ToSet(more) OBVIOUS
  <2>1. Present' \subseteq Present \cup new BY <1>8 DEF Effect
  <2>2. \A x \in new : (x.kind = "items" /\ release) \/ (x.kind = "group" /\ x \in ToSet(outbox[e]))
    BY <1>6
  <2> QED BY <1>3, <2>1, <2>2
<1> QED
  BY <1>2, <1>14, <1>17, <1>24, <1>25, <1>26, <1>27, <1>28, <1>29, <1>d DEF LinesCountedBy

-----------------------------------------------------------------------------
(* The items of a group.                                                     *)

\* A step that leaves the files, the lines and the cache alone.
LEMMA BuildStep ==
  ASSUME Inv, TypeOK', Steps', NEW drop, Effect(drop, {}, 0),
         Avoid({"file", "lines", "group"}, drop), InHand({"push"})' = InHand({"push"}),
         UNCHANGED <<parseFiles, readyCount, groupJobs, cache, resolved>>,
         ItemsCounted', TypesFollowItems'
  PROVE  Inv'
<1>0. /\ TypeOK /\ NoneTwice /\ GroupsCounted /\ LinesCounted /\ NamesFollowed /\ ItemsHeldBack
  BY DEF Inv
<1>1. SameLines BY LinesKept DEF Avoid
<1>2. SameGroups /\ NoNewItems BY GroupsKept, ItemsKept DEF Avoid
<1>3. NoneTwice' BY <1>0, FilesKept DEF Avoid
<1>4. GroupsCounted'
  <2>1. groupJobs' = groupJobs + 0 BY <1>0 DEF TypeOK
  <2> QED BY <1>0, <2>1, GroupsStayCounted
<1>5. LinesCounted' /\ NamesFollowed' /\ ItemsHeldBack'
  BY <1>0, <1>1, <1>2, LinesStay, ItemsStayHeldBack
<1> QED BY <1>3, <1>4, <1>5 DEF Inv

\* The job in hand is one of the jobs that build group i.
Building(e, label, i, j) ==
  /\ i = job[e].of /\ j = job[e] /\ j.kind = "build" /\ j.of = i /\ at[e] = label
  /\ j # NoJob /\ j \in Present /\ j \in JobsOf("build", i)
  /\ j.from \in Nat /\ j.count \in Nat /\ <<"item", i>> \in known
  /\ i \in Items /\ Size[Plugin[i]] \in Nat /\ added[i] \in Nat /\ checked[i] \in Nat

\* A job that builds a group, in hand.
LEMMA BuildInHand ==
  ASSUME Inv, NEW e \in Executors, NEW label, InStep(e, "build", label)
  PROVE  \E i \in StaticItems, j \in AllJobs : Building(e, label, i, j)
<1>1. TypeOK /\ ItemsCounted BY DEF Inv
<1>2. PICK i \in StaticItems, j \in AllJobs :
        /\ i = job[e].of /\ j = job[e] /\ j.kind = "build" /\ j.of = i /\ at[e] = label
        /\ j # NoJob /\ j \in Present /\ j.count \in Nat /\ j \in ToSet(BuildJobs(i))
  BY <1>1, JobInHand DEF Fits, JobKinds
<1>3. j \in JobsOf("build", i) BY <1>2 DEF JobsOf
<1>4. <<"item", i>> \in known BY <1>1, <1>3 DEF ItemsCounted, ItemsCountedOf
<1>5. i \in Items /\ Size[Plugin[i]] \in Nat /\ added[i] \in Nat /\ checked[i] \in Nat
  BY <1>1, ConstantTypes DEF TypeOK
<1>6. j.from \in Nat
  <2>1. Divides(BuildJobs(i), "build", i, Size[Plugin[i]])
    BY <1>5, ConstantTypes, JobsOfPartition DEF BuildJobs
  <2>2. PICK k \in DOMAIN BuildJobs(i) : j = BuildJobs(i)[k] BY <1>2 DEF ToSet
  <2> QED BY <2>1, <2>2 DEF Divides
<1> QED BY <1>2, <1>3, <1>4, <1>5, <1>6 DEF Building

\* The items of a job are added to their group.
LEMMA AddElementsKeepsInv ==
  ASSUME Inv, NEW e \in Executors, AddElements(e)
  PROVE  Inv'
<1>0. TypeOK /\ Steps /\ NoneTwice /\ ItemsCounted /\ TypesFollowItems
  BY DEF Inv
<1>1. InStep(e, "build", "run") /\ Continue(e, "check") BY DEF AddElements
<1>a. PICK i \in StaticItems, j \in AllJobs : Building(e, "run", i, j)
  BY <1>1, BuildInHand
<1>2. /\ i = job[e].of /\ j = job[e] /\ j.kind = "build" /\ j.of = i /\ at[e] = "run"
      /\ j # NoJob /\ j \in Present /\ j \in JobsOf("build", i)
      /\ j.from \in Nat /\ j.count \in Nat /\ <<"item", i>> \in known
      /\ i \in Items /\ Size[Plugin[i]] \in Nat /\ added[i] \in Nat /\ checked[i] \in Nat
  BY <1>a DEF Building
<1>3. /\ added' = [added EXCEPT ![i] = @ + j.count]
      /\ UNCHANGED <<candidate, ready, outbox>>
      /\ UNCHANGED <<parseFiles, readyCount, groupJobs, cache, resolved>>
      /\ UNCHANGED <<checked, known, itemReady, typeReady>>
  BY <1>2 DEF AddElements, queues, parsing, saving
<1>4. /\ Effect({}, {}, 0) /\ Others(e) /\ job'[e] = job[e] /\ at'[e] = "check"
      /\ job' \in [Executors -> AllJobs \cup {NoJob}] /\ at' \in [Executors -> Labels]
  BY <1>1, <1>3, ContinueEffect DEF JobKinds, Labels
<1>5. added'[i] = added[i] + j.count /\ added' \in [Items -> Nat]
      /\ \A x \in Items \ {i} : added'[x] = added[x]
  <2>1. added[i] + j.count \in Nat /\ added \in [Items -> Nat]
    <3>1. added \in [Items -> Nat] BY <1>0 DEF TypeOK
    <3>2. added[i] \in Nat /\ j.count \in Nat BY <1>2
    <3> QED BY <3>1, <3>2
  <2> QED BY <1>2, <1>3, <2>1
<1>6. TypeOK' /\ Steps'
  <2>1. TypeOK' BY <1>0, <1>3, <1>4, <1>5 DEF TypeOK
  <2>2. StepOf(e) /\ StepOf(e)' BY <1>0, <1>2, <1>3, <1>4 DEF Steps, StepOf
  <2> QED BY <1>0, <1>4, <2>1, <2>2, StepsKept
<1>7. InHand({"push"})' = InHand({"push"}) BY <1>2, <1>4, HandsSame
<1>8. InHand({"check", "count"})' = InHand({"check", "count"}) \cup {j}
  BY <1>2, <1>4, HandsJoin
<1> DEFINE J == JobsOf("build", i) \ InHand({"check", "count"})
<1>9. /\ JobsOf("build", i)' = JobsOf("build", i) /\ Unchecked(i)' = Unchecked(i)
      /\ Unadded(i) = Span(J) /\ Unadded(i)' = Span(J \ {j}) /\ j \in J
  <2>1. JobsOf("build", i)' = JobsOf("build", i) BY <1>4, JobsOfSame
  <2>2. /\ Unadded(i)' = Span(JobsOf("build", i)' \ InHand({"check", "count"})')
        /\ Unchecked(i)' = Span(JobsOf("build", i)')
    BY DEF Unadded, Unchecked, Span, Elems
  <2>3. ASSUME NEW x \in Executors, at[x] \in {"check", "count"} PROVE job[x] # j
    BY <1>0, <1>2, <2>3, OneHand DEF Once
  <2>4. j \in J BY <1>2, <2>3 DEF InHand
  <2>5. JobsOf("build", i)' \ InHand({"check", "count"})' = J \ {j}
    BY <1>8, <2>1
  <2> QED BY <2>1, <2>2, <2>4, <2>5 DEF Unadded, Unchecked
<1>10. /\ Unadded(i)' \subseteq Unadded(i) /\ Cardinality(Unadded(i)') \in Nat
       /\ Cardinality(Unadded(i)) = Cardinality(Unadded(i)') + j.count
  <2>1. /\ \A a, b \in J : a # b => Elems(a) \cap Elems(b) = {}
        /\ Span(J) \subseteq 1 .. Size[Plugin[i]]
    BY <1>0, BuildsApart DEF Span
  <2> HIDE DEF J
  <2>2. /\ Span(J \ {j}) = Span(J) \ Elems(j) /\ Cardinality(Span(J \ {j})) \in Nat
        /\ Cardinality(Span(J)) = Cardinality(Span(J \ {j})) + j.count
    BY <1>2, <1>9, <2>1, SpanLess
  <2> QED BY <1>9, <2>2
<1> HIDE DEF J
<1>11. ItemsCountedOf(i)'
  <2>1. ItemsCountedOf(i) BY <1>0 DEF ItemsCounted
  <2>2. added'[i] + Cardinality(Unadded(i)') = Size[Plugin[i]]
    BY <1>2, <1>5, <1>10, <2>1 DEF ItemsCountedOf
  <2>3. checked'[i] + Cardinality(Unchecked(i)') = Size[Plugin[i]]
    BY <1>2, <1>3, <1>9, <2>1 DEF ItemsCountedOf
  <2>4. i \in itemReady' => Unadded(i)' = {}
    BY <1>3, <1>10, <2>1 DEF ItemsCountedOf
  <2> QED BY <1>2, <1>3, <2>2, <2>3, <2>4 DEF ItemsCountedOf
<1>12. ItemsCounted'
  <2> SUFFICES ASSUME NEW x \in StaticItems PROVE ItemsCountedOf(x)'
    BY DEF ItemsCounted
  <2>1. CASE x # i
    <3>1. SameBuildsOf(x)
      <4>1. \A y : y.of = x => (y \in InHand({"check", "count"})' <=> y \in InHand({"check", "count"}))
        BY <1>2, <1>8, <2>1
      <4> QED BY <1>4, <4>1, BuildsKeptOf
    <3>2. added'[x] = added[x] /\ checked'[x] = checked[x]
      BY <1>3, <1>5, <2>1, ConstantTypes
    <3> QED BY <1>0, <1>3, <3>1, <3>2, ItemsStayCounted DEF ItemsCounted
  <2> QED BY <1>11, <2>1
<1>13. TypesFollowItems' BY <1>0, <1>3, <1>4, TypesStay DEF Avoid
<1> QED BY <1>3, <1>4, <1>6, <1>7, <1>12, <1>13, BuildStep DEF Avoid

\* checkedCount_ is compared; the group opens when every item has been added.
LEMMA TestCheckedKeepsInv ==
  ASSUME Inv, NEW e \in Executors, TestChecked(e)
  PROVE  Inv'
<1>0. TypeOK /\ Steps /\ ItemsCounted /\ TypesFollowItems BY DEF Inv
<1>1. InStep(e, "build", "check") /\ Continue(e, "count") BY DEF TestChecked
<1>a. PICK i \in StaticItems, j \in AllJobs : Building(e, "check", i, j)
  BY <1>1, BuildInHand
<1>2. /\ i = job[e].of /\ j = job[e] /\ j.kind = "build" /\ j.of = i /\ at[e] = "check"
      /\ j # NoJob /\ j \in Present /\ j \in JobsOf("build", i)
      /\ j.from \in Nat /\ j.count \in Nat /\ <<"item", i>> \in known
      /\ i \in Items /\ Size[Plugin[i]] \in Nat /\ added[i] \in Nat /\ checked[i] \in Nat
  BY <1>a DEF Building
<1>3. /\ itemReady' = IF checked[i] + j.count = Size[Plugin[i]] THEN itemReady \cup {i} ELSE itemReady
      /\ UNCHANGED <<candidate, ready, outbox>>
      /\ UNCHANGED <<parseFiles, readyCount, groupJobs, cache, resolved>>
      /\ UNCHANGED <<added, checked, known, typeReady>>
  BY <1>2 DEF TestChecked, AllChecked, queues, parsing, saving
<1>4. /\ Effect({}, {}, 0) /\ Others(e) /\ job'[e] = job[e] /\ at'[e] = "count"
      /\ job' \in [Executors -> AllJobs \cup {NoJob}] /\ at' \in [Executors -> Labels]
  BY <1>1, <1>3, ContinueEffect DEF JobKinds, Labels
<1>5. TypeOK' /\ Steps'
  <2>1. TypeOK' BY <1>0, <1>3, <1>4 DEF TypeOK
  <2>2. StepOf(e) /\ StepOf(e)' BY <1>0, <1>2, <1>3, <1>4 DEF Steps, StepOf
  <2> QED BY <1>0, <1>4, <2>1, <2>2, StepsKept
<1>6. InHand({"push"})' = InHand({"push"}) BY <1>2, <1>4, HandsSame
<1>7. InHand({"check", "count"})' = InHand({"check", "count"}) \cup {j} /\ j \in InHand({"check", "count"})
  BY <1>2, <1>4 DEF InHand, Others
<1>8. SameBuilds
  <2>1. InHand({"check", "count"})' = InHand({"check", "count"}) BY <1>7
  <2> QED BY <1>4, <2>1, BuildsKept DEF Avoid
<1>9. checked[i] + j.count = Size[Plugin[i]] => Unadded(i) = {}
  <2> SUFFICES ASSUME checked[i] + j.count = Size[Plugin[i]] PROVE Unadded(i) = {}
    OBVIOUS
  <2> DEFINE J == JobsOf("build", i)
  <2>1. /\ \A a, b \in J : a # b => Elems(a) \cap Elems(b) = {}
        /\ Span(J) \subseteq 1 .. Size[Plugin[i]] /\ j \in J /\ Unchecked(i) = Span(J)
        /\ Unadded(i) \subseteq Span(J \ {j})
    BY <1>0, <1>2, <1>7, BuildsApart DEF Span, Unchecked, Unadded
  <2> HIDE DEF J
  <2>2. /\ Cardinality(Span(J \ {j})) \in Nat /\ IsFiniteSet(Span(J \ {j}))
        /\ Cardinality(Span(J)) = Cardinality(Span(J \ {j})) + j.count
    BY <1>2, <2>1, SpanLess
  <2>3. checked[i] + Cardinality(Span(J)) = Size[Plugin[i]]
    BY <1>0, <1>2, <2>1 DEF ItemsCounted, ItemsCountedOf
  <2>4. Cardinality(Span(J \ {j})) = 0 BY <1>2, <2>2, <2>3
  <2>5. Span(J \ {j}) = {}
    <3> DEFINE L == Span(J \ {j})
    <3>1. IsFiniteSet(L) /\ Cardinality(L) = 0 BY <2>2, <2>4
    <3> HIDE DEF L
    <3>2. L = {} BY <3>1, FS_EmptySet
    <3> QED BY <3>2 DEF L
  <2> QED BY <2>1, <2>5
<1>10. ItemsCounted'
  <2> SUFFICES ASSUME NEW x \in StaticItems PROVE ItemsCountedOf(x)'
    BY DEF ItemsCounted
  <2>1. ItemsCountedOf(x) /\ SameBuildsOf(x)
    BY <1>0, <1>8 DEF ItemsCounted, SameBuilds
  <2>2. CASE x \in itemReady' => x \in itemReady
    BY <1>3, <2>1, <2>2, ItemsStayCounted
  <2>3. CASE x \in itemReady' /\ x \notin itemReady
    <3>1. x = i /\ Unadded(i) = {} BY <1>3, <1>9, <2>3
    <3>2. Unadded(i)' = {} /\ Unchecked(i)' = Unchecked(i)
      BY <2>1, <3>1 DEF SameBuildsOf
    <3>3. /\ added[i] + Cardinality(Unadded(i)) = Size[Plugin[i]]
          /\ checked[i] + Cardinality(Unchecked(i)) = Size[Plugin[i]]
      BY <1>2, <2>1, <3>1 DEF ItemsCountedOf
    <3>4. /\ added'[i] + Cardinality(Unadded(i)') = Size[Plugin[i]]
          /\ checked'[i] + Cardinality(Unchecked(i)') = Size[Plugin[i]]
      BY <1>3, <3>1, <3>2, <3>3
    <3> QED BY <1>2, <1>3, <3>1, <3>2, <3>4 DEF ItemsCountedOf
  <2> QED BY <2>2, <2>3
<1>11. TypesFollowItems' BY <1>0, <1>3, <1>4, TypesStay DEF Avoid
<1> QED BY <1>3, <1>4, <1>5, <1>6, <1>10, <1>11, BuildStep DEF Avoid

\* The items of a job are added to checkedCount_, and the job ends.
LEMMA AddCheckedKeepsInv ==
  ASSUME Inv, NEW e \in Executors, AddChecked(e)
  PROVE  Inv'
<1>0. TypeOK /\ Steps /\ ItemsCounted /\ TypesFollowItems BY DEF Inv
<1>1. InStep(e, "build", "count") /\ JobEnds(e) BY DEF AddChecked
<1>a. PICK i \in StaticItems, j \in AllJobs : Building(e, "count", i, j)
  BY <1>1, BuildInHand
<1>2. /\ i = job[e].of /\ j = job[e] /\ j.kind = "build" /\ j.of = i /\ at[e] = "count"
      /\ j # NoJob /\ j \in Present /\ j \in JobsOf("build", i)
      /\ j.from \in Nat /\ j.count \in Nat /\ <<"item", i>> \in known
      /\ i \in Items /\ Size[Plugin[i]] \in Nat /\ added[i] \in Nat /\ checked[i] \in Nat
  BY <1>a DEF Building
<1>3. /\ checked' = [checked EXCEPT ![i] = @ + j.count]
      /\ UNCHANGED <<candidate, ready, outbox>>
      /\ UNCHANGED <<parseFiles, readyCount, groupJobs, cache, resolved>>
      /\ UNCHANGED <<added, known, itemReady, typeReady>>
  BY <1>2 DEF AddChecked, queues, parsing, saving
<1>4. /\ Effect({j}, {}, 0) /\ Others(e) /\ job'[e] = NoJob /\ at'[e] = "idle"
      /\ outbox'[e] = <<>>
      /\ job' \in [Executors -> AllJobs \cup {NoJob}] /\ at' \in [Executors -> Labels]
  BY <1>1, <1>2, <1>3, EndEffect DEF JobKinds
<1>5. checked'[i] = checked[i] + j.count /\ checked' \in [Items -> Nat]
      /\ \A x \in Items \ {i} : checked'[x] = checked[x]
  <2>1. checked[i] + j.count \in Nat /\ checked \in [Items -> Nat]
    <3>1. checked \in [Items -> Nat] BY <1>0 DEF TypeOK
    <3>2. checked[i] \in Nat /\ j.count \in Nat BY <1>2
    <3> QED BY <3>1, <3>2
  <2> QED BY <1>2, <1>3, <2>1
<1>6. TypeOK' /\ Steps'
  <2>1. TypeOK' BY <1>0, <1>3, <1>4, <1>5 DEF TypeOK
  <2> QED BY <1>0, <1>4, <2>1, PlainSteps
<1>7. InHand({"push"})' = InHand({"push"}) BY <1>2, <1>4, HandsSame
<1>8. \A x : x # j => (x \in InHand({"check", "count"})' <=> x \in InHand({"check", "count"}))
  BY <1>2, <1>4, HandsEnd
<1> DEFINE J == JobsOf("build", i)
<1>9. /\ JobsOf("build", i)' = J \ {j} /\ Unchecked(i) = Span(J) /\ Unchecked(i)' = Span(J \ {j})
      /\ Unadded(i)' = Unadded(i)
  <2>1. JobsOf("build", i)' = {x \in Present' : x.kind = "build" /\ x.of = i}
    BY DEF JobsOf
  <2>2. j \notin Present' /\ \A x : x # j => (x \in Present' <=> x \in Present)
    BY <1>2, <1>4 DEF Effect, Once
  <2>3. JobsOf("build", i)' = J \ {j} BY <2>1, <2>2 DEF JobsOf
  <2>4. /\ Unadded(i)' = Span(JobsOf("build", i)' \ InHand({"check", "count"})')
        /\ Unchecked(i)' = Span(JobsOf("build", i)')
    BY DEF Unadded, Unchecked, Span, Elems
  <2>5. j \in InHand({"check", "count"}) BY <1>2 DEF InHand
  <2> HIDE DEF J
  <2>6. JobsOf("build", i)' \ InHand({"check", "count"})' = J \ InHand({"check", "count"})
    BY <1>8, <2>3, <2>5
  <2> QED BY <2>3, <2>4, <2>6 DEF Unadded, Unchecked, J
<1>10. /\ Cardinality(Unchecked(i)') \in Nat
       /\ Cardinality(Unchecked(i)) = Cardinality(Unchecked(i)') + j.count
  <2>1. /\ \A a, b \in J : a # b => Elems(a) \cap Elems(b) = {}
        /\ Span(J) \subseteq 1 .. Size[Plugin[i]] /\ j \in J
    BY <1>0, <1>2, BuildsApart
  <2> HIDE DEF J
  <2>2. /\ Cardinality(Span(J \ {j})) \in Nat
        /\ Cardinality(Span(J)) = Cardinality(Span(J \ {j})) + j.count
    BY <1>2, <2>1, SpanLess
  <2> QED BY <1>9, <2>2
<1> HIDE DEF J
<1>11. ItemsCountedOf(i)'
  <2>1. ItemsCountedOf(i) BY <1>0 DEF ItemsCounted
  <2>2. checked'[i] + Cardinality(Unchecked(i)') = Size[Plugin[i]]
    BY <1>2, <1>5, <1>10, <2>1 DEF ItemsCountedOf
  <2>3. added'[i] + Cardinality(Unadded(i)') = Size[Plugin[i]]
    BY <1>2, <1>3, <1>9, <2>1 DEF ItemsCountedOf
  <2>4. i \in itemReady' => Unadded(i)' = {}
    BY <1>3, <1>9, <2>1 DEF ItemsCountedOf
  <2> QED BY <1>2, <1>3, <2>2, <2>3, <2>4 DEF ItemsCountedOf
<1>12. ItemsCounted'
  <2> SUFFICES ASSUME NEW x \in StaticItems PROVE ItemsCountedOf(x)'
    BY DEF ItemsCounted
  <2>1. CASE x # i
    <3>1. SameBuildsOf(x)
      <4>1. \A y : y.of = x => (y \in InHand({"check", "count"})' <=> y \in InHand({"check", "count"}))
        BY <1>2, <1>8, <2>1
      <4>2. \A y \in {j} : y.kind = "build" => y.of # x BY <1>2, <2>1
      <4> QED BY <1>4, <4>1, <4>2, BuildsKeptOf
    <3>2. added'[x] = added[x] /\ checked'[x] = checked[x]
      BY <1>3, <1>5, <2>1, ConstantTypes
    <3> QED BY <1>0, <1>3, <3>1, <3>2, ItemsStayCounted DEF ItemsCounted
  <2> QED BY <1>11, <2>1
<1>13. TypesFollowItems' BY <1>0, <1>3, <1>4, TypesStay DEF Avoid
<1>14. Avoid({"file", "lines", "group"}, {j}) BY <1>2 DEF Avoid
<1> QED BY <1>3, <1>4, <1>6, <1>7, <1>12, <1>13, <1>14, BuildStep

\* A type group opens once its items have.
LEMMA InitTypeGroupKeepsInv ==
  ASSUME Inv, NEW e \in Executors, InitTypeGroup(e)
  PROVE  Inv'
<1>0. TypeOK /\ Steps /\ ItemsCounted /\ TypesFollowItems BY DEF Inv
<1>1. InStep(e, "init", "wait") /\ JobEnds(e) BY DEF InitTypeGroup
<1>2. job[e].kind = "init" /\ at[e] = "wait" /\ Fits(job[e])
  BY <1>0, <1>1, JobInHand DEF JobKinds
<1>3. /\ job[e].of \in itemReady /\ typeReady' = typeReady \cup {job[e].from}
      /\ UNCHANGED <<candidate, ready, outbox>>
      /\ UNCHANGED <<parseFiles, readyCount, groupJobs, cache, resolved>>
      /\ UNCHANGED <<added, checked, known, itemReady>>
  BY DEF InitTypeGroup, queues, parsing, saving
<1>4. /\ Effect({job[e]}, {}, 0) /\ Others(e) /\ job'[e] = NoJob /\ at'[e] = "idle"
      /\ outbox'[e] = <<>>
      /\ job' \in [Executors -> AllJobs \cup {NoJob}] /\ at' \in [Executors -> Labels]
  BY <1>1, <1>3, EndEffect DEF JobKinds
<1>5. TypeOK' /\ Steps'
  <2>1. TypeOK' BY <1>0, <1>3, <1>4 DEF TypeOK
  <2> QED BY <1>0, <1>4, <2>1, PlainSteps
<1>6. /\ InHand({"push"})' = InHand({"push"})
      /\ InHand({"check", "count"})' = InHand({"check", "count"})
  BY <1>2, <1>4, HandsSame
<1>7. ItemsCounted'
  <2>1. SameBuilds BY <1>2, <1>4, <1>6, BuildsKept DEF Avoid
  <2> QED BY <1>0, <1>3, <2>1, ItemsStay
<1>8. TypesFollowItems'
  <2>1. PICK r \in Statics : job[e].of = ItemOf[r] /\ job[e].from = TypeOf[r]
    BY <1>2, JobFields DEF Fits, InitType
  <2> QED BY <1>0, <1>3, <1>4, <2>1 DEF TypesFollowItems, Effect
<1>9. Avoid({"file", "lines", "group"}, {job[e]}) BY <1>2 DEF Avoid
<1> QED BY <1>3, <1>4, <1>5, <1>6, <1>7, <1>8, <1>9, BuildStep

\* The jobs that a new group brings: one for every part of its items, or none.
GroupMade(i, t, new, more) ==
  /\ more \in Seq(AllJobs)
  /\ \A k \in DOMAIN more :
       \/ more[k].kind = "build" /\ more[k].of = i
       \/ more[k].kind = "init" /\ more[k].from = t
  /\ \A k, m \in DOMAIN more : more[k] = more[m] => k = m
  /\ {j \in ToSet(more) : j.kind = "build"} = IF new THEN ToSet(BuildJobs(i)) ELSE {}

\* The jobs of a group that has just been registered.
LEMMA GroupIsMade ==
  ASSUME NEW r \in Requests, NEW new \in BOOLEAN, NEW init \in BOOLEAN,
         new => init, init => ~Dynamic(r)
  PROVE  LET i == ItemOf[r]
         IN  GroupMade(i, TypeOf[r], new, IF ~init THEN <<>>
                                          ELSE IF ~new THEN <<InitType(i, TypeOf[r])>>
                                          ELSE NewGroupJobs(i, TypeOf[r]))
<1> DEFINE i == ItemOf[r]
           last == InitType(i, TypeOf[r])
           builds == BuildJobs(i)
<1>1. CASE ~init BY <1>1 DEF GroupMade, ToSet
<1>2. ASSUME init
      PROVE  /\ r \in Statics /\ i \in StaticItems
             /\ last \in AllJobs /\ last.kind = "init" /\ last.from = TypeOf[r]
  <2>1. r \in Statics /\ i \in StaticItems BY <1>2 DEF Statics, StaticItems
  <2>2. last.kind = "init" /\ last.from = TypeOf[r] BY JobFields DEF InitType
  <2> QED BY <2>1, <2>2, JobsAreJobs
<1>3. CASE init /\ ~new
  <2>1. <<last>> \in Seq(AllJobs) /\ ToSet(<<last>>) = {last} /\ DOMAIN <<last>> = {1} /\ <<last>>[1] = last
    <3> HIDE DEF last
    <3> QED BY <1>2, <1>3 DEF ToSet
  <2> HIDE DEF last, i
  <2>2. GroupMade(i, TypeOf[r], new, <<last>>)
    BY <1>2, <1>3, <2>1 DEF GroupMade
  <2> QED BY <1>3, <2>2 DEF last, i
<1>4. CASE new
  <2>1. Parts(builds, "build", i, Size[Plugin[i]]) BY <1>2, <1>4, PartsOfGroup
  <2> DEFINE more == Append(builds, last)
             n == Len(builds)
  <2>2. more = NewGroupJobs(i, TypeOf[r]) BY DEF NewGroupJobs
  <2> HIDE DEF builds, last, i
  <2>3. /\ builds \in Seq(AllJobs) /\ \A k \in DOMAIN builds : builds[k].kind = "build" /\ builds[k].of = i
        /\ \A k, m \in DOMAIN builds : k # m => builds[k] # builds[m]
    BY <2>1 DEF Parts
  <2>4. /\ n \in Nat /\ DOMAIN builds = 1 .. n /\ more \in Seq(AllJobs) /\ Len(more) = n + 1
        /\ DOMAIN more = 1 .. n + 1 /\ \A k \in 1 .. n : more[k] = builds[k]
        /\ more[n + 1] = last
    BY <1>2, <1>4, <2>3, AppendProperties, LenProperties
  <2> HIDE DEF more, n
  <2>5. ASSUME NEW k \in DOMAIN more
        PROVE  \/ k \in DOMAIN builds /\ more[k] = builds[k]
               \/ k = n + 1 /\ more[k] = last
    BY <2>4
  <2>6. \A k \in DOMAIN more : \/ more[k].kind = "build" /\ more[k].of = i
                               \/ more[k].kind = "init" /\ more[k].from = TypeOf[r]
    BY <1>2, <1>4, <2>3, <2>5
  <2>7. \A k, m \in DOMAIN more : more[k] = more[m] => k = m
    BY <1>2, <1>4, <2>3, <2>5
  <2>8. {j \in ToSet(more) : j.kind = "build"} = ToSet(builds)
    <3>1. ASSUME NEW j \in ToSet(more), j.kind = "build" PROVE j \in ToSet(builds)
      BY <1>2, <1>4, <2>5, <3>1 DEF ToSet
    <3>2. ASSUME NEW j \in ToSet(builds) PROVE j \in ToSet(more) /\ j.kind = "build"
      <4>1. PICK k \in DOMAIN builds : j = builds[k] BY DEF ToSet
      <4>2. k \in DOMAIN more /\ more[k] = j BY <2>4, <4>1
      <4> QED BY <2>3, <4>1, <4>2 DEF ToSet
    <3> QED BY <3>1, <3>2
  <2>9. GroupMade(i, TypeOf[r], new, more)
    BY <1>4, <2>4, <2>6, <2>7, <2>8 DEF GroupMade, builds
  <2> QED BY <1>4, <2>2, <2>9 DEF i
<1> QED BY <1>1, <1>3, <1>4

\* A ParseGroup job in hand.
Parsing(e, label, f, r) ==
  /\ f = job[e].of /\ r = job[e].from /\ job[e] = ParseGroup(f, r)
  /\ job[e].kind = "group" /\ at[e] = label /\ job[e] # NoJob /\ job[e] \in Present
  /\ ItemOf[r] \in Items

\* A job that parses a group, in hand.
LEMMA GroupInHand ==
  ASSUME TypeOK, NEW e \in Executors, NEW label, InStep(e, "group", label)
  PROVE  \E f \in Files, r \in Requests : Parsing(e, label, f, r)
<1>1. /\ job[e].of \in Files /\ job[e].from \in Requests
      /\ job[e] = ParseGroup(job[e].of, job[e].from)
      /\ job[e].kind = "group" /\ at[e] = label /\ job[e] # NoJob /\ job[e] \in Present
  BY JobInHand DEF Fits, JobKinds
<1>2. \A r \in Requests : ItemOf[r] \in Items BY ScenarioAssumption
<1> QED BY <1>1, <1>2 DEF Parsing

\* A group is registered and, if it is new and static, its jobs are made.
LEMMA FindInsertGroupKeepsInv ==
  ASSUME Inv, NEW e \in Executors, FindInsertGroup(e)
  PROVE  Inv' /\ SameSaves /\ Present' \ Present \subseteq ToSet(outbox'[e])
<1>0. /\ TypeOK /\ Steps /\ NoneTwice /\ GroupsCounted /\ LinesCounted /\ NamesFollowed
      /\ ItemsHeldBack /\ ItemsCounted /\ TypesFollowItems
  BY DEF Inv
<1>1. InStep(e, "group", "run") BY DEF FindInsertGroup
<1>a. PICK f \in Files, r \in Requests : Parsing(e, "run", f, r)
  BY <1>0, <1>1, GroupInHand
<1>b. PICK i : i = ItemOf[r] OBVIOUS
<1>2. /\ r = job[e].from /\ job[e].kind = "group" /\ at[e] = "run" /\ job[e] # NoJob
      /\ job[e] \in Present /\ i \in Items
  BY <1>a, <1>b DEF Parsing
<1>3. PICK itemKnown \in BOOLEAN, new \in BOOLEAN, init \in BOOLEAN :
        /\ itemKnown <=> <<"item", i>> \in known
        /\ init <=> ~Dynamic(r) /\ <<"type", TypeOf[r]>> \notin known
        /\ new <=> init /\ ~itemKnown
  OBVIOUS
<1> DEFINE more == IF ~init THEN <<>>
                   ELSE IF ~new THEN <<InitType(i, TypeOf[r])>>
                   ELSE NewGroupJobs(i, TypeOf[r])
           to == IF itemKnown THEN "publish" ELSE "parse"
<1>4. /\ outbox' = [outbox EXCEPT ![e] = more]
      /\ known' = known \cup {<<"item", i>>}
                        \cup (IF Dynamic(r) THEN {} ELSE {<<"type", TypeOf[r]>>})
      /\ Continue(e, to)
      /\ UNCHANGED <<candidate, ready, parseFiles, readyCount, groupJobs, cache, added, checked,
                     itemReady, typeReady, resolved>>
  <2>1. UNCHANGED <<candidate, ready, parseFiles, readyCount, groupJobs, cache, added, checked,
                    itemReady, typeReady, resolved>>
    BY DEF FindInsertGroup, queues, parsing, saving
  <2>2. known' = known \cup {<<"item", i>>}
                       \cup (IF Dynamic(r) THEN {} ELSE {<<"type", TypeOf[r]>>})
    BY <1>2, <1>b DEF FindInsertGroup
  <2>3. Continue(e, to) BY <1>2, <1>3, <1>b DEF FindInsertGroup
  <2>4. outbox' = [outbox EXCEPT ![e] = more]
    BY <1>2, <1>3, <1>b DEF FindInsertGroup
  <2> QED BY <2>1, <2>2, <2>3, <2>4
<1>5. GroupMade(i, TypeOf[r], new, more) BY <1>3, <1>b, GroupIsMade
<1>n. init \/ more = <<>> OBVIOUS
<1>6. to \in {"publish", "parse"} /\ to \in Labels /\ to # "idle" /\ to \notin {"cache", "push", "check", "count"}
  BY DEF Labels
<1> HIDE DEF more, to
<1>7. /\ more \in Seq(AllJobs) /\ \A j \in ToSet(more) : j.kind \in {"build", "init"}
      /\ \A j \in ToSet(more) : j.kind = "build" => j.of = i
      /\ {j \in ToSet(more) : j.kind = "build"} = IF new THEN ToSet(BuildJobs(i)) ELSE {}
      /\ FirstAreGroups(more, 0) /\ 0 \in 0 .. Len(more)
  <2>1. more \in Seq(AllJobs) /\ \A j \in ToSet(more) : j.kind \in {"build", "init"}
    BY <1>5 DEF GroupMade, ToSet
  <2>2. \A j \in ToSet(more) : j.kind = "build" => j.of = i
    BY <1>5 DEF GroupMade, ToSet
  <2>3. FirstAreGroups(more, 0) /\ 0 \in 0 .. Len(more)
    <3>1. Len(more) \in Nat /\ DOMAIN more = 1 .. Len(more)
      BY <2>1, LenProperties
    <3>2. \A k \in DOMAIN more : more[k].kind # "group" BY <1>5 DEF GroupMade
    <3> QED BY <3>1, <3>2 DEF FirstAreGroups
  <2> QED
    BY <1>5, <2>1, <2>2, <2>3 DEF GroupMade
\* A new group is a static one, and no job that builds it is there.
<1>8. new => i \in StaticItems /\ <<"item", i>> \notin known /\ r \in Statics
  BY <1>3, <1>b DEF StaticItems, Statics
<1>9. i \in StaticItems /\ <<"item", i>> \notin known => new
  <2> SUFFICES ASSUME i \in StaticItems, <<"item", i>> \notin known PROVE new
    OBVIOUS
  <2>1. PICK u \in Statics : i = ItemOf[u] BY DEF StaticItems
  <2>2. r \in Statics BY <1>b, <2>1, KeysAssumption DEF Statics
  <2>3. <<"type", TypeOf[r]>> \notin known
    BY <1>0, <1>b, <2>2 DEF TypesFollowItems
  <2> QED BY <1>3, <2>2, <2>3 DEF Statics
<1>10. new => JobsOf("build", i) = {}
  BY <1>0, <1>8 DEF ItemsCounted, ItemsCountedOf
<1>11. Fresh(more)
  <2> SUFFICES ASSUME NEW k \in DOMAIN more, more[k].kind \in Once
               PROVE  more[k] \notin Present /\ \A m \in DOMAIN more : more[m] = more[k] => m = k
    BY DEF Fresh
  <2>1. more[k] \in ToSet(more) BY DEF ToSet
  <2>2. ASSUME more[k].kind = "build" PROVE more[k] \notin Present
    <3>1. new /\ more[k].of = i BY <1>7, <2>1, <2>2
    <3> QED BY <1>10, <2>2, <3>1 DEF JobsOf
  <2>3. ASSUME more[k].kind = "init" PROVE more[k] \notin Present
    <3>1. more[k].from = TypeOf[r] BY <1>5, <2>3 DEF GroupMade
    <3>2. more # <<>> OBVIOUS
    <3>3. <<"type", TypeOf[r]>> \notin known BY <1>3, <1>n, <3>2
    <3> QED BY <1>0, <2>3, <3>1, <3>3 DEF TypesFollowItems
  <2>4. \A m \in DOMAIN more : more[m] = more[k] => m = k BY <1>5 DEF GroupMade
  <2> QED BY <1>7, <2>1, <2>2, <2>3, <2>4
<1>12. /\ Effect({}, ToSet(more), 0) /\ Others(e) /\ job' = job /\ at'[e] = to
       /\ outbox'[e] = more /\ outbox' \in [Executors -> Seq(AllJobs)]
       /\ job' \in [Executors -> AllJobs \cup {NoJob}] /\ at' \in [Executors -> Labels]
  <2>1. Queue[Outbox(e)] = <<>>
    <3>1. outbox[e] = <<>> BY <1>0, <1>2 DEF Steps, StepOf
    <3> QED BY <3>1, QueueValues
  <2> QED BY <1>1, <1>4, <1>6, <1>7, <1>11, <2>1, OutboxEffect DEF JobKinds
<1> PICK made : made = ToSet(more) OBVIOUS
<1>13. /\ Effect({}, made, 0) /\ \A j \in made : j.kind \in {"build", "init"}
       /\ \A j \in made : j.kind = "init" => j.from = TypeOf[r] /\ ~Dynamic(r)
       /\ \A j \in made : j.kind = "build" => j.of = i
       /\ {j \in made : j.kind = "build"} = IF new THEN ToSet(BuildJobs(i)) ELSE {}
  <2>1. \A j \in made : j.kind = "init" => j.from = TypeOf[r]
    BY <1>5 DEF GroupMade, ToSet
  <2>2. made # {} => ~Dynamic(r) BY <1>3, <1>n DEF ToSet
  <2> QED BY <1>7, <1>12, <2>1, <2>2
<1>14. TypeOK' /\ Steps'
  <2>1. TypeOK' BY <1>0, <1>4, <1>12 DEF TypeOK
  <2>2. StepOf(e)' BY <1>2, <1>6, <1>12 DEF StepOf
  <2> QED BY <1>0, <1>12, <2>1, <2>2, StepsKept
<1>15. /\ InHand({"push"})' = InHand({"push"})
       /\ InHand({"check", "count"})' = InHand({"check", "count"})
  BY <1>2, <1>6, <1>12, HandsSame
<1>16. NoneTwice' /\ GroupsCounted'
  <2>1. groupJobs' = groupJobs + 0 BY <1>0, <1>4 DEF TypeOK
  <2> QED BY <1>0, <1>4, <1>13, <2>1, FilesKept, GroupsStayCounted DEF Avoid
<1>17. SameLines BY <1>4, <1>13, <1>15, LinesKept DEF Avoid
<1>18. SameGroups /\ NoNewItems BY <1>4, <1>13, GroupsKept, ItemsKept DEF Avoid
<1>19. LinesCounted' /\ NamesFollowed' /\ ItemsHeldBack'
  BY <1>0, <1>4, <1>17, <1>18, LinesStay, ItemsStayHeldBack
<1>20. ASSUME NEW x \in StaticItems, x # i \/ ~new PROVE ItemsCountedOf(x)'
  <2>1. SameBuildsOf(x)
    <3>1. \A j \in made : j.kind = "build" => j.of # x BY <1>13, <1>20
    <3> QED BY <1>13, <1>15, <3>1, BuildsKeptOf
  <2>2. <<"item", x>> \in known' <=> <<"item", x>> \in known
    <3>1. CASE x = i BY <1>4, <1>9, <1>20, <3>1
    <3>2. CASE x # i BY <1>4, <3>2
    <3> QED BY <3>1, <3>2
  <2> QED BY <1>0, <1>4, <2>1, <2>2, ItemsStayCounted DEF ItemsCounted
<1>21. ASSUME new PROVE ItemsCountedOf(i)'
  <2> DEFINE builds == ToSet(BuildJobs(i))
             total == Size[Plugin[i]]
  <2>1. /\ Span(builds) = 1 .. total /\ \A j \in builds : j.kind = "build" /\ j.of = i
    <3>1. Parts(BuildJobs(i), "build", i, total) BY <1>8, <1>21, PartsOfGroup
    <3> QED BY <3>1 DEF Parts, ToSet
  <2> HIDE DEF builds
  <2>2. JobsOf("build", i)' = builds
    <3>1. JobsOf("build", i)' = {j \in Present' : j.kind = "build" /\ j.of = i}
      BY DEF JobsOf
    <3>2. {j \in made : j.kind = "build"} = builds BY <1>13, <1>21 DEF builds
    <3>3. \A j \in Present : ~(j.kind = "build" /\ j.of = i)
      BY <1>10, <1>21 DEF JobsOf
    <3> QED BY <1>13, <2>1, <3>1, <3>2, <3>3 DEF Effect
  <2>3. InHand({"check", "count"})' \cap builds = {}
    <3>1. InHand({"check", "count"}) \subseteq Present BY <1>0, HandIsPresent
    <3> QED BY <1>10, <1>15, <1>21, <2>1, <3>1 DEF JobsOf
  <2>4. Unadded(i)' = 1 .. total /\ Unchecked(i)' = 1 .. total
    <3>1. /\ Unadded(i)' = Span(JobsOf("build", i)' \ InHand({"check", "count"})')
          /\ Unchecked(i)' = Span(JobsOf("build", i)')
      BY DEF Unadded, Unchecked, Span, Elems
    <3>2. builds \ InHand({"check", "count"})' = builds BY <2>3
    <3> QED BY <2>1, <2>2, <3>1, <3>2
  <2>5. total \in Nat /\ Cardinality(1 .. total) = total
    <3>1. total \in Nat BY <1>2, ConstantTypes
    <3> HIDE DEF total
    <3> QED BY <3>1, CountUpTo
  <2>6. added[i] = 0 /\ checked[i] = 0 /\ i \notin itemReady
    BY <1>0, <1>8, <1>21 DEF ItemsCounted, ItemsCountedOf
  <2>7. /\ added'[i] + Cardinality(Unadded(i)') = total
        /\ checked'[i] + Cardinality(Unchecked(i)') = total
    BY <1>4, <2>4, <2>5, <2>6
  <2>8. <<"item", i>> \in known' /\ i \notin itemReady' BY <1>4, <2>6
  <2> QED BY <2>7, <2>8 DEF ItemsCountedOf
<1>22. ItemsCounted'
  <2> SUFFICES ASSUME NEW x \in StaticItems PROVE ItemsCountedOf(x)'
    BY DEF ItemsCounted
  <2> QED BY <1>20, <1>21
<1>23. TypesFollowItems'
  <2>1. ASSUME NEW u \in Statics, <<"type", TypeOf[u]>> \in known' PROVE <<"item", ItemOf[u]>> \in known'
    <3>1. CASE <<"type", TypeOf[u]>> \in known
      BY <1>0, <1>4, <3>1 DEF TypesFollowItems
    <3>2. CASE ~Dynamic(r) /\ TypeOf[u] = TypeOf[r]
      <4>1. ItemOf[u] = i BY <1>b, <3>2, KeysAssumption DEF Statics
      <4> QED BY <1>4, <4>1
    <3> QED BY <1>4, <2>1, <3>1, <3>2
  <2>2. ASSUME NEW j \in Present', j.kind = "init" PROVE <<"type", j.from>> \in known'
    <3>1. CASE j \in made BY <1>4, <1>13, <2>2, <3>1
    <3>2. CASE j \in Present BY <1>0, <1>4, <2>2, <3>2 DEF TypesFollowItems
    <3> QED BY <1>13, <3>1, <3>2 DEF Effect
  <2> QED BY <1>0, <1>4, <2>1, <2>2 DEF TypesFollowItems
<1>24. Inv' BY <1>14, <1>16, <1>19, <1>22, <1>23 DEF Inv
<1>25. SameSaves BY <1>13, <1>17, SavesKept DEF Avoid
<1>26. Present' \ Present \subseteq ToSet(outbox'[e])
  BY <1>12, <1>13 DEF Effect
<1> QED BY <1>24, <1>25, <1>26

\* The cache is released, or it stays.
CacheReleased ==
  /\ SameLines /\ CacheGoes(cache)
  /\ \A j : j.kind = "save" => (j \in Present' <=> j \in Present)

\* The group pointer of a line is set, and the last group releases the cache.
LEMMA PublishGroupKeepsInv ==
  ASSUME Inv, NEW e \in Executors, PublishGroup(e)
  PROVE  Inv' /\ CacheReleased /\ Comes({"items"})
<1>0. /\ TypeOK /\ Steps /\ NoneTwice /\ GroupsCounted /\ LinesCounted /\ NamesFollowed
      /\ ItemsHeldBack /\ ItemsCounted /\ TypesFollowItems
  BY DEF Inv
<1>1. InStep(e, "group", "publish") /\ JobEnds(e) BY DEF PublishGroup
<1>a. PICK f \in Files, r \in Requests : Parsing(e, "publish", f, r)
  BY <1>0, <1>1, GroupInHand
<1>2. /\ f = job[e].of /\ r = job[e].from /\ job[e] = ParseGroup(f, r)
      /\ job[e].kind = "group" /\ at[e] = "publish" /\ job[e] # NoJob
      /\ job[e] \in Present /\ ItemOf[r] \in Items
  BY <1>a DEF Parsing
<1> DEFINE more == IF groupJobs = 1 THEN FlattenSeq(cache) ELSE <<>>
<1>3. /\ resolved' = resolved \cup {<<f, r>>}
      /\ itemReady' = itemReady \cup (IF Dynamic(r) THEN {ItemOf[r]} ELSE {})
      /\ groupJobs' = groupJobs - 1
      /\ cache' = IF groupJobs = 1 THEN Emptied ELSE cache
      /\ candidate' = candidate \o (outbox[e] \o more)
      /\ outbox' = [outbox EXCEPT ![e] = <<>>]
      /\ UNCHANGED <<ready, parseFiles, readyCount, added, checked, known, typeReady>>
  BY <1>2 DEF PublishGroup, LastGroup, ReleasedBy, OpenedBy, Push, saving
<1>4. cache \in [Subs -> Seq(AllJobs)] /\ \A s \in Subs : cache[s] \in Seq(ItemsOf(s))
  BY <1>0 DEF TypeOK
<1>5. /\ more \in Seq(AllJobs)
      /\ \A j \in ToSet(more) : groupJobs = 1 /\ j.kind = "items" /\ (j.of \in Subs => cache[j.of] # <<>>)
      /\ IsInjective(more) /\ ToSet(more) \cap Present = {}
  <2>1. CASE groupJobs = 1
    <3>1. OnceIn(cache, Present) BY <1>0 DEF NoneTwice
    <3> QED BY <1>4, <2>1, <3>1, Cached
  <2>2. CASE groupJobs # 1 BY <2>2 DEF ToSet, IsInjective
  <2> QED BY <2>1, <2>2
<1> HIDE DEF more
<1>6. Fresh(more) /\ NoGroups(more)
  BY <1>5 DEF Fresh, NoGroups, IsInjective, ToSet
<1>7. /\ job'[e] = NoJob /\ at'[e] = "idle"
      /\ \A x \in Executors \ {e} : job'[x] = job[x] /\ at'[x] = at[x]
      /\ job' \in [Executors -> AllJobs \cup {NoJob}] /\ at' \in [Executors -> Labels]
  BY <1>0, <1>1, Ended
<1>8. /\ outbox'[e] = <<>> /\ \A x \in Executors \ {e} : outbox'[x] = outbox[x]
      /\ outbox' \in [Executors -> Seq(AllJobs)]
  BY <1>0, <1>3 DEF TypeOK
<1>9. Effect({job[e]}, ToSet(more), -1) /\ Others(e)
  <2>1. JobEnded(e, more) BY <1>2, <1>3, <1>7, <1>8 DEF JobEnded
  <2>2. Effect({job[e]}, ToSet(more), IF job[e].kind = "group" THEN -1 ELSE 0)
    BY <1>0, <1>5, <1>6, <2>1, EffectOfEnd
  <2> QED BY <1>2, <1>7, <1>8, <2>2 DEF Others
<1>21. /\ groupJobs # 1 => ToSet(more) = {}
       /\ groupJobs = 1 =>
            \A s \in Subs : \A j : j.of = s => (j \in ToSet(more) <=> j \in ToSet(cache[s]))
  <2>1. CASE groupJobs = 1 BY <1>4, <2>1, Cached DEF more
  <2>2. CASE groupJobs # 1 BY <2>2 DEF more, ToSet
  <2> QED BY <2>1, <2>2
<1> PICK new : new = ToSet(more) OBVIOUS
<1>10. /\ Effect({job[e]}, new, -1)
       /\ groupJobs # 1 => new = {}
       /\ groupJobs = 1 => \A s \in Subs : \A j : j.of = s => (j \in new <=> j \in ToSet(cache[s]))
       /\ \A j \in new : groupJobs = 1 /\ j.kind = "items" /\ (j.of \in Subs => cache[j.of] # <<>>)
  BY <1>5, <1>9, <1>21
<1>11. TypeOK' /\ Steps'
  <2>1. candidate' \in Seq(AllJobs)
    <3>1. candidate \in Seq(AllJobs) /\ outbox[e] \in Seq(AllJobs)
      BY <1>0 DEF TypeOK
    <3> QED BY <1>3, <1>5, <3>1, ConcatProperties
  <2>2. groupJobs' \in Int BY <1>0, <1>3 DEF TypeOK
  <2>3. cache' \in [Subs -> Seq(AllJobs)] /\ \A s \in Subs : cache'[s] \in Seq(ItemsOf(s))
    BY <1>3, <1>4 DEF Emptied
  <2>4. TypeOK' BY <1>0, <1>3, <1>7, <1>8, <2>1, <2>2, <2>3 DEF TypeOK
  <2> QED BY <1>0, <1>7, <1>8, <1>9, <2>4, PlainSteps
<1>12. /\ InHand({"push"})' = InHand({"push"})
       /\ InHand({"check", "count"})' = InHand({"check", "count"})
  BY <1>2, <1>7, <1>9, HandsSame
<1>13. /\ Avoid({"file", "lines", "build"}, {job[e]}) /\ Avoid({"file", "lines", "build"}, new)
       /\ Avoid({"file", "lines"}, {job[e]}) /\ Avoid({"file", "lines"}, new)
       /\ Avoid({"build"}, {job[e]}) /\ Avoid({"build"}, new) /\ Avoid({"file"}, new)
  BY <1>2, <1>10 DEF Avoid
<1>14. NoneTwice' /\ GroupsCounted'
  <2>1. groupJobs' = groupJobs + (-1) BY <1>0, <1>3 DEF TypeOK
  <2>2. OnceIn(cache', Present')
    <3>1. CASE groupJobs = 1
      <4>1. \A s \in Subs : cache'[s] = <<>> BY <1>3, <3>1 DEF Emptied
      <4> QED BY <4>1 DEF OnceIn, IsInjective, ToSet
    <3>2. CASE groupJobs # 1
      <4>1. cache' = cache /\ Present' \subseteq Present
        BY <1>3, <1>10, <3>2 DEF Effect
      <4> QED BY <1>0, <4>1 DEF NoneTwice, OnceIn
    <3> QED BY <3>1, <3>2
  <2>3. NoneTwiceIn(Queue') /\ \A x \in Present' : x \in Present \/ x.kind # "file"
    BY <1>10 DEF Effect
  <2>4. NoneTwice' BY <1>0, <1>3, <2>2, <2>3, OnceStays
  <2> QED BY <1>0, <1>10, <2>1, <2>4, GroupsStayCounted
<1>15. SameLines BY <1>3, <1>10, <1>12, <1>13, LinesKept
<1>16. SameGroups
  <2>1. resolved \subseteq resolved' BY <1>3
  <2>2. ASSUME NEW g \in Files, NEW u \in Requests, ParseGroup(g, u) \in Present
        PROVE  ParseGroup(g, u) \in Present' \/ <<g, u>> \in resolved'
    <3>1. CASE ParseGroup(g, u) = job[e]
      <4>1. g = f /\ u = r
        <5>1. ParseGroup(g, u).of = g /\ ParseGroup(g, u).from = u
          BY JobFields DEF ParseGroup
        <5> QED BY <1>2, <3>1, <5>1
      <4> QED BY <1>3, <4>1
    <3>2. CASE ParseGroup(g, u) # job[e] BY <1>10, <2>2, <3>2 DEF Effect
    <3> QED BY <3>1, <3>2
  <2> QED BY <2>1, <2>2 DEF SameGroups
<1>17. LinesCounted' /\ NamesFollowed' BY <1>0, <1>3, <1>15, <1>16, LinesStay
<1>18. ItemsCounted' /\ TypesFollowItems'
  <2>1. SameBuilds BY <1>10, <1>12, <1>13, BuildsKept
  <2>2. \A i \in StaticItems : i \in itemReady' => i \in itemReady
    <3>1. ASSUME NEW u \in Statics, ItemOf[u] = ItemOf[r] PROVE ~Dynamic(r)
      BY <3>1, KeysAssumption DEF Statics
    <3> QED BY <1>3, <3>1 DEF StaticItems
  <2>3. itemReady \subseteq itemReady' BY <1>3
  <2>4. Avoid({"init"}, new) BY <1>10 DEF Avoid
  <2> QED BY <1>0, <1>3, <1>10, <2>1, <2>2, <2>3, <2>4, ItemsStay, TypesStay
<1>19. groupJobs' \in Nat
  <2>1. GroupsCounted' <=> /\ IsFiniteSet(GroupsIn(Queue'))
                           /\ groupJobs' = Cardinality(GroupsIn(Queue'))
    BY DEF GroupsCounted
  <2> QED BY <1>14, <2>1, FS_CardinalityType
<1>20. ItemsHeldBack'
  <2> SUFFICES ASSUME NEW s \in Subs
               PROVE  /\ cache'[s] # <<>> => Parsed(FileOf[s])' /\ groupJobs' > 0
                      /\ JobsOf("items", s)' # {} => Parsed(FileOf[s])' /\ Resolved(FileOf[s])'
    BY DEF ItemsHeldBack
  <2>1. FileOf[s] \in Files BY ConstantTypes
  <2>2. Parsed(FileOf[s]) => Parsed(FileOf[s])'
    BY <1>15, <2>1 DEF SameLines, SameLinesOf
  <2>3. cache[s] # <<>> => Parsed(FileOf[s])' BY <1>0, <2>2 DEF ItemsHeldBack
  <2>4. cache'[s] # <<>> => Parsed(FileOf[s])' /\ groupJobs' > 0
    <3> SUFFICES ASSUME cache'[s] # <<>> PROVE Parsed(FileOf[s])' /\ groupJobs' > 0
      OBVIOUS
    <3>1. groupJobs # 1 /\ cache[s] # <<>> BY <1>3 DEF Emptied
    <3>2. groupJobs' # 0 BY <1>0, <1>3, <3>1 DEF TypeOK
    <3> QED BY <1>19, <2>3, <3>1, <3>2
  <2>5. ASSUME NEW x \in JobsOf("items", s)' PROVE Parsed(FileOf[s])' /\ Resolved(FileOf[s])'
    <3>1. x \in Present' /\ x.kind = "items" /\ x.of = s BY <2>5 DEF JobsOf
    <3>2. CASE x \in Present
      <4>1. x \in JobsOf("items", s) BY <3>1, <3>2 DEF JobsOf
      <4>2. Parsed(FileOf[s]) /\ Resolved(FileOf[s])
        BY <1>0, <4>1 DEF ItemsHeldBack
      <4> QED BY <1>3, <2>2, <4>2 DEF Resolved
    <3>3. CASE x \in new
      <4>1. groupJobs = 1 /\ cache[s] # <<>> BY <1>10, <3>1, <3>3
      <4>2. Parsed(FileOf[s])' BY <2>3, <4>1
      <4>3. groupJobs' = 0 BY <1>3, <4>1
      <4>4. Resolved(FileOf[s])'
        BY <1>14, <1>17, <2>1, <4>2, <4>3, ResolvedWhenParsedNext
      <4> QED BY <4>2, <4>4
    <3> QED BY <1>10, <3>1, <3>2, <3>3 DEF Effect
  <2> QED BY <2>4, <2>5
<1>22. Inv' BY <1>11, <1>14, <1>17, <1>18, <1>20 DEF Inv
<1>23. CacheGoes(cache)
  <2> SUFFICES ASSUME NEW s \in Subs
               PROVE  \/ cache'[s] = cache[s] /\ JobsOf("items", s)' = JobsOf("items", s)
                      \/ /\ cache'[s] = <<>>
                         /\ JobsOf("items", s)' = JobsOf("items", s) \cup ToSet(cache[s])
    BY DEF CacheGoes
  <2>1. JobsOf("items", s)' = {x \in Present' : x.kind = "items" /\ x.of = s}
    BY DEF JobsOf
  <2>2. JobsOf("items", s) = {x \in Present : x.kind = "items" /\ x.of = s}
    BY DEF JobsOf
  <2>3. \A x : x.kind = "items" => (x \in Present' <=> x \in Present \/ x \in new)
    BY <1>2, <1>10 DEF Effect
  <2>4. CASE groupJobs # 1 BY <1>3, <1>10, <2>1, <2>2, <2>3, <2>4
  <2>5. CASE groupJobs = 1
    <3>1. cache'[s] = <<>> BY <1>3, <2>5 DEF Emptied
    <3>2. \A x : x.of = s => (x \in new <=> x \in ToSet(cache[s]))
      BY <1>10, <2>5
    <3>3. \A x \in ToSet(cache[s]) : x.kind = "items" /\ x.of = s
      BY <1>0, CachedItems DEF ToSet
    <3> QED BY <2>1, <2>2, <2>3, <3>1, <3>2, <3>3
  <2> QED BY <2>4, <2>5
<1>24. \A x : x.kind = "save" => (x \in Present' <=> x \in Present)
  BY <1>2, <1>10 DEF Effect
<1>25. Comes({"items"}) BY <1>10 DEF Effect, Comes
<1> QED BY <1>15, <1>22, <1>23, <1>24, <1>25 DEF CacheReleased

-----------------------------------------------------------------------------
(* The files that wait for their turn.                                       *)

\* A job pushes a Save job, or the next file, or nothing.
FilesMove(more) ==
  \/ parseFiles' = parseFiles /\ \A j \in ToSet(more) : j.kind = "save"
  \/ /\ parseFiles # <<>> /\ parseFiles' = Tail(parseFiles)
     /\ ToSet(more) = {Head(parseFiles)}

\* The first of the files that wait, and the others.
LEMMA WaitingFiles ==
  ASSUME TypeOK, NoneTwice, parseFiles # <<>>
  PROVE  /\ parseFiles[1] = Head(parseFiles) /\ Head(parseFiles) \notin Present
         /\ Head(parseFiles) \in {ParseFile(f) : f \in Files}
         /\ Tail(parseFiles) \in Seq({ParseFile(f) : f \in Files})
         /\ \A k \in DOMAIN Tail(parseFiles) :
              k + 1 \in DOMAIN parseFiles /\ Tail(parseFiles)[k] = parseFiles[k + 1] /\ k + 1 # 1
         /\ \A k \in DOMAIN parseFiles : k # 1 => k - 1 \in DOMAIN Tail(parseFiles)
         /\ 1 \in DOMAIN parseFiles
<1> DEFINE q == parseFiles
           S == {ParseFile(f) : f \in Files}
<1>1. q \in Seq(S) /\ q # <<>> BY DEF TypeOK
<1> HIDE DEF S
<1>2. /\ q[1] = Head(q) /\ Head(q) \in S /\ Tail(q) \in Seq(S)
      /\ Len(q) \in Nat /\ Len(Tail(q)) = Len(q) - 1 /\ Len(q) # 0
      /\ \A k \in 1 .. Len(Tail(q)) : Tail(q)[k] = q[k + 1]
  BY <1>1, HeadTailProperties, LenProperties, EmptySeq
<1>3. DOMAIN q = 1 .. Len(q) /\ DOMAIN Tail(q) = 1 .. Len(Tail(q))
  BY <1>1, <1>2, LenProperties
<1>4. 1 \in DOMAIN q /\ \A k \in DOMAIN q : k # 1 => k - 1 \in DOMAIN Tail(q)
  BY <1>2, <1>3
<1>5. \A k \in DOMAIN Tail(q) : k + 1 \in DOMAIN q /\ Tail(q)[k] = q[k + 1] /\ k + 1 # 1
  BY <1>2, <1>3
<1>6. Head(q) \notin Present BY <1>2, <1>4 DEF NoneTwice
<1> QED BY <1>2, <1>4, <1>5, <1>6 DEF S

\* A step that moves files from those that wait to the queues.
LEMMA FileStep ==
  ASSUME Inv, TypeOK', Steps', NEW drop, NEW more, Effect(drop, ToSet(more), 0),
         Avoid({"file", "lines", "group", "build"}, drop), FilesMove(more),
         InHand({"push"})' = InHand({"push"}),
         InHand({"check", "count"})' = InHand({"check", "count"}),
         UNCHANGED <<readyCount, groupJobs, cache, added, checked, known, itemReady, typeReady,
                     resolved>>
  PROVE  Inv'
<1>0. /\ TypeOK /\ NoneTwice /\ GroupsCounted /\ LinesCounted /\ NamesFollowed /\ ItemsHeldBack
      /\ ItemsCounted /\ TypesFollowItems
  BY DEF Inv
<1>1. CASE parseFiles' = parseFiles /\ \A j \in ToSet(more) : j.kind = "save"
  <2>1. UNCHANGED Fixed BY <1>1 DEF Fixed
  <2>2. Avoid({"file", "lines", "build", "init", "items"}, ToSet(more))
    BY <1>1 DEF Avoid
  <2> QED BY <2>1, <2>2, PlainStep
<1>2. CASE /\ parseFiles # <<>> /\ parseFiles' = Tail(parseFiles)
           /\ ToSet(more) = {Head(parseFiles)}
  <2>1. PICK f \in Files : Head(parseFiles) = ParseFile(f)
    BY <1>0, <1>2, WaitingFiles
  <2>2. /\ parseFiles[1] = ParseFile(f) /\ ParseFile(f) \notin Present
        /\ \A k \in DOMAIN parseFiles' :
             k + 1 \in DOMAIN parseFiles /\ parseFiles'[k] = parseFiles[k + 1] /\ k + 1 # 1
        /\ \A k \in DOMAIN parseFiles : k # 1 => k - 1 \in DOMAIN parseFiles'
        /\ 1 \in DOMAIN parseFiles
    BY <1>0, <1>2, <2>1, WaitingFiles
  <2> PICK next : next = {ParseFile(f)} OBVIOUS
  <2>3. Effect(drop, next, 0) /\ next = {ParseFile(f)} BY <1>2, <2>1
  <2>4. \A g : ParseFile(g).kind = "file" /\ ParseFile(g).of = g
    BY JobFields DEF ParseFile
  <2>5. \A j \in next : j.kind = "file" BY <2>3, <2>4
  <2>6. SameBuilds BY <2>3, <2>5, BuildsKept DEF Avoid
  <2>7. SameGroups /\ NoNewItems BY <2>3, <2>5, GroupsKept, ItemsKept DEF Avoid
  <2>8. GroupsCounted'
    <3>1. groupJobs' = groupJobs + 0 BY <1>0 DEF TypeOK
    <3> QED BY <1>0, <2>3, <3>1, GroupsStayCounted
  <2>9. ItemsCounted' /\ TypesFollowItems'
    BY <1>0, <2>3, <2>5, <2>6, ItemsStay, TypesStay DEF Avoid
  <2>10. ASSUME NEW g \in Files PROVE SameLinesOf(g)
    <3>1. JobsOf("lines", g)' = JobsOf("lines", g)
      <4>1. \A j \in drop : j.kind # "lines" BY DEF Avoid
      <4>2. \A j \in next : j.kind # "lines" BY <2>5
      <4> QED BY <2>3, <4>1, <4>2, JobsOfSame
    <3>2. LinesLeft(g)' = LinesLeft(g)
      <4>1. LinesLeft(g)' = Span(JobsOf("lines", g)' \ InHand({"push"})')
        BY DEF LinesLeft, Span, Elems
      <4> QED BY <3>1, <4>1 DEF LinesLeft
    <3>3. FilePending(g)' <=> ParseFile(g) \in Present' \/ ParseFile(g) \in ToSet(parseFiles')
      BY DEF FilePending, ParseFile, ToSet
    <3>4. FilePending(g)' <=> FilePending(g)
      <4>1. CASE g = f
        <5>1. FilePending(f) BY <2>2 DEF FilePending, ToSet
        <5>2. ParseFile(f) \in Present' BY <2>3 DEF Effect
        <5> QED BY <3>3, <4>1, <5>1, <5>2
      <4>2. CASE g # f
        <5>1. ParseFile(g) # ParseFile(f) BY <2>4, <4>2
        <5>2. ParseFile(g) \in Present' <=> ParseFile(g) \in Present
          BY <2>3, <2>4, <5>1 DEF Effect, Avoid
        <5>3. ParseFile(g) \in ToSet(parseFiles') => ParseFile(g) \in ToSet(parseFiles)
          BY <2>2 DEF ToSet
        <5>4. ParseFile(g) \in ToSet(parseFiles) => ParseFile(g) \in ToSet(parseFiles')
          <6> SUFFICES ASSUME NEW k \in DOMAIN parseFiles, parseFiles[k] = ParseFile(g)
                       PROVE  ParseFile(g) \in ToSet(parseFiles')
            BY DEF ToSet
          <6>1. k # 1 BY <2>2, <5>1
          <6>2. k - 1 \in DOMAIN parseFiles' BY <2>2, <6>1
          <6>3. k \in Int
            <7>1. DOMAIN parseFiles = 1 .. Len(parseFiles)
              BY <1>0, LenProperties DEF TypeOK
            <7> QED BY <7>1
          <6>4. parseFiles'[k - 1] = parseFiles[(k - 1) + 1] /\ (k - 1) + 1 = k
            BY <2>2, <6>2, <6>3
          <6>5. parseFiles'[k - 1] = ParseFile(g) BY <6>4
          <6> QED BY <6>2, <6>5 DEF ToSet
        <5> QED BY <3>3, <5>2, <5>3, <5>4 DEF FilePending
      <4> QED BY <4>1, <4>2
    <3>5. Parsed(g)' <=> Parsed(g) BY <3>1, <3>4, ParsedNext DEF Parsed
    <3> QED BY <3>1, <3>2, <3>4, <3>5 DEF SameLinesOf
  <2>11. LinesCounted' /\ NamesFollowed' /\ ItemsHeldBack'
    <3>1. SameLines /\ resolved \subseteq resolved' BY <2>10 DEF SameLines
    <3> QED BY <1>0, <2>7, <3>1, LinesStay, ItemsStayHeldBack
  <2>12. NoneTwice'
    <3>1. NoneTwiceIn(Queue') BY DEF Effect
    <3>2. ASSUME NEW k \in DOMAIN parseFiles' PROVE parseFiles'[k] \notin Present'
      <4>1. /\ k + 1 \in DOMAIN parseFiles /\ parseFiles'[k] = parseFiles[k + 1]
            /\ parseFiles[k + 1] # parseFiles[1] /\ parseFiles[k + 1] \notin Present
        BY <1>0, <2>2 DEF NoneTwice
      <4> QED BY <2>2, <2>3, <4>1 DEF Effect
    <3>3. ASSUME NEW k \in DOMAIN parseFiles', NEW m \in DOMAIN parseFiles',
                 parseFiles'[k] = parseFiles'[m]
          PROVE  k = m
      <4>1. k + 1 = m + 1 BY <1>0, <2>2, <3>3 DEF NoneTwice
      <4>2. k \in Int /\ m \in Int
        <5>1. parseFiles' \in Seq({ParseFile(g) : g \in Files})
          BY DEF TypeOK, ParseFile
        <5>2. DOMAIN parseFiles' = 1 .. Len(parseFiles') BY <5>1, LenProperties
        <5> QED BY <5>2
      <4> QED BY <4>1, <4>2
    <3>4. OnceIn(cache', Present')
      <4>1. \A s \in Subs : \A k \in DOMAIN cache[s] : cache[s][k].kind = "items"
        BY <1>0, CachedItems
      <4>2. \A s \in Subs : \A j \in ToSet(cache[s]) : j.kind = "items"
        BY <4>1 DEF ToSet
      <4> QED BY <1>0, <2>3, <2>5, <4>2 DEF Effect, NoneTwice, OnceIn
    <3> QED BY <3>1, <3>2, <3>3, <3>4 DEF NoneTwice, OnceIn
  <2> QED BY <2>8, <2>9, <2>11, <2>12 DEF Inv
<1> QED BY <1>1, <1>2 DEF FilesMove

\* The next file, if one waits, is pushed.
LEMMA NextFile ==
  ASSUME TypeOK, NoneTwice, NEW more,
         more = IF parseFiles = <<>> THEN <<>> ELSE <<Head(parseFiles)>>,
         parseFiles' = IF parseFiles = <<>> THEN <<>> ELSE Tail(parseFiles)
  PROVE  /\ more \in Seq(AllJobs) /\ Fresh(more) /\ NoGroups(more) /\ FilesMove(more)
         /\ parseFiles' \in Seq({ParseFile(f) : f \in Files})
<1>1. CASE parseFiles = <<>>
  <2>1. more = <<>> /\ parseFiles' = parseFiles BY <1>1
  <2> QED BY <2>1 DEF TypeOK, Fresh, NoGroups, FilesMove, ToSet
<1>2. CASE parseFiles # <<>>
  <2>1. PICK next : next = Head(parseFiles) OBVIOUS
  <2>2. /\ next \notin Present /\ next \in {ParseFile(f) : f \in Files}
        /\ parseFiles' \in Seq({ParseFile(f) : f \in Files})
    BY <1>2, <2>1, WaitingFiles
  <2>3. next \in AllJobs /\ next.kind = "file"
    BY <2>2, JobsAreJobs, JobFields DEF ParseFile
  <2>4. more = <<next>> BY <1>2, <2>1
  <2>5. more \in Seq(AllJobs) /\ DOMAIN more = {1} /\ more[1] = next /\ ToSet(more) = {next}
    BY <2>3, <2>4 DEF ToSet
  <2>6. Fresh(more) /\ NoGroups(more) BY <2>2, <2>3, <2>5 DEF Fresh, NoGroups
  <2>7. FilesMove(more) BY <1>2, <2>1, <2>5 DEF FilesMove
  <2> QED BY <2>2, <2>5, <2>6, <2>7
<1> QED BY <1>1, <1>2

\* A layer that is complete is to be saved.
LEMMA SaveIsMade ==
  ASSUME NEW s \in Subs, NEW more, more = <<Save(s)>>, parseFiles' = parseFiles, TypeOK
  PROVE  /\ more \in Seq(AllJobs) /\ Fresh(more) /\ NoGroups(more) /\ FilesMove(more)
         /\ parseFiles' \in Seq({ParseFile(f) : f \in Files})
<1>1. PICK j : j = Save(s) OBVIOUS
<1>2. j \in AllJobs /\ j.kind = "save" BY <1>1, JobsAreJobs, JobFields DEF Save
<1>3. more \in Seq(AllJobs) /\ DOMAIN more = {1} /\ more[1] = j /\ ToSet(more) = {j}
  BY <1>1, <1>2 DEF ToSet
<1> QED BY <1>2, <1>3 DEF Fresh, NoGroups, Once, FilesMove, TypeOK

\* The job in hand goes on, and pushes some jobs first.
LEMMA PushEffect ==
  ASSUME Inv, NEW e \in Executors, NEW kind \in JobKinds, NEW from, NEW to \in Labels,
         InStep(e, kind, from), Continue(e, to), from # "cache", to \notin {"cache", "idle"},
         NEW more \in Seq(AllJobs), Fresh(more), NoGroups(more),
         candidate' = candidate \o more, UNCHANGED <<ready, outbox>>
  PROVE  /\ Effect({}, ToSet(more), 0) /\ Others(e) /\ job' = job /\ at'[e] = to
         /\ candidate' \in Seq(AllJobs)
         /\ job' \in [Executors -> AllJobs \cup {NoJob}] /\ at' \in [Executors -> Labels]
<1>1. TypeOK /\ NoneTwice /\ GroupsCounted BY DEF Inv
<1>2. /\ job' = job /\ at'[e] = to /\ \A x \in Executors \ {e} : at'[x] = at[x]
      /\ job' \in [Executors -> AllJobs \cup {NoJob}] /\ at' \in [Executors -> Labels]
  BY <1>1, Continued
<1>3. ASSUME NEW q \in Queues \ {Candidates} PROVE Queue'[q] = Queue[q]
  <2>1. PICK x \in Executors : q \in {Ready(x), Outbox(x), Hand(x)}
    BY QueueNames
  <2>2. ready'[x] = ready[x] /\ outbox'[x] = outbox[x] /\ job'[x] = job[x]
    BY <1>2
  <2>3. at'[x] = "cache" <=> at[x] = "cache" BY <1>2 DEF InStep
  <2> QED BY <2>1, <2>2, <2>3, ExecutorKept
<1>4. Effect({}, ToSet(more), 0)
  <2>1. /\ Candidates \in Queues /\ Queue[Candidates] \in Seq(AllJobs)
        /\ Queue'[Candidates] = Queue[Candidates] \o more
    BY <1>1, QueueNames, QueueValues, QueueValuesNext DEF TypeOK
  <2>2. 0 \in 0 .. Len(more) /\ \A k \in DOMAIN more : more[k].kind = "group" <=> k <= 0
    <3>1. Len(more) \in Nat /\ DOMAIN more = 1 .. Len(more) BY LenProperties
    <3> QED BY <3>1 DEF NoGroups
  <2> QED BY <1>1, <1>3, <2>1, <2>2, EffectOfGrowth
<1>5. candidate' \in Seq(AllJobs) BY <1>1, ConcatProperties DEF TypeOK
<1> QED BY <1>2, <1>4, <1>5 DEF Others

\* The last items of a file push its save or the next file.
LEMMA CompleteFileKeepsInv ==
  ASSUME Inv, NEW e \in Executors, CompleteFile(e)
  PROVE  Inv'
<1>0. TypeOK /\ Steps /\ NoneTwice BY DEF Inv
<1>1. InStep(e, "items", "complete") /\ Continue(e, "finish")
  BY DEF CompleteFile
<1>2. /\ job[e] # NoJob /\ job[e].kind = "items" /\ at[e] = "complete" /\ job[e].of \in Subs
  BY <1>0, <1>1, JobInHand DEF Fits, JobKinds
<1>3. UNCHANGED <<readyCount, groupJobs, cache, added, checked, known, itemReady, typeReady,
                  resolved, outbox>>
  BY DEF CompleteFile, parsing, groups
<1>4. PICK more : /\ candidate' = candidate \o more /\ ready' = ready
                  /\ more \in Seq(AllJobs) /\ Fresh(more) /\ NoGroups(more) /\ FilesMove(more)
                  /\ parseFiles' \in Seq({ParseFile(f) : f \in Files})
  <2>1. CASE Push(<<Save(job[e].of)>>) /\ UNCHANGED parseFiles
    BY <1>0, <1>2, <2>1, SaveIsMade DEF Push
  <2>2. CASE PushNextFile BY <1>0, <2>2, NextFile DEF Push, PushNextFile
  <2> QED BY <2>1, <2>2 DEF CompleteFile
<1>5. /\ Effect({}, ToSet(more), 0) /\ Others(e) /\ job' = job /\ at'[e] = "finish"
      /\ candidate' \in Seq(AllJobs)
      /\ job' \in [Executors -> AllJobs \cup {NoJob}] /\ at' \in [Executors -> Labels]
  BY <1>1, <1>3, <1>4, PushEffect DEF JobKinds, Labels
<1>6. TypeOK' /\ Steps'
  <2>1. TypeOK' BY <1>0, <1>3, <1>4, <1>5 DEF TypeOK
  <2>2. StepOf(e) /\ StepOf(e)' BY <1>0, <1>2, <1>3, <1>5 DEF Steps, StepOf
  <2> QED BY <1>0, <1>5, <2>1, <2>2, StepsKept
<1>7. /\ InHand({"push"})' = InHand({"push"})
      /\ InHand({"check", "count"})' = InHand({"check", "count"})
  BY <1>2, <1>5, HandsSame
<1>8. Avoid({"file", "lines", "group", "build"}, {}) BY DEF Avoid
<1> QED BY <1>3, <1>4, <1>5, <1>6, <1>7, <1>8, FileStep

\* A layer is saved.
LEMMA SaveLayerKeepsInv ==
  ASSUME Inv, NEW e \in Executors, SaveLayer(e)
  PROVE  Inv'
<1>0. TypeOK /\ Steps /\ NoneTwice BY DEF Inv
<1>1. InStep(e, "save", "run") /\ JobEnds(e) BY DEF SaveLayer
<1>2. job[e].kind = "save" /\ at[e] = "run" BY <1>1 DEF InStep
<1>3. UNCHANGED <<readyCount, groupJobs, cache, added, checked, known, itemReady, typeReady,
                  resolved, outbox>>
  BY DEF SaveLayer, parsing, groups
<1>4. PICK more : /\ candidate' = candidate \o more /\ ready' = ready
                  /\ more \in Seq(AllJobs) /\ Fresh(more) /\ NoGroups(more) /\ FilesMove(more)
                  /\ parseFiles' \in Seq({ParseFile(f) : f \in Files})
  BY <1>0, NextFile DEF SaveLayer, Push, PushNextFile
<1>5. /\ Effect({job[e]}, ToSet(more), 0) /\ Others(e) /\ job'[e] = NoJob /\ at'[e] = "idle"
      /\ outbox'[e] = <<>> /\ candidate' \in Seq(AllJobs)
      /\ job' \in [Executors -> AllJobs \cup {NoJob}] /\ at' \in [Executors -> Labels]
  BY <1>1, <1>3, <1>4, EndEffectMore DEF JobKinds
<1>6. TypeOK' /\ Steps'
  <2>1. TypeOK' BY <1>0, <1>3, <1>4, <1>5 DEF TypeOK
  <2> QED BY <1>0, <1>5, <2>1, PlainSteps
<1>7. /\ InHand({"push"})' = InHand({"push"})
      /\ InHand({"check", "count"})' = InHand({"check", "count"})
  BY <1>2, <1>5, HandsSame
<1>8. Avoid({"file", "lines", "group", "build"}, {job[e]}) BY <1>2 DEF Avoid
<1> QED BY <1>3, <1>4, <1>5, <1>6, <1>7, <1>8, FileStep

-----------------------------------------------------------------------------
(* The initial state, and the theorems.                                      *)

\* The jobs that the program starts with.
LEMMA FirstJobs ==
  ASSUME Init
  PROVE  /\ candidate \in Seq(AllJobs) /\ parseFiles \in Seq({ParseFile(f) : f \in Files})
         /\ \A k \in DOMAIN candidate : candidate[k].kind \in {"load", "file"}
         /\ \A k, m \in DOMAIN candidate :
              candidate[k].kind = "file" /\ candidate[k] = candidate[m] => k = m
         /\ \A k \in DOMAIN parseFiles : parseFiles[k] \notin ToSet(candidate)
         /\ \A k, m \in DOMAIN parseFiles : parseFiles[k] = parseFiles[m] => k = m
         /\ \A f \in Files : ParseFile(f) \in ToSet(candidate) \/ ParseFile(f) \in ToSet(parseFiles)
<1> DEFINE loads == [l \in Layers |-> Load(l)]
           S == {ParseFile(f) : f \in Files}
           n == Len(CopySrc)
           total == Len(Lines)
           q == FileJobs
           first == IF RunParallel THEN q ELSE <<Head(q)>>
           rest == IF RunParallel THEN <<>> ELSE Tail(q)
<1>1. n \in Nat /\ Layers = 1 .. n /\ total \in Nat /\ total # 0 /\ Files = 1 .. total
  BY ScenarioAssumption, LenProperties, EmptySeq DEF Layers, Files
<1>2. loads \in Seq(AllJobs) /\ DOMAIN loads = 1 .. n /\ Len(loads) = n
  <2>1. loads \in [1 .. n -> AllJobs] BY <1>1, JobsAreJobs
  <2> QED BY <1>1, <2>1
<1>3. \A k \in DOMAIN loads : loads[k].kind = "load" BY JobFields DEF Load
<1>4. /\ q \in Seq(S) /\ DOMAIN q = 1 .. total /\ Len(q) = total /\ q # <<>>
      /\ \A k \in 1 .. total : q[k] = ParseFile(k)
  <2>1. q \in [1 .. total -> S] /\ \A k \in 1 .. total : q[k] = ParseFile(k)
    BY <1>1 DEF FileJobs
  <2> HIDE DEF q, S
  <2>2. q \in Seq(S) /\ DOMAIN q = 1 .. total /\ Len(q) = total BY <1>1, <2>1
  <2> QED BY <1>1, <2>1, <2>2
<1>5. /\ candidate = loads \o first /\ parseFiles = rest BY DEF Init
<1> HIDE DEF loads, q
<1>6. /\ \A f \in Files : ParseFile(f).kind = "file" /\ ParseFile(f).of = f /\ ParseFile(f) \in AllJobs
      /\ S \subseteq AllJobs
  BY JobFields, JobsAreJobs DEF ParseFile
<1> HIDE DEF S
\* The files in first come before those in rest.
<1>7. PICK m \in 1 .. total :
        /\ first \in Seq(S) /\ Len(first) = m /\ DOMAIN first = 1 .. m
        /\ \A k \in 1 .. m : first[k] = ParseFile(k)
        /\ rest \in Seq(S) /\ DOMAIN rest = 1 .. total - m
        /\ \A k \in 1 .. total - m : rest[k] = ParseFile(k + m)
  <2>1. CASE RunParallel
    <3>1. first = q /\ rest = <<>> BY <2>1
    <3> HIDE DEF first, rest
    <3>2. /\ first \in Seq(S) /\ Len(first) = total /\ DOMAIN first = 1 .. total
          /\ \A k \in 1 .. total : first[k] = ParseFile(k)
      BY <1>4, <3>1
    <3>3. rest \in Seq(S) /\ DOMAIN rest = {} /\ 1 .. total - total = {}
      BY <1>1, <3>1
    <3>4. total \in 1 .. total BY <1>1
    <3> QED BY <3>2, <3>3, <3>4
  <2>2. CASE ~RunParallel
    <3>1. first = <<Head(q)>> /\ rest = Tail(q) BY <2>2
    <3>2. /\ Head(q) = q[1] /\ Head(q) \in S /\ Tail(q) \in Seq(S) /\ Len(Tail(q)) = total - 1
          /\ \A k \in 1 .. Len(Tail(q)) : Tail(q)[k] = q[k + 1]
      BY <1>4, HeadTailProperties
    <3> HIDE DEF first, rest
    <3>3. /\ first \in Seq(S) /\ Len(first) = 1 /\ DOMAIN first = 1 .. 1
          /\ first[1] = ParseFile(1)
      BY <1>1, <1>4, <3>1, <3>2
    <3>4. rest \in Seq(S) /\ DOMAIN rest = 1 .. total - 1
      BY <3>1, <3>2, LenProperties
    <3>5. \A k \in 1 .. total - 1 : rest[k] = ParseFile(k + 1)
      BY <1>1, <1>4, <3>1, <3>2
    <3>6. 1 \in 1 .. total BY <1>1
    <3> QED BY <3>3, <3>4, <3>5, <3>6
  <2> QED BY <2>1, <2>2
<1> HIDE DEF first, rest, n, total
<1>8. first \in Seq(AllJobs) /\ m \in Nat
  <2>1. first \in Seq(AllJobs) BY <1>6, <1>7, SeqMonotonic
  <2> QED BY <1>1, <1>7, <2>1
<1>9. /\ candidate \in Seq(AllJobs) /\ DOMAIN candidate = 1 .. n + m
      /\ \A k \in 1 .. n + m : candidate[k] = IF k <= n THEN loads[k] ELSE first[k - n]
  <2>1. /\ loads \o first \in Seq(AllJobs) /\ Len(loads \o first) = n + m
        /\ \A k \in 1 .. n + m : (loads \o first)[k] = IF k <= n THEN loads[k] ELSE first[k - n]
    BY <1>2, <1>7, <1>8, ConcatProperties
  <2>2. DOMAIN candidate = 1 .. n + m BY <1>5, <2>1, LenProperties
  <2> QED BY <1>5, <2>1, <2>2
<1>10. ASSUME NEW k \in DOMAIN candidate
       PROVE  \/ candidate[k].kind = "load"
              \/ /\ k - n \in 1 .. m /\ candidate[k] = ParseFile(k - n)
                 /\ candidate[k].kind = "file" /\ candidate[k].of = k - n
  <2>1. CASE k <= n
    <3>1. k \in DOMAIN loads /\ candidate[k] = loads[k]
      BY <1>1, <1>2, <1>8, <1>9, <2>1
    <3> QED BY <1>3, <3>1
  <2>2. CASE ~(k <= n)
    <3>1. k - n \in 1 .. m /\ candidate[k] = first[k - n]
      BY <1>1, <1>8, <1>9, <2>2
    <3>2. k - n \in Files /\ candidate[k] = ParseFile(k - n)
      BY <1>1, <1>7, <3>1
    <3> QED BY <1>6, <3>1, <3>2
  <2> QED BY <2>1, <2>2
<1>11. \A k, l \in DOMAIN candidate : candidate[k].kind = "file" /\ candidate[k] = candidate[l] => k = l
  <2> SUFFICES ASSUME NEW k \in DOMAIN candidate, NEW l \in DOMAIN candidate,
                      candidate[k].kind = "file", candidate[k] = candidate[l]
               PROVE  k = l
    OBVIOUS
  <2>1. k - n = l - n BY <1>10
  <2> QED BY <1>1, <1>8, <1>9, <2>1
<1>12. ASSUME NEW k \in DOMAIN parseFiles
       PROVE  k \in Nat /\ k + m \in Files /\ parseFiles[k] = ParseFile(k + m) /\ k + m > m
  BY <1>1, <1>5, <1>7, <1>8
<1>13. \A k \in DOMAIN parseFiles : parseFiles[k] \notin ToSet(candidate)
  <2> SUFFICES ASSUME NEW k \in DOMAIN parseFiles, NEW l \in DOMAIN candidate,
                      parseFiles[k] = candidate[l]
               PROVE  FALSE
    BY DEF ToSet
  <2>1. parseFiles[k].kind = "file" /\ parseFiles[k].of = k + m BY <1>6, <1>12
  <2>2. l - n \in 1 .. m /\ k + m = l - n BY <1>10, <2>1
  <2> QED BY <1>1, <1>8, <1>9, <1>12, <2>2
<1>14. \A k, l \in DOMAIN parseFiles : parseFiles[k] = parseFiles[l] => k = l
  <2> SUFFICES ASSUME NEW k \in DOMAIN parseFiles, NEW l \in DOMAIN parseFiles,
                      parseFiles[k] = parseFiles[l]
               PROVE  k = l
    OBVIOUS
  <2>1. k + m = l + m BY <1>6, <1>12
  <2> QED BY <1>8, <1>12, <2>1
<1>15. \A f \in Files : ParseFile(f) \in ToSet(candidate) \/ ParseFile(f) \in ToSet(parseFiles)
  <2> TAKE f \in Files
  <2>1. CASE f <= m
    <3>1. f \in 1 .. m /\ n + f \in 1 .. n + m /\ ~(n + f <= n) /\ (n + f) - n = f
      BY <1>1, <1>8, <2>1
    <3>2. n + f \in DOMAIN candidate /\ candidate[n + f] = ParseFile(f)
      BY <1>7, <1>9, <3>1
    <3> QED BY <3>2 DEF ToSet
  <2>2. CASE ~(f <= m)
    <3>1. f - m \in 1 .. total - m /\ (f - m) + m = f BY <1>1, <1>8, <2>2
    <3>2. f - m \in DOMAIN parseFiles /\ parseFiles[f - m] = ParseFile(f)
      BY <1>5, <1>7, <3>1
    <3> QED BY <3>2 DEF ToSet
  <2> QED BY <2>1, <2>2
<1> QED BY <1>5, <1>7, <1>9, <1>10, <1>11, <1>13, <1>14, <1>15 DEF S

\* No file has been parsed, and there is nothing but layers and files.
Unstarted == (\A j \in Present : j.kind \in {"load", "file"}) /\ \A f \in Files : FilePending(f)

\* The invariant holds before the first step.
LEMMA InitInv == Init => Inv /\ Unstarted
<1> SUFFICES ASSUME Init PROVE Inv /\ Unstarted OBVIOUS
<1>1. /\ candidate \in Seq(AllJobs) /\ parseFiles \in Seq({ParseFile(f) : f \in Files})
      /\ \A k \in DOMAIN candidate : candidate[k].kind \in {"load", "file"}
      /\ \A k, m \in DOMAIN candidate :
           candidate[k].kind = "file" /\ candidate[k] = candidate[m] => k = m
      /\ \A k \in DOMAIN parseFiles : parseFiles[k] \notin ToSet(candidate)
      /\ \A k, m \in DOMAIN parseFiles : parseFiles[k] = parseFiles[m] => k = m
      /\ \A f \in Files : ParseFile(f) \in ToSet(candidate) \/ ParseFile(f) \in ToSet(parseFiles)
  BY FirstJobs
<1>2. TypeOK BY <1>1 DEF Init, TypeOK, Emptied, Labels
<1>3. Steps BY JobsAreJobs DEF Init, Steps, StepOf
<1>4. ASSUME NEW q \in Queues, q # Candidates PROVE Queue[q] = <<>>
  <2>1. PICK e \in Executors : q \in {Ready(e), Outbox(e), Hand(e)}
    BY <1>4, QueueNames
  <2>2. ready[e] = <<>> /\ outbox[e] = <<>> /\ job[e] = NoJob BY DEF Init
  <2>3. CASE q = Ready(e) BY <2>2, <2>3, QueueValues
  <2>4. CASE q = Outbox(e) BY <2>2, <2>4, QueueValues
  <2>5. CASE q = Hand(e) BY <2>2, <2>5, QueueValues
  <2> QED BY <2>1, <2>3, <2>4, <2>5
<1>5. Queue[Candidates] = candidate /\ Candidates \in Queues
  BY QueueNames, QueueValues
<1>6. ASSUME NEW p \in PlacesIn(Queue)
      PROVE  p = <<Candidates, p[2]>> /\ p[2] \in DOMAIN candidate /\ At(Queue, p) = candidate[p[2]]
  <2>1. p = <<p[1], p[2]>> /\ p[1] \in Queues /\ p[2] \in DOMAIN Queue[p[1]]
    BY PlaceFacts
  <2>2. p[1] = Candidates BY <1>4, <2>1
  <2> QED BY <1>5, <2>1, <2>2 DEF At
<1>7. Present = ToSet(candidate)
  <2>1. ASSUME NEW j \in Present PROVE j \in ToSet(candidate)
    BY <1>6 DEF Present, JobsIn, ToSet
  <2>2. ASSUME NEW k \in DOMAIN candidate PROVE candidate[k] \in Present
    <3>1. <<Candidates, k>> \in PlacesIn(Queue) /\ At(Queue, <<Candidates, k>>) = candidate[k]
      BY <1>5, PlaceFacts DEF At
    <3> QED BY <3>1 DEF Present, JobsIn
  <2> QED BY <2>1, <2>2 DEF ToSet
<1>8. \A j \in Present : j.kind \in {"load", "file"} BY <1>1, <1>7 DEF ToSet
<1>9. NoneTwice
  <2>1. NoneTwiceIn(Queue)
    <3> SUFFICES ASSUME NEW p \in PlacesIn(Queue), NEW q \in PlacesIn(Queue),
                        At(Queue, p) = At(Queue, q), At(Queue, p).kind \in Once
                 PROVE  p = q
      BY DEF NoneTwiceIn
    <3>1. candidate[p[2]].kind = "file" BY <1>1, <1>6 DEF Once
    <3>2. p[2] = q[2] BY <1>1, <1>6, <3>1
    <3> QED BY <1>6, <3>2
  <2>2. OnceIn(cache, Present) BY DEF OnceIn, Init, Emptied, IsInjective, ToSet
  <2> QED BY <1>1, <1>7, <2>1, <2>2 DEF NoneTwice
<1>10. GroupsCounted
  <2>1. GroupsIn(Queue) = {} BY <1>8 DEF GroupsIn, Present, JobsIn
  <2> QED BY <2>1, FS_EmptySet DEF GroupsCounted, Init
<1>11. \A kind : kind \notin {"load", "file"} => \A x : JobsOf(kind, x) = {}
  BY <1>8 DEF JobsOf
<1>12. \A f \in Files : FilePending(f) BY <1>1, <1>7 DEF FilePending
<1>13. LinesCounted BY <1>11, <1>12 DEF LinesCounted, LinesCountedOf, Init
<1>14. NamesFollowed BY <1>12 DEF NamesFollowed, NamesFollowedOf, Counted
<1>15. ItemsHeldBack BY <1>11 DEF ItemsHeldBack, Init, Emptied
<1>16. ItemsCounted
  <2> SUFFICES ASSUME NEW i \in StaticItems PROVE ItemsCountedOf(i)
    BY DEF ItemsCounted
  <2>1. i \in Items BY ConstantTypes
  <2>2. added[i] = 0 /\ checked[i] = 0 /\ known = {} /\ itemReady = {}
    BY <2>1 DEF Init
  <2> QED BY <1>11, <2>2 DEF ItemsCountedOf
<1>17. TypesFollowItems BY <1>8 DEF TypesFollowItems, Init
<1> QED
  BY <1>2, <1>3, <1>8, <1>9, <1>10, <1>12, <1>13, <1>14, <1>15, <1>16, <1>17 DEF Inv, Unstarted

\* The invariant only looks at the variables.
LEMMA StutterKeepsInv ==
  ASSUME Inv, UNCHANGED vars
  PROVE  Inv' /\ SameSaves /\ Comes({})
<1>1. TypeOK /\ NoneTwice /\ GroupsCounted /\ Steps BY DEF Inv
<1>2. /\ UNCHANGED <<candidate, ready, outbox, job, at>> /\ UNCHANGED Fixed
  BY DEF vars, queues, parsing, groups, saving, Fixed
<1>3. TypeOK' /\ Steps' BY <1>1, <1>2 DEF TypeOK, Steps, StepOf, News, Fixed
<1>4. ASSUME NEW q \in Queues PROVE Queue'[q] = Queue[q]
  <2>1. CASE q = Candidates BY <1>2, <2>1, QueueValues, QueueValuesNext
  <2>2. ASSUME NEW e \in Executors, q \in {Ready(e), Outbox(e), Hand(e)} PROVE Queue'[q] = Queue[q]
    BY <1>2, <2>2, ExecutorKept
  <2> QED BY <2>1, <2>2, QueueNames
<1>5. Effect({}, {}, 0) BY <1>1, <1>4, QueuesSame
<1>6. /\ InHand({"push"})' = InHand({"push"})
      /\ InHand({"check", "count"})' = InHand({"check", "count"})
  BY <1>2 DEF InHand
<1>7. Inv' BY <1>2, <1>3, <1>5, <1>6, PlainStep DEF Avoid
<1>8. SameSaves
  <2>1. SameLines BY <1>2, <1>5, <1>6, LinesKept DEF Avoid, Fixed
  <2> QED BY <1>5, <2>1, SavesKept DEF Avoid
<1>9. Comes({}) BY <1>5 DEF Effect, Comes
<1> QED BY <1>7, <1>8, <1>9

\* Every step of every job keeps the invariant.
LEMMA NextKeepsInv ==
  ASSUME Inv, [Next]_vars
  PROVE  Inv'
<1>1. CASE Select BY <1>1, SelectKeepsInv
<1>2. ASSUME NEW e \in Executors, Take(e) PROVE Inv' BY <1>2, TakeKeepsInv
<1>3. ASSUME NEW e \in Executors, Step(e) PROVE Inv'
  <2>1. CASE \/ LoadLayer(e) \/ CopyLoad(e) \/ ParseConditions(e) \/ CopyInfo(e) \/ ReadTagName(e)
             \/ ProcessItems(e) \/ CountFile(e)
    BY <2>1, PlainActions
  <2>2. CASE PushLines(e) \/ ParseLines(e) \/ CacheItems(e) \/ PushParsed(e)
    BY <2>2, PushLinesKeepsInv, ParseLinesKeepsInv, CacheItemsKeepsInv, PushParsedKeepsInv
  <2>3. CASE FindInsertGroup(e) \/ PublishGroup(e)
    BY <2>3, FindInsertGroupKeepsInv, PublishGroupKeepsInv
  <2>4. CASE AddElements(e) \/ TestChecked(e) \/ AddChecked(e) \/ InitTypeGroup(e)
    BY <2>4, AddElementsKeepsInv, TestCheckedKeepsInv, AddCheckedKeepsInv, InitTypeGroupKeepsInv
  <2>5. CASE CompleteFile(e) \/ SaveLayer(e)
    BY <2>5, CompleteFileKeepsInv, SaveLayerKeepsInv
  <2> QED BY <1>3, <2>1, <2>2, <2>3, <2>4, <2>5 DEF Step
<1>4. CASE UNCHANGED vars BY <1>4, StutterKeepsInv
<1> QED BY <1>1, <1>2, <1>3, <1>4 DEF Next, Finished

\* Every job is where the counters take it to be, whatever the scenario and
\* the order of the steps.
THEOREM PipelineInvariance == Spec => []Inv
<1>1. Init => Inv BY InitInv
<1>2. Inv /\ [Next]_vars => Inv' BY NextKeepsInv
<1> QED BY <1>1, <1>2, PTL DEF Spec

\* parseGroupJobCount_ is the number of ParseGroup jobs there are, of all files,
\* and no item waits in jobCache_ when the last of them has gone: nothing else
\* would release it.
THEOREM CacheKeepsAReleaser == Spec => []CacheHasReleaser
<1>1. Inv => CacheHasReleaser
  <2> SUFFICES ASSUME Inv PROVE CacheHasReleaser OBVIOUS
  <2>1. GroupsToParse = GroupsIn(Queue)
    BY DEF GroupsToParse, GroupsIn, Places, PlacesIn, JobAt, At
  <2>2. groupJobs = Cardinality(GroupsIn(Queue)) BY DEF Inv, GroupsCounted
  <2>3. \A s \in Subs : cache[s] # <<>> => groupJobs > 0
    BY DEF Inv, ItemsHeldBack
  <2> QED BY <2>1, <2>2, <2>3 DEF CacheHasReleaser
<1> QED BY <1>1, PipelineInvariance, PTL

\* A ProcessMifItems job in hand finds every line of its file parsed and every
\* group that the lines name resolved, whichever executors parsed them and in
\* whatever order they counted them.
THEOREM ItemsFollowLines == Spec => []LinesBeforeItems
<1>1. Inv => LinesBeforeItems
  <2> SUFFICES ASSUME Inv, NEW e \in Executors, job[e].kind = "items"
               PROVE  LET f == FileOf[job[e].of]
                      IN  readyCount[f] = Len(Lines[f]) /\ {f} \X RequestsOf(f) \subseteq resolved
    BY DEF LinesBeforeItems
  <2>1. TypeOK /\ LinesCounted /\ ItemsHeldBack BY DEF Inv
  <2>2. job[e] \in Present /\ job[e].of \in Subs
    <3>1. InStep(e, "items", at[e]) BY DEF InStep
    <3> QED BY <2>1, <3>1, JobInHand DEF Fits, JobKinds
  <2>3. PICK s \in Subs, f \in Files : s = job[e].of /\ f = FileOf[s]
    BY <2>2, ConstantTypes
  <2>4. job[e] \in JobsOf("items", s) BY <2>2, <2>3 DEF JobsOf
  <2>5. Parsed(f) /\ Resolved(f) BY <2>1, <2>3, <2>4 DEF ItemsHeldBack
  <2>6. readyCount[f] + Cardinality(LinesLeft(f)) = Len(Lines[f]) /\ LinesLeft(f) = {}
    BY <2>1, <2>5 DEF Parsed, LinesCounted, LinesCountedOf, LinesLeft, Span
  <2>7. readyCount[f] = Len(Lines[f]) BY <2>1, <2>6, FS_EmptySet DEF TypeOK
  <2> QED BY <2>3, <2>5, <2>7 DEF Resolved
<1> QED BY <1>1, PipelineInvariance, PTL

\* When ready_ of a type group is open, addElements() has been called for every
\* item of the plugin layer: no BuildGroup job is still to add its items.
THEOREM ReadyGroupsAreComplete == Spec => []GroupsComplete
<1>1. Inv => GroupsComplete
  <2> SUFFICES ASSUME Inv, NEW r \in Requests, TypeOf[r] \in typeReady
               PROVE  added[ItemOf[r]] = Size[Plugin[ItemOf[r]]]
    BY DEF GroupsComplete
  <2>1. TypeOK /\ ItemsCounted /\ TypesFollowItems BY DEF Inv
  <2>2. PICK u \in Statics : TypeOf[u] = TypeOf[r] /\ ItemOf[u] \in itemReady
    BY <2>1 DEF TypesFollowItems
  <2>3. PICK i \in StaticItems : i = ItemOf[u] /\ i = ItemOf[r]
    BY <2>2, KeysAssumption DEF Statics, StaticItems
  <2>4. added[i] + Cardinality(Unadded(i)) = Size[Plugin[i]] /\ Unadded(i) = {}
    BY <2>1, <2>2, <2>3 DEF ItemsCounted, ItemsCountedOf
  <2>5. added[i] \in Nat BY <2>1, ConstantTypes DEF TypeOK
  <2>6. added[i] = Size[Plugin[i]] BY <2>4, <2>5, FS_EmptySet
  <2> QED BY <2>3, <2>6
<1> QED BY <1>1, PipelineInvariance, PTL

-----------------------------------------------------------------------------
(* What is left to process, and what is saved.                               *)

\* The jobs that have yet to count their items, wherever they are.
ItemsLeft(s) == (JobsOf("items", s) \ InHand({"complete", "finish"})) \cup ToSet(cache[s])

\* The save of a subgroup's layer is on its way, or done.
Completes(s) == \E e \in Executors : at[e] = "complete" /\ job[e].of = s
Saving(s) == Save(s) \in Present \/ Completes(s)
Stored(s) == s \in written \/ Saving(s)

\* processedCount_ is what the jobs that have not counted their items leave over,
\* and when there are none of them the last has asked for the save.
SavesOf(s) ==
  /\ ItemsLeft(s) \subseteq ToSet(ItemsJobs(s, Size[Src[s]]))
  /\ ~Parsed(FileOf[s]) => processed[s] = 0
  /\ Parsed(FileOf[s]) => processed[s] + Cardinality(Span(ItemsLeft(s))) = Size[Src[s]]
  /\ Parsed(FileOf[s]) /\ ItemsLeft(s) = {} => Stored(s)
  /\ Saving(s) => processed[s] = Size[Src[s]]
Saves == \A s \in Subs : SavesOf(s)

\* A layer opens after its source, and a file is parsed after its layer has opened.
LayersOpen ==
  /\ \A l \in layerReady : CopySrc[l] # 0 => CopySrc[l] \in layerReady
  /\ \A f \in Files : ~FilePending(f) => Target[SubOf(f)] \in layerReady

SaveInv ==
  /\ processed \in [Subs -> Nat] /\ finished \in Nat /\ written \subseteq Subs
  /\ parseFiles = <<>> /\ LayersOpen /\ Saves

\* What becomes of the jobs left over.
LEMMA LeftNext ==
  \A s : ItemsLeft(s)' = (JobsOf("items", s)' \ InHand({"complete", "finish"})') \cup ToSet(cache'[s])
  BY DEF ItemsLeft, ToSet

\* The jobs left over, when none of them comes, goes or is counted.
LEMMA LeftSame ==
  ASSUME NEW s, cache'[s] = cache[s],
         \A x : x.kind = "items" /\ x.of = s => (x \in Present' <=> x \in Present),
         \A x : x.of = s =>
           (x \in InHand({"complete", "finish"})' <=> x \in InHand({"complete", "finish"}))
  PROVE  ItemsLeft(s)' = ItemsLeft(s)
<1>1. JobsOf("items", s)' = {x \in Present' : x.kind = "items" /\ x.of = s}
  BY DEF JobsOf
<1>2. JobsOf("items", s) = {x \in Present : x.kind = "items" /\ x.of = s}
  BY DEF JobsOf
<1>3. JobsOf("items", s)' \ InHand({"complete", "finish"})'
        = JobsOf("items", s) \ InHand({"complete", "finish"})
  BY <1>1, <1>2
<1> QED BY <1>3, LeftNext DEF ItemsLeft

\* The jobs left over, when the cache is filled or released.
LEMMA LeftGoes ==
  ASSUME TypeOK, Steps, NEW filled, CacheGoes(filled), OnceIn(filled, Present),
         InHand({"complete", "finish"})' = InHand({"complete", "finish"}), NEW s \in Subs
  PROVE  ItemsLeft(s)' = (JobsOf("items", s) \ InHand({"complete", "finish"})) \cup ToSet(filled[s])
<1> DEFINE H == InHand({"complete", "finish"})
<1>1. H \subseteq Present BY HandIsPresent
<1>2. ToSet(filled[s]) \cap H = {} BY <1>1 DEF OnceIn
<1>3. H' = H OBVIOUS
<1>4. ItemsLeft(s)' = (JobsOf("items", s)' \ H') \cup ToSet(cache'[s])
  BY LeftNext
<1> HIDE DEF H
<1>5. CASE cache'[s] = filled[s] /\ JobsOf("items", s)' = JobsOf("items", s)
  BY <1>3, <1>4, <1>5 DEF H
<1>6. CASE cache'[s] = <<>> /\ JobsOf("items", s)' = JobsOf("items", s) \cup ToSet(filled[s])
  <2>1. ToSet(cache'[s]) = {} BY <1>6 DEF ToSet
  <2> QED BY <1>2, <1>3, <1>4, <1>6, <2>1 DEF H
<1> QED BY <1>5, <1>6 DEF CacheGoes

\* A subgroup whose items and whose save the step leaves alone.
LEMMA SavesOfStay ==
  ASSUME NEW s, SavesOf(s), ItemsLeft(s)' = ItemsLeft(s), processed'[s] = processed[s],
         Parsed(FileOf[s])' <=> Parsed(FileOf[s]), Saving(s)' => Saving(s), Stored(s) => Stored(s)'
  PROVE  SavesOf(s)'
<1> SUFFICES /\ ItemsLeft(s)' \subseteq ToSet(ItemsJobs(s, Size[Src[s]]))
             /\ ~Parsed(FileOf[s])' => processed'[s] = 0
             /\ Parsed(FileOf[s])' =>
                  processed'[s] + Cardinality(Span(ItemsLeft(s)')) = Size[Src[s]]
             /\ Parsed(FileOf[s])' /\ ItemsLeft(s)' = {} => Stored(s)'
             /\ Saving(s)' => processed'[s] = Size[Src[s]]
  BY DEF SavesOf, Span, Elems, ItemsJobs, Jobs, ToSet
<1> QED BY DEF SavesOf

\* The executors that are about to ask for a save, or have asked for one.
SameHands ==
  /\ InHand({"complete", "finish"})' = InHand({"complete", "finish"})
  /\ \A s : Completes(s)' <=> Completes(s)

\* An executor that processes no items.
LEMMA HandsStay ==
  ASSUME NEW e \in Executors, \A x \in Executors \ {e} : job'[x] = job[x] /\ at'[x] = at[x],
         at[e] \notin {"complete", "finish"}, at'[e] \notin {"complete", "finish"}
  PROVE  SameHands
<1>1. InHand({"complete", "finish"})' = InHand({"complete", "finish"})
  BY DEF InHand
<1>2. ASSUME NEW s PROVE Completes(s)' <=> Completes(s) BY DEF Completes
<1> QED BY <1>1, <1>2 DEF SameHands

\* The subgroups, when no items are processed or saved and no file is parsed.
LEMMA SavesStay ==
  ASSUME Saves, SameHands, \A f \in Files : Parsed(f)' <=> Parsed(f),
         \A j : j.kind \in {"items", "save"} => (j \in Present' <=> j \in Present),
         UNCHANGED <<cache, processed, written>>
  PROVE  Saves'
<1> SUFFICES ASSUME NEW s \in Subs PROVE SavesOf(s)' BY DEF Saves
<1>1. FileOf[s] \in Files BY ConstantTypes
<1>2. ItemsLeft(s)' = ItemsLeft(s) BY LeftSame DEF SameHands
<1>3. Save(s).kind = "save" BY JobFields DEF Save
<1>4. Save(s)' = Save(s) BY DEF Save, Job
<1>5. (Saving(s)' <=> Saving(s)) /\ (Stored(s)' <=> Stored(s))
  BY <1>3, <1>4 DEF Saving, Stored, SameHands
<1> QED BY <1>1, <1>2, <1>5, SavesOfStay DEF Saves

\* The layers, when none opens and no file is begun.
LEMMA LayersStay ==
  ASSUME LayersOpen, layerReady' = layerReady, \A f \in Files : FilePending(f)' <=> FilePending(f)
  PROVE  LayersOpen'
<1> SUFFICES /\ \A l \in layerReady' : CopySrc[l] # 0 => CopySrc[l] \in layerReady'
             /\ \A f \in Files : ~FilePending(f)' => Target[SubOf(f)] \in layerReady'
  BY DEF LayersOpen, FilePending, ParseFile, SubOf
<1> QED BY DEF LayersOpen

\* A step of a job that neither processes items nor saves them.
LEMMA QuietStep ==
  ASSUME SaveInv, SameSaves, SameHands, LayersOpen',
         UNCHANGED <<cache, processed, finished, written, parseFiles>>
  PROVE  SaveInv'
<1>1. Saves' BY SavesStay DEF SaveInv, SameSaves, SameLines, SameLinesOf
<1> QED BY <1>1 DEF SaveInv

\* The layers after such a step.
LEMMA QuietLayers ==
  ASSUME SaveInv, SameSaves, layerReady' = layerReady
  PROVE  LayersOpen'
  BY LayersStay DEF SaveInv, SameSaves, SameLines, SameLinesOf

\* The steps at which an executor does not hold a job that is counted.
Idle == {"cache", "push", "complete", "finish"}

\* A job goes on that is none of lines or items.
LEMMA ContinueIsQuiet ==
  ASSUME Inv, NEW e \in Executors, NEW kind \in JobKinds, NEW from, NEW to \in Labels,
         InStep(e, kind, from), Continue(e, to), from \notin Idle, to \notin Idle, to # "idle",
         UNCHANGED <<candidate, ready, outbox, parseFiles>>
  PROVE  SameSaves /\ SameHands
<1>1. /\ Effect({}, {}, 0) /\ Others(e) /\ at'[e] = to
  BY ContinueEffect DEF Idle
<1>2. at[e] = from BY DEF InStep
<1>3. InHand({"push"})' = InHand({"push"}) BY <1>1, <1>2, HandsSame DEF Idle
<1>4. SameLines BY <1>1, <1>3, LinesKept DEF Avoid
<1>5. SameSaves BY <1>1, <1>4, SavesKept DEF Avoid
<1>6. SameHands BY <1>1, <1>2, HandsStay DEF Idle, Others
<1> QED BY <1>5, <1>6

\* A job ends that is none of lines or items, and pushes nothing.
LEMMA EndIsQuiet ==
  ASSUME Inv, NEW e \in Executors, NEW kind \in {"load", "build", "init"}, NEW from,
         InStep(e, kind, from), JobEnds(e), from \notin Idle,
         UNCHANGED <<candidate, ready, outbox, parseFiles>>
  PROVE  SameSaves /\ SameHands
<1>1. kind \in JobKinds \ {"lines", "group"} BY DEF JobKinds
<1>2. Effect({job[e]}, {}, 0) /\ Others(e) /\ at'[e] = "idle"
  BY <1>1, EndEffect
<1>3. at[e] = from /\ job[e].kind = kind BY DEF InStep
<1>4. InHand({"push"})' = InHand({"push"}) BY <1>2, <1>3, HandsSame DEF Idle
<1>5. /\ Avoid({"file", "lines"}, {job[e]}) /\ Avoid({"items", "save"}, {job[e]})
      /\ Avoid({"file", "lines"}, {}) /\ Avoid({"items", "save"}, {})
  BY <1>3 DEF Avoid
<1>6. SameLines BY <1>2, <1>4, <1>5, LinesKept
<1>7. SameSaves BY <1>2, <1>5, <1>6, SavesKept
<1>8. SameHands BY <1>2, <1>3, HandsStay DEF Idle, Others
<1> QED BY <1>7, <1>8

\* The steps of jobs that leave the layers, the items and the files alone.
LEMMA QuietActions ==
  ASSUME RunParallel, Inv, SaveInv, NEW e \in Executors,
         \/ CopyLoad(e) \/ ParseConditions(e) \/ CopyInfo(e) \/ ReadTagName(e)
         \/ AddElements(e) \/ TestChecked(e) \/ AddChecked(e) \/ InitTypeGroup(e)
  PROVE  SaveInv'
<1>1. /\ UNCHANGED <<candidate, ready, outbox, parseFiles>> /\ layerReady' = layerReady
      /\ UNCHANGED <<cache, processed, finished, written, parseFiles>>
  BY DEF CopyLoad, ParseConditions, CopyInfo, ReadTagName, AddElements, TestChecked, AddChecked,
         InitTypeGroup, queues, parsing, groups, saving
<1>2. SameSaves /\ SameHands
  <2>1. CASE CopyLoad(e)
    <3>1. InStep(e, "file", "run") /\ Continue(e, "wait") BY <2>1 DEF CopyLoad
    <3> QED BY <1>1, <3>1, ContinueIsQuiet DEF Idle, Labels, JobKinds
  <2>2. CASE ParseConditions(e) \/ CopyInfo(e)
    <3>1. InStep(e, "group", "parse") /\ Continue(e, "publish")
      BY <2>2 DEF ParseConditions, CopyInfo
    <3> QED BY <1>1, <3>1, ContinueIsQuiet DEF Idle, Labels, JobKinds
  <2>3. CASE ReadTagName(e)
    <3>1. InStep(e, "init", "run") /\ Continue(e, "wait")
      BY <2>3 DEF ReadTagName
    <3> QED BY <1>1, <3>1, ContinueIsQuiet DEF Idle, Labels, JobKinds
  <2>4. CASE AddElements(e)
    <3>1. InStep(e, "build", "run") /\ Continue(e, "check")
      BY <2>4 DEF AddElements
    <3> QED BY <1>1, <3>1, ContinueIsQuiet DEF Idle, Labels, JobKinds
  <2>5. CASE TestChecked(e)
    <3>1. InStep(e, "build", "check") /\ Continue(e, "count")
      BY <2>5 DEF TestChecked
    <3> QED BY <1>1, <3>1, ContinueIsQuiet DEF Idle, Labels, JobKinds
  <2>6. CASE AddChecked(e)
    <3>1. InStep(e, "build", "count") /\ JobEnds(e) BY <2>6 DEF AddChecked
    <3> QED BY <1>1, <3>1, EndIsQuiet DEF Idle
  <2>7. CASE InitTypeGroup(e)
    <3>1. InStep(e, "init", "wait") /\ JobEnds(e) BY <2>7 DEF InitTypeGroup
    <3> QED BY <1>1, <3>1, EndIsQuiet DEF Idle
  <2> QED BY <2>1, <2>2, <2>3, <2>4, <2>5, <2>6, <2>7
<1> QED BY <1>1, <1>2, QuietStep, QuietLayers

\* A layer opens after its source (MifType.cpp:60-104, 292-331).
LEMMA LoadLayerSaves ==
  ASSUME RunParallel, Inv, SaveInv, NEW e \in Executors, LoadLayer(e)
  PROVE  SaveInv'
<1>1. /\ InStep(e, "load", "run") /\ JobEnds(e)
      /\ UNCHANGED <<candidate, ready, outbox, parseFiles>>
      /\ UNCHANGED <<cache, processed, finished, written, parseFiles>>
  BY DEF LoadLayer, queues, parsing, groups, saving
<1>2. SameSaves /\ SameHands BY <1>1, EndIsQuiet DEF Idle
<1>3. PICK l : /\ CopySrc[l] # 0 => CopySrc[l] \in layerReady
               /\ layerReady' = layerReady \cup {l}
  BY DEF LoadLayer
<1>4. LayersOpen'
  <2> SUFFICES /\ \A k \in layerReady' : CopySrc[k] # 0 => CopySrc[k] \in layerReady'
               /\ \A f \in Files : ~FilePending(f)' => Target[SubOf(f)] \in layerReady'
    BY DEF LayersOpen, FilePending, ParseFile, SubOf
  <2>1. LayersOpen BY DEF SaveInv
  <2>2. \A f \in Files : FilePending(f)' <=> FilePending(f)
    BY <1>2 DEF SameSaves, SameLines, SameLinesOf
  <2> QED BY <1>3, <2>1, <2>2 DEF LayersOpen
<1> QED BY <1>1, <1>2, <1>4, QuietStep

\* The steps whose jobs make others, and those of the scheduler.
LEMMA QuietMoves ==
  ASSUME Inv, SaveInv, NEW e \in Executors, SameSaves,
         \/ Take(e) \/ Select \/ ParseLines(e) \/ PushParsed(e) \/ FindInsertGroup(e)
         \/ UNCHANGED vars
  PROVE  SaveInv'
<1>1. /\ layerReady' = layerReady
      /\ UNCHANGED <<cache, processed, finished, written, parseFiles>>
  BY DEF Take, Select, ParseLines, PushParsed, FindInsertGroup, vars, queues, parsing, groups, saving
<1>2. TypeOK /\ Steps BY DEF Inv
<1>3. SameHands
  <2>1. CASE Select \/ UNCHANGED vars
    <3>1. job' = job /\ at' = at BY <2>1 DEF Select, vars
    <3> QED BY <3>1 DEF SameHands, InHand, Completes
  <2>2. CASE Take(e)
    <3>1. /\ at[e] = "idle" /\ at' = [at EXCEPT ![e] = "run"]
          /\ job' = [job EXCEPT ![e] = Head(ready[e])]
      BY <1>2, <2>2 DEF Take, Steps, StepOf
    <3>2. at'[e] = "run" /\ \A x \in Executors \ {e} : job'[x] = job[x] /\ at'[x] = at[x]
      BY <1>2, <3>1 DEF TypeOK
    <3> QED BY <3>1, <3>2, HandsStay
  <2>3. CASE ParseLines(e)
    <3>1. InStep(e, "lines", "run") /\ Continue(e, "cache")
      BY <2>3 DEF ParseLines
    <3>2. job' = job /\ at'[e] = "cache" /\ \A x \in Executors \ {e} : at'[x] = at[x]
      BY <1>2, <3>1, Continued DEF Labels
    <3> QED BY <3>1, <3>2, HandsStay DEF InStep
  <2>4. CASE PushParsed(e)
    <3>1. InStep(e, "lines", "push") /\ JobEnds(e) BY <2>4 DEF PushParsed
    <3>2. at'[e] = "idle" /\ \A x \in Executors \ {e} : job'[x] = job[x] /\ at'[x] = at[x]
      BY <1>2, <3>1, Ended
    <3> QED BY <3>1, <3>2, HandsStay DEF InStep
  <2>5. CASE FindInsertGroup(e)
    <3>1. PICK to \in {"publish", "parse"} : InStep(e, "group", "run") /\ Continue(e, to)
      BY <2>5 DEF FindInsertGroup
    <3>2. job' = job /\ at'[e] = to /\ \A x \in Executors \ {e} : at'[x] = at[x]
      BY <1>2, <3>1, Continued DEF Labels
    <3> QED BY <3>1, <3>2, HandsStay DEF InStep
  <2> QED BY <2>1, <2>2, <2>3, <2>4, <2>5
<1> QED BY <1>1, <1>3, QuietStep, QuietLayers

\* A file that is begun has its layer open, and its lines are not parsed.
LEMMA PushLinesSaves ==
  ASSUME Inv, SaveInv, NEW e \in Executors, PushLines(e), LinesPushed(e)
  PROVE  SaveInv'
<1>1. PICK f \in Files :
        /\ f = job[e].of /\ FilePending(f) /\ ~Parsed(f)'
        /\ \A g \in Files \ {f} : SameLinesOf(g)
        /\ \A j : j.kind \in {"items", "save"} => (j \in Present' <=> j \in Present)
  BY DEF LinesPushed
<1>2. /\ InStep(e, "file", "wait") /\ JobEnds(e) /\ Target[SubOf(f)] \in layerReady
      /\ layerReady' = layerReady /\ UNCHANGED <<cache, processed, finished, written, parseFiles>>
  BY <1>1 DEF PushLines, parsing, saving
<1>3. TypeOK BY DEF Inv
<1>4. SameHands
  <2>1. at'[e] = "idle" /\ \A x \in Executors \ {e} : job'[x] = job[x] /\ at'[x] = at[x]
    BY <1>2, <1>3, Ended
  <2> QED BY <1>2, <2>1, HandsStay DEF InStep
<1>5. \A g \in Files : Parsed(g)' <=> Parsed(g)
  <2>1. ~Parsed(f) BY <1>1 DEF Parsed
  <2> QED BY <1>1, <2>1 DEF SameLinesOf
<1>6. Saves' BY <1>1, <1>2, <1>4, <1>5, SavesStay DEF SaveInv
<1>7. LayersOpen'
  <2> SUFFICES /\ \A k \in layerReady' : CopySrc[k] # 0 => CopySrc[k] \in layerReady'
               /\ \A g \in Files : ~FilePending(g)' => Target[SubOf(g)] \in layerReady'
    BY DEF LayersOpen, FilePending, ParseFile, SubOf
  <2>1. LayersOpen BY DEF SaveInv
  <2>2. \A g \in Files \ {f} : FilePending(g)' <=> FilePending(g)
    BY <1>1 DEF SameLinesOf
  <2> QED BY <1>2, <2>1, <2>2 DEF LayersOpen
<1> QED BY <1>2, <1>6, <1>7 DEF SaveInv

\* The last group releases the cache.
LEMMA PublishGroupSaves ==
  ASSUME Inv, SaveInv, NEW e \in Executors, PublishGroup(e), CacheReleased
  PROVE  SaveInv'
<1>1. SameLines /\ CacheGoes(cache) /\ \A j : j.kind = "save" => (j \in Present' <=> j \in Present)
  BY DEF CacheReleased
<1>2. /\ InStep(e, "group", "publish") /\ JobEnds(e) /\ layerReady' = layerReady
      /\ UNCHANGED <<processed, finished, written, parseFiles>>
  BY DEF PublishGroup, saving
<1>3. TypeOK /\ Steps /\ NoneTwice BY DEF Inv
<1>4. SameHands
  <2>1. at'[e] = "idle" /\ \A x \in Executors \ {e} : job'[x] = job[x] /\ at'[x] = at[x]
    BY <1>2, <1>3, Ended
  <2> QED BY <1>2, <2>1, HandsStay DEF InStep
<1>5. ASSUME NEW s \in Subs PROVE SavesOf(s)'
  <2>1. OnceIn(cache, Present) BY <1>3 DEF NoneTwice
  <2>2. ItemsLeft(s)' = ItemsLeft(s)
    BY <1>1, <1>3, <1>4, <2>1, LeftGoes DEF SameHands, ItemsLeft
  <2>3. FileOf[s] \in Files BY ConstantTypes
  <2>4. Save(s).kind = "save" /\ Save(s)' = Save(s) BY JobFields DEF Save, Job
  <2>5. (Saving(s)' <=> Saving(s)) /\ (Stored(s)' <=> Stored(s))
    BY <1>1, <1>2, <1>4, <2>4 DEF Saving, Stored, SameHands
  <2>6. Parsed(FileOf[s])' <=> Parsed(FileOf[s])
    BY <1>1, <2>3 DEF SameLines, SameLinesOf
  <2> QED BY <1>2, <2>2, <2>5, <2>6, SavesOfStay DEF SaveInv, Saves
<1>6. LayersOpen' BY <1>1, <1>2, LayersStay DEF SaveInv, SameLines, SameLinesOf
<1> QED BY <1>2, <1>5, <1>6 DEF SaveInv, Saves

\* An item is left over once: the jobs left over are parts of the layer's items.
LEMMA ItemsApart ==
  ASSUME NEW s \in Subs, SavesOf(s)
  PROVE  /\ \A a, b \in ItemsLeft(s) : a # b => Elems(a) \cap Elems(b) = {}
         /\ Span(ItemsLeft(s)) \subseteq 1 .. Size[Src[s]]
         /\ \A a \in ItemsLeft(s) : a.from \in Nat
<1>1. Size[Src[s]] \in Nat BY ConstantTypes
<1>2. /\ \A a, b \in ToSet(ItemsJobs(s, Size[Src[s]])) : a # b => Elems(a) \cap Elems(b) = {}
      /\ Span(ToSet(ItemsJobs(s, Size[Src[s]]))) = 1 .. Size[Src[s]]
  BY <1>1, PartsOfItems DEF Parts
<1>3. \A a \in ToSet(ItemsJobs(s, Size[Src[s]])) : a.from \in Nat
  <2>1. ItemsPerJob \in Nat \ {0} /\ Half(ItemsPerJob) \in 0 .. ItemsPerJob
    BY ConstantTypes
  <2>2. PICK made : made = ItemsJobs(s, Size[Src[s]]) OBVIOUS
  <2>3. Divides(made, "items", s, Size[Src[s]])
    BY <1>1, <2>1, <2>2, JobsOfPartition DEF ItemsJobs
  <2> QED BY <2>2, <2>3 DEF Divides, ToSet
<1> QED BY <1>2, <1>3 DEF Span, SavesOf

\* The items of a layer have at least one job.
LEMMA SomeItems ==
  ASSUME NEW s \in Subs, NEW size \in Nat
  PROVE  ToSet(ItemsJobs(s, size)) # {}
<1> DEFINE slice == Slice(size, ItemsPerJob, Half(ItemsPerJob))
           full == FullJobs(size, ItemsPerJob, Half(ItemsPerJob))
<1>1. full \in Nat BY ConstantTypes, FullJobsBounds
<1>2. DOMAIN slice = 1 .. full + 1 BY DEF Slice
<1>3. DOMAIN ItemsJobs(s, size) = DOMAIN slice BY DEF ItemsJobs, Jobs
<1> HIDE DEF full, slice
<1>4. 1 \in DOMAIN ItemsJobs(s, size) BY <1>1, <1>2, <1>3
<1> QED BY <1>4 DEF ToSet

\* When a file has been begun, size() of its subgroup's source is what it is.
LEMMA SizeIsKnown ==
  ASSUME LayersOpen, NEW s \in Subs, ~FilePending(FileOf[s])
  PROVE  SizesOf(Src[s]) = {Size[Src[s]]} /\ Src[s] \in layerReady
<1>1. FileOf[s] \in Files BY ConstantTypes
<1>2. SubOf(FileOf[s]) \in Subs /\ FileOf[SubOf(FileOf[s])] = FileOf[s]
  BY <1>1, ConstantTypes
<1>3. SubOf(FileOf[s]) = s BY <1>2, ScenarioAssumption
<1>4. Target[s] \in layerReady BY <1>1, <1>3 DEF LayersOpen
<1>5. Src[s] \in Layers /\ Src[s] # 0
  BY ScenarioAssumption, ConstantTypes DEF Layers
<1>6. Src[s] \in layerReady BY <1>4, <1>5, LayersAssumption DEF LayersOpen
<1> QED BY <1>6 DEF SizesOf

\* What it takes for the items of a subgroup to be accounted for after a step.
LEMMA SavesOfNext ==
  ASSUME NEW s,
         ItemsLeft(s)' \subseteq ToSet(ItemsJobs(s, Size[Src[s]])),
         ~Parsed(FileOf[s])' => processed'[s] = 0,
         Parsed(FileOf[s])' => processed'[s] + Cardinality(Span(ItemsLeft(s)')) = Size[Src[s]],
         Parsed(FileOf[s])' /\ ItemsLeft(s)' = {} => Stored(s)',
         Saving(s)' => processed'[s] = Size[Src[s]]
  PROVE  SavesOf(s)'
  BY DEF SavesOf, Span, Elems, ItemsJobs, Jobs, ToSet

\* The last lines of a file make the jobs for all of its items.
LEMMA CacheItemsSaves ==
  ASSUME Inv, SaveInv, NEW e \in Executors, CacheItems(e), LinesCountedBy(e)
  PROVE  SaveInv'
<1>1. PICK f \in Files, filled \in [Subs -> Seq(AllJobs)] :
        /\ f = job[e].of /\ ~FilePending(f) /\ ~FilePending(f)' /\ ~Parsed(f)
        /\ IsLast(f, job[e]) <=> Parsed(f)'
        /\ \A g \in Files \ {f} : SameLinesOf(g)
        /\ \A j : j.kind = "save" => (j \in Present' <=> j \in Present)
        /\ OnceIn(filled, Present) /\ FilledBy(e, f, filled) /\ CacheGoes(filled)
  BY DEF LinesCountedBy
<1>2. /\ InStep(e, "lines", "cache") /\ Continue(e, "push") /\ layerReady' = layerReady
      /\ UNCHANGED <<processed, finished, written, parseFiles>>
  BY DEF CacheItems, saving
<1>3. TypeOK /\ Steps BY DEF Inv
<1>4. SameHands
  <2>1. job' = job /\ at'[e] = "push" /\ \A x \in Executors \ {e} : at'[x] = at[x]
    BY <1>2, <1>3, Continued DEF Labels
  <2> QED BY <1>2, <2>1, HandsStay DEF InStep
<1>5. ASSUME NEW s \in Subs PROVE SavesOf(s)'
  <2>1. /\ ItemsLeft(s)' = (JobsOf("items", s) \ InHand({"complete", "finish"})) \cup ToSet(filled[s])
    BY <1>1, <1>3, <1>4, LeftGoes DEF SameHands
  <2>2. FileOf[s] \in Files /\ Size[Src[s]] \in Nat BY ConstantTypes
  <2>3. Save(s).kind = "save" /\ Save(s)' = Save(s) BY JobFields DEF Save, Job
  <2>4. (Saving(s)' <=> Saving(s)) /\ (Stored(s)' <=> Stored(s))
    BY <1>1, <1>2, <1>4, <2>3 DEF Saving, Stored, SameHands
  <2>5. SavesOf(s) BY DEF SaveInv, Saves
  <2>6. CASE FileOf[s] # f \/ ~IsLast(f, job[e])
    <3>1. filled[s] = cache[s] BY <1>1, <2>6 DEF FilledBy
    <3>2. ItemsLeft(s)' = ItemsLeft(s) BY <2>1, <3>1 DEF ItemsLeft
    <3>3. Parsed(FileOf[s])' <=> Parsed(FileOf[s])
      BY <1>1, <2>2, <2>6 DEF SameLinesOf
    <3> QED BY <1>2, <2>4, <2>5, <3>2, <3>3, SavesOfStay
  <2>7. CASE FileOf[s] = f /\ IsLast(f, job[e])
    <3>1. cache[s] = <<>> /\ JobsOf("items", s) = {} BY <1>1, <2>7 DEF FilledBy
    <3>2. SizesOf(Src[s]) = {Size[Src[s]]}
      BY <1>1, <2>7, SizeIsKnown DEF SaveInv
    <3>3. filled[s] = ItemsJobs(s, Size[Src[s]])
      BY <1>1, <2>7, <3>2 DEF FilledBy
    <3>4. ItemsLeft(s)' = ToSet(ItemsJobs(s, Size[Src[s]])) BY <2>1, <3>1, <3>3
    <3>5. Cardinality(Span(ItemsLeft(s)')) = Size[Src[s]]
      BY <2>2, <3>4, PartsOfItems, CountUpTo DEF Parts
    <3>6. processed'[s] = processed[s] /\ processed[s] = 0
      BY <1>1, <1>2, <2>5, <2>7 DEF SavesOf
    <3>7. ItemsLeft(s)' # {} BY <2>2, <3>4, SomeItems
    <3>8. Parsed(FileOf[s])' BY <1>1, <2>7
    <3>9. Saving(s)' => processed'[s] = Size[Src[s]]
      BY <2>4, <2>5, <3>6 DEF SavesOf
    <3>10. processed'[s] + Cardinality(Span(ItemsLeft(s)')) = Size[Src[s]]
      BY <2>2, <3>5, <3>6
    <3> QED BY <3>4, <3>7, <3>8, <3>9, <3>10, SavesOfNext
  <2> QED BY <2>6, <2>7
<1>6. LayersOpen'
  <2>1. \A g \in Files : FilePending(g)' <=> FilePending(g)
    BY <1>1 DEF SameLinesOf
  <2> QED BY <1>2, <2>1, LayersStay DEF SaveInv
<1> QED BY <1>2, <1>5, <1>6 DEF SaveInv, Saves

\* Job j of subgroup s, in hand, is about to be processed.
Processing(e, s, j) ==
  /\ s = j.of /\ j = job[e] /\ j # NoJob /\ j.kind = "items" /\ j \in Present /\ at[e] = "run"
  /\ j.count \in Nat
  /\ j \in ItemsLeft(s) /\ j \notin InHand({"complete", "finish"}) /\ Parsed(FileOf[s])

\* A ProcessMifItems job in hand is left over, and its file is parsed.
LEMMA ItemsInHand ==
  ASSUME Inv, NEW e \in Executors, InStep(e, "items", "run")
  PROVE  \E s \in Subs, j \in AllJobs : Processing(e, s, j)
<1>1. TypeOK /\ NoneTwice /\ ItemsHeldBack BY DEF Inv
<1>2. PICK j \in AllJobs : j = job[e] BY <1>1, JobInHand DEF JobKinds
<1>3. /\ j # NoJob /\ Fits(j) /\ j \in Present /\ j.kind = "items" /\ at[e] = "run"
      /\ j.count \in Nat
  BY <1>1, <1>2, JobInHand DEF JobKinds
<1>4. PICK s \in Subs : s = j.of BY <1>3 DEF Fits
<1>5. j \in JobsOf("items", s) BY <1>3, <1>4 DEF JobsOf
<1>6. Parsed(FileOf[s]) BY <1>1, <1>5 DEF ItemsHeldBack
<1>7. j \notin InHand({"complete", "finish"})
  <2>1. ASSUME NEW x \in Executors, at[x] \in {"complete", "finish"} PROVE job[x] # j
    BY <1>1, <1>2, <1>3, <2>1, OneHand DEF Once
  <2> QED BY <2>1 DEF InHand
<1>8. j \in ItemsLeft(s) BY <1>5, <1>7 DEF ItemsLeft
<1> QED BY <1>2, <1>3, <1>4, <1>6, <1>7, <1>8 DEF Processing

\* Job j has been processed: it counts its items, and asks for the save or ends.
Processed(e, s, j) ==
  /\ \A x : x # j => (x \in Present' <=> x \in Present)
  /\ \A x : x # j => (x \in InHand({"complete", "finish"})' <=> x \in InHand({"complete", "finish"}))
  /\ j \in InHand({"complete", "finish"})' \/ j \notin Present'
  /\ \A u : u # s => (Completes(u)' <=> Completes(u))
  /\ Completes(s)' <=> Completes(s) \/ processed'[s] = Size[Src[s]]
  /\ SameLines

\* The job goes on to "complete" when every item of the layer has been counted.
LEMMA ItemsAreProcessed ==
  ASSUME Inv, LayersOpen, NEW e \in Executors, NEW s \in Subs, NEW j \in AllJobs,
         Processing(e, s, j), ProcessItems(e)
  PROVE  Processed(e, s, j)
<1>1. /\ InStep(e, "items", "run") /\ UNCHANGED <<candidate, ready, outbox, parseFiles>>
      /\ s = job[e].of /\ j = job[e] /\ j.kind = "items" /\ at[e] = "run" /\ Parsed(FileOf[s])
      /\ s = j.of
  BY DEF ProcessItems, Processing, queues
<1>2. SizesOf(Src[s]) = {Size[Src[s]]} BY <1>1, SizeIsKnown DEF Parsed
<1>3. \/ processed'[s] = Size[Src[s]] /\ Continue(e, "complete")
      \/ processed'[s] # Size[Src[s]] /\ JobEnds(e)
  BY <1>1, <1>2 DEF ProcessItems
<1>4. CASE processed'[s] = Size[Src[s]] /\ Continue(e, "complete")
  <2>1. /\ Effect({}, {}, 0) /\ Others(e) /\ job'[e] = job[e] /\ at'[e] = "complete"
    BY <1>1, <1>4, ContinueEffect DEF JobKinds, Labels
  <2>2. \A x : x \in Present' <=> x \in Present BY <2>1 DEF Effect
  <2>3. InHand({"complete", "finish"})' = InHand({"complete", "finish"}) \cup {j}
    BY <1>1, <2>1, HandsJoin
  <2>4. SameLines
    <3>1. InHand({"push"})' = InHand({"push"}) BY <1>1, <2>1, HandsSame
    <3> QED BY <1>1, <2>1, <3>1, LinesKept DEF Avoid
  <2>5. /\ \A u : u # s => (Completes(u)' <=> Completes(u))
        /\ Completes(s)'
    BY <1>1, <2>1 DEF Completes, Others
  <2> QED BY <1>4, <2>2, <2>3, <2>4, <2>5 DEF Processed
<1>5. CASE processed'[s] # Size[Src[s]] /\ JobEnds(e)
  <2>1. /\ Effect({job[e]}, {}, 0) /\ Others(e) /\ job'[e] = NoJob /\ at'[e] = "idle"
    BY <1>1, <1>5, EndEffect DEF JobKinds
  <2>2. (\A x : x # j => (x \in Present' <=> x \in Present)) /\ j \notin Present'
    BY <1>1, <2>1 DEF Effect, Once
  <2>3. InHand({"complete", "finish"})' = InHand({"complete", "finish"})
    BY <1>1, <2>1, HandsSame
  <2>4. SameLines
    <3>1. InHand({"push"})' = InHand({"push"}) BY <1>1, <2>1, HandsSame
    <3> QED BY <1>1, <2>1, <3>1, LinesKept DEF Avoid
  <2>5. \A u : Completes(u)' <=> Completes(u)
    BY <1>1, <2>1 DEF Completes, Others
  <2> QED BY <1>5, <2>2, <2>3, <2>4, <2>5 DEF Processed
<1> QED BY <1>3, <1>4, <1>5

\* Items are processed; the last of a subgroup ask for its save.
LEMMA ProcessItemsSaves ==
  ASSUME Inv, SaveInv, NEW e \in Executors, ProcessItems(e)
  PROVE  SaveInv'
<1>1. PICK s \in Subs, j \in AllJobs : Processing(e, s, j)
  BY ItemsInHand DEF ProcessItems
<1>2. Processed(e, s, j) BY <1>1, ItemsAreProcessed DEF SaveInv
<1>3. /\ layerReady' = layerReady /\ UNCHANGED <<cache, finished, written, parseFiles>>
      /\ processed' = [processed EXCEPT ![s] = @ + j.count]
  BY <1>1 DEF ProcessItems, Processing, parsing
<1>4. /\ processed \in [Subs -> Nat] /\ j.count \in Nat
      /\ processed'[s] = processed[s] + j.count
      /\ \A u \in Subs \ {s} : processed'[u] = processed[u]
      /\ processed' \in [Subs -> Nat]
  BY <1>1, <1>3 DEF SaveInv, Processing
<1>5. /\ j.kind = "items" /\ j.of = s /\ j \in ItemsLeft(s) /\ j \in Present
      /\ Parsed(FileOf[s])
  BY <1>1 DEF Processing
<1>6. ASSUME NEW u \in Subs
      PROVE  /\ SavesOf(u) /\ FileOf[u] \in Files /\ Save(u) # j /\ Save(u)' = Save(u)
             /\ Parsed(FileOf[u])' <=> Parsed(FileOf[u])
             /\ Save(u) \in Present' <=> Save(u) \in Present
  <2>1. SavesOf(u) /\ FileOf[u] \in Files BY ConstantTypes DEF SaveInv, Saves
  <2>2. Save(u) # j /\ Save(u)' = Save(u) BY <1>5, JobFields DEF Save, Job
  <2> QED BY <1>2, <2>1, <2>2 DEF Processed, SameLines, SameLinesOf
<1>7. ASSUME NEW u \in Subs \ {s} PROVE SavesOf(u)'
  <2>1. ItemsLeft(u)' = ItemsLeft(u)
    <3>1. \A x : x.of = u => x # j BY <1>5, <1>7
    <3> QED BY <1>2, <1>3, <3>1, LeftSame DEF Processed
  <2>2. Completes(u)' <=> Completes(u) BY <1>2, <1>7 DEF Processed
  <2>3. (Saving(u)' <=> Saving(u)) /\ (Stored(u)' <=> Stored(u))
    BY <1>3, <1>6, <2>2 DEF Saving, Stored
  <2> QED BY <1>4, <1>6, <2>1, <2>3, SavesOfStay
<1>8. SavesOf(s)'
  <2>1. ItemsLeft(s)' = ItemsLeft(s) \ {j}
    <3>1. j \notin ToSet(cache[s]) BY <1>5 DEF Inv, NoneTwice, OnceIn
    <3>2. JobsOf("items", s)' = {x \in Present' : x.kind = "items" /\ x.of = s}
      BY DEF JobsOf
    <3>3. JobsOf("items", s) = {x \in Present : x.kind = "items" /\ x.of = s}
      BY DEF JobsOf
    <3>4. j \notin InHand({"complete", "finish"}) BY <1>1 DEF Processing
    <3>5. JobsOf("items", s)' \ InHand({"complete", "finish"})'
            = (JobsOf("items", s) \ InHand({"complete", "finish"})) \ {j}
      BY <1>2, <3>2, <3>3, <3>4 DEF Processed
    <3> QED BY <1>3, <3>1, <3>5, LeftNext DEF ItemsLeft
  <2>2. PICK total \in Nat : total = Size[Src[s]] BY ConstantTypes
  <2>3. /\ Cardinality(Span(ItemsLeft(s))) \in Nat /\ Cardinality(Span(ItemsLeft(s) \ {j})) \in Nat
        /\ Cardinality(Span(ItemsLeft(s))) = Cardinality(Span(ItemsLeft(s) \ {j})) + j.count
    <3>1. /\ \A a, b \in ItemsLeft(s) : a # b => Elems(a) \cap Elems(b) = {}
          /\ Span(ItemsLeft(s)) \subseteq 1 .. total /\ j.from \in Nat
      BY <1>5, <1>6, <2>2, ItemsApart
    <3> QED BY <1>4, <1>5, <3>1, SpanLess
  <2>4. processed[s] \in Nat /\ processed[s] + Cardinality(Span(ItemsLeft(s))) = total
    BY <1>4, <1>5, <1>6, <2>2 DEF SavesOf
  <2>5. processed'[s] + Cardinality(Span(ItemsLeft(s) \ {j})) = total
    BY <1>4, <2>3, <2>4
  <2>6. ItemsLeft(s) \ {j} \subseteq ToSet(ItemsJobs(s, Size[Src[s]]))
    BY <1>6 DEF SavesOf
  <2>7. ItemsLeft(s) \ {j} = {} => processed'[s] = total
    <3>1. ASSUME ItemsLeft(s) \ {j} = {} PROVE Cardinality(Span(ItemsLeft(s) \ {j})) = 0
      <4>1. Span(ItemsLeft(s) \ {j}) = {} BY <3>1 DEF Span
      <4> QED BY <4>1, FS_EmptySet
    <3> QED BY <1>4, <2>5, <3>1
  <2>8. processed'[s] = total => Stored(s)'
    BY <1>2, <2>2 DEF Processed, Stored, Saving
  <2>9. Saving(s)' => processed'[s] = total
    <3>1. CASE Saving(s)
      <4>1. processed[s] = total BY <1>6, <2>2, <3>1 DEF SavesOf
      <4> QED BY <1>4, <2>3, <2>4, <2>5, <4>1
    <3>2. CASE ~Saving(s) BY <1>2, <1>6, <2>2, <3>2 DEF Processed, Saving
    <3> QED BY <3>1, <3>2
  <2>10. Parsed(FileOf[s])' BY <1>5, <1>6
  <2> QED BY <2>1, <2>2, <2>5, <2>6, <2>7, <2>8, <2>9, <2>10, SavesOfNext
<1>9. LayersOpen'
  BY <1>2, <1>3, LayersStay DEF SaveInv, Processed, SameLines, SameLinesOf
<1>10. Saves' BY <1>7, <1>8 DEF Saves
<1> QED BY <1>3, <1>4, <1>9, <1>10 DEF SaveInv

\* A subgroup whose items and whose count the step leaves alone.
LEMMA SavesOfKept ==
  ASSUME NEW s \in Subs, Saves, SameLines, processed' = processed,
         ItemsLeft(s)' = ItemsLeft(s), Saving(s)' => Saving(s), Stored(s) => Stored(s)'
  PROVE  SavesOf(s)'
<1>1. FileOf[s] \in Files BY ConstantTypes
<1>2. Parsed(FileOf[s])' <=> Parsed(FileOf[s])
  BY <1>1 DEF SameLines, SameLinesOf
<1> QED BY <1>2, SavesOfStay DEF Saves

\* The job to save a subgroup names it.
LEMMA SavesDiffer ==
  \A s, u : Save(s)' = Save(s) /\ Save(s).kind = "save" /\ Save(s).of = s /\ (Save(s) = Save(u) => s = u)
  BY JobFields DEF Save, Job

\* The save is asked for; in parallel mode every subgroup is a save point.
LEMMA CompleteFileSaves ==
  ASSUME RunParallel, Inv, SaveInv, NEW e \in Executors, CompleteFile(e)
  PROVE  SaveInv'
<1>1. /\ InStep(e, "items", "complete") /\ Continue(e, "finish") /\ layerReady' = layerReady
      /\ UNCHANGED <<cache, processed, finished, written>> /\ UNCHANGED <<ready, outbox>>
  BY DEF CompleteFile, Push, PushNextFile, parsing
<1>2. TypeOK /\ finished \in Nat BY DEF Inv, SaveInv
<1>3. PICK s \in Subs : s = job[e].of
  BY <1>1, <1>2, JobInHand DEF JobKinds, Fits
<1>4. candidate' = candidate \o <<Save(s)>> /\ parseFiles' = parseFiles
  BY <1>2, <1>3 DEF CompleteFile, SavePoint, Push
<1>5. PICK more : more = <<Save(s)>> OBVIOUS
<1>6. more \in Seq(AllJobs) /\ Fresh(more) /\ NoGroups(more) /\ ToSet(more) = {Save(s)}
  <2>1. ToSet(more) = {Save(s)} BY <1>5 DEF ToSet
  <2> QED BY <1>2, <1>4, <1>5, <2>1, SaveIsMade
<1>7. /\ Effect({}, {Save(s)}, 0) /\ Others(e) /\ job' = job /\ at'[e] = "finish"
  BY <1>1, <1>4, <1>5, <1>6, PushEffect DEF JobKinds, Labels
<1>8. at[e] = "complete" BY <1>1 DEF InStep
<1>9. SameLines
  <2>1. InHand({"push"})' = InHand({"push"}) BY <1>7, <1>8, HandsSame
  <2> QED BY <1>4, <1>7, <2>1, LinesKept, SavesDiffer DEF Avoid
<1>10. InHand({"complete", "finish"})' = InHand({"complete", "finish"})
  BY <1>7, <1>8 DEF InHand, Others
<1>11. /\ \A x : x.kind = "items" => (x \in Present' <=> x \in Present)
       /\ Present' = Present \cup {Save(s)}
  BY <1>7, SavesDiffer DEF Effect
<1>12. ASSUME NEW u \in Subs PROVE SavesOf(u)'
  <2>1. ItemsLeft(u)' = ItemsLeft(u) BY <1>1, <1>10, <1>11, LeftSame
  <2>2. Completes(u)' => Completes(u) BY <1>7, <1>8 DEF Completes, Others
  <2>3. Completes(u) => Completes(u)' \/ u = s
    BY <1>3, <1>7 DEF Completes, Others
  <2>4. Saving(u)' => Saving(u)
    <3>1. Completes(s) BY <1>3, <1>8 DEF Completes
    <3> QED BY <1>11, <2>2, <3>1, SavesDiffer DEF Saving
  <2>5. Stored(u) => Stored(u)'
    BY <1>1, <1>11, <2>3, SavesDiffer DEF Stored, Saving
  <2> QED BY <1>1, <1>9, <2>1, <2>4, <2>5, SavesOfKept DEF SaveInv
<1>13. LayersOpen'
  BY <1>1, <1>9, LayersStay DEF SaveInv, SameLines, SameLinesOf
<1>14. Saves' BY <1>12 DEF Saves
<1> QED BY <1>1, <1>4, <1>13, <1>14 DEF SaveInv

\* The file is counted, and the job that asked for the save ends.
LEMMA CountFileSaves ==
  ASSUME Inv, SaveInv, NEW e \in Executors, CountFile(e)
  PROVE  SaveInv'
<1>1. /\ InStep(e, "items", "finish") /\ JobEnds(e) /\ layerReady' = layerReady
      /\ UNCHANGED <<candidate, ready, outbox>>
      /\ UNCHANGED <<cache, processed, written, parseFiles>> /\ finished' = finished + 1
  BY DEF CountFile, queues, parsing
<1>2. TypeOK /\ NoneTwice BY DEF Inv
<1>3. PICK j : j = job[e] OBVIOUS
<1>4. /\ Effect({j}, {}, 0) /\ Others(e) /\ job'[e] = NoJob /\ at'[e] = "idle"
  BY <1>1, <1>3, EndEffect DEF JobKinds
<1>5. /\ at[e] = "finish" /\ j.kind = "items" /\ j \in Present
      /\ j \in InHand({"complete", "finish"})
  BY <1>1, <1>2, <1>3, JobInHand DEF InStep, InHand, JobKinds
<1>6. SameLines
  <2>1. InHand({"push"})' = InHand({"push"}) BY <1>4, <1>5, HandsSame
  <2> QED BY <1>1, <1>4, <1>5, <2>1, LinesKept DEF Avoid
<1>7. (\A x : x # j => (x \in Present' <=> x \in Present)) /\ j \notin Present'
  BY <1>4, <1>5 DEF Effect, Once
<1>8. \A x : x # j =>
        (x \in InHand({"complete", "finish"})' <=> x \in InHand({"complete", "finish"}))
  BY <1>3, <1>4, HandsEnd
<1>9. ASSUME NEW u \in Subs PROVE SavesOf(u)'
  <2>1. ItemsLeft(u)' = ItemsLeft(u)
    <3>1. j \notin ToSet(cache[u]) BY <1>2, <1>5 DEF NoneTwice, OnceIn
    <3>2. JobsOf("items", u)' = {x \in Present' : x.kind = "items" /\ x.of = u}
      BY DEF JobsOf
    <3>3. JobsOf("items", u) = {x \in Present : x.kind = "items" /\ x.of = u}
      BY DEF JobsOf
    <3>4. JobsOf("items", u)' \ InHand({"complete", "finish"})'
            = JobsOf("items", u) \ InHand({"complete", "finish"})
      BY <1>5, <1>7, <1>8, <3>2, <3>3
    <3> QED BY <1>1, <3>4, LeftNext DEF ItemsLeft
  <2>2. Completes(u)' <=> Completes(u) BY <1>4, <1>5 DEF Completes, Others
  <2>3. Save(u) # j BY <1>5, SavesDiffer
  <2>4. (Saving(u)' <=> Saving(u)) /\ (Stored(u)' <=> Stored(u))
    BY <1>1, <1>7, <2>2, <2>3, SavesDiffer DEF Saving, Stored
  <2> QED BY <1>1, <1>6, <2>1, <2>4, SavesOfKept DEF SaveInv
<1>10. LayersOpen'
  BY <1>1, <1>6, LayersStay DEF SaveInv, SameLines, SameLinesOf
<1>11. Saves' BY <1>9 DEF Saves
<1> QED BY <1>1, <1>10, <1>11 DEF SaveInv

\* A layer is saved, with all that is complete in it.
LEMMA SaveLayerSaves ==
  ASSUME Inv, SaveInv, NEW e \in Executors, SaveLayer(e)
  PROVE  SaveInv'
<1>1. /\ InStep(e, "save", "run") /\ JobEnds(e) /\ layerReady' = layerReady
      /\ UNCHANGED <<ready, outbox>> /\ UNCHANGED <<cache, processed, finished>>
      /\ written' = written \cup
           {u \in Subs : Target[u] = Target[job[e].of] /\ processed[u] = Size[Src[u]]}
  BY DEF SaveLayer, PushNextFile, Push, parsing
<1>2. TypeOK /\ parseFiles = <<>> BY DEF Inv, SaveInv
<1>3. PICK more : more = <<>> OBVIOUS
<1>4. candidate' = candidate \o more /\ parseFiles' = parseFiles
  BY <1>2, <1>3 DEF SaveLayer, PushNextFile, Push
<1>5. more \in Seq(AllJobs) /\ Fresh(more) /\ NoGroups(more) /\ ToSet(more) = {}
  BY <1>3 DEF Fresh, NoGroups, ToSet
<1>6. PICK j : j = job[e] OBVIOUS
<1>7. /\ Effect({j}, {}, 0) /\ Others(e) /\ at'[e] = "idle"
  BY <1>1, <1>4, <1>5, <1>6, EndEffectMore DEF JobKinds
<1>8. at[e] = "run" /\ j.kind = "save" BY <1>1, <1>6 DEF InStep
<1>9. SameLines
  <2>1. InHand({"push"})' = InHand({"push"}) BY <1>7, <1>8, HandsSame
  <2> QED BY <1>4, <1>7, <1>8, <2>1, LinesKept DEF Avoid
<1>10. SameHands BY <1>7, <1>8, HandsStay DEF Others
<1>11. /\ Present \ {j} \subseteq Present' /\ Present' \subseteq Present
       /\ \A x : x.kind = "items" => (x \in Present' <=> x \in Present)
  BY <1>7, <1>8 DEF Effect
<1>12. ASSUME NEW u \in Subs PROVE SavesOf(u)'
  <2>1. ItemsLeft(u)' = ItemsLeft(u)
    BY <1>1, <1>10, <1>11, LeftSame DEF SameHands
  <2>2. Completes(u)' <=> Completes(u) BY <1>10 DEF SameHands
  <2>3. Saving(u)' => Saving(u) BY <1>11, <2>2, SavesDiffer DEF Saving
  <2>4. Stored(u) => Stored(u)'
    <3>1. CASE u \in written \/ Completes(u) \/ Save(u) \in Present \ {j}
      BY <1>1, <1>11, <2>2, <3>1, SavesDiffer DEF Stored, Saving
    <3>2. CASE Save(u) = j /\ Save(u) \in Present
      <4>1. processed[u] = Size[Src[u]]
        BY <3>2 DEF SaveInv, Saves, SavesOf, Saving
      <4>2. j.of = u BY <3>2, SavesDiffer
      <4> QED BY <1>1, <1>6, <4>1, <4>2 DEF Stored
    <3> QED BY <3>1, <3>2 DEF Stored, Saving
  <2> QED BY <1>1, <1>9, <2>1, <2>3, <2>4, SavesOfKept DEF SaveInv
<1>13. LayersOpen'
  BY <1>1, <1>9, LayersStay DEF SaveInv, SameLines, SameLinesOf
<1>14. Saves' BY <1>12 DEF Saves
<1>15. written' \subseteq Subs BY <1>1 DEF SaveInv
<1> QED BY <1>1, <1>4, <1>13, <1>14, <1>15 DEF SaveInv

-----------------------------------------------------------------------------
(* Nothing is forgotten.                                                     *)

\* Every step of every job keeps account of what is to be processed and saved.
LEMMA NextKeepsSaves ==
  ASSUME RunParallel, Inv, SaveInv, [Next]_vars
  PROVE  SaveInv'
<1>0. 0 \in Executors BY ConstantTypes DEF Executors
<1>1. CASE Select BY <1>1, <1>0, SelectKeepsInv, QuietMoves
<1>2. ASSUME NEW e \in Executors, Take(e) PROVE SaveInv'
  BY <1>2, TakeKeepsInv, QuietMoves
<1>3. ASSUME NEW e \in Executors, Step(e) PROVE SaveInv'
  <2>1. CASE \/ CopyLoad(e) \/ ParseConditions(e) \/ CopyInfo(e) \/ ReadTagName(e)
             \/ AddElements(e) \/ TestChecked(e) \/ AddChecked(e) \/ InitTypeGroup(e)
    BY <2>1, QuietActions
  <2>2. CASE ParseLines(e) \/ PushParsed(e) \/ FindInsertGroup(e)
    BY <2>2, ParseLinesKeepsInv, PushParsedKeepsInv, FindInsertGroupKeepsInv, QuietMoves
  <2>3. CASE LoadLayer(e) \/ PushLines(e)
    BY <2>3, LoadLayerSaves, PushLinesKeepsInv, PushLinesSaves
  <2>4. CASE CacheItems(e) \/ PublishGroup(e)
    BY <2>4, CacheItemsKeepsInv, CacheItemsSaves, PublishGroupKeepsInv, PublishGroupSaves
  <2>5. CASE ProcessItems(e) \/ CompleteFile(e) \/ CountFile(e) \/ SaveLayer(e)
    BY <2>5, ProcessItemsSaves, CompleteFileSaves, CountFileSaves, SaveLayerSaves
  <2> QED BY <1>3, <2>1, <2>2, <2>3, <2>4, <2>5 DEF Step
<1>4. CASE UNCHANGED vars BY <1>4, <1>0, StutterKeepsInv, QuietMoves
<1> QED BY <1>1, <1>2, <1>3, <1>4 DEF Next, Finished

\* Before the first step every file waits and no item has been processed.
LEMMA InitSaves ==
  ASSUME RunParallel, Init
  PROVE  SaveInv
<1>1. /\ TypeOK /\ Steps /\ \A j \in Present : j.kind \in {"load", "file"}
      /\ \A f \in Files : FilePending(f)
  BY InitInv DEF Inv, Unstarted
<1>2. /\ processed = [s \in Subs |-> 0] /\ finished = 0 /\ written = {} /\ parseFiles = <<>>
      /\ layerReady = {} /\ cache = [s \in Subs |-> <<>>] /\ at = [e \in Executors |-> "idle"]
  BY DEF Init, Emptied
<1>3. ASSUME NEW s \in Subs PROVE SavesOf(s)
  <2>1. ~Parsed(FileOf[s]) BY <1>1, ConstantTypes DEF Parsed
  <2>2. ItemsLeft(s) = {}
    <3>1. JobsOf("items", s) = {} BY <1>1 DEF JobsOf
    <3>2. ToSet(cache[s]) = {} BY <1>2 DEF ToSet
    <3> QED BY <3>1, <3>2 DEF ItemsLeft
  <2>3. ~Saving(s) BY <1>1, <1>2, JobFields DEF Saving, Completes, Save
  <2>4. processed[s] = 0 BY <1>2
  <2> QED BY <2>1, <2>2, <2>3, <2>4 DEF SavesOf
<1>4. LayersOpen BY <1>1, <1>2 DEF LayersOpen
<1> QED BY <1>2, <1>3, <1>4 DEF SaveInv, Saves

\* In parallel mode every item of every layer is in exactly one job until it has
\* been counted, and a subgroup whose items have all been counted is being saved
\* or has been, whatever the scenario and the order of the steps.
THEOREM ParallelInvariance ==
  ASSUME RunParallel
  PROVE  Spec => [](Inv /\ SaveInv)
<1>1. Init => Inv /\ SaveInv BY InitInv, InitSaves
<1>2. Inv /\ SaveInv /\ [Next]_vars => (Inv /\ SaveInv)'
  BY NextKeepsInv, NextKeepsSaves
<1> QED BY <1>1, <1>2, PTL DEF Spec

\* When the queues and the executors are empty, no job is anywhere.
LEMMA QuietMeansNone ==
  ASSUME TypeOK, Steps, Quiet
  PROVE  Present = {}
<1>1. candidate = <<>> /\ \A e \in Executors : job[e] = NoJob /\ ready[e] = <<>>
  BY DEF Quiet, Vacant
<1>2. \A e \in Executors : outbox[e] = <<>>
  <2> SUFFICES ASSUME NEW e \in Executors PROVE outbox[e] = <<>> OBVIOUS
  <2>1. job[e].kind = "none" BY <1>1, JobsAreJobs
  <2> QED BY <2>1 DEF Steps, StepOf
<1>3. \A q \in Queues : Queue[q] = <<>>
  <2> SUFFICES ASSUME NEW q \in Queues PROVE Queue[q] = <<>> OBVIOUS
  <2>1. CASE q = Candidates BY <1>1, <2>1, QueueValues
  <2>2. ASSUME NEW e \in Executors, q \in {Ready(e), Outbox(e), Hand(e)} PROVE Queue[q] = <<>>
    BY <1>1, <1>2, <2>2, QueueValues
  <2> QED BY <2>1, <2>2, QueueNames
<1>4. PlacesIn(Queue) = {} BY <1>3, PlaceFacts
<1> QED BY <1>4 DEF Present, JobsIn

\* When the pool has nothing left to do, the results of every subgroup are in its
\* output file: no ProcessMifItems job stays behind in jobCache_, whichever group
\* was the last to be parsed, and no count misses the total that asks for the save
\* (ExecutorJobFunc.cpp:112-175, 245-266, 364-400), for every number of executors.
THEOREM NothingIsForgotten ==
  ASSUME RunParallel
  PROVE  Spec => []NothingForgotten
<1>1. Inv /\ SaveInv => NothingForgotten
  <2> SUFFICES ASSUME Inv, SaveInv, Quiet PROVE written = Subs
    BY DEF NothingForgotten
  <2>1. Present = {} /\ parseFiles = <<>> BY QuietMeansNone DEF Inv, SaveInv
  <2>2. \A e \in Executors : at[e] = "idle"
    BY DEF Quiet, Vacant, Inv, Steps, StepOf
  <2>3. \A f \in Files : Parsed(f)
    BY <2>1 DEF Parsed, FilePending, JobsOf, ToSet
  <2>4. groupJobs = 0
    <3>1. GroupsIn(Queue) = {} BY <2>1 DEF GroupsIn, Present, JobsIn
    <3> QED BY <3>1, FS_EmptySet DEF Inv, GroupsCounted
  <2>5. ASSUME NEW s \in Subs PROVE s \in written
    <3>1. FileOf[s] \in Files BY ConstantTypes
    <3>2. cache[s] = <<>> BY <2>4 DEF Inv, ItemsHeldBack
    <3>3. ItemsLeft(s) = {} BY <2>1, <3>2 DEF ItemsLeft, JobsOf, ToSet
    <3>4. Stored(s) BY <2>3, <3>1, <3>3 DEF SaveInv, Saves, SavesOf
    <3> QED BY <2>1, <2>2, <3>4 DEF Stored, Saving, Completes
  <2> QED BY <2>5 DEF SaveInv
<1> QED BY <1>1, ParallelInvariance, PTL
-----------------------------------------------------------------------------
(* The order of the jobs.                                                    *)

\* No job of S waits for a group that a job of T builds, but for the init jobs of
\* groups with two tags.
Clear(S, T) ==
  \A w \in S, b \in T, i \in Items : WaitsFor(w, i) /\ ~SecondTag(w) => ~Builds(b, i)

\* No job of a queue waits for one behind it.
Ordered(q) == \A k, m \in DOMAIN q : k < m => Clear({q[k]}, {q[m]})

\* What executor e has to do or may be dealt, in this order.
Ahead(e) == {job[e]} \cup ToSet(ready[e]) \cup ToSet(candidate)
JobsAt(e) == Ahead(e) \cup ToSet(outbox[e])

InOrder ==
  /\ Ordered(candidate)
  /\ \A e \in Executors :
       /\ Ordered(ready[e]) /\ Ordered(outbox[e])
       /\ Clear({job[e]}, ToSet(ready[e]))
       /\ Clear({job[e]} \cup ToSet(ready[e]), ToSet(candidate))
  /\ \A e, x \in Executors : Clear(Ahead(e), ToSet(outbox[x]))
  /\ \A e, x \in Executors : e # x => Clear(ToSet(outbox[e]), ToSet(outbox[x]))

\* A group that some job may wait for has been registered, and its type with its
\* items when it is the only one.
KnownItem(i) == <<"item", i>> \in known
Registered ==
  /\ \A f \in Files, r \in Requests : <<f, r>> \in resolved => KnownItem(ItemOf[r])
  /\ \A e \in Executors : job[e].kind = "group" /\ at[e] \in {"parse", "publish"}
                            => KnownItem(ItemOf[job[e].from])
  /\ \A e \in Executors : \A j \in JobsAt(e) : j.kind = "init" => KnownItem(j.of)
  /\ \A r \in Statics : OneTag(ItemOf[r]) /\ KnownItem(ItemOf[r])
                           => <<"type", TypeOf[r]>> \in known

\* Jobs that build a group come from one that parses it.
BuildersOut ==
  \A e \in Executors : \A j \in ToSet(outbox[e]) :
    j.kind \in {"build", "init"} => job[e].kind = "group"

OrderInv == InOrder /\ Registered /\ BuildersOut

\* Fewer jobs are clear of fewer.
LEMMA ClearOfLess ==
  ASSUME NEW S, NEW T, Clear(S, T), NEW U \in SUBSET S, NEW V \in SUBSET T
  PROVE  Clear(U, V)
  BY DEF Clear

\* Jobs that build nothing never come too late.
LEMMA ClearOfOthers ==
  ASSUME NEW S, NEW T, \A b \in T : b.kind # "build"
  PROVE  Clear(S, T)
  BY DEF Clear, Builds

\* The elements of a queue, by their numbers.
LEMMA QueueElements ==
  ASSUME NEW S, NEW q \in Seq(S)
  PROVE  /\ Len(q) \in Nat /\ DOMAIN q = 1 .. Len(q)
         /\ \A j : j \in ToSet(q) <=> \E k \in 1 .. Len(q) : j = q[k]
<1>1. Len(q) \in Nat /\ DOMAIN q = 1 .. Len(q) BY LenProperties
<1> QED BY <1>1 DEF ToSet

\* A queue is in order when both its parts are, and the second is not waited for in
\* the first.
LEMMA OrderedConcat ==
  ASSUME NEW S, NEW s \in Seq(S), NEW t \in Seq(S), Ordered(s), Ordered(t),
         Clear(ToSet(s), ToSet(t))
  PROVE  Ordered(s \o t)
<1> DEFINE q == s \o t
<1>1. /\ Len(s) \in Nat /\ DOMAIN s = 1 .. Len(s) /\ Len(t) \in Nat /\ DOMAIN t = 1 .. Len(t)
      /\ \A k \in 1 .. Len(s) : s[k] \in ToSet(s)
      /\ \A k \in 1 .. Len(t) : t[k] \in ToSet(t)
  BY QueueElements
<1>2. /\ q \in Seq(S) /\ Len(q) = Len(s) + Len(t) /\ DOMAIN q = 1 .. Len(s) + Len(t)
      /\ \A k \in 1 .. Len(s) + Len(t) : q[k] = IF k <= Len(s) THEN s[k] ELSE t[k - Len(s)]
  BY <1>1, ConcatProperties, LenProperties
<1> HIDE DEF q
<1> SUFFICES ASSUME NEW k \in DOMAIN q, NEW m \in DOMAIN q, k < m PROVE Clear({q[k]}, {q[m]})
  BY DEF Ordered, q
<1>3. k \in 1 .. Len(s) + Len(t) /\ m \in 1 .. Len(s) + Len(t) BY <1>2
<1>4. CASE m <= Len(s)
  <2>1. k \in DOMAIN s /\ m \in DOMAIN s /\ q[k] = s[k] /\ q[m] = s[m]
    BY <1>1, <1>2, <1>3, <1>4
  <2> QED BY <2>1 DEF Ordered
<1>5. CASE ~(k <= Len(s))
  <2>1. /\ k - Len(s) \in DOMAIN t /\ m - Len(s) \in DOMAIN t /\ k - Len(s) < m - Len(s)
        /\ q[k] = t[k - Len(s)] /\ q[m] = t[m - Len(s)]
    BY <1>1, <1>2, <1>3, <1>5
  <2> QED BY <2>1 DEF Ordered
<1>6. CASE k <= Len(s) /\ ~(m <= Len(s))
  <2>1. q[k] = s[k] /\ q[m] = t[m - Len(s)] /\ k \in 1 .. Len(s) /\ m - Len(s) \in 1 .. Len(t)
    BY <1>1, <1>2, <1>3, <1>6
  <2>2. q[k] \in ToSet(s) /\ q[m] \in ToSet(t) BY <1>1, <2>1
  <2> QED BY <2>2, ClearOfLess
<1> QED BY <1>4, <1>5, <1>6

\* A part of a queue is in order, and does not wait for what comes behind it.
LEMMA OrderedPart ==
  ASSUME NEW S, NEW q \in Seq(S), Ordered(q), NEW a \in Nat \ {0}, NEW b \in Nat, b <= Len(q)
  PROVE  /\ SubSeq(q, a, b) \in Seq(S) /\ Ordered(SubSeq(q, a, b))
         /\ ToSet(SubSeq(q, a, b)) \subseteq ToSet(q)
         /\ \A c \in Nat \ {0}, d \in Nat :
              b < c /\ d <= Len(q) => Clear(ToSet(SubSeq(q, a, b)), ToSet(SubSeq(q, c, d)))
<1>1. Len(q) \in Nat /\ DOMAIN q = 1 .. Len(q) /\ \A k \in 1 .. Len(q) : q[k] \in S
  BY LenProperties, ElementOfSeq
<1>2. ASSUME NEW c \in Nat \ {0}, NEW d \in Nat, d <= Len(q)
      PROVE  LET p == SubSeq(q, c, d)
             IN  /\ p \in Seq(S) /\ \A k \in DOMAIN p : k \in Nat \ {0} /\ c + k - 1 \in c .. d
                                                       /\ p[k] = q[c + k - 1]
  <2> DEFINE p == SubSeq(q, c, d)
  <2>1. \A k \in c .. d : q[k] \in S BY <1>1, <1>2
  <2>2. /\ p \in Seq(S) /\ Len(p) = IF c <= d THEN d - c + 1 ELSE 0
        /\ \A k \in 1 .. d - c + 1 : p[k] = q[c + k - 1]
    BY <2>1, SubSeqProperties
  <2> HIDE DEF p
  <2>3. DOMAIN p = 1 .. Len(p) /\ Len(p) \in Nat BY <2>2, LenProperties
  <2> QED BY <2>2, <2>3 DEF p
<1>3. Ordered(SubSeq(q, a, b))
  <2> DEFINE p == SubSeq(q, a, b)
  <2>1. \A k \in DOMAIN p : k \in Nat \ {0} /\ a + k - 1 \in a .. b /\ p[k] = q[a + k - 1]
    BY <1>2
  <2> HIDE DEF p
  <2> SUFFICES ASSUME NEW k \in DOMAIN p, NEW m \in DOMAIN p, k < m PROVE Clear({p[k]}, {p[m]})
    BY DEF Ordered, p
  <2>2. a + k - 1 \in DOMAIN q /\ a + m - 1 \in DOMAIN q /\ a + k - 1 < a + m - 1
    BY <1>1, <2>1
  <2>3. Clear({q[a + k - 1]}, {q[a + m - 1]}) BY <2>2 DEF Ordered
  <2> QED BY <2>1, <2>3
<1>4. ToSet(SubSeq(q, a, b)) \subseteq ToSet(q)
  <2> DEFINE p == SubSeq(q, a, b)
  <2>1. \A k \in DOMAIN p : a + k - 1 \in a .. b /\ p[k] = q[a + k - 1] BY <1>2
  <2> HIDE DEF p
  <2>2. \A k \in a .. b : k \in DOMAIN q BY <1>1
  <2>3. ToSet(p) \subseteq ToSet(q) BY <2>1, <2>2 DEF ToSet
  <2> QED BY <2>3 DEF p
<1>5. ASSUME NEW c \in Nat \ {0}, NEW d \in Nat, b < c, d <= Len(q)
      PROVE  Clear(ToSet(SubSeq(q, a, b)), ToSet(SubSeq(q, c, d)))
  <2> DEFINE p == SubSeq(q, a, b)
             r == SubSeq(q, c, d)
  <2>1. \A k \in DOMAIN p : a + k - 1 \in a .. b /\ p[k] = q[a + k - 1] BY <1>2
  <2>2. \A k \in DOMAIN r : c + k - 1 \in c .. d /\ r[k] = q[c + k - 1]
    BY <1>2, <1>5
  <2> HIDE DEF p, r
  <2>3. ASSUME NEW k \in DOMAIN p, NEW m \in DOMAIN r PROVE Clear({p[k]}, {r[m]})
    <3>1. PICK x \in a .. b, y \in c .. d : p[k] = q[x] /\ r[m] = q[y]
      BY <2>1, <2>2
    <3>2. x \in DOMAIN q /\ y \in DOMAIN q /\ x < y BY <1>1, <1>5
    <3> QED BY <3>1, <3>2 DEF Ordered
  <2>4. Clear(ToSet(p), ToSet(r)) BY <2>3 DEF Clear, ToSet
  <2> QED BY <2>4 DEF p, r
<1> QED BY <1>2, <1>3, <1>4, <1>5

\* The first job of a queue waits for none of the others.
LEMMA OrderedTail ==
  ASSUME NEW S, NEW q \in Seq(S), q # <<>>, Ordered(q)
  PROVE  /\ Head(q) \in ToSet(q) /\ ToSet(Tail(q)) \subseteq ToSet(q)
         /\ Ordered(Tail(q)) /\ Clear({Head(q)}, ToSet(Tail(q)))
<1> DEFINE t == Tail(q)
<1>1. Len(q) \in Nat /\ DOMAIN q = 1 .. Len(q) /\ Len(q) # 0
  BY LenProperties, EmptySeq
<1>2. /\ t \in Seq(S) /\ Len(t) = Len(q) - 1 /\ Head(q) = q[1]
      /\ \A k \in 1 .. Len(q) - 1 : t[k] = q[k + 1]
  BY <1>1, HeadTailProperties
<1>3. DOMAIN t = 1 .. Len(q) - 1 BY <1>2, LenProperties
<1> HIDE DEF t
<1>4. \A k \in DOMAIN t : k \in Nat \ {0} /\ k + 1 \in DOMAIN q /\ t[k] = q[k + 1]
  BY <1>1, <1>2, <1>3
<1>5. 1 \in DOMAIN q BY <1>1
<1>6. Head(q) \in ToSet(q) /\ ToSet(t) \subseteq ToSet(q)
  BY <1>2, <1>4, <1>5 DEF ToSet
<1>7. Ordered(t)
  <2> SUFFICES ASSUME NEW k \in DOMAIN t, NEW m \in DOMAIN t, k < m PROVE Clear({t[k]}, {t[m]})
    BY DEF Ordered
  <2>1. k + 1 \in DOMAIN q /\ m + 1 \in DOMAIN q /\ k + 1 < m + 1 BY <1>4
  <2>2. Clear({q[k + 1]}, {q[m + 1]}) BY <2>1 DEF Ordered
  <2> QED BY <1>4, <2>2
<1>8. Clear({Head(q)}, ToSet(t))
  <2>1. ASSUME NEW k \in DOMAIN t PROVE Clear({q[1]}, {t[k]})
    <3>1. k + 1 \in DOMAIN q /\ 1 < k + 1 BY <1>4
    <3>2. Clear({q[1]}, {q[k + 1]}) BY <1>5, <3>1 DEF Ordered
    <3> QED BY <1>4, <3>2
  <2> QED BY <1>2, <2>1 DEF Clear, ToSet
<1> QED BY <1>6, <1>7, <1>8 DEF t

\* What a step without a push leaves in order: jobs in hand may end.
LEMMA EndsStayInOrder ==
  ASSUME InOrder, UNCHANGED <<candidate, ready, outbox>>,
         \A e \in Executors : job'[e] \in {job[e], NoJob}
  PROVE  InOrder'
<1>1. \A i \in Items : ~WaitsFor(NoJob, i) BY JobsAreJobs DEF WaitsFor
<1>2. \A T : Clear({NoJob}, T) BY <1>1 DEF Clear
<1>3. Ordered(candidate') /\ \A e \in Executors : Ordered(ready'[e]) /\ Ordered(outbox'[e])
  BY DEF InOrder
<1>4. ASSUME NEW e \in Executors
      PROVE  /\ Clear({job'[e]}, ToSet(ready'[e]))
             /\ Clear({job'[e]} \cup ToSet(ready'[e]), ToSet(candidate'))
  <2>1. /\ Clear({job[e]}, ToSet(ready[e]))
        /\ Clear({job[e]} \cup ToSet(ready[e]), ToSet(candidate))
    BY DEF InOrder
  <2>2. CASE job'[e] = job[e] BY <2>1, <2>2
  <2>3. CASE job'[e] = NoJob BY <1>2, <2>1, <2>3 DEF Clear
  <2> QED BY <2>2, <2>3
<1>5. ASSUME NEW e \in Executors, NEW x \in Executors PROVE Clear(Ahead(e)', ToSet(outbox'[x]))
  <2>1. Clear(Ahead(e), ToSet(outbox[x])) BY DEF InOrder
  <2>2. CASE job'[e] = job[e] BY <2>1, <2>2 DEF Ahead
  <2>3. CASE job'[e] = NoJob BY <1>2, <2>1, <2>3 DEF Clear, Ahead
  <2> QED BY <2>2, <2>3
<1>6. \A e, x \in Executors : e # x => Clear(ToSet(outbox'[e]), ToSet(outbox'[x]))
  BY DEF InOrder
<1> QED BY <1>3, <1>4, <1>5, <1>6 DEF InOrder

\* Executor e pushes its newJobs, and more.
Pushes(e, more) ==
  /\ candidate' = candidate \o (outbox[e] \o more) /\ ready' = ready
  /\ outbox' = [outbox EXCEPT ![e] = <<>>]
  /\ job' = job \/ JobEnds(e)

BuildsNone(jobs) == \A j \in jobs : j.kind # "build"

\* A push keeps the order when what is added to the newJobs builds nothing, and does
\* not wait for what is still to be pushed by others.
LEMMA PushStaysInOrder ==
  ASSUME TypeOK, InOrder, NEW e \in Executors, NEW more \in Seq(AllJobs), Pushes(e, more),
         BuildsNone(ToSet(more)),
         \A x \in Executors \ {e} : Clear(ToSet(more), ToSet(outbox[x]))
  PROVE  InOrder'
<1> DEFINE new == outbox[e] \o more
<1>1. /\ candidate \in Seq(AllJobs) /\ \A x \in Executors : outbox[x] \in Seq(AllJobs)
      /\ job \in [Executors -> AllJobs \cup {NoJob}]
      /\ outbox \in [Executors -> Seq(AllJobs)]
  BY DEF TypeOK
<1>2. new \in Seq(AllJobs) /\ ToSet(new) = ToSet(outbox[e]) \cup ToSet(more)
  BY <1>1, ElementsOfConcat
<1>3. \A S : Clear(S, ToSet(more)) BY ClearOfOthers DEF BuildsNone
<1>4. Ordered(more)
  <2>1. \A m \in DOMAIN more : more[m].kind # "build" BY DEF BuildsNone, ToSet
  <2> QED BY <2>1 DEF Ordered, Clear, Builds
<1>5. Ordered(new)
  <2>1. Ordered(outbox[e]) BY DEF InOrder
  <2> QED BY <1>1, <1>3, <1>4, <2>1, OrderedConcat
<1>6. \A x \in Executors : Clear(Ahead(x), ToSet(new))
  BY <1>2, <1>3 DEF InOrder, Clear
<1> HIDE DEF new
<1>7. /\ candidate' = candidate \o new /\ ready' = ready /\ outbox'[e] = <<>>
      /\ \A x \in Executors \ {e} : outbox'[x] = outbox[x]
      /\ \A x \in Executors : job'[x] \in {job[x], NoJob}
  BY <1>1 DEF Pushes, JobEnds, new
<1>8. ToSet(candidate') = ToSet(candidate) \cup ToSet(new) /\ candidate' \in Seq(AllJobs)
  BY <1>1, <1>2, <1>7, ElementsOfConcat
<1>9. Ordered(candidate')
  <2>1. Clear(ToSet(candidate), ToSet(new)) /\ Ordered(candidate)
    BY <1>6 DEF Ahead, Clear, InOrder
  <2> QED BY <1>1, <1>2, <1>5, <1>7, <2>1, OrderedConcat
<1>10. ToSet(<<>>) = {} BY DEF ToSet
<1>11. \A i \in Items : ~WaitsFor(NoJob, i) BY JobsAreJobs DEF WaitsFor
<1>12. ASSUME NEW x \in Executors
       PROVE  /\ Clear({job'[x]}, ToSet(ready'[x]))
              /\ Clear({job'[x]} \cup ToSet(ready'[x]), ToSet(candidate'))
              /\ Ordered(ready'[x]) /\ Ordered(outbox'[x])
  <2>1. /\ Clear({job[x]}, ToSet(ready[x]))
        /\ Clear({job[x]} \cup ToSet(ready[x]), ToSet(candidate))
        /\ Ordered(ready[x]) /\ Ordered(outbox[x])
    BY DEF InOrder
  <2>2. Clear({job[x]} \cup ToSet(ready[x]), ToSet(candidate'))
    BY <1>6, <1>8, <2>1 DEF Clear, Ahead
  <2>3. Clear({job'[x]}, ToSet(ready'[x])) BY <1>7, <1>11, <2>1 DEF Clear
  <2>4. Clear({job'[x]} \cup ToSet(ready'[x]), ToSet(candidate'))
    BY <1>7, <1>11, <2>2 DEF Clear
  <2>5. Ordered(outbox'[x])
    <3>1. Ordered(<<>>) BY DEF Ordered
    <3> QED BY <1>7, <2>1, <3>1
  <2> QED BY <1>7, <2>1, <2>3, <2>4, <2>5
<1>13. ASSUME NEW x \in Executors, NEW y \in Executors PROVE Clear(Ahead(x)', ToSet(outbox'[y]))
  <2>1. CASE y = e BY <1>7, <1>10, <2>1 DEF Clear
  <2>2. CASE y # e
    <3>1. Clear(Ahead(x), ToSet(outbox[y])) /\ Clear(ToSet(outbox[e]), ToSet(outbox[y]))
      BY <2>2 DEF InOrder
    <3>2. Clear(ToSet(new), ToSet(outbox[y])) BY <1>2, <2>2, <3>1 DEF Clear
    <3>3. \A j \in Ahead(x)' : j \in Ahead(x) \/ j \in ToSet(new) \/ j = NoJob
      BY <1>7, <1>8 DEF Ahead
    <3>4. outbox'[y] = outbox[y] BY <1>7, <2>2
    <3> QED BY <1>11, <3>1, <3>2, <3>3, <3>4 DEF Clear
  <2> QED BY <2>1, <2>2
<1>14. ASSUME NEW x \in Executors, NEW y \in Executors, x # y
       PROVE  Clear(ToSet(outbox'[x]), ToSet(outbox'[y]))
  <2>1. CASE x = e \/ y = e BY <1>7, <1>10, <2>1 DEF Clear
  <2>2. CASE x # e /\ y # e BY <1>7, <1>14, <2>2 DEF InOrder
  <2> QED BY <2>1, <2>2
<1> QED BY <1>9, <1>12, <1>13, <1>14 DEF InOrder

\* The newJobs of executor e become more.
LEMMA OutboxStaysInOrder ==
  ASSUME TypeOK, InOrder, NEW e \in Executors, NEW more, Ordered(more),
         outbox' = [outbox EXCEPT ![e] = more], UNCHANGED <<candidate, ready, job>>,
         \A x \in Executors : Clear(Ahead(x), ToSet(more)),
         \A x \in Executors \ {e} : /\ Clear(ToSet(outbox[x]), ToSet(more))
                                    /\ Clear(ToSet(more), ToSet(outbox[x]))
  PROVE  InOrder'
<1>1. outbox'[e] = more /\ \A x \in Executors \ {e} : outbox'[x] = outbox[x]
  BY DEF TypeOK
<1>2. \A x \in Executors : Ahead(x)' = Ahead(x) BY DEF Ahead
<1>3. \A x \in Executors : Ordered(outbox'[x]) BY <1>1 DEF InOrder
<1>4. \A x, y \in Executors : Clear(Ahead(x)', ToSet(outbox'[y]))
  BY <1>1, <1>2 DEF InOrder
<1>5. \A x, y \in Executors : x # y => Clear(ToSet(outbox'[x]), ToSet(outbox'[y]))
  BY <1>1 DEF InOrder
<1> QED BY <1>3, <1>4, <1>5 DEF InOrder

\* An executor takes the first job of its queue.
LEMMA TakeStaysInOrder ==
  ASSUME TypeOK, InOrder, NEW e \in Executors, Take(e)
  PROVE  InOrder' /\ \A x \in Executors : Ahead(x)' \subseteq Ahead(x)
<1>1. /\ ready[e] \in Seq(AllJobs) /\ ready[e] # <<>> /\ Ordered(ready[e])
      /\ job'[e] = Head(ready[e]) /\ ready'[e] = Tail(ready[e])
      /\ candidate' = candidate /\ outbox' = outbox
      /\ \A x \in Executors \ {e} : job'[x] = job[x] /\ ready'[x] = ready[x]
  BY DEF TypeOK, Take, InOrder
<1>2. /\ job'[e] \in ToSet(ready[e]) /\ ToSet(ready'[e]) \subseteq ToSet(ready[e])
      /\ Ordered(ready'[e]) /\ Clear({job'[e]}, ToSet(ready'[e]))
  BY <1>1, OrderedTail
<1>3. \A x \in Executors : Ahead(x)' \subseteq Ahead(x) BY <1>1, <1>2 DEF Ahead
<1>4. \A x \in Executors :
        /\ Ordered(ready'[x]) /\ Ordered(outbox'[x]) /\ Clear({job'[x]}, ToSet(ready'[x]))
        /\ Clear({job'[x]} \cup ToSet(ready'[x]), ToSet(candidate'))
  <2> TAKE x \in Executors
  <2>1. Clear({job[x]} \cup ToSet(ready[x]), ToSet(candidate)) /\ Ordered(outbox[x])
    BY DEF InOrder
  <2>2. CASE x = e BY <1>1, <1>2, <2>1, <2>2 DEF Clear
  <2>3. CASE x # e BY <1>1, <2>1, <2>3 DEF InOrder
  <2> QED BY <2>2, <2>3
<1>5. \A x, y \in Executors : Clear(Ahead(x)', ToSet(outbox'[y]))
  BY <1>1, <1>3 DEF InOrder, Clear
<1> QED BY <1>1, <1>3, <1>4, <1>5 DEF InOrder

\* The candidates are dealt in their order: what is left comes after what was dealt.
LEMMA SelectStaysInOrder ==
  ASSUME TypeOK, InOrder, Select
  PROVE  InOrder' /\ \A x \in Executors : Ahead(x)' \subseteq Ahead(x)
<1>1. PICK cut \in [0 .. N -> 0 .. Len(candidate)] :
        /\ Even(cut)
        /\ ready' = [e \in Executors |-> ready[e] \o SubSeq(candidate, cut[e] + 1, cut[e + 1])]
        /\ candidate' = SubSeq(candidate, cut[N] + 1, Len(candidate))
  BY DEF Select
<1>2. /\ candidate \in Seq(AllJobs) /\ Len(candidate) \in Nat /\ ready \in [Executors -> Seq(AllJobs)]
      /\ N \in Nat \ {0} /\ job' = job /\ outbox' = outbox /\ Ordered(candidate)
  BY LenProperties, ConstantTypes DEF TypeOK, Select, InOrder
<1>3. \A e, x \in 0 .. N : e <= x => cut[e] <= cut[x]
  <2>1. cut[0] = 0 /\ \A e \in 0 .. N - 1 : cut[e] <= cut[e + 1]
    BY <1>1 DEF Even, Executors
  <2> QED BY <1>2, <2>1, CutPoints
<1>4. \A k \in 0 .. N : cut[k] \in Nat /\ cut[k] <= Len(candidate)
  <2> TAKE k \in 0 .. N
  <2>1. cut[k] \in 0 .. Len(candidate) OBVIOUS
  <2> QED BY <1>2, <2>1
<1>5. \A e \in Executors : e \in 0 .. N /\ e + 1 \in 0 .. N /\ e + 1 <= N /\ N \in 0 .. N
  BY <1>2 DEF Executors
<1> DEFINE part(e) == SubSeq(candidate, cut[e] + 1, cut[e + 1])
           rest == SubSeq(candidate, cut[N] + 1, Len(candidate))
<1>6. N \in 0 .. N /\ cut[N] + 1 \in Nat \ {0} BY <1>2, <1>4
<1>7. rest \in Seq(AllJobs) /\ Ordered(rest) /\ ToSet(rest) \subseteq ToSet(candidate)
  BY <1>2, <1>6, OrderedPart
<1>8. ASSUME NEW e \in Executors
      PROVE  /\ part(e) \in Seq(AllJobs) /\ Ordered(part(e))
             /\ ToSet(part(e)) \subseteq ToSet(candidate) /\ Clear(ToSet(part(e)), ToSet(rest))
  <2>1. /\ cut[e] + 1 \in Nat \ {0} /\ cut[e + 1] \in Nat /\ cut[e + 1] <= Len(candidate)
        /\ cut[e + 1] < cut[N] + 1
    BY <1>3, <1>4, <1>5
  <2>2. PICK a \in Nat \ {0}, b \in Nat : a = cut[e] + 1 /\ b = cut[e + 1]
    BY <2>1
  <2>3. PICK c \in Nat \ {0}, d \in Nat : c = cut[N] + 1 /\ d = Len(candidate)
    BY <1>2, <1>6
  <2>4. b <= Len(candidate) /\ b < c /\ d <= Len(candidate)
    BY <1>2, <2>1, <2>2, <2>3
  <2>5. LET p == SubSeq(candidate, a, b)
        IN  /\ p \in Seq(AllJobs) /\ Ordered(p) /\ ToSet(p) \subseteq ToSet(candidate)
            /\ Clear(ToSet(p), ToSet(SubSeq(candidate, c, d)))
    BY <1>2, <2>4, OrderedPart
  <2> QED BY <2>2, <2>3, <2>5
<1> HIDE DEF part, rest
<1>9. candidate' = rest /\ \A e \in Executors : ready'[e] = ready[e] \o part(e)
  BY <1>1 DEF part, rest
<1>10. ASSUME NEW e \in Executors
       PROVE  /\ ToSet(ready'[e]) = ToSet(ready[e]) \cup ToSet(part(e)) /\ Ordered(ready'[e])
              /\ Clear({job'[e]}, ToSet(ready'[e]))
              /\ Clear({job'[e]} \cup ToSet(ready'[e]), ToSet(candidate'))
  <2>1. /\ Ordered(ready[e]) /\ Clear({job[e]}, ToSet(ready[e]))
        /\ Clear({job[e]} \cup ToSet(ready[e]), ToSet(candidate))
    BY DEF InOrder
  <2>a. ready[e] \in Seq(AllJobs) /\ part(e) \in Seq(AllJobs) BY <1>2, <1>8
  <2>b. ToSet(ready[e] \o part(e)) = ToSet(ready[e]) \cup ToSet(part(e))
    BY <2>a, ElementsOfConcat
  <2>2. ready[e] \in Seq(AllJobs) /\ ToSet(ready'[e]) = ToSet(ready[e]) \cup ToSet(part(e))
    BY <1>9, <2>a, <2>b
  <2>3. Clear(ToSet(ready[e]), ToSet(part(e))) BY <1>8, <2>1 DEF Clear
  <2>4. Ordered(ready'[e]) BY <1>8, <1>9, <2>1, <2>2, <2>3, OrderedConcat
  <2>5. Clear({job'[e]}, ToSet(ready'[e])) BY <1>2, <1>8, <2>1, <2>2 DEF Clear
  <2>6. Clear({job'[e]} \cup ToSet(ready'[e]), ToSet(candidate'))
    BY <1>2, <1>7, <1>8, <1>9, <2>1, <2>2 DEF Clear
  <2> QED BY <2>2, <2>4, <2>5, <2>6
<1>11. \A x \in Executors : Ahead(x)' \subseteq Ahead(x)
  BY <1>2, <1>7, <1>8, <1>9, <1>10 DEF Ahead
<1>12. \A x, y \in Executors : Clear(Ahead(x)', ToSet(outbox'[y]))
  BY <1>2, <1>11 DEF InOrder, Clear
<1>13. /\ Ordered(candidate') /\ \A x \in Executors : Ordered(outbox'[x])
       /\ \A x, y \in Executors : x # y => Clear(ToSet(outbox'[x]), ToSet(outbox'[y]))
  BY <1>2, <1>7, <1>9 DEF InOrder
<1> QED BY <1>10, <1>11, <1>12, <1>13 DEF InOrder

\* What is registered stays so; a pointer that is set now was registered before.
LEMMA StaysRegistered ==
  ASSUME Registered, known' = known,
         \A f \in Files, r \in Requests :
           <<f, r>> \in resolved' => <<f, r>> \in resolved \/ KnownItem(ItemOf[r]),
         \A e \in Executors : job'[e].kind = "group" /\ at'[e] \in {"parse", "publish"} =>
           job'[e] = job[e] /\ at[e] \in {"parse", "publish"},
         \A e \in Executors : \A j \in JobsAt(e)' : j.kind = "init" =>
           \E x \in Executors : j \in JobsAt(x)
  PROVE  Registered'
<1>1. \A f \in Files, r \in Requests : <<f, r>> \in resolved' => KnownItem(ItemOf[r])'
  BY DEF Registered, KnownItem
<1>2. \A e \in Executors : job'[e].kind = "group" /\ at'[e] \in {"parse", "publish"}
                             => <<"item", ItemOf[job'[e].from]>> \in known'
  BY DEF Registered, KnownItem
<1>3. ASSUME NEW e \in Executors, NEW j \in JobsAt(e)', j.kind = "init"
      PROVE  <<"item", j.of>> \in known'
  <2>1. PICK x \in Executors : j \in JobsAt(x) BY <1>3
  <2> QED BY <1>3, <2>1 DEF Registered, KnownItem
<1>4. \A r \in Statics : OneTag(ItemOf[r]) /\ KnownItem(ItemOf[r])'
                           => <<"type", TypeOf[r]>> \in known'
  BY DEF Registered, KnownItem
<1> QED BY <1>1, <1>2, <1>3, <1>4 DEF Registered, KnownItem

\* The steps that push nothing.
LEMMA EndsKeepOrder ==
  ASSUME OrderInv, Steps', UNCHANGED <<candidate, ready, outbox, known, resolved>>,
         \A e \in Executors : /\ job'[e] \in {job[e], NoJob}
                              /\ at'[e] \in {"parse", "publish"} => at[e] \in {"parse", "publish"}
  PROVE  OrderInv'
<1>0. NoJob.kind = "none" BY JobsAreJobs
<1>1. InOrder' BY EndsStayInOrder DEF OrderInv
<1>2. \A e \in Executors : \A j \in JobsAt(e)' : j.kind = "init" => j \in JobsAt(e)
  BY <1>0 DEF JobsAt, Ahead
<1>3. Registered' BY <1>0, <1>2, StaysRegistered DEF OrderInv
<1>4. BuildersOut'
  <2> SUFFICES ASSUME NEW e \in Executors, NEW j \in ToSet(outbox'[e]), j.kind \in {"build", "init"}
               PROVE  job'[e].kind = "group"
    BY DEF BuildersOut
  <2>1. job[e].kind = "group" BY DEF OrderInv, BuildersOut
  <2>2. CASE job'[e] = NoJob
    <3>1. outbox'[e] = <<>> BY <1>0, <2>2 DEF Steps, StepOf
    <3> QED BY <3>1 DEF ToSet
  <2> QED BY <2>1, <2>2
<1> QED BY <1>1, <1>3, <1>4 DEF OrderInv

\* The steps that push newJobs, and perhaps jobs that build nothing besides.
LEMMA PushKeepsOrder ==
  ASSUME TypeOK, OrderInv, Steps', NEW e \in Executors, NEW more \in Seq(AllJobs), Pushes(e, more),
         \A j \in ToSet(more) : j.kind \notin {"build", "init"},
         \A x \in Executors \ {e} : Clear(ToSet(more), ToSet(outbox[x])),
         \A x \in Executors \ {e} : at'[x] = at[x], at'[e] \notin {"parse", "publish"},
         known' = known,
         \A f \in Files, r \in Requests :
           <<f, r>> \in resolved' => <<f, r>> \in resolved \/ KnownItem(ItemOf[r])
  PROVE  OrderInv'
<1>0. NoJob.kind = "none" BY JobsAreJobs
<1>1. InOrder' BY PushStaysInOrder DEF OrderInv, BuildsNone
<1>2. /\ candidate \in Seq(AllJobs) /\ outbox[e] \in Seq(AllJobs)
      /\ job \in [Executors -> AllJobs \cup {NoJob}]
      /\ outbox \in [Executors -> Seq(AllJobs)]
  BY DEF TypeOK
<1>3. ToSet(candidate') = ToSet(candidate) \cup (ToSet(outbox[e]) \cup ToSet(more))
  <2>1. PICK new : new = outbox[e] \o more OBVIOUS
  <2>2. new \in Seq(AllJobs) /\ ToSet(new) = ToSet(outbox[e]) \cup ToSet(more)
    BY <1>2, <2>1, ElementsOfConcat
  <2>3. ToSet(candidate \o new) = ToSet(candidate) \cup ToSet(new)
    BY <1>2, <2>2, ElementsOfConcat
  <2>4. candidate' = candidate \o new BY <2>1 DEF Pushes
  <2> QED BY <2>2, <2>3, <2>4
<1>4. /\ ready' = ready /\ outbox'[e] = <<>>
      /\ \A x \in Executors \ {e} : outbox'[x] = outbox[x] /\ job'[x] = job[x]
      /\ job'[e] \in {job[e], NoJob}
  BY <1>2 DEF Pushes, JobEnds
<1>5. ToSet(outbox'[e]) = {} BY <1>4 DEF ToSet
<1>6. ASSUME NEW x \in Executors, NEW j \in JobsAt(x)', j.kind = "init"
      PROVE  \E y \in Executors : j \in JobsAt(y)
  <2>1. \/ j = job'[x] \/ j \in ToSet(ready'[x]) \/ j \in ToSet(candidate') \/ j \in ToSet(outbox'[x])
    BY DEF JobsAt, Ahead
  <2>2. CASE j \in ToSet(candidate')
    <3>1. j \in ToSet(candidate) \/ j \in ToSet(outbox[e]) BY <1>3, <1>6, <2>2
    <3> QED BY <3>1 DEF JobsAt, Ahead
  <2>3. CASE j = job'[x] \/ j \in ToSet(ready'[x]) \/ j \in ToSet(outbox'[x])
    <3>1. j = job[x] \/ j \in ToSet(ready[x]) \/ j \in ToSet(outbox[x])
      BY <1>0, <1>4, <1>5, <1>6, <2>3
    <3> QED BY <3>1 DEF JobsAt, Ahead
  <2> QED BY <2>1, <2>2, <2>3
<1>7. Registered' BY <1>4, <1>6, StaysRegistered DEF OrderInv
<1>8. BuildersOut' BY <1>4, <1>5 DEF OrderInv, BuildersOut
<1> QED BY <1>1, <1>7, <1>8 DEF OrderInv

\* The scheduler moves jobs on, and makes none.
LEMMA SchedulerKeepsOrder ==
  ASSUME Inv, OrderInv, NEW e \in Executors, Take(e) \/ Select
  PROVE  OrderInv'
<1>1. TypeOK /\ Steps BY DEF Inv
<1>2. InOrder' /\ \A x \in Executors : Ahead(x)' \subseteq Ahead(x)
  BY <1>1, TakeStaysInOrder, SelectStaysInOrder DEF OrderInv
<1>3. outbox' = outbox /\ known' = known /\ resolved' = resolved
  BY DEF Take, Select, groups
<1>4. \A x \in Executors : \/ job'[x] = job[x] /\ at'[x] = at[x]
                           \/ job[x] = NoJob /\ at'[x] = "run"
  BY <1>1 DEF Take, Select, TypeOK
<1>5. \A x \in Executors : JobsAt(x)' \subseteq JobsAt(x)
  BY <1>2, <1>3 DEF JobsAt
<1>6. Registered' BY <1>3, <1>4, <1>5, StaysRegistered DEF OrderInv
<1>7. BuildersOut'
  <2> SUFFICES ASSUME NEW x \in Executors, NEW j \in ToSet(outbox[x]), j.kind \in {"build", "init"}
               PROVE  job'[x].kind = "group"
    BY <1>3 DEF BuildersOut
  <2>1. job[x].kind = "group" BY DEF OrderInv, BuildersOut
  <2> QED BY <1>4, <2>1, JobsAreJobs
<1> QED BY <1>2, <1>6, <1>7 DEF OrderInv

\* What executors have, or may be dealt, are jobs that are present.
LEMMA JobsAtArePresent ==
  ASSUME TypeOK, Steps, NEW e \in Executors, NEW j \in JobsAt(e), j.kind \notin {"group", "none"}
  PROVE  j \in Present
<1>1. ASSUME NEW q \in Queues, NEW S, Queue[q] \in Seq(S), j \in ToSet(Queue[q]) PROVE j \in Present
  <2>1. PICK k \in DOMAIN Queue[q] : j = Queue[q][k] BY <1>1 DEF ToSet
  <2>2. <<q, k>> \in PlacesIn(Queue) /\ At(Queue, <<q, k>>) = j
    BY <2>1, PlaceFacts DEF At
  <2> QED BY <2>2 DEF Present, JobsIn
<1>2. CASE j = job[e]
  <2>1. j # NoJob BY JobsAreJobs
  <2>2. Queue[Hand(e)] = <<job[e]>> /\ Hand(e) \in Queues
    BY <1>2, <2>1, QueueValues, QueueNames
  <2>3. <<job[e]>> \in Seq({j}) /\ j \in ToSet(<<job[e]>>) BY <1>2 DEF ToSet
  <2> QED BY <1>1, <2>2, <2>3
<1>3. CASE j \in ToSet(ready[e])
  <2>1. Queue[Ready(e)] = ready[e] /\ Ready(e) \in Queues /\ ready[e] \in Seq(AllJobs)
    BY QueueValues, QueueNames DEF TypeOK
  <2> QED BY <1>1, <1>3, <2>1
<1>4. CASE j \in ToSet(candidate)
  <2>1. Queue[Candidates] = candidate /\ Candidates \in Queues /\ candidate \in Seq(AllJobs)
    BY QueueValues, QueueNames DEF TypeOK
  <2> QED BY <1>1, <1>4, <2>1
<1>5. CASE j \in ToSet(outbox[e])
  <2>1. at[e] # "cache"
    <3> SUFFICES ASSUME at[e] = "cache" PROVE FALSE OBVIOUS
    <3>1. outbox[e] = [k \in DOMAIN News(e) |-> ParseGroup(job[e].of, News(e)[k])]
      BY DEF Steps, StepOf
    <3>2. \A k \in DOMAIN outbox[e] : outbox[e][k].kind = "group"
      BY <3>1, JobFields DEF ParseGroup
    <3> QED BY <1>5, <3>2 DEF ToSet
  <2>2. Queue[Outbox(e)] = outbox[e] /\ Outbox(e) \in Queues /\ outbox[e] \in Seq(AllJobs)
    BY <2>1, QueueValues, QueueNames DEF TypeOK
  <2> QED BY <1>1, <1>5, <2>2
<1> QED BY <1>2, <1>3, <1>4, <1>5 DEF JobsAt, Ahead

\* A group that a job waits for, or builds, has been registered.
LEMMA JobsKnowTheirGroups ==
  ASSUME Inv, Registered, NEW e \in Executors, NEW j \in JobsAt(e), NEW i \in Items
  PROVE  /\ WaitsFor(j, i) => KnownItem(i)
         /\ Builds(j, i) => KnownItem(i)
<1>0. TypeOK /\ Steps /\ ItemsHeldBack /\ ItemsCounted BY DEF Inv
<1>1. CASE j.kind = "init" BY <1>1 DEF WaitsFor, Builds, Registered
<1>2. CASE j.kind = "build"
  <2>1. j \in Present BY <1>0, <1>2, JobsAtArePresent
  <2>2. j.of \in StaticItems /\ j \in JobsOf("build", j.of)
    BY <1>0, <1>2, <2>1, PresentAreJobs, FieldsOfJobs DEF Fits, JobsOf
  <2>3. KnownItem(j.of)
    BY <1>0, <2>2 DEF ItemsCounted, ItemsCountedOf, KnownItem
  <2> QED BY <1>2, <2>3 DEF WaitsFor, Builds
<1>3. CASE j.kind = "items"
  <2>1. j \in Present BY <1>0, <1>3, JobsAtArePresent
  <2>2. j.of \in Subs /\ j \in JobsOf("items", j.of) /\ FileOf[j.of] \in Files
    BY <1>0, <1>3, <2>1, PresentAreJobs, FieldsOfJobs, ConstantTypes DEF Fits, JobsOf
  <2>3. Resolved(FileOf[j.of]) BY <1>0, <2>2 DEF ItemsHeldBack
  <2>4. ASSUME NEW r \in RequestsOf(FileOf[j.of]) PROVE KnownItem(ItemOf[r])
    <3>1. PICK k \in DOMAIN Lines[FileOf[j.of]] : r \in ToSet(Lines[FileOf[j.of]][k])
      BY DEF RequestsOf
    <3>2. r \in Requests BY <2>2, <3>1, NamesAreRequests
    <3>3. <<FileOf[j.of], r>> \in resolved BY <2>3 DEF Resolved
    <3> QED BY <2>2, <3>2, <3>3 DEF Registered
  <2> QED BY <1>3, <2>4 DEF WaitsFor, Builds
<1>4. CASE j.kind \notin {"init", "build", "items"}
  BY <1>4 DEF WaitsFor, Builds
<1> QED BY <1>1, <1>2, <1>3, <1>4

\* The steps of jobs that make no jobs.
LEMMA EndActionsKeepOrder ==
  ASSUME Inv, Inv', OrderInv, NEW e \in Executors,
         \/ LoadLayer(e) \/ CopyLoad(e) \/ ParseConditions(e) \/ CopyInfo(e)
         \/ AddElements(e) \/ TestChecked(e) \/ AddChecked(e) \/ ReadTagName(e)
         \/ InitTypeGroup(e) \/ ProcessItems(e) \/ CountFile(e) \/ UNCHANGED vars
  PROVE  OrderInv'
<1>0. TypeOK /\ Steps' BY DEF Inv
<1>1. UNCHANGED <<candidate, ready, outbox, known, resolved>>
  <2>1. CASE LoadLayer(e) \/ CopyLoad(e) \/ ParseConditions(e) \/ CopyInfo(e)
    BY <2>1 DEF LoadLayer, CopyLoad, ParseConditions, CopyInfo, queues, groups
  <2>2. CASE AddElements(e) \/ TestChecked(e) \/ AddChecked(e) \/ ReadTagName(e)
    BY <2>2 DEF AddElements, TestChecked, AddChecked, ReadTagName, queues, groups
  <2>3. CASE InitTypeGroup(e) \/ ProcessItems(e) \/ CountFile(e)
    BY <2>3 DEF InitTypeGroup, ProcessItems, CountFile, queues, groups
  <2>4. CASE UNCHANGED vars BY <2>4 DEF vars, queues, groups
  <2> QED BY <2>1, <2>2, <2>3, <2>4
<1>2. \/ UNCHANGED <<job, at>> \/ JobEnds(e)
      \/ Continue(e, "publish") /\ at[e] = "parse"
      \/ \E label \in {"wait", "check", "count", "complete"} : Continue(e, label)
  <2>1. CASE LoadLayer(e) \/ CopyLoad(e) \/ ParseConditions(e) \/ CopyInfo(e)
    BY <2>1 DEF LoadLayer, CopyLoad, ParseConditions, CopyInfo, InStep
  <2>2. CASE AddElements(e) \/ TestChecked(e) \/ AddChecked(e) \/ ReadTagName(e)
    BY <2>2 DEF AddElements, TestChecked, AddChecked, ReadTagName
  <2>3. CASE InitTypeGroup(e) \/ CountFile(e)
    BY <2>3 DEF InitTypeGroup, CountFile
  <2>4. CASE ProcessItems(e)
    <3>1. \E label \in {"complete"} : Continue(e, label) \/ JobEnds(e)
      BY <2>4 DEF ProcessItems
    <3> QED BY <3>1
  <2>5. CASE UNCHANGED vars BY <2>5 DEF vars
  <2> QED BY <2>1, <2>2, <2>3, <2>4, <2>5
<1>3. \A x \in Executors : /\ job'[x] \in {job[x], NoJob}
                           /\ at'[x] \in {"parse", "publish"} => at[x] \in {"parse", "publish"}
  BY <1>0, <1>2 DEF Continue, JobEnds, TypeOK
<1> QED BY <1>0, <1>1, <1>3, EndsKeepOrder

\* A job that has no newJobs pushes more.
LEMMA PlainPush ==
  ASSUME TypeOK, NEW e \in Executors, outbox[e] = <<>>, NEW more \in Seq(AllJobs),
         candidate' = candidate \o more, ready' = ready, outbox' = outbox,
         job' = job \/ JobEnds(e)
  PROVE  Pushes(e, more)
<1>1. <<>> \o more = more OBVIOUS
<1>2. outbox = [outbox EXCEPT ![e] = <<>>] BY DEF TypeOK
<1> QED BY <1>1, <1>2 DEF Pushes

\* The steps of jobs that push lines, files and saves.
LEMMA PlainPushesKeepOrder ==
  ASSUME Inv, Inv', OrderInv, NEW e \in Executors, PushLines(e) \/ CompleteFile(e) \/ SaveLayer(e)
  PROVE  OrderInv'
<1>0. TypeOK /\ Steps /\ NoneTwice /\ Steps' BY DEF Inv
<1>1. \E kind \in {"file", "items", "save"} : job[e].kind = kind
  BY DEF PushLines, CompleteFile, SaveLayer, InStep
<1>2. outbox[e] = <<>> BY <1>0, <1>1 DEF Steps, StepOf
<1>3. /\ UNCHANGED <<ready, outbox, known, resolved>>
      /\ JobEnds(e) \/ Continue(e, "finish")
  BY DEF PushLines, CompleteFile, SaveLayer, Push, PushNextFile, groups
<1>4. PICK more \in Seq(AllJobs) :
        /\ candidate' = candidate \o more
        /\ \A j \in ToSet(more) : j.kind \in {"lines", "file", "save"}
  <2>1. CASE PushLines(e)
    <3>1. PICK f \in Files : f = job[e].of
      BY <1>0, <2>1, JobInHand DEF PushLines, Fits, JobKinds
    <3>2. Parts(LinesJobs(f), "lines", f, Len(Lines[f])) BY PartsOfLines
    <3>3. LinesJobs(f) \in Seq(AllJobs) /\ \A j \in ToSet(LinesJobs(f)) : j.kind = "lines"
      BY <3>2 DEF Parts, ToSet
    <3>4. candidate' = candidate \o LinesJobs(f)
      BY <2>1, <3>1 DEF PushLines, Push
    <3> QED BY <3>3, <3>4
  <2>2. ASSUME NEW more, more \in Seq(AllJobs), FilesMove(more)
        PROVE  \A j \in ToSet(more) : j.kind \in {"lines", "file", "save"}
    <3>1. parseFiles # <<>> => Head(parseFiles) \in {ParseFile(f) : f \in Files}
      BY <1>0, WaitingFiles
    <3>2. \A f \in Files : ParseFile(f).kind = "file"
      BY JobFields DEF ParseFile
    <3> QED BY <2>2, <3>1, <3>2 DEF FilesMove
  <2>3. CASE PushNextFile
    <3>1. PICK more : more = IF parseFiles = <<>> THEN <<>> ELSE <<Head(parseFiles)>>
      OBVIOUS
    <3>2. more \in Seq(AllJobs) /\ FilesMove(more) /\ candidate' = candidate \o more
      BY <1>0, <2>3, <3>1, NextFile DEF PushNextFile, Push
    <3> QED BY <2>2, <3>2
  <2>4. CASE CompleteFile(e) /\ ~PushNextFile
    <3>1. job[e].of \in Subs
      BY <1>0, <2>4, JobInHand DEF CompleteFile, Fits, JobKinds
    <3>2. PICK more : more = <<Save(job[e].of)>> OBVIOUS
    <3>3. parseFiles' = parseFiles /\ candidate' = candidate \o more
      BY <2>4, <3>2 DEF CompleteFile, Push
    <3>4. more \in Seq(AllJobs) /\ FilesMove(more)
      BY <1>0, <3>1, <3>2, <3>3, SaveIsMade
    <3> QED BY <2>2, <3>3, <3>4
  <2> QED BY <2>1, <2>3, <2>4 DEF SaveLayer
<1>5. job' = job \/ JobEnds(e) BY <1>3 DEF Continue
<1>6. Pushes(e, more) BY <1>0, <1>2, <1>3, <1>4, <1>5, PlainPush
<1>7. \A x \in Executors : Clear(ToSet(more), ToSet(outbox[x]))
  <2>1. \A j \in ToSet(more), i \in Items : ~WaitsFor(j, i)
    BY <1>4 DEF WaitsFor
  <2> QED BY <2>1 DEF Clear
<1>8. (\A x \in Executors \ {e} : at'[x] = at[x]) /\ at'[e] \notin {"parse", "publish"}
  BY <1>0, <1>3 DEF Continue, JobEnds, TypeOK
<1> QED BY <1>0, <1>3, <1>4, <1>6, <1>7, <1>8, PushKeepsOrder

\* The groups that lines name are pushed, or the items of the cache with them.
LEMMA PushParsedKeepsOrder ==
  ASSUME Inv, Inv', OrderInv, NEW e \in Executors, PushParsed(e)
  PROVE  OrderInv'
<1>0. TypeOK /\ Steps /\ Steps' BY DEF Inv
<1>1. /\ candidate' = candidate \o outbox[e] /\ outbox' = [outbox EXCEPT ![e] = <<>>]
      /\ ready' = ready /\ JobEnds(e) /\ UNCHANGED <<known, resolved>>
  BY DEF PushParsed, Push, groups
<1>2. outbox[e] \o <<>> = outbox[e] /\ <<>> \in Seq(AllJobs) /\ ToSet(<<>>) = {}
  BY <1>0 DEF TypeOK, ToSet
<1>3. Pushes(e, <<>>) BY <1>1, <1>2 DEF Pushes
<1>4. (\A x \in Executors \ {e} : at'[x] = at[x]) /\ at'[e] \notin {"parse", "publish"}
  BY <1>0, <1>1 DEF JobEnds, TypeOK
<1>5. \A S : Clear({}, S) BY DEF Clear
<1> QED BY <1>0, <1>1, <1>2, <1>3, <1>4, <1>5, PushKeepsOrder

\* An executor that parses a group is counted, and the last is alone.
LEMMA ParsersAreCounted ==
  ASSUME TypeOK, GroupsCounted, NEW x \in Executors, job[x].kind = "group"
  PROVE  /\ groupJobs # 0
         /\ groupJobs = 1 => \A e \in Executors \ {x} : job[e].kind # "group"
<1>1. ASSUME NEW e \in Executors, job[e].kind = "group"
      PROVE  <<Hand(e), 1>> \in GroupsIn(Queue)
  <2>1. job[e] # NoJob BY <1>1, JobsAreJobs
  <2>2. Queue[Hand(e)] = <<job[e]>> /\ Hand(e) \in Queues
    BY <2>1, QueueValues, QueueNames
  <2>3. DOMAIN Queue[Hand(e)] = {1} /\ Queue[Hand(e)][1] = job[e] BY <2>2
  <2>4. <<Hand(e), 1>> \in PlacesIn(Queue) /\ At(Queue, <<Hand(e), 1>>) = job[e]
    BY <2>2, <2>3, PlaceFacts DEF At
  <2> QED BY <1>1, <2>4 DEF GroupsIn
<1>2. <<Hand(x), 1>> \in GroupsIn(Queue) BY <1>1
<1>3. groupJobs = Cardinality(GroupsIn(Queue)) /\ IsFiniteSet(GroupsIn(Queue))
  BY DEF GroupsCounted
<1>4. groupJobs # 0 BY <1>2, <1>3, FS_EmptySet
<1>5. ASSUME groupJobs = 1, NEW e \in Executors \ {x}, job[e].kind = "group" PROVE FALSE
  <2>1. PICK p : GroupsIn(Queue) = {p} BY <1>3, <1>5, FS_Singleton
  <2>2. <<Hand(e), 1>> \in GroupsIn(Queue) BY <1>1, <1>5
  <2>3. Hand(e) # Hand(x) BY <1>5, QueueNames
  <2> QED BY <1>2, <2>1, <2>2, <2>3
<1> QED BY <1>4, <1>5

\* The pointer of a group is set, and the last group releases the cache: by then no
\* other executor has jobs that build a group left to push.
LEMMA PublishGroupKeepsOrder ==
  ASSUME Inv, Inv', OrderInv, NEW e \in Executors, PublishGroup(e)
  PROVE  OrderInv'
<1>0. TypeOK /\ Steps /\ GroupsCounted /\ Steps' BY DEF Inv
<1>1. InStep(e, "group", "publish") /\ JobEnds(e) BY DEF PublishGroup
<1>2. PICK f \in Files, r \in Requests : Parsing(e, "publish", f, r)
  BY <1>0, <1>1, GroupInHand
<1>3. f = job[e].of /\ r = job[e].from /\ job[e].kind = "group" /\ at[e] = "publish"
  BY <1>2 DEF Parsing
<1> DEFINE more == IF groupJobs = 1 THEN FlattenSeq(cache) ELSE <<>>
<1>4. /\ resolved' = resolved \cup {<<f, r>>}
      /\ candidate' = candidate \o (outbox[e] \o more)
      /\ outbox' = [outbox EXCEPT ![e] = <<>>]
      /\ UNCHANGED <<ready, known>>
  BY <1>3 DEF PublishGroup, LastGroup, ReleasedBy, Push
<1>5. /\ more \in Seq(AllJobs)
      /\ \A j \in ToSet(more) : groupJobs = 1 /\ j.kind = "items"
  <2>1. CASE groupJobs = 1
    <3>1. cache \in [Subs -> Seq(AllJobs)] /\ \A s \in Subs : cache[s] \in Seq(ItemsOf(s))
      BY <1>0 DEF TypeOK
    <3> QED BY <2>1, <3>1, Cached
  <2>2. CASE groupJobs # 1 BY <2>2 DEF ToSet
  <2> QED BY <2>1, <2>2
<1> HIDE DEF more
<1>6. Pushes(e, more) BY <1>1, <1>4 DEF Pushes
<1>7. ASSUME NEW x \in Executors \ {e} PROVE Clear(ToSet(more), ToSet(outbox[x]))
  <2>1. CASE groupJobs = 1
    <3>1. job[x].kind # "group" BY <1>0, <1>3, <2>1, ParsersAreCounted
    <3>2. \A j \in ToSet(outbox[x]) : j.kind # "build"
      BY <3>1 DEF OrderInv, BuildersOut
    <3> QED BY <3>2, ClearOfOthers
  <2>2. CASE groupJobs # 1 BY <1>5, <2>2 DEF Clear
  <2> QED BY <2>1, <2>2
<1>8. (\A x \in Executors \ {e} : at'[x] = at[x]) /\ at'[e] \notin {"parse", "publish"}
  BY <1>0, <1>1 DEF JobEnds, TypeOK
<1>9. KnownItem(ItemOf[r]) BY <1>3 DEF OrderInv, Registered
<1>10. \A g \in Files, u \in Requests :
         <<g, u>> \in resolved' => <<g, u>> \in resolved \/ KnownItem(ItemOf[u])
  BY <1>4, <1>9
<1> QED BY <1>0, <1>4, <1>5, <1>6, <1>7, <1>8, <1>10, PushKeepsOrder

\* The newJobs of a ParseConfigLines job: groups, or items when no group is being
\* parsed.
LEMMA LinesOutboxKeepsOrder ==
  ASSUME TypeOK, OrderInv, NEW e \in Executors, NEW more, NEW label \in {"cache", "push"},
         outbox' = [outbox EXCEPT ![e] = more], UNCHANGED <<candidate, ready, known, resolved>>,
         Continue(e, label), \A j \in ToSet(more) : j.kind \in {"group", "items"},
         \/ \A j \in ToSet(more) : j.kind = "group"
         \/ \A x \in Executors : job[x].kind # "group"
  PROVE  OrderInv'
<1>1. job' = job /\ outbox'[e] = more /\ \A x \in Executors \ {e} : outbox'[x] = outbox[x]
  BY DEF Continue, TypeOK
<1>2. \A S : Clear(S, ToSet(more)) BY ClearOfOthers
<1>3. Ordered(more)
  <2>1. \A m \in DOMAIN more : more[m].kind # "build" BY DEF ToSet
  <2> QED BY <2>1 DEF Ordered, Clear, Builds
<1>4. ASSUME NEW x \in Executors PROVE Clear(ToSet(more), ToSet(outbox[x]))
  <2>1. CASE \A j \in ToSet(more) : j.kind = "group"
    BY <2>1 DEF Clear, WaitsFor
  <2>2. CASE \A y \in Executors : job[y].kind # "group"
    <3>1. \A j \in ToSet(outbox[x]) : j.kind # "build"
      BY <2>2 DEF OrderInv, BuildersOut
    <3> QED BY <3>1, ClearOfOthers
  <2> QED BY <2>1, <2>2
<1>5. InOrder' BY <1>1, <1>2, <1>3, <1>4, OutboxStaysInOrder DEF OrderInv
<1>6. \A x \in Executors : \A j \in JobsAt(x)' : j.kind = "init" => j \in JobsAt(x)
  BY <1>1 DEF JobsAt, Ahead
<1>7. \A x \in Executors : at'[x] \in {"parse", "publish"} => at[x] \in {"parse", "publish"}
  BY DEF Continue, TypeOK
<1>8. Registered' BY <1>1, <1>6, <1>7, StaysRegistered DEF OrderInv
<1>9. BuildersOut' BY <1>1 DEF OrderInv, BuildersOut
<1> QED BY <1>5, <1>8, <1>9 DEF OrderInv

\* Lines are parsed and counted.
LEMMA LinesKeepOrder ==
  ASSUME Inv, Inv', OrderInv, NEW e \in Executors, ParseLines(e) \/ CacheItems(e)
  PROVE  OrderInv'
<1>0. TypeOK /\ Steps /\ GroupsCounted BY DEF Inv
<1>1. CASE ParseLines(e)
  <2> DEFINE more == [k \in DOMAIN News(e) |-> ParseGroup(job[e].of, News(e)[k])]
  <2>1. \A j \in ToSet(more) : j.kind = "group"
    BY JobFields DEF ToSet, ParseGroup
  <2>2. outbox' = [outbox EXCEPT ![e] = more] BY <1>1 DEF ParseLines
  <2>3. /\ UNCHANGED <<candidate, ready, known, resolved>> /\ Continue(e, "cache")
    BY <1>1 DEF ParseLines, queues, groups
  <2> HIDE DEF more
  <2> QED BY <1>0, <2>1, <2>2, <2>3, LinesOutboxKeepsOrder
<1>2. CASE CacheItems(e)
  <2>1. PICK f \in Files : f = job[e].of
    BY <1>0, <1>2, JobInHand DEF CacheItems, Fits, JobKinds
  <2>2. PICK filled \in [Subs -> Seq(AllJobs)], more \in Seq(AllJobs) : CountedBy(e, f, filled, more)
    BY <1>2, <2>1, CacheItemsQueues
  <2>3. /\ outbox' = [outbox EXCEPT ![e] = more]
        /\ \A s \in Subs : filled[s] \in Seq(ItemsOf(s))
        /\ ToSet(more) = ToSet(outbox[e]) \cup (IF Releases(e) THEN ToSet(FlattenSeq(filled)) ELSE {})
        /\ \A j \in ToSet(outbox[e]) : j.kind = "group"
    BY <2>2 DEF CountedBy
  <2>4. \A j \in ToSet(FlattenSeq(filled)) : j.kind = "items" BY <2>3, Cached
  <2>5. \A j \in ToSet(more) : j.kind \in {"group", "items"} BY <2>3, <2>4
  <2>6. UNCHANGED <<candidate, ready, known, resolved>> /\ Continue(e, "push")
    BY <1>2 DEF CacheItems, queues, groups
  <2>7. \/ \A j \in ToSet(more) : j.kind = "group"
        \/ \A x \in Executors : job[x].kind # "group"
    <3>1. CASE Releases(e)
      <4>1. outbox[e] \in Seq(AllJobs) /\ groupJobs \in Nat
        BY <1>0, FS_CardinalityType DEF TypeOK, GroupsCounted
      <4>2. groupJobs = 0 BY <3>1, <4>1, LenProperties DEF Releases
      <4> QED BY <1>0, <4>2, ParsersAreCounted
    <3>2. CASE ~Releases(e) BY <2>3, <3>2
    <3> QED BY <3>1, <3>2
  <2> QED BY <1>0, <2>3, <2>5, <2>6, <2>7, LinesOutboxKeepsOrder
<1> QED BY <1>1, <1>2


\* A group that is registered with its type: if it has one tag, the one of all groups
\* over its items.
LEMMA RegisteredAgain ==
  ASSUME Registered, NEW e \in Executors, NEW r \in Requests, r = job[e].from,
         known' = known \cup {<<"item", ItemOf[r]>>}
                        \cup (IF Dynamic(r) THEN {} ELSE {<<"type", TypeOf[r]>>}),
         job' = job, resolved' = resolved, \A x \in Executors \ {e} : at'[x] = at[x],
         \A x \in Executors : \A j \in JobsAt(x)' :
           j.kind = "init" => KnownItem(j.of) \/ j.of = ItemOf[r]
  PROVE  Registered'
<1>1. known \subseteq known' /\ <<"item", ItemOf[r]>> \in known' OBVIOUS
<1>2. \A g \in Files, u \in Requests : <<g, u>> \in resolved' => <<"item", ItemOf[u]>> \in known'
  BY <1>1 DEF Registered, KnownItem
<1>3. \A x \in Executors : job'[x].kind = "group" /\ at'[x] \in {"parse", "publish"}
                             => <<"item", ItemOf[job'[x].from]>> \in known'
  BY <1>1 DEF Registered, KnownItem
<1>4. \A x \in Executors : \A j \in JobsAt(x)' : j.kind = "init" => <<"item", j.of>> \in known'
  BY <1>1 DEF KnownItem
<1>5. ASSUME NEW u \in Statics, OneTag(ItemOf[u]), <<"item", ItemOf[u]>> \in known'
      PROVE  <<"type", TypeOf[u]>> \in known'
  <2>1. CASE <<"item", ItemOf[u]>> \in known
    BY <1>1, <1>5, <2>1 DEF Registered, KnownItem
  <2>2. CASE <<"item", ItemOf[u]>> \notin known
    <3>1. <<"item", ItemOf[u]>> = <<"item", ItemOf[r]>>
      <4>1. "type" # "item" OBVIOUS
      <4> QED BY <1>5, <2>2, <4>1
    <3>2. u \in Requests /\ ~Dynamic(u) /\ ItemOf[u] = ItemOf[r]
      BY <3>1 DEF Statics
    <3>3. ~Dynamic(r) /\ TypeOf[u] = TypeOf[r]
      BY <1>5, <3>2, KeysAssumption DEF OneTag
    <3> QED BY <3>3
  <2> QED BY <2>1, <2>2
<1> QED BY <1>2, <1>3, <1>4, <1>5 DEF Registered, KnownItem

\* The jobs of a new group: the last waits for those before it.
LEMMA NewGroupInOrder ==
  ASSUME NEW r \in Statics
  PROVE  LET more == NewGroupJobs(ItemOf[r], TypeOf[r])
         IN  /\ Ordered(more)
             /\ \A j \in ToSet(more) : j.kind \in {"build", "init"} /\ j.of = ItemOf[r]
<1> DEFINE i == ItemOf[r]
           last == InitType(i, TypeOf[r])
           builds == BuildJobs(i)
           more == Append(builds, last)
<1>1. Parts(builds, "build", i, Size[Plugin[i]])
  <2>1. i \in StaticItems BY DEF StaticItems
  <2> QED BY <2>1, PartsOfGroup
<1>2. /\ builds \in Seq(AllJobs) /\ DOMAIN builds = 1 .. Len(builds) /\ Len(builds) \in Nat
      /\ \A k \in 1 .. Len(builds) : builds[k].kind = "build" /\ builds[k].of = i
  <2>1. builds \in Seq(AllJobs) /\ \A k \in DOMAIN builds : builds[k].kind = "build" /\ builds[k].of = i
    BY <1>1 DEF Parts
  <2> QED BY <2>1, LenProperties
<1>3. last \in AllJobs /\ last.kind = "init" /\ last.of = i
  BY JobsAreJobs, JobFields DEF InitType
<1> HIDE DEF builds, last, i
<1>4. /\ DOMAIN more = 1 .. Len(builds) + 1
      /\ \A k \in 1 .. Len(builds) : more[k] = builds[k]
      /\ more[Len(builds) + 1] = last
  BY <1>2, <1>3
<1> HIDE DEF more
<1>5. \A j \in ToSet(more) : j.kind \in {"build", "init"} /\ j.of = i
  <2>1. \A k \in DOMAIN more : more[k].kind \in {"build", "init"} /\ more[k].of = i
    BY <1>2, <1>3, <1>4
  <2> QED BY <2>1 DEF ToSet
<1>6. \A k, m \in DOMAIN more : k < m => more[k].kind = "build" BY <1>2, <1>4
<1>7. Ordered(more) BY <1>6 DEF Ordered, Clear, WaitsFor
<1> QED BY <1>5, <1>7 DEF more, builds, last, i, NewGroupJobs

\* A group that is parsed is registered.  Its jobs are made when no job waits for it
\* and none builds it, or only the init job of a second tag is.
LEMMA FindInsertGroupKeepsOrder ==
  ASSUME Inv, Inv', OrderInv, NEW e \in Executors, FindInsertGroup(e)
  PROVE  OrderInv'
<1>0. TypeOK /\ Steps /\ TypesFollowItems /\ InOrder /\ Registered /\ BuildersOut
  BY DEF Inv, OrderInv
<1>1. PICK f \in Files, r \in Requests : Parsing(e, "run", f, r)
  BY <1>0, GroupInHand DEF FindInsertGroup
<1>2. f = job[e].of /\ r = job[e].from /\ job[e].kind = "group" /\ at[e] = "run"
  BY <1>1 DEF Parsing
<1> DEFINE i == ItemOf[r]
           t == TypeOf[r]
           new == ~Dynamic(r) /\ <<"type", t>> \notin known
<1>3. outbox[e] = <<>> BY <1>0, <1>2 DEF Steps, StepOf
<1>4. /\ known' = known \cup {<<"item", i>>} \cup (IF Dynamic(r) THEN {} ELSE {<<"type", t>>})
      /\ job' = job /\ UNCHANGED <<candidate, ready, resolved>>
      /\ outbox' = [outbox EXCEPT ![e] = IF Dynamic(r) \/ <<"type", t>> \in known THEN <<>>
                                         ELSE IF <<"item", i>> \in known THEN <<InitType(i, t)>>
                                         ELSE NewGroupJobs(i, t)]
      /\ \A x \in Executors \ {e} : at'[x] = at[x]
  BY <1>0, <1>2 DEF FindInsertGroup, Continue, TypeOK, queues
<1>5. \/ ~KnownItem(i) /\ r \in Statics /\ outbox' = [outbox EXCEPT ![e] = NewGroupJobs(i, t)]
      \/ ~OneTag(i) /\ outbox' = [outbox EXCEPT ![e] = <<InitType(i, t)>>]
      \/ outbox' = outbox
  <2>1. CASE ~new
    <3>1. outbox' = [outbox EXCEPT ![e] = <<>>] BY <1>4, <2>1
    <3> QED BY <1>0, <1>3, <3>1 DEF TypeOK
  <2>2. CASE new
    <3>1. r \in Statics BY <2>2 DEF Statics
    <3>2. ~KnownItem(i) \/ ~OneTag(i) BY <1>0, <2>2, <3>1 DEF Registered
    <3> QED BY <1>4, <2>2, <3>1, <3>2 DEF KnownItem
  <2> QED BY <2>1, <2>2
<1> HIDE DEF new
<1>6. CASE outbox' = outbox
  <2>1. InOrder' BY <1>0, <1>4, <1>6 DEF InOrder, Ahead
  <2>2. BuildersOut' BY <1>0, <1>4, <1>6 DEF BuildersOut
  <2>3. \A x \in Executors : \A j \in JobsAt(x)' : j.kind = "init" => KnownItem(j.of)
    BY <1>0, <1>4, <1>6 DEF Registered, JobsAt, Ahead
  <2> QED BY <1>0, <1>2, <1>4, <2>1, <2>2, <2>3, RegisteredAgain DEF OrderInv
<1>7. CASE ~KnownItem(i) /\ r \in Statics /\ outbox' = [outbox EXCEPT ![e] = NewGroupJobs(i, t)]
  <2> DEFINE more == NewGroupJobs(i, t)
  <2>1. Ordered(more) /\ \A j \in ToSet(more) : j.kind \in {"build", "init"} /\ j.of = i
    BY <1>7, NewGroupInOrder
  <2> HIDE DEF more
  <2>2. ASSUME NEW x \in Executors, NEW j \in JobsAt(x) PROVE ~WaitsFor(j, i) /\ ~Builds(j, i)
    <3>1. i \in Items BY <1>1 DEF Parsing
    <3> QED BY <1>0, <1>7, <2>2, <3>1, JobsKnowTheirGroups
  <2>3. \A x \in Executors : Clear(JobsAt(x), ToSet(more))
    BY <2>1, <2>2 DEF Clear, Builds
  <2>4. \A x \in Executors : Clear(ToSet(more), ToSet(outbox[x]))
    <3>1. \A w \in ToSet(more), y \in Items : WaitsFor(w, y) => y = i
      BY <2>1 DEF WaitsFor
    <3> QED BY <2>2, <3>1 DEF Clear, JobsAt
  <2>5. InOrder'
    <3>1. \A x \in Executors : Clear(Ahead(x), ToSet(more)) /\ Clear(ToSet(outbox[x]), ToSet(more))
      BY <2>3 DEF JobsAt, Clear
    <3> QED BY <1>0, <1>4, <1>7, <2>1, <2>4, <3>1, OutboxStaysInOrder DEF more
  <2>6. outbox'[e] = more /\ \A x \in Executors \ {e} : outbox'[x] = outbox[x]
    BY <1>0, <1>7 DEF TypeOK, more
  <2>7. BuildersOut' BY <1>0, <1>2, <1>4, <2>6 DEF BuildersOut
  <2>8. \A x \in Executors : \A j \in JobsAt(x)' : j.kind = "init" => KnownItem(j.of) \/ j.of = i
    <3> TAKE x \in Executors
    <3>1. \A j \in JobsAt(x)' : j \in JobsAt(x) \/ j \in ToSet(more)
      BY <1>4, <2>6 DEF JobsAt, Ahead
    <3> QED BY <1>0, <2>1, <3>1 DEF Registered
  <2> QED BY <1>0, <1>2, <1>4, <2>5, <2>7, <2>8, RegisteredAgain DEF OrderInv
<1>8. CASE ~OneTag(i) /\ outbox' = [outbox EXCEPT ![e] = <<InitType(i, t)>>]
  <2> DEFINE more == <<InitType(i, t)>>
  <2>1. \A j \in ToSet(more) : j.kind = "init" /\ j.of = i
    BY JobFields DEF ToSet, InitType
  <2>2. Ordered(more)
    <3>1. \A k, m \in DOMAIN more : ~(k < m) OBVIOUS
    <3> QED BY <3>1 DEF Ordered
  <2> HIDE DEF more
  <2>3. \A S : Clear(S, ToSet(more)) BY <2>1, ClearOfOthers
  <2>4. \A S : Clear(ToSet(more), S) BY <1>8, <2>1 DEF Clear, SecondTag
  <2>5. InOrder' BY <1>0, <1>4, <1>8, <2>2, <2>3, <2>4, OutboxStaysInOrder DEF more
  <2>6. outbox'[e] = more /\ \A x \in Executors \ {e} : outbox'[x] = outbox[x]
    BY <1>0, <1>8 DEF TypeOK, more
  <2>7. BuildersOut' BY <1>0, <1>2, <1>4, <2>6 DEF BuildersOut
  <2>8. \A x \in Executors : \A j \in JobsAt(x)' : j.kind = "init" => KnownItem(j.of) \/ j.of = i
    <3> TAKE x \in Executors
    <3>1. \A j \in JobsAt(x)' : j \in JobsAt(x) \/ j \in ToSet(more)
      BY <1>4, <2>6 DEF JobsAt, Ahead
    <3> QED BY <1>0, <2>1, <3>1 DEF Registered
  <2> QED BY <1>0, <1>2, <1>4, <2>5, <2>7, <2>8, RegisteredAgain DEF OrderInv
<1> QED BY <1>5, <1>6, <1>7, <1>8

\* At first no group is registered, and no job waits for one.
LEMMA InitOrder ==
  ASSUME Init
  PROVE  OrderInv
<1>1. /\ candidate \in Seq(AllJobs) /\ \A k \in DOMAIN candidate : candidate[k].kind \in {"load", "file"}
      /\ ready = [e \in Executors |-> <<>>] /\ outbox = [e \in Executors |-> <<>>]
      /\ job = [e \in Executors |-> NoJob] /\ at = [e \in Executors |-> "idle"]
      /\ known = {} /\ resolved = {}
  BY FirstJobs DEF Init
<1>2. ToSet(<<>>) = {} /\ Ordered(<<>>) /\ NoJob.kind = "none"
  BY JobsAreJobs DEF ToSet, Ordered
<1>3. \A j \in ToSet(candidate) : j.kind \in {"load", "file"} BY <1>1 DEF ToSet
<1>4. Ordered(candidate) BY <1>1 DEF Ordered, Clear, Builds
<1>5. \A e \in Executors : ToSet(ready[e]) = {} /\ ToSet(outbox[e]) = {} /\ job[e].kind = "none"
  BY <1>1, <1>2
<1>6. \A S : Clear(S, {}) /\ Clear(S, ToSet(candidate))
  BY <1>3 DEF Clear, Builds
<1>7. InOrder BY <1>1, <1>2, <1>4, <1>5, <1>6 DEF InOrder
<1>8. Registered
  <2>1. \A r \in Requests : ~KnownItem(ItemOf[r]) BY <1>1 DEF KnownItem
  <2>2. \A e \in Executors : \A j \in JobsAt(e) : j.kind # "init"
    BY <1>3, <1>5 DEF JobsAt, Ahead
  <2> QED BY <1>1, <1>5, <2>1, <2>2 DEF Registered, Statics
<1>9. BuildersOut BY <1>5 DEF BuildersOut
<1> QED BY <1>7, <1>8, <1>9 DEF OrderInv

\* Every step keeps the order.
LEMMA NextKeepsOrder ==
  ASSUME Inv, OrderInv, [Next]_vars
  PROVE  OrderInv'
<1>0. Inv' /\ 0 \in Executors BY NextKeepsInv, ConstantTypes DEF Executors
<1>1. CASE Select BY <1>0, <1>1, SchedulerKeepsOrder
<1>2. ASSUME NEW e \in Executors, Take(e) PROVE OrderInv'
  BY <1>2, SchedulerKeepsOrder
<1>3. ASSUME NEW e \in Executors, Step(e) PROVE OrderInv'
  <2>1. CASE \/ LoadLayer(e) \/ CopyLoad(e) \/ ParseConditions(e) \/ CopyInfo(e)
             \/ AddElements(e) \/ TestChecked(e) \/ AddChecked(e) \/ ReadTagName(e)
             \/ InitTypeGroup(e) \/ ProcessItems(e) \/ CountFile(e)
    BY <1>0, <2>1, EndActionsKeepOrder
  <2>2. CASE PushLines(e) \/ CompleteFile(e) \/ SaveLayer(e)
    BY <1>0, <2>2, PlainPushesKeepOrder
  <2>3. CASE ParseLines(e) \/ CacheItems(e) \/ PushParsed(e)
    BY <1>0, <2>3, LinesKeepOrder, PushParsedKeepsOrder
  <2>4. CASE FindInsertGroup(e) \/ PublishGroup(e)
    BY <1>0, <2>4, FindInsertGroupKeepsOrder, PublishGroupKeepsOrder
  <2> QED BY <1>3, <2>1, <2>2, <2>3, <2>4 DEF Step
<1>4. CASE UNCHANGED vars BY <1>0, <1>4, EndActionsKeepOrder
<1> QED BY <1>1, <1>2, <1>3, <1>4 DEF Next, Finished

\* No executor is held up by a job whose group is still to be built by a job that
\* lies behind it, among the candidates or in somebody's newJobs: jobCache_ keeps the
\* items back until the last group has pushed its jobs (ResourcePool.h:144,
\* ExecutorJobFunc.cpp:230-266), and a group's own jobs are pushed in their order, in
\* both modes and however the queues are dealt.  The init jobs of a group that is named
\* with two tags are the exception.
THEOREM BuildersComeFirst == Spec => []NoBuilderBehind
<1>1. Init => Inv /\ OrderInv BY InitInv, InitOrder
<1>2. Inv /\ OrderInv /\ [Next]_vars => (Inv /\ OrderInv)'
  BY NextKeepsInv, NextKeepsOrder
<1>3. OrderInv => NoBuilderBehind
  <2> SUFFICES ASSUME InOrder, NEW e \in Executors, NEW i \in Items, WaitsFor(job[e], i),
                      ~SecondTag(job[e]), NEW j \in Pending(e)
               PROVE  ~Builds(j, i)
    BY DEF OrderInv, NoBuilderBehind
  <2>1. CASE j \in ToSet(ready[e]) \cup ToSet(candidate)
    BY <2>1 DEF InOrder, Clear
  <2>2. ASSUME NEW x \in Executors, j \in ToSet(outbox[x]) PROVE ~Builds(j, i)
    BY <2>2 DEF InOrder, Clear, Ahead
  <2> QED BY <2>1, <2>2 DEF Pending
<1> QED BY <1>1, <1>2, <1>3, PTL DEF Spec

-----------------------------------------------------------------------------
(* What is deleted is not used any more, with the exceptions that are known. *)

\* The executor that has just registered group i has yet to parse its conditions.
ParsedBy(e, i) == job[e].kind = "group" /\ at[e] = "parse" /\ ItemOf[job[e].from] = i

\* The jobs of a group, and those that it is parsed by, have its GroupInfo.
Makes(j) == j.kind \in {"build", "init"} /\ ~SecondTag(j)
InfoOfJobs ==
  \A j \in Present : Makes(j) =>
    info[j.of] # "none" \/ \E e \in Executors : ParsedBy(e, j.of) /\ j \in ToSet(outbox[e])
InfoOfKnown ==
  \A i \in Items : KnownItem(i) => info[i] # "none" \/ \E e \in Executors : ParsedBy(e, i)
InfoOfParsed == \A i \in parseDone : info[i] # "none"
InfoOfItems ==
  \A s \in Subs : JobsOf("items", s) # {} =>
    \A r \in RequestsOf(FileOf[s]) : info[ItemOf[r]] # "none"

\* A type group deletes it when all items have been looked at and, of a group with one
\* tag, no other type is made.
InfoKept ==
  /\ \A i \in Items : info[i] = "deleted" =>
       i \in StaticItems \cap itemReady /\ (OneTag(i) => JobsOf("init", i) = {})
  /\ \A i \in StaticItems \cap itemReady : JobsOf("build", i) \subseteq InHand({"count"})

\* A file whose lines are parsed at once, or name no group, keeps its layers until
\* its lines and its groups have been parsed.
Simple(f) == ~(Len(LinesJobs(f)) > 1 /\ RequestsOf(f) # {})
SourceKept(f) ==
  /\ srcLayers[f] = "deleted" => Parsed(f) /\ JobsOf("group", f) = {}
  /\ JobsOf("group", f) # {} => Parsed(f)
SourcesKept == \A f \in Files : Simple(f) => SourceKept(f)

LateTypes ==
  /\ info \in [Items -> {"none", "live", "deleted"}] /\ parseDone \subseteq Items
  /\ srcLayers \in [Files -> {"live", "deleted"}]

KeepsInv ==
  /\ LateTypes /\ InfoOfJobs /\ InfoOfKnown /\ InfoOfParsed /\ InfoOfItems
  /\ InfoKept /\ SourcesKept
LateInv == KeepsInv /\ LateUsesAreKnown

\* The groups that are being parsed, the files that have been, and the jobs that
\* count their items, which most steps leave as they are.
ParsersStay ==
  \A x \in Executors : job[x].kind = "group" /\ at[x] = "parse" =>
    job'[x] = job[x] /\ at'[x] = "parse" /\ outbox'[x] = outbox[x]
FilesStayParsed == \A f \in Files : Parsed(f) => Parsed(f)'
CountersStay ==
  \A j \in Present' : j \in InHand({"count"}) => j \in InHand({"count"})'
Calm(kinds) == Comes(kinds) /\ ParsersStay /\ FilesStayParsed /\ CountersStay

\* The jobs that build a static group or make a type of it.
LEMMA MakersHaveItems ==
  ASSUME TypeOK, NEW j \in Present, j.kind \in {"build", "init"}
  PROVE  j.of \in StaticItems /\ j.of \in Items
<1>1. Fits(j) BY PresentAreJobs, FieldsOfJobs
<1>2. j.of \in StaticItems
  <2>1. ASSUME NEW r \in Statics, j = InitType(ItemOf[r], TypeOf[r]) PROVE j.of \in StaticItems
    BY <2>1, JobFields DEF StaticItems, InitType
  <2> QED BY <1>1, <2>1 DEF Fits
<1> QED BY <1>2, ConstantTypes

\* The lines of a file name groups.
LEMMA NamedItems ==
  \A f \in Files : RequestsOf(f) \subseteq Requests /\ \A r \in RequestsOf(f) : ItemOf[r] \in Items
<1>1. ItemOf \in [Requests -> Items] BY ScenarioAssumption
<1>2. \A f \in Files : RequestsOf(f) \subseteq Requests
  BY NamesAreRequests DEF RequestsOf
<1> QED BY <1>1, <1>2

\* A step that makes jobs and registers groups only where GroupInfo is at hand, or an
\* executor that is about to make it.
LEMMA InfoMoves ==
  ASSUME TypeOK, InfoOfJobs, InfoOfKnown, InfoOfParsed, InfoOfItems, parseDone \subseteq Items,
         \A i \in Items : info[i] # "none" => info'[i] # "none",
         \A x \in Executors, i \in Items :
           ParsedBy(x, i) => (ParsedBy(x, i)' /\ outbox'[x] = outbox[x]) \/ info'[i] # "none",
         \A j \in Present' : Makes(j) =>
           \/ j \in Present \/ info'[j.of] # "none"
           \/ \E e \in Executors : ParsedBy(e, j.of)' /\ j \in ToSet(outbox'[e]),
         \A i \in Items : KnownItem(i)' =>
           KnownItem(i) \/ info'[i] # "none" \/ \E e \in Executors : ParsedBy(e, i)',
         \A i \in parseDone' : i \in parseDone \/ info'[i] # "none",
         \A s \in Subs : JobsOf("items", s)' # {} =>
           \/ JobsOf("items", s) # {}
           \/ \A r \in RequestsOf(FileOf[s]) : info'[ItemOf[r]] # "none"
  PROVE  InfoOfJobs' /\ InfoOfKnown' /\ InfoOfParsed' /\ InfoOfItems'
<1>1. InfoOfJobs'
  <2> SUFFICES ASSUME NEW j \in Present', Makes(j)
               PROVE  info'[j.of] # "none"
                        \/ \E e \in Executors : ParsedBy(e, j.of)' /\ j \in ToSet(outbox'[e])
    BY DEF InfoOfJobs, ToSet, ParsedBy, Makes, SecondTag, OneTag, Dynamic
  <2>1. CASE j \in Present
    <3>1. j.of \in Items BY <2>1, MakersHaveItems DEF Makes
    <3> QED BY <2>1, <3>1 DEF InfoOfJobs
  <2> QED BY <2>1
<1>2. InfoOfKnown'
  <2> SUFFICES ASSUME NEW i \in Items, KnownItem(i)'
               PROVE  info'[i] # "none" \/ \E e \in Executors : ParsedBy(e, i)'
    BY DEF InfoOfKnown, KnownItem, ParsedBy
  <2> QED BY DEF InfoOfKnown
<1>3. InfoOfParsed' BY DEF InfoOfParsed
<1>4. InfoOfItems'
  <2> SUFFICES ASSUME NEW s \in Subs, JobsOf("items", s)' # {}, NEW r \in RequestsOf(FileOf[s])
               PROVE  info'[ItemOf[r]] # "none"
    BY DEF InfoOfItems
  <2>1. FileOf[s] \in Files BY ScenarioAssumption DEF Subs
  <2>2. ItemOf[r] \in Items BY <2>1, NamedItems
  <2> QED BY <2>2 DEF InfoOfItems
<1> QED BY <1>1, <1>2, <1>3, <1>4

\* A step that registers no group and makes no job of one.
LEMMA InfoStays ==
  ASSUME TypeOK, LateTypes, InfoOfJobs, InfoOfKnown, InfoOfParsed, InfoOfItems,
         NEW kinds, Comes(kinds), ParsersStay, kinds \cap {"build", "init"} = {},
         UNCHANGED <<known, parseDone>>, \A i \in Items : info[i] # "none" => info'[i] # "none",
         \A s \in Subs : JobsOf("items", s)' # {} =>
           \/ JobsOf("items", s) # {}
           \/ \A r \in RequestsOf(FileOf[s]) : info'[ItemOf[r]] # "none"
  PROVE  InfoOfJobs' /\ InfoOfKnown' /\ InfoOfParsed' /\ InfoOfItems'
<1>1. \A x \in Executors, i \in Items : ParsedBy(x, i) => ParsedBy(x, i)' /\ outbox'[x] = outbox[x]
  BY DEF ParsedBy, ParsersStay
<1>2. \A j \in Present' : Makes(j) => j \in Present
  BY DEF Comes, Makes
<1>3. \A i \in Items : KnownItem(i)' => KnownItem(i) BY DEF KnownItem
<1> QED BY <1>1, <1>2, <1>3, InfoMoves DEF LateTypes

\* Jobs that build a group or make a type of it, when none comes.
LEMMA NoMakersCome ==
  ASSUME NEW kinds, Comes(kinds), kinds \cap {"build", "init"} = {}, NEW i
  PROVE  /\ JobsOf("init", i)' \subseteq JobsOf("init", i)
         /\ JobsOf("build", i)' \subseteq JobsOf("build", i)
         /\ JobsOf("build", i)' \subseteq Present'
<1>1. /\ JobsOf("init", i)' = {j \in Present' : j.kind = "init" /\ j.of = i}
      /\ JobsOf("build", i)' = {j \in Present' : j.kind = "build" /\ j.of = i}
  BY DEF JobsOf
<1>2. \A j \in Present' : j.kind \in {"build", "init"} => j \in Present
  BY DEF Comes
<1> QED BY <1>1, <1>2 DEF JobsOf

\* A step that deletes no static group, and opens one at most when all its items
\* have been added.
LEMMA KeptStays ==
  ASSUME InfoKept, NEW kinds, Comes(kinds), CountersStay, kinds \cap {"build", "init"} = {},
         \A i \in Items : info'[i] = "deleted" =>
           \/ info[i] = "deleted"
           \/ i \in StaticItems \cap itemReady' /\ (OneTag(i) => JobsOf("init", i)' = {}),
         itemReady \subseteq itemReady',
         \A i \in StaticItems \cap itemReady' :
           i \in itemReady \/ JobsOf("build", i) \subseteq InHand({"count"})'
  PROVE  InfoKept'
<1>1. ASSUME NEW i PROVE /\ JobsOf("init", i)' \subseteq JobsOf("init", i)
                         /\ JobsOf("build", i)' \subseteq JobsOf("build", i)
                         /\ JobsOf("build", i)' \subseteq Present'
  BY NoMakersCome
<1>2. ASSUME NEW i \in Items, info'[i] = "deleted"
      PROVE  i \in StaticItems \cap itemReady' /\ (OneTag(i) => JobsOf("init", i)' = {})
  BY <1>1, <1>2 DEF InfoKept
<1>3. ASSUME NEW i \in StaticItems \cap itemReady'
      PROVE  JobsOf("build", i)' \subseteq InHand({"count"})'
  <2>1. CASE i \in itemReady BY <1>1, <1>3, <2>1 DEF InfoKept, CountersStay
  <2>2. CASE JobsOf("build", i) \subseteq InHand({"count"})'
    BY <1>1, <2>2
  <2> QED BY <1>3, <2>1, <2>2
<1> QED BY <1>2, <1>3 DEF InfoKept, OneTag, Dynamic

\* A step that deletes no layers and makes no ParseGroup job.
LEMMA SourceStays ==
  ASSUME NEW f \in Files, SourceKept(f), srcLayers'[f] = srcLayers[f],
         \A j \in Present' \ Present : j.kind = "group" => j.of # f,
         Parsed(f) => Parsed(f)'
  PROVE  SourceKept(f)'
<1>1. JobsOf("group", f)' \subseteq JobsOf("group", f)
  <2>1. JobsOf("group", f)' = {j \in Present' : j.kind = "group" /\ j.of = f}
    BY DEF JobsOf
  <2> QED BY <2>1 DEF JobsOf
<1> QED BY <1>1 DEF SourceKept

\* The files, when no ParseGroup job is made and no layers are deleted.
LEMMA SourcesStay ==
  ASSUME SourcesKept, NEW kinds, Comes(kinds), "group" \notin kinds, FilesStayParsed,
         srcLayers' = srcLayers
  PROVE  SourcesKept'
<1> SUFFICES ASSUME NEW f \in Files, Simple(f) PROVE SourceKept(f)'
  BY DEF SourcesKept, Simple
<1>1. \A j \in Present' \ Present : j.kind # "group" BY DEF Comes
<1> QED BY <1>1, SourceStays DEF SourcesKept, FilesStayParsed

\* The subgroups whose items are processed, when none is released.
LEMMA NoItemsCome ==
  ASSUME NEW kinds, Comes(kinds), "items" \notin kinds
  PROVE  \A s \in Subs : JobsOf("items", s)' # {} => JobsOf("items", s) # {}
<1> TAKE s \in Subs
<1>1. JobsOf("items", s)' = {j \in Present' : j.kind = "items" /\ j.of = s}
  BY DEF JobsOf
<1>2. \A j \in Present' : j.kind = "items" => j \in Present BY DEF Comes
<1> QED BY <1>1, <1>2 DEF JobsOf

\* A step that changes none of all this.
LEMMA CalmStep ==
  ASSUME TypeOK, KeepsInv, NEW kinds, Calm(kinds),
         kinds \cap {"build", "init", "items", "group"} = {},
         UNCHANGED <<known, info, parseDone, srcLayers, itemReady>>
  PROVE  KeepsInv'
<1>1. LateTypes /\ LateTypes' BY DEF KeepsInv, LateTypes
<1>2. \A s \in Subs : JobsOf("items", s)' # {} => JobsOf("items", s) # {}
  BY NoItemsCome DEF Calm
<1>3. InfoOfJobs' /\ InfoOfKnown' /\ InfoOfParsed' /\ InfoOfItems'
  BY <1>1, <1>2, InfoStays DEF KeepsInv, Calm
<1>4. InfoKept' BY KeptStays DEF KeepsInv, Calm
<1>5. SourcesKept' BY SourcesStay DEF KeepsInv, Calm
<1> QED BY <1>1, <1>3, <1>4, <1>5 DEF KeepsInv

\* Uses that are known are added to the ones so far.
LEMMA FaultsStayKnown ==
  ASSUME LateUsesAreKnown, NEW new, faults' = faults \cup new,
         \A x \in new : \/ x[1] \in {"checkedCount", "deletedInfo"}
                        \/ x[1] = "srcLayers" /\ x[2] \in Files /\ ~Simple(x[2])
                        \/ x[1] = "tagName" /\ ~OneTag(x[2])
  PROVE  LateUsesAreKnown'
  BY DEF LateUsesAreKnown, Simple

-----------------------------------------------------------------------------
(* Most steps are calm.                                                      *)

\* What an executor does not hold a job that counts or parses can do.
LEMMA CalmFrame ==
  ASSUME NEW e \in Executors, Others(e), NEW kinds, Comes(kinds), FilesStayParsed,
         ~(job[e].kind = "group" /\ at[e] = "parse"),
         at[e] = "count" => job[e] \notin Present' \/ (job'[e] = job[e] /\ at'[e] = "count")
  PROVE  Calm(kinds)
<1>1. ParsersStay BY DEF ParsersStay, Others
<1>2. CountersStay
  <2> SUFFICES ASSUME NEW x \in Executors, at[x] = "count", job[x] \in Present'
               PROVE  job[x] \in InHand({"count"})'
    BY DEF CountersStay, InHand
  <2>1. job'[x] = job[x] /\ at'[x] = "count" BY DEF Others
  <2> QED BY <2>1 DEF InHand
<1> QED BY <1>1, <1>2 DEF Calm

\* Lines that stay as they are stay parsed.
LEMMA LinesStayParsed ==
  ASSUME SameLines
  PROVE  FilesStayParsed
  BY DEF SameLines, SameLinesOf, FilesStayParsed

\* A job goes on, and makes none.
LEMMA ContinueIsCalm ==
  ASSUME Inv, NEW e \in Executors, NEW kind \in JobKinds, NEW from, NEW to \in Labels,
         InStep(e, kind, from), Continue(e, to),
         from \notin {"cache", "push", "parse"}, to \notin {"cache", "push", "idle"},
         from = "count" => to = "count",
         UNCHANGED <<candidate, ready, outbox, parseFiles>>
  PROVE  Calm({})
<1>1. Effect({}, {}, 0) /\ Others(e) /\ job'[e] = job[e] /\ at'[e] = to
  BY ContinueEffect
<1>2. at[e] = from BY DEF InStep
<1>3. InHand({"push"})' = InHand({"push"}) BY <1>1, <1>2, HandsSame
<1>4. SameLines BY <1>1, <1>3, LinesKept DEF Avoid
<1>5. Comes({}) BY <1>1 DEF Effect, Comes
<1> QED BY <1>1, <1>2, <1>4, <1>5, CalmFrame, LinesStayParsed

\* A job ends, and makes none.
LEMMA EndIsCalm ==
  ASSUME Inv, NEW e \in Executors, NEW kind \in {"load", "build", "init", "items"}, NEW from,
         InStep(e, kind, from), JobEnds(e), from \notin {"cache", "push", "parse"},
         UNCHANGED <<candidate, ready, outbox, parseFiles>>
  PROVE  /\ Calm({}) /\ Present' \subseteq Present /\ Others(e)
         /\ kind # "load" => job[e] \notin Present'
<1>1. kind \in JobKinds \ {"lines", "group"} BY DEF JobKinds
<1>2. Effect({job[e]}, {}, 0) /\ Others(e) /\ at'[e] = "idle"
  BY <1>1, EndEffect
<1>3. at[e] = from /\ job[e].kind = kind BY DEF InStep
<1>4. InHand({"push"})' = InHand({"push"}) BY <1>2, <1>3, HandsSame
<1>5. SameLines BY <1>2, <1>3, <1>4, LinesKept DEF Avoid
<1>6. Comes({}) /\ Present' \subseteq Present BY <1>2 DEF Effect, Comes
<1>7. kind # "load" => job[e] \notin Present' BY <1>2, <1>3 DEF Effect, Once
<1>8. at[e] = "count" => kind = "build"
  BY <1>3 DEF Inv, Steps, StepOf
<1>9. Calm({})
  BY <1>2, <1>3, <1>5, <1>6, <1>7, <1>8, CalmFrame, LinesStayParsed
<1> QED BY <1>2, <1>6, <1>7, <1>9

\* The scheduler.
LEMMA SchedulerIsCalm ==
  ASSUME Inv, NEW e \in Executors, SameSaves, Comes({}), Take(e) \/ Select \/ UNCHANGED vars
  PROVE  Calm({})
<1>1. TypeOK /\ Steps BY DEF Inv
<1>2. CASE Take(e)
  <2>1. /\ job[e] = NoJob /\ job' = [job EXCEPT ![e] = Head(ready[e])]
        /\ at' = [at EXCEPT ![e] = "run"] /\ outbox' = outbox
    BY <1>2 DEF Take
  <2>2. Others(e) /\ at[e] = "idle"
    BY <1>1, <2>1 DEF Others, TypeOK, Steps, StepOf
  <2> QED BY <2>2, CalmFrame, LinesStayParsed DEF SameSaves
<1>3. CASE Select \/ UNCHANGED vars
  <2>1. job' = job /\ at' = at /\ outbox' = outbox BY <1>3 DEF Select, vars
  <2>2. ParsersStay /\ CountersStay
    BY <2>1 DEF ParsersStay, CountersStay, InHand
  <2> QED BY <2>2, LinesStayParsed DEF Calm, SameSaves
<1> QED BY <1>2, <1>3

\* The steps of the jobs of lines and of files, but for the one that counts lines.
LEMMA LinesAreCalm ==
  ASSUME Inv, NEW e \in Executors,
         \/ SameSaves /\ Comes({}) /\ (ParseLines(e) \/ PushParsed(e))
         \/ LinesPushed(e) /\ Comes({"lines"}) /\ PushLines(e)
  PROVE  Calm({"lines"})
<1>1. TypeOK BY DEF Inv
<1>2. Comes({"lines"}) BY DEF Comes
<1>3. Others(e) /\ at[e] \in {"run", "push", "wait"}
  <2>1. CASE ParseLines(e)
    <3>1. /\ Continue(e, "cache") /\ at[e] = "run"
          /\ \A x \in Executors \ {e} : outbox'[x] = outbox[x]
      BY <1>1, <2>1 DEF ParseLines, InStep, TypeOK
    <3> QED BY <1>1, <3>1, Continued DEF Labels, Others
  <2>2. CASE PushParsed(e)
    <3>1. /\ JobEnds(e) /\ at[e] = "push"
          /\ \A x \in Executors \ {e} : outbox'[x] = outbox[x]
      BY <1>1, <2>2 DEF PushParsed, InStep, TypeOK
    <3> QED BY <1>1, <3>1, Ended DEF Others
  <2>3. CASE PushLines(e)
    <3>1. /\ JobEnds(e) /\ at[e] = "wait" /\ outbox' = outbox
      BY <2>3 DEF PushLines, InStep
    <3> QED BY <1>1, <3>1, Ended DEF Others
  <2> QED BY <2>1, <2>2, <2>3
<1>4. FilesStayParsed
  <2>1. CASE SameSaves BY <2>1, LinesStayParsed DEF SameSaves
  <2>2. CASE LinesPushed(e)
    <3>1. PICK f \in Files : FilePending(f) /\ \A g \in Files \ {f} : SameLinesOf(g)
      BY <2>2 DEF LinesPushed
    <3>2. ~Parsed(f) BY <3>1 DEF Parsed
    <3> QED BY <3>1, <3>2 DEF FilesStayParsed, SameLinesOf
  <2> QED BY <2>1, <2>2
<1> QED BY <1>2, <1>3, <1>4, CalmFrame

-----------------------------------------------------------------------------
(* The steps that use what may be deleted.                                   *)

\* A job in hand is in no outbox.
LEMMA HandNotMade ==
  ASSUME NoneTwice, NEW e \in Executors, NEW x \in Executors, at[x] # "cache",
         job[e] # NoJob, job[e].kind \in Once
  PROVE  job[e] \notin ToSet(outbox[x])
<1> SUFFICES ASSUME NEW k \in DOMAIN outbox[x], outbox[x][k] = job[e] PROVE FALSE
  BY DEF ToSet
<1>1. /\ Queue[Hand(e)] = <<job[e]>> /\ Hand(e) \in Queues
      /\ Queue[Outbox(x)] = outbox[x] /\ Outbox(x) \in Queues
  BY QueueValues, QueueNames
<1>2. DOMAIN Queue[Hand(e)] = {1} /\ Queue[Hand(e)][1] = job[e] BY <1>1
<1>3. /\ <<Hand(e), 1>> \in PlacesIn(Queue) /\ At(Queue, <<Hand(e), 1>>) = job[e]
      /\ <<Outbox(x), k>> \in PlacesIn(Queue) /\ At(Queue, <<Outbox(x), k>>) = job[e]
  BY <1>1, <1>2, PlaceFacts DEF At
<1>4. <<Hand(e), 1>> = <<Outbox(x), k>> BY <1>3 DEF NoneTwice, NoneTwiceIn
<1> QED BY <1>4 DEF Hand, Outbox

\* What an executor is at with its job, no other is.
LEMMA HandAt ==
  ASSUME NoneTwice, NEW e \in Executors, job[e] # NoJob, job[e].kind \in Once,
         NEW labels, job[e] \in InHand(labels)
  PROVE  at[e] \in labels
<1>1. PICK x \in Executors : job[x] = job[e] /\ at[x] \in labels BY DEF InHand
<1> QED BY <1>1, OneHand

\* A group is built, and a type of it made, from its GroupInfo.
LEMMA MakerHasInfo ==
  ASSUME Inv, KeepsInv, NEW e \in Executors, NEW kind \in {"build", "init"}, NEW from,
         InStep(e, kind, from), ~SecondTag(job[e])
  PROVE  /\ job[e].of \in Items /\ job[e] \in JobsOf(kind, job[e].of) /\ job[e] # NoJob
         /\ job[e].kind = kind /\ at[e] = from /\ job[e].kind \in Once
         /\ info[job[e].of] \in {"live", "deleted"}
<1>1. TypeOK /\ NoneTwice BY DEF Inv
<1>2. /\ job[e] # NoJob /\ job[e] \in Present /\ job[e].kind = kind /\ at[e] = from
      /\ job[e].kind \in Once
  BY <1>1, JobInHand DEF JobKinds, Once
<1>3. job[e].of \in Items BY <1>1, <1>2, MakersHaveItems
<1>4. \A x \in Executors : ParsedBy(x, job[e].of) => job[e] \notin ToSet(outbox[x])
  BY <1>1, <1>2, HandNotMade DEF ParsedBy
<1>5. info[job[e].of] # "none" BY <1>2, <1>4 DEF KeepsInv, InfoOfJobs, Makes
<1>6. info[job[e].of] \in {"none", "live", "deleted"}
  BY <1>3 DEF KeepsInv, LateTypes
<1>7. job[e] \in JobsOf(kind, job[e].of) BY <1>2 DEF JobsOf
<1> QED BY <1>2, <1>3, <1>5, <1>6, <1>7

\* As long as items are to be looked at, or the only type to be made, the GroupInfo is
\* live.
LEMMA InfoIsLive ==
  ASSUME Inv, KeepsInv, NEW e \in Executors, ~SecondTag(job[e]),
         \/ InStep(e, "build", "run") \/ InStep(e, "build", "check")
         \/ InStep(e, "init", "run") \/ InStep(e, "init", "wait")
  PROVE  info[job[e].of] = "live"
<1> DEFINE i == job[e].of
<1>1. ASSUME NEW label \in {"run", "check"}, InStep(e, "build", label)
      PROVE  info[i] = "live"
  <2>1. /\ i \in Items /\ job[e] \in JobsOf("build", i) /\ at[e] = label
        /\ info[i] \in {"live", "deleted"} /\ job[e] # NoJob /\ job[e].kind \in Once
    BY <1>1, MakerHasInfo
  <2>2. job[e] \notin InHand({"count"}) BY <2>1, HandAt DEF Inv
  <2> QED BY <2>1, <2>2 DEF KeepsInv, InfoKept
<1>2. CASE InStep(e, "init", "run") \/ InStep(e, "init", "wait")
  <2>1. i \in Items /\ job[e] \in JobsOf("init", i) /\ info[i] \in {"live", "deleted"}
    BY <1>2, MakerHasInfo
  <2>2. OneTag(i) BY <1>2 DEF SecondTag, InStep
  <2> QED BY <2>1, <2>2 DEF KeepsInv, InfoKept
<1> QED BY <1>1, <1>2

\* Faults of a step.
LEMMA FaultFacts ==
  \A cond, name, of : \A x \in Fault(cond, name, of) : cond /\ x = <<name, of>>
  BY DEF Fault

\* A step that uses nothing deleted.
LEMMA NoneStayKnown ==
  ASSUME LateUsesAreKnown, faults' = faults
  PROVE  LateUsesAreKnown'
  BY DEF LateUsesAreKnown

\* The tag of a type is taken from the GroupInfo.
LEMMA TagNameIsKnown ==
  ASSUME Inv, LateInv, NEW e \in Executors, InStep(e, "init", "run") \/ InStep(e, "init", "wait"),
         Record(Fault(info[job[e].of] # "live", "tagName", job[e].of))
  PROVE  LateUsesAreKnown'
<1>1. KeepsInv /\ LateUsesAreKnown BY DEF LateInv
<1>2. CASE SecondTag(job[e])
  <2>1. ~OneTag(job[e].of) BY <1>2 DEF SecondTag
  <2>2. \A x \in Fault(info[job[e].of] # "live", "tagName", job[e].of) :
          x[1] = "tagName" /\ ~OneTag(x[2])
    BY <2>1 DEF Fault
  <2> QED BY <1>1, <2>2, FaultsStayKnown DEF Record
<1>3. CASE ~SecondTag(job[e])
  <2>1. info[job[e].of] = "live" BY <1>1, <1>3, InfoIsLive
  <2>2. faults' = faults BY <2>1 DEF Record, Fault
  <2> QED BY <1>1, <2>2, NoneStayKnown
<1> QED BY <1>2, <1>3

\* A group's items are added, and counted.
LEMMA BuildingKeepsLate ==
  ASSUME Inv, LateInv, NEW e \in Executors, AddElements(e) \/ AddChecked(e)
  PROVE  LateInv'
<1>1. KeepsInv /\ LateUsesAreKnown /\ TypeOK BY DEF LateInv, Inv
<1>2. /\ UNCHANGED <<candidate, ready, outbox, parseFiles>>
      /\ UNCHANGED <<known, info, parseDone, srcLayers, itemReady>>
  BY DEF AddElements, AddChecked, queues, parsing, saving
<1>3. Calm({})
  <2>1. CASE AddElements(e)
    <3>1. InStep(e, "build", "run") /\ Continue(e, "check")
      BY <2>1 DEF AddElements
    <3> QED BY <1>2, <3>1, ContinueIsCalm DEF Labels, JobKinds
  <2>2. CASE AddChecked(e)
    <3>1. InStep(e, "build", "count") /\ JobEnds(e) BY <2>2 DEF AddChecked
    <3> QED BY <1>2, <3>1, EndIsCalm
  <2> QED BY <2>1, <2>2
<1>4. KeepsInv' BY <1>1, <1>2, <1>3, CalmStep
<1>5. LateUsesAreKnown'
  <2>1. CASE AddElements(e)
    <3>1. InStep(e, "build", "run") /\ Record(Fault(info[job[e].of] # "live", "build", job[e].of))
      BY <2>1 DEF AddElements
    <3>2. info[job[e].of] = "live" BY <1>1, <3>1, InfoIsLive DEF SecondTag, InStep
    <3>3. faults' = faults BY <3>1, <3>2 DEF Record, Fault
    <3> QED BY <1>1, <3>3, NoneStayKnown
  <2>2. CASE AddChecked(e)
    <3>1. Record(Fault(info[job[e].of] # "live", "checkedCount", job[e].of))
      BY <2>2 DEF AddChecked
    <3> QED BY <1>1, <3>1, FaultFacts, FaultsStayKnown DEF Record
  <2> QED BY <2>1, <2>2
<1> QED BY <1>4, <1>5 DEF LateInv

\* The tag's name is read (ExecutorJobFunc.cpp:275-277).
LEMMA ReadTagNameKeepsLate ==
  ASSUME Inv, LateInv, NEW e \in Executors, ReadTagName(e)
  PROVE  LateInv'
<1>1. KeepsInv /\ LateUsesAreKnown /\ TypeOK BY DEF LateInv, Inv
<1>2. /\ UNCHANGED <<candidate, ready, outbox, parseFiles>>
      /\ UNCHANGED <<known, info, parseDone, srcLayers, itemReady>>
      /\ InStep(e, "init", "run") /\ Continue(e, "wait")
      /\ Record(Fault(info[job[e].of] # "live", "tagName", job[e].of))
  BY DEF ReadTagName, queues, parsing, groups, saving
<1>3. Calm({}) BY <1>2, ContinueIsCalm DEF Labels, JobKinds
<1>4. KeepsInv' BY <1>1, <1>2, <1>3, CalmStep
<1>5. LateUsesAreKnown' BY <1>2, TagNameIsKnown
<1> QED BY <1>4, <1>5 DEF LateInv

\* A step that uses nothing that may be deleted.
LEMMA CalmKeepsLate ==
  ASSUME Inv, LateInv, NEW kinds, Calm(kinds), kinds \cap {"build", "init", "items", "group"} = {},
         UNCHANGED <<known, info, parseDone, srcLayers, itemReady, faults>>
  PROVE  LateInv'
<1>1. KeepsInv' BY CalmStep DEF LateInv, Inv
<1>2. LateUsesAreKnown' BY NoneStayKnown DEF LateInv
<1> QED BY <1>1, <1>2 DEF LateInv

\* Layers are loaded and opened; in parallel mode none is copied.
LEMMA LayersKeepLate ==
  ASSUME RunParallel, Inv, LateInv, NEW e \in Executors, LoadLayer(e) \/ CopyLoad(e)
  PROVE  LateInv'
<1>1. /\ UNCHANGED <<candidate, ready, outbox, parseFiles>>
      /\ UNCHANGED <<known, info, parseDone, srcLayers, itemReady>>
  BY DEF LoadLayer, CopyLoad, queues, parsing, groups, saving
<1>2. Calm({})
  <2>1. CASE LoadLayer(e)
    <3>1. InStep(e, "load", "run") /\ JobEnds(e) BY <2>1 DEF LoadLayer
    <3> QED BY <1>1, <3>1, EndIsCalm
  <2>2. CASE CopyLoad(e)
    <3>1. InStep(e, "file", "run") /\ Continue(e, "wait") BY <2>2 DEF CopyLoad
    <3> QED BY <1>1, <3>1, ContinueIsCalm DEF Labels, JobKinds
  <2> QED BY <2>1, <2>2
<1>3. faults' = faults BY DEF LoadLayer, CopyLoad, Record, Fault
<1> QED BY <1>1, <1>2, <1>3, CalmKeepsLate

\* The scheduler, and jobs that are pushed.
LEMMA MovesKeepLate ==
  ASSUME Inv, LateInv, NEW e \in Executors,
         Take(e) \/ Select \/ UNCHANGED vars \/ PushLines(e) \/ PushParsed(e)
  PROVE  LateInv'
<1>1. UNCHANGED <<known, info, parseDone, srcLayers, itemReady, faults>>
  BY DEF Take, Select, vars, PushLines, PushParsed, parsing, groups
<1>2. CASE Take(e) \/ Select \/ UNCHANGED vars
  <2>1. SameSaves /\ Comes({})
    BY <1>2, TakeKeepsInv, SelectKeepsInv, StutterKeepsInv
  <2>2. Calm({}) BY <1>2, <2>1, SchedulerIsCalm
  <2> QED BY <1>1, <2>2, CalmKeepsLate
<1>3. CASE PushLines(e) \/ PushParsed(e)
  <2>1. Calm({"lines"})
    BY <1>3, PushLinesKeepsInv, PushParsedKeepsInv, LinesAreCalm
  <2> QED BY <1>1, <2>1, CalmKeepsLate
<1> QED BY <1>2, <1>3

\* Lines are parsed with the layers of their file (ExecutorJobFunc.cpp:125-146).
LEMMA ParseLinesKeepsLate ==
  ASSUME Inv, LateInv, NEW e \in Executors, ParseLines(e)
  PROVE  LateInv'
<1>1. KeepsInv /\ LateUsesAreKnown /\ TypeOK /\ NoneTwice BY DEF LateInv, Inv
<1>2. /\ UNCHANGED <<known, info, parseDone, srcLayers, itemReady>> /\ InStep(e, "lines", "run")
      /\ Record(Fault(srcLayers[job[e].of] = "deleted" /\ job[e].count > 0,
                      "srcLayers", job[e].of))
  BY DEF ParseLines, parsing, groups
<1>3. Calm({"lines"}) BY ParseLinesKeepsInv, LinesAreCalm
<1>4. KeepsInv' BY <1>1, <1>2, <1>3, CalmStep
<1>5. PICK f \in Files : /\ f = job[e].of /\ job[e] # NoJob /\ job[e].kind = "lines"
                         /\ job[e] \in JobsOf("lines", f) /\ at[e] = "run"
  BY <1>1, <1>2, JobInHand DEF JobKinds, Fits, JobsOf
<1>6. ASSUME srcLayers[f] = "deleted", Simple(f) PROVE FALSE
  <2>1. Parsed(f) BY <1>1, <1>6 DEF KeepsInv, SourcesKept, SourceKept
  <2>2. job[e] \in InHand({"push"}) BY <1>5, <2>1 DEF Parsed
  <2> QED BY <1>1, <1>5, <2>2, HandAt DEF Once
<1>7. PICK new : /\ faults' = faults \cup new
                 /\ \A x \in new : srcLayers[f] = "deleted" /\ x = <<"srcLayers", f>>
  <2> DEFINE new == Fault(srcLayers[f] = "deleted" /\ job[e].count > 0, "srcLayers", f)
  <2>1. faults' = faults \cup new BY <1>2, <1>5 DEF Record
  <2>2. \A x \in new : srcLayers[f] = "deleted" /\ x = <<"srcLayers", f>>
    BY FaultFacts
  <2> HIDE DEF new
  <2> QED BY <2>1, <2>2
<1>8. LateUsesAreKnown'
  <2>1. \A x \in new : x[1] = "srcLayers" /\ x[2] \in Files /\ ~Simple(x[2])
    BY <1>6, <1>7
  <2> QED BY <1>1, <1>7, <2>1, FaultsStayKnown
<1> QED BY <1>4, <1>8 DEF LateInv

\* A save or nothing is pushed, and files are counted.
LEMMA SavesKeepLate ==
  ASSUME RunParallel, Inv, SaveInv, LateInv, NEW e \in Executors,
         CompleteFile(e) \/ CountFile(e) \/ SaveLayer(e)
  PROVE  LateInv'
<1>1. UNCHANGED <<known, info, parseDone, srcLayers, itemReady, faults, ready, outbox>>
  BY DEF CompleteFile, CountFile, SaveLayer, Push, PushNextFile, parsing, groups, queues
<1>2. TypeOK /\ finished \in Nat /\ parseFiles = <<>> BY DEF Inv, SaveInv
<1>3. CASE CountFile(e)
  <2>1. /\ UNCHANGED <<candidate, ready, outbox, parseFiles>>
        /\ InStep(e, "items", "finish") /\ JobEnds(e)
    BY <1>3 DEF CountFile, queues
  <2>2. Calm({}) BY <2>1, EndIsCalm
  <2> QED BY <1>1, <2>2, CalmKeepsLate
<1>4. CASE CompleteFile(e)
  <2>1. InStep(e, "items", "complete") /\ Continue(e, "finish")
    BY <1>4 DEF CompleteFile
  <2>2. PICK s \in Subs : s = job[e].of
    BY <1>2, <2>1, JobInHand DEF JobKinds, Fits
  <2>3. candidate' = candidate \o <<Save(s)>> /\ parseFiles' = parseFiles
    BY <1>2, <1>4, <2>2 DEF CompleteFile, SavePoint, Push
  <2>4. PICK more : more = <<Save(s)>> OBVIOUS
  <2>5. more \in Seq(AllJobs) /\ Fresh(more) /\ NoGroups(more) /\ ToSet(more) = {Save(s)}
    <3>1. ToSet(more) = {Save(s)} BY <2>4 DEF ToSet
    <3> QED BY <1>2, <2>3, <2>4, <3>1, SaveIsMade
  <2>6. Effect({}, {Save(s)}, 0) /\ Others(e) /\ at'[e] = "finish"
    BY <1>1, <2>1, <2>3, <2>4, <2>5, PushEffect DEF JobKinds, Labels
  <2>7. at[e] = "complete" BY <2>1 DEF InStep
  <2>8. SameLines
    <3>1. InHand({"push"})' = InHand({"push"}) BY <2>6, <2>7, HandsSame
    <3> QED BY <2>3, <2>6, <3>1, LinesKept, SavesDiffer DEF Avoid
  <2>9. Comes({"save"}) BY <2>6, SavesDiffer DEF Effect, Comes
  <2>10. Calm({"save"}) BY <2>6, <2>7, <2>8, <2>9, CalmFrame, LinesStayParsed
  <2> QED BY <1>1, <2>10, CalmKeepsLate
<1>5. CASE SaveLayer(e)
  <2>1. InStep(e, "save", "run") /\ JobEnds(e) BY <1>5 DEF SaveLayer
  <2>2. PICK more : more = <<>> OBVIOUS
  <2>3. candidate' = candidate \o more /\ parseFiles' = parseFiles
    BY <1>2, <1>5, <2>2 DEF SaveLayer, PushNextFile, Push
  <2>4. more \in Seq(AllJobs) /\ Fresh(more) /\ NoGroups(more) /\ ToSet(more) = {}
    BY <2>2 DEF Fresh, NoGroups, ToSet
  <2>5. Effect({job[e]}, {}, 0) /\ Others(e) /\ at'[e] = "idle"
    BY <1>1, <2>1, <2>3, <2>4, EndEffectMore DEF JobKinds
  <2>6. at[e] = "run" /\ job[e].kind = "save" BY <2>1 DEF InStep
  <2>7. SameLines
    <3>1. InHand({"push"})' = InHand({"push"}) BY <2>5, <2>6, HandsSame
    <3> QED BY <2>3, <2>5, <2>6, <3>1, LinesKept DEF Avoid
  <2>8. Comes({}) BY <2>5 DEF Effect, Comes
  <2>9. Calm({}) BY <2>5, <2>6, <2>7, <2>8, CalmFrame, LinesStayParsed
  <2> QED BY <1>1, <2>9, CalmKeepsLate
<1> QED BY <1>3, <1>4, <1>5

\* Items are processed with groups whose pointers and conditions are there.
LEMMA ProcessItemsKeepsLate ==
  ASSUME Inv, LateInv, NEW e \in Executors, ProcessItems(e)
  PROVE  LateInv'
<1>1. KeepsInv /\ LateUsesAreKnown /\ TypeOK /\ ItemsHeldBack
  BY DEF LateInv, Inv
<1>2. /\ UNCHANGED <<known, info, parseDone, srcLayers, itemReady>>
      /\ UNCHANGED <<candidate, ready, outbox, parseFiles>>
      /\ InStep(e, "items", "run") /\ (Continue(e, "complete") \/ JobEnds(e))
  BY DEF ProcessItems, queues, parsing, groups
<1>3. Calm({}) BY <1>2, ContinueIsCalm, EndIsCalm DEF Labels, JobKinds
<1>4. KeepsInv' BY <1>1, <1>2, <1>3, CalmStep
<1>5. PICK s \in Subs : s = job[e].of /\ JobsOf("items", s) # {}
  BY <1>1, <1>2, JobInHand DEF JobKinds, Fits, JobsOf
<1>6. PICK f \in Files : f = FileOf[s] BY ConstantTypes
<1>7. ASSUME NEW r \in RequestsOf(f)
      PROVE  <<f, r>> \in resolved /\ (Dynamic(r) => info[ItemOf[r]] = "live")
  <2>1. <<f, r>> \in resolved BY <1>1, <1>5, <1>6 DEF ItemsHeldBack, Resolved
  <2>2. info[ItemOf[r]] # "none" BY <1>1, <1>5, <1>6 DEF KeepsInv, InfoOfItems
  <2>3. r \in Requests /\ ItemOf[r] \in Items BY NamedItems
  <2>4. ASSUME Dynamic(r) PROVE ItemOf[r] \notin StaticItems
    BY <2>3, <2>4, KeysAssumption DEF StaticItems, Statics
  <2>5. Dynamic(r) => info[ItemOf[r]] = "live"
    BY <1>1, <2>2, <2>3, <2>4 DEF KeepsInv, InfoKept, LateTypes
  <2> QED BY <2>1, <2>5
<1>8. faults' = faults
  <2>1. ~(job[e].count > 0 /\ \E r \in RequestsOf(f) :
            \/ <<f, r>> \notin resolved
            \/ Dynamic(r) /\ info[ItemOf[r]] # "live")
    BY <1>7
  <2>2. Record(Fault(job[e].count > 0 /\ \E r \in RequestsOf(f) :
                       \/ <<f, r>> \notin resolved
                       \/ Dynamic(r) /\ info[ItemOf[r]] # "live", "groupPtr", f))
    BY <1>5, <1>6 DEF ProcessItems
  <2> QED BY <2>1, <2>2 DEF Record, Fault
<1>9. LateUsesAreKnown' BY <1>1, <1>8, NoneStayKnown
<1> QED BY <1>4, <1>9 DEF LateInv

-----------------------------------------------------------------------------
(* The steps that open a group, delete its GroupInfo or make it.             *)

\* When checkedCount_ lacks only what a job is about, no other job is left.
LEMMA LastToCount ==
  ASSUME Inv, NEW e \in Executors, NEW i \in StaticItems, NEW j \in AllJobs,
         Building(e, "check", i, j), checked[i] + j.count = Size[Plugin[i]]
  PROVE  JobsOf("build", i) = {j}
<1> DEFINE J == JobsOf("build", i)
<1>1. /\ j \in J /\ j.from \in Nat /\ j.count \in Nat /\ <<"item", i>> \in known
      /\ Size[Plugin[i]] \in Nat /\ checked[i] \in Nat
  BY DEF Building
<1>2. TypeOK /\ ItemsCounted BY DEF Inv
<1>3. /\ \A a, b \in J : a # b => Elems(a) \cap Elems(b) = {}
      /\ Span(J) \subseteq 1 .. Size[Plugin[i]] /\ J \subseteq ToSet(BuildJobs(i))
      /\ Unchecked(i) = Span(J)
  BY <1>2, BuildsApart DEF Unchecked
<1> HIDE DEF J
<1>4. /\ Cardinality(Span(J \ {j})) \in Nat /\ IsFiniteSet(Span(J \ {j}))
      /\ Cardinality(Span(J)) = Cardinality(Span(J \ {j})) + j.count
  BY <1>1, <1>3, SpanLess
<1>5. checked[i] + Cardinality(Span(J)) = Size[Plugin[i]]
  BY <1>1, <1>2, <1>3 DEF ItemsCounted, ItemsCountedOf
<1>6. Cardinality(Span(J \ {j})) = 0 BY <1>1, <1>4, <1>5
<1>7. Span(J \ {j}) = {}
  <2> DEFINE L == Span(J \ {j})
  <2>1. IsFiniteSet(L) /\ Cardinality(L) = 0 BY <1>4, <1>6
  <2> HIDE DEF L
  <2>2. L = {} BY <2>1, FS_EmptySet
  <2> QED BY <2>2 DEF L
<1>8. ASSUME NEW a \in J, a # j PROVE FALSE
  <2>1. Elems(a) # {} BY <1>1, <1>3, <1>8, NoEmptyBuilds
  <2>2. Elems(a) \subseteq Span(J \ {j}) BY <1>8 DEF Span
  <2> QED BY <1>7, <2>1, <2>2
<1>9. J = {j} BY <1>1, <1>8
<1> QED BY <1>9 DEF J

\* The group is opened by a job that looked at its items last (ExecutorJobFunc.cpp:301-303).
LEMMA TestCheckedKeepsLate ==
  ASSUME Inv, LateInv, NEW e \in Executors, TestChecked(e)
  PROVE  LateInv'
<1>1. KeepsInv /\ LateUsesAreKnown /\ TypeOK BY DEF LateInv, Inv
<1>2. /\ UNCHANGED <<candidate, ready, outbox, parseFiles>>
      /\ UNCHANGED <<known, info, parseDone, srcLayers>>
      /\ InStep(e, "build", "check") /\ Continue(e, "count")
      /\ Record(Fault(info[job[e].of] # "live", "testChecked", job[e].of))
  BY DEF TestChecked, queues, parsing, saving
<1>3. PICK i \in StaticItems, j \in AllJobs : Building(e, "check", i, j)
  BY <1>2, BuildInHand
<1>4. itemReady' = IF checked[i] + j.count = Size[Plugin[i]] THEN itemReady \cup {i} ELSE itemReady
  BY <1>3 DEF TestChecked, AllChecked, Building
<1>5. Calm({}) /\ Comes({}) BY <1>2, ContinueIsCalm DEF Labels, JobKinds, Calm
<1>6. LateTypes /\ LateTypes' BY <1>1, <1>2 DEF KeepsInv, LateTypes
<1>7. InfoOfJobs' /\ InfoOfKnown' /\ InfoOfParsed' /\ InfoOfItems'
  <2>1. \A s \in Subs : JobsOf("items", s)' # {} => JobsOf("items", s) # {}
    BY <1>5, NoItemsCome
  <2> QED BY <1>1, <1>2, <1>5, <1>6, <2>1, InfoStays DEF KeepsInv, Calm
<1>8. InfoKept'
  <2>1. checked[i] + j.count = Size[Plugin[i]] =>
          JobsOf("build", i) \subseteq InHand({"count"})'
    <3>1. job' = job /\ at'[e] = "count" /\ j = job[e]
      BY <1>1, <1>2, <1>3, Continued DEF Labels, Building
    <3> QED BY <1>3, <3>1, LastToCount DEF InHand
  <2> QED BY <1>1, <1>2, <1>4, <1>5, <2>1, KeptStays DEF KeepsInv, Calm
<1>9. SourcesKept' BY <1>1, <1>2, <1>5, SourcesStay DEF KeepsInv, Calm
<1>10. info[job[e].of] = "live" BY <1>1, <1>2, InfoIsLive DEF SecondTag, InStep
<1>11. faults' = faults BY <1>2, <1>10 DEF Record, Fault
<1>12. LateUsesAreKnown' BY <1>1, <1>11, NoneStayKnown
<1> QED BY <1>6, <1>7, <1>8, <1>9, <1>12 DEF LateInv, KeepsInv

\* The GroupInfo is deleted when the type is complete (Group.cpp:206-225).
LEMMA InitTypeGroupKeepsLate ==
  ASSUME Inv, LateInv, NEW e \in Executors, InitTypeGroup(e)
  PROVE  LateInv'
<1>1. KeepsInv /\ LateUsesAreKnown /\ TypeOK BY DEF LateInv, Inv
<1>2. /\ UNCHANGED <<candidate, ready, outbox, parseFiles>>
      /\ UNCHANGED <<known, parseDone, srcLayers, itemReady>>
      /\ InStep(e, "init", "wait") /\ JobEnds(e) /\ job[e].of \in itemReady
      /\ info' = [info EXCEPT ![job[e].of] = "deleted"]
      /\ Record(Fault(info[job[e].of] # "live", "tagName", job[e].of))
  BY DEF InitTypeGroup, queues, parsing, saving
<1>3. PICK i \in Items : /\ i = job[e].of /\ i \in StaticItems /\ job[e] \in Present
                         /\ job[e].kind = "init" /\ Fits(job[e])
  BY <1>1, <1>2, JobInHand, MakersHaveItems DEF JobKinds
<1>4. Calm({}) /\ Comes({}) /\ Present' \subseteq Present /\ job[e] \notin Present'
  BY <1>2, EndIsCalm DEF Calm
<1>5. LateTypes /\ LateTypes' BY <1>1, <1>2 DEF KeepsInv, LateTypes
<1>6. InfoOfJobs' /\ InfoOfKnown' /\ InfoOfParsed' /\ InfoOfItems'
  <2>1. \A s \in Subs : JobsOf("items", s)' # {} => JobsOf("items", s) # {}
    BY <1>4, NoItemsCome
  <2>2. \A x \in Items : info[x] # "none" => info'[x] # "none"
    BY <1>2, <1>5 DEF LateTypes
  <2> QED BY <1>1, <1>2, <1>4, <1>5, <2>1, <2>2, InfoStays DEF KeepsInv, Calm
<1>7. ASSUME OneTag(i) PROVE JobsOf("init", i)' = {}
  <2> SUFFICES ASSUME NEW j \in Present', j.kind = "init", j.of = i PROVE FALSE
    BY DEF JobsOf
  <2>1. j \in Present /\ Fits(j) BY <1>1, <1>4, PresentAreJobs, FieldsOfJobs
  <2>2. PICK r \in Statics : j = InitType(ItemOf[r], TypeOf[r])
    BY <2>1 DEF Fits
  <2>3. PICK u \in Statics : job[e] = InitType(ItemOf[u], TypeOf[u])
    BY <1>3 DEF Fits
  <2>4. ItemOf[r] = i /\ ItemOf[u] = i
    BY <1>3, <2>2, <2>3, JobFields DEF InitType
  <2>5. TypeOf[r] = TypeOf[u] BY <1>7, <2>4 DEF OneTag, Statics
  <2> QED BY <1>4, <2>2, <2>3, <2>4, <2>5
<1>8. InfoKept'
  <2>1. \A x \in Items : info'[x] = "deleted" =>
          \/ info[x] = "deleted"
          \/ x \in StaticItems \cap itemReady' /\ (OneTag(x) => JobsOf("init", x)' = {})
    BY <1>2, <1>3, <1>5, <1>7 DEF LateTypes
  <2> QED BY <1>1, <1>2, <1>4, <2>1, KeptStays DEF KeepsInv, Calm
<1>9. SourcesKept' BY <1>1, <1>2, <1>4, SourcesStay DEF KeepsInv, Calm
<1>10. LateUsesAreKnown' BY <1>2, TagNameIsKnown
<1> QED BY <1>5, <1>6, <1>8, <1>9, <1>10 DEF LateInv, KeepsInv

-----------------------------------------------------------------------------
(* The steps of a ParseGroup job.                                            *)

\* The layers of a file that is simple are there while its groups are parsed.
LEMMA SourceIsLive ==
  ASSUME KeepsInv, NEW f \in Files, JobsOf("group", f) # {}, srcLayers[f] = "deleted"
  PROVE  ~Simple(f)
  BY DEF KeepsInv, SourcesKept, SourceKept

\* The conditions of a group are parsed, or copied (Config.cpp:636-696).
LEMMA ParsedInfoKeepsLate ==
  ASSUME Inv, LateInv, NEW e \in Executors, ParseConditions(e) \/ CopyInfo(e)
  PROVE  LateInv'
<1>1. KeepsInv /\ LateUsesAreKnown /\ TypeOK BY DEF LateInv, Inv
<1>2. /\ UNCHANGED <<candidate, ready, outbox, parseFiles>>
      /\ UNCHANGED <<known, srcLayers, itemReady>>
      /\ InStep(e, "group", "parse") /\ Continue(e, "publish")
  BY DEF ParseConditions, CopyInfo, queues, parsing, saving
<1>3. PICK f \in Files, r \in Requests : Parsing(e, "parse", f, r)
  BY <1>1, <1>2, GroupInHand
<1>4. PICK i \in Items : i = ItemOf[r] BY <1>3 DEF Parsing
<1>5. /\ f = job[e].of /\ r = job[e].from /\ job[e].kind = "group" /\ at[e] = "parse"
      /\ job[e] \in JobsOf("group", f)
  BY <1>3 DEF Parsing, JobsOf
<1>6. info' = [info EXCEPT ![i] = "live"] /\ (parseDone' = parseDone \/ parseDone' = parseDone \cup {i})
  BY <1>4, <1>5 DEF ParseConditions, CopyInfo
<1>7. Effect({}, {}, 0) /\ Others(e) /\ job'[e] = job[e] /\ at'[e] = "publish"
  BY <1>2, ContinueEffect DEF JobKinds, Labels
<1>8. Comes({}) /\ outbox' = outbox BY <1>2, <1>7 DEF Effect, Comes
<1>9. FilesStayParsed /\ CountersStay
  <2>1. InHand({"push"})' = InHand({"push"}) BY <1>5, <1>7, HandsSame
  <2>2. FilesStayParsed
    BY <1>2, <1>7, <2>1, LinesKept, LinesStayParsed DEF Avoid
  <2>3. InHand({"count"})' = InHand({"count"})
    BY <1>5, <1>7, HandsSame
  <2> QED BY <2>2, <2>3 DEF CountersStay
<1>10. LateTypes /\ LateTypes' BY <1>1, <1>2, <1>6 DEF KeepsInv, LateTypes
<1>11. InfoOfJobs' /\ InfoOfKnown' /\ InfoOfParsed' /\ InfoOfItems'
  <2>1. \A x \in Items : (info[x] # "none" => info'[x] # "none") /\ info'[i] # "none"
    BY <1>6, <1>10 DEF LateTypes
  <2>2. ASSUME NEW x \in Executors, NEW y \in Items, ParsedBy(x, y)
        PROVE  (ParsedBy(x, y)' /\ outbox'[x] = outbox[x]) \/ info'[y] # "none"
    <3>1. CASE x = e BY <1>4, <1>5, <2>1, <2>2, <3>1 DEF ParsedBy
    <3>2. CASE x # e BY <1>7, <2>2, <3>2 DEF ParsedBy, Others
    <3> QED BY <3>1, <3>2
  <2>3. \A j \in Present' : Makes(j) => j \in Present
    BY <1>8 DEF Comes, Makes
  <2>4. \A y \in Items : KnownItem(y)' => KnownItem(y) BY <1>2 DEF KnownItem
  <2>5. \A s \in Subs : JobsOf("items", s)' # {} => JobsOf("items", s) # {}
    BY <1>8, NoItemsCome
  <2>6. \A y \in parseDone' : y \in parseDone \/ info'[y] # "none"
    BY <1>6, <2>1
  <2> QED
    BY <1>1, <1>10, <2>1, <2>2, <2>3, <2>4, <2>5, <2>6, InfoMoves DEF KeepsInv, LateTypes
<1>12. InfoKept'
  <2>1. \A x \in Items : info'[x] = "deleted" => info[x] = "deleted"
    BY <1>6, <1>10 DEF LateTypes
  <2> QED BY <1>1, <1>2, <1>8, <1>9, <2>1, KeptStays DEF KeepsInv
<1>13. SourcesKept' BY <1>1, <1>2, <1>8, <1>9, SourcesStay DEF KeepsInv
<1>14. LateUsesAreKnown'
  <2>1. \A x \in Fault(LostSource(e), "srcLayers", job[e].of) :
          x[1] = "srcLayers" /\ x[2] \in Files /\ ~Simple(x[2])
    <3>1. LostSource(e) => ~Simple(f)
      BY <1>1, <1>5, SourceIsLive DEF LostSource
    <3>2. \A x \in Fault(LostSource(e), "srcLayers", f) : LostSource(e) /\ x = <<"srcLayers", f>>
      BY FaultFacts
    <3> QED BY <1>5, <3>1, <3>2
  <2>2. CASE ParseConditions(e)
    BY <1>1, <2>1, <2>2, FaultsStayKnown DEF ParseConditions, Record
  <2>3. CASE CopyInfo(e)
    <3>1. StaticOf[i] \in parseDone BY <1>4, <1>5, <2>3 DEF CopyInfo
    <3>2. info[StaticOf[i]] # "none" BY <1>1, <3>1 DEF KeepsInv, InfoOfParsed
    <3> DEFINE gone == Fault(info[StaticOf[i]] = "none", "noInfo", i)
               old == Fault(info[StaticOf[i]] = "deleted", "deletedInfo", i)
               lost == Fault(LostSource(e), "srcLayers", job[e].of)
    <3>3. faults' = faults \cup (gone \cup old \cup lost)
      BY <1>4, <1>5, <2>3 DEF CopyInfo, Record
    <3>4. gone = {} /\ \A x \in old : x[1] = "deletedInfo" BY <3>2 DEF Fault
    <3>5. \A x \in lost : x[1] = "srcLayers" /\ x[2] \in Files /\ ~Simple(x[2])
      BY <2>1
    <3> HIDE DEF gone, old, lost
    <3> QED BY <1>1, <3>3, <3>4, <3>5, FaultsStayKnown
  <2> QED BY <2>2, <2>3
<1> QED BY <1>10, <1>11, <1>12, <1>13, <1>14 DEF LateInv, KeepsInv

\* A group is registered and, if it is new and static, its jobs are made by the
\* executor that will parse it (ResourcePool.cpp:268-302).
LEMMA FindInsertGroupKeepsLate ==
  ASSUME Inv, OrderInv, LateInv, NEW e \in Executors, FindInsertGroup(e)
  PROVE  LateInv'
<1>1. KeepsInv /\ LateUsesAreKnown /\ TypeOK /\ Steps /\ ItemsCounted /\ Registered
  BY DEF LateInv, Inv, OrderInv
<1>2. PICK f \in Files, r \in Requests : Parsing(e, "run", f, r)
  BY <1>1, GroupInHand DEF FindInsertGroup
<1>3. PICK i \in Items : i = ItemOf[r] BY <1>2 DEF Parsing
<1>4. /\ f = job[e].of /\ r = job[e].from /\ job[e].kind = "group" /\ at[e] = "run"
      /\ outbox[e] = <<>>
  BY <1>1, <1>2 DEF Parsing, Steps, StepOf
<1> DEFINE t == TypeOf[r]
<1>5. /\ known' = known \cup {<<"item", i>>} \cup (IF Dynamic(r) THEN {} ELSE {<<"type", t>>})
      /\ UNCHANGED <<info, parseDone, srcLayers, itemReady, faults>>
      /\ outbox' = [outbox EXCEPT ![e] = IF Dynamic(r) \/ <<"type", t>> \in known THEN <<>>
                                         ELSE IF KnownItem(i) THEN <<InitType(i, t)>>
                                         ELSE NewGroupJobs(i, t)]
      /\ Continue(e, IF KnownItem(i) THEN "publish" ELSE "parse")
  BY <1>3, <1>4 DEF FindInsertGroup, KnownItem, parsing
<1>6. /\ Others(e) /\ job' = job
      /\ at'[e] = IF KnownItem(i) THEN "publish" ELSE "parse"
  BY <1>1, <1>5 DEF Continue, TypeOK, Others
<1>7. ASSUME NEW j \in ToSet(outbox'[e])
      PROVE  /\ j.kind \in {"build", "init"} /\ j.of = i
             /\ ~KnownItem(i) \/ SecondTag(j)
  <2>0. outbox'[e] = IF Dynamic(r) \/ <<"type", t>> \in known THEN <<>>
                     ELSE IF KnownItem(i) THEN <<InitType(i, t)>>
                     ELSE NewGroupJobs(i, t)
    BY <1>1, <1>5 DEF TypeOK
  <2>1. r \in Statics /\ <<"type", t>> \notin known
    <3>1. ToSet(<<>>) = {} BY DEF ToSet
    <3> HIDE DEF t
    <3>2. ~Dynamic(r) /\ <<"type", t>> \notin known BY <1>7, <2>0, <3>1
    <3> QED BY <3>2 DEF Statics
  <2>2. <<"type", t>> \notin known BY <2>1
  <2>3. CASE ~KnownItem(i)
    <3>1. outbox'[e] = NewGroupJobs(i, t) BY <2>0, <2>1, <2>3 DEF Statics
    <3> QED BY <1>3, <1>7, <2>1, <2>3, <3>1, NewGroupInOrder
  <2>4. CASE KnownItem(i)
    <3>1. ~OneTag(i) BY <1>1, <1>3, <2>1, <2>2, <2>4 DEF Registered
    <3>2. outbox'[e] = <<InitType(i, t)>> BY <2>0, <2>1, <2>4 DEF Statics
    <3>3. j.kind = "init" /\ j.of = i
      BY <1>7, <3>2, JobFields DEF ToSet, InitType
    <3> QED BY <3>1, <3>3 DEF SecondTag
  <2> QED BY <2>3, <2>4
<1>8. SameSaves /\ Present' \ Present \subseteq ToSet(outbox'[e])
  BY FindInsertGroupKeepsInv
<1>9. \A j \in Present' \ Present : /\ j \in ToSet(outbox'[e])
                                    /\ j.kind \in {"build", "init"} /\ j.of = i
                                    /\ ~KnownItem(i) \/ SecondTag(j)
  BY <1>7, <1>8
<1>10. Comes({"build", "init"}) BY <1>9 DEF Comes
<1>11. FilesStayParsed /\ CountersStay
  <2>1. InHand({"count"})' = InHand({"count"})
    BY <1>4, <1>6, HandsSame
  <2> QED BY <1>8, <2>1, LinesStayParsed DEF CountersStay, SameSaves
<1>12. ~KnownItem(i) => ParsedBy(e, i)' BY <1>3, <1>4, <1>6 DEF ParsedBy
<1>13. LateTypes /\ LateTypes' BY <1>1, <1>5 DEF KeepsInv, LateTypes
<1>14. InfoOfJobs' /\ InfoOfKnown' /\ InfoOfParsed' /\ InfoOfItems'
  <2>1. ASSUME NEW x \in Executors, NEW y \in Items, ParsedBy(x, y)
        PROVE  (ParsedBy(x, y)' /\ outbox'[x] = outbox[x]) \/ info'[y] # "none"
    <3>1. x # e BY <1>4, <2>1 DEF ParsedBy
    <3> QED BY <1>6, <2>1, <3>1 DEF ParsedBy, Others
  <2>2. ASSUME NEW j \in Present', Makes(j), j \notin Present
        PROVE  ParsedBy(e, j.of)' /\ j \in ToSet(outbox'[e])
    BY <1>9, <1>12, <2>2 DEF Makes
  <2>3. ASSUME NEW y \in Items, KnownItem(y)' PROVE KnownItem(y) \/ ParsedBy(e, y)'
    <3>1. KnownItem(y) \/ y = i BY <1>5, <2>3 DEF KnownItem
    <3> QED BY <1>12, <3>1
  <2>4. \A s \in Subs : JobsOf("items", s)' # {} => JobsOf("items", s) # {}
    BY <1>10, NoItemsCome
  <2>5. parseDone \subseteq Items /\ info' = info /\ parseDone' = parseDone
    BY <1>5, <1>13 DEF LateTypes
  <2> QED BY <1>1, <2>1, <2>2, <2>3, <2>4, <2>5, InfoMoves DEF KeepsInv
<1>15. InfoKept'
  <2>1. ASSUME NEW y \in StaticItems \cap itemReady, NEW kind \in {"build", "init"},
               kind = "build" \/ OneTag(y)
        PROVE  JobsOf(kind, y)' \subseteq JobsOf(kind, y) /\ JobsOf(kind, y)' \subseteq Present'
    <3>1. KnownItem(y) BY <1>1 DEF ItemsCounted, ItemsCountedOf, KnownItem
    <3>2. JobsOf(kind, y)' = {j \in Present' : j.kind = kind /\ j.of = y}
      BY DEF JobsOf
    <3> QED BY <1>9, <2>1, <3>1, <3>2 DEF JobsOf, SecondTag
  <2>2. itemReady' = itemReady /\ info' = info BY <1>5
  <2>3. ASSUME NEW y \in Items, info'[y] = "deleted"
        PROVE  y \in StaticItems \cap itemReady' /\ (OneTag(y) => JobsOf("init", y)' = {})
    BY <1>1, <2>1, <2>2, <2>3 DEF KeepsInv, InfoKept
  <2>4. ASSUME NEW y \in StaticItems \cap itemReady'
        PROVE  JobsOf("build", y)' \subseteq InHand({"count"})'
    BY <1>1, <1>11, <2>1, <2>2 DEF KeepsInv, InfoKept, CountersStay
  <2> QED BY <2>3, <2>4 DEF InfoKept, OneTag, Dynamic
<1>16. SourcesKept' BY <1>1, <1>5, <1>10, <1>11, SourcesStay DEF KeepsInv
<1>17. LateUsesAreKnown' BY <1>1, <1>5, NoneStayKnown
<1> QED BY <1>13, <1>14, <1>15, <1>16, <1>17 DEF LateInv, KeepsInv

\* When no executor is parsing conditions, the groups of the items that a step
\* releases have their GroupInfo.
LEMMA ReleasedHaveInfo ==
  ASSUME KeepsInv, ItemsHeldBack', Registered', UNCHANGED <<known, info>>,
         \A x \in Executors : ~(job[x].kind = "group" /\ at[x] = "parse"),
         NEW s \in Subs, JobsOf("items", s)' # {}
  PROVE  \A r \in RequestsOf(FileOf[s]) : info'[ItemOf[r]] # "none"
<1> TAKE r \in RequestsOf(FileOf[s])
<1>1. FileOf[s] \in Files BY ConstantTypes
<1>2. r \in Requests /\ ItemOf[r] \in Items BY <1>1, NamedItems
<1>3. Resolved(FileOf[s])' BY DEF ItemsHeldBack
<1>4. <<FileOf[s], r>> \in resolved' BY <1>3 DEF Resolved
<1>5. KnownItem(ItemOf[r]) BY <1>1, <1>2, <1>4 DEF Registered, KnownItem
<1> QED BY <1>2, <1>5 DEF KeepsInv, InfoOfKnown, ParsedBy

\* When no ParseGroup job is left, no file has one.
LEMMA NoGroupJobsNext ==
  ASSUME GroupsCounted', groupJobs' = 0
  PROVE  \A f : JobsOf("group", f)' = {}
<1>1. GroupsIn(Queue') = {}
  <2>1. IsFiniteSet(GroupsIn(Queue')) /\ groupJobs' = Cardinality(GroupsIn(Queue'))
    BY DEF GroupsCounted
  <2> QED BY <2>1, FS_EmptySet
<1>2. \A j \in Present' : j.kind # "group"
  BY <1>1, PresentNext DEF JobsIn, GroupsIn
<1>3. \A f : JobsOf("group", f)' = {j \in Present' : j.kind = "group" /\ j.of = f}
  BY DEF JobsOf
<1> QED BY <1>2, <1>3

\* A group's pointer is set, and the last group releases the cache and deletes the
\* layers of its file (ExecutorJobFunc.cpp:245-266).
LEMMA PublishGroupKeepsLate ==
  ASSUME Inv, OrderInv, LateInv, NEW e \in Executors, PublishGroup(e)
  PROVE  LateInv'
<1>1. KeepsInv /\ LateUsesAreKnown /\ TypeOK /\ GroupsCounted
  BY DEF LateInv, Inv
<1>2. PICK f \in Files, r \in Requests : Parsing(e, "publish", f, r)
  BY <1>1, GroupInHand DEF PublishGroup
<1>3. /\ f = job[e].of /\ r = job[e].from /\ job[e].kind = "group" /\ at[e] = "publish"
      /\ job[e] \in JobsOf("group", f)
  BY <1>2 DEF Parsing, JobsOf
<1> DEFINE gone == Fault(groupJobs = 1 /\ srcLayers[f] = "deleted", "srcLayers", f)
<1>4. /\ itemReady' = itemReady \cup OpenedBy(r) /\ groupJobs' = groupJobs - 1
      /\ cache' = IF groupJobs = 1 THEN Emptied ELSE cache
      /\ srcLayers' = IF groupJobs = 1 THEN [srcLayers EXCEPT ![f] = "deleted"] ELSE srcLayers
      /\ faults' = faults \cup gone
      /\ outbox' = [outbox EXCEPT ![e] = <<>>] /\ JobEnds(e)
      /\ UNCHANGED <<known, info, parseDone>>
  BY <1>3 DEF PublishGroup, LastGroup, Record
<1> HIDE DEF gone
<1>5. Others(e) /\ at'[e] = "idle" BY <1>1, <1>4, Ended DEF TypeOK, Others
<1>6. Inv' /\ SameLines /\ CacheGoes(cache) /\ Comes({"items"})
  BY PublishGroupKeepsInv DEF CacheReleased
<1>7. OrderInv' /\ ItemsHeldBack' /\ GroupsCounted' /\ Registered'
  BY <1>6, PublishGroupKeepsOrder DEF Inv, OrderInv
<1>8. FilesStayParsed /\ ParsersStay /\ CountersStay
  <2>1. InHand({"count"})' = InHand({"count"})
    BY <1>3, <1>5, HandsSame
  <2>2. ParsersStay BY <1>3, <1>5 DEF ParsersStay, Others
  <2> QED BY <1>6, <2>1, <2>2, LinesStayParsed DEF CountersStay
<1>9. LateTypes /\ LateTypes' BY <1>1, <1>4 DEF KeepsInv, LateTypes
<1>10. InfoOfJobs' /\ InfoOfKnown' /\ InfoOfParsed' /\ InfoOfItems'
  <2>1. ASSUME NEW s \in Subs, JobsOf("items", s)' # {}
        PROVE  \/ JobsOf("items", s) # {}
               \/ \A u \in RequestsOf(FileOf[s]) : info'[ItemOf[u]] # "none"
    <3>1. CASE groupJobs = 1
      <4>1. \A x \in Executors : ~(job[x].kind = "group" /\ at[x] = "parse")
        BY <1>1, <1>3, <3>1, ParsersAreCounted
      <4> QED BY <1>1, <1>4, <1>7, <2>1, <4>1, ReleasedHaveInfo
    <3>2. CASE groupJobs # 1
      <4>1. cache' = cache /\ ToSet(<<>>) = {} BY <1>4, <3>2 DEF ToSet
      <4>2. JobsOf("items", s)' = JobsOf("items", s)
        BY <1>6, <4>1 DEF CacheGoes
      <4> QED BY <2>1, <4>2
    <3> QED BY <3>1, <3>2
  <2> QED BY <1>1, <1>4, <1>6, <1>8, <1>9, <2>1, InfoStays DEF KeepsInv
<1>11. InfoKept'
  <2>1. \A x \in StaticItems \cap itemReady' : x \in itemReady
    <3>1. ASSUME NEW u \in Statics, ItemOf[u] = ItemOf[r] PROVE ~Dynamic(r)
      BY <3>1, KeysAssumption DEF Statics
    <3> QED BY <1>4, <3>1 DEF StaticItems, OpenedBy
  <2> QED BY <1>1, <1>4, <1>6, <1>8, <2>1, KeptStays DEF KeepsInv
<1>12. SourcesKept'
  <2> SUFFICES ASSUME NEW g \in Files, Simple(g) PROVE SourceKept(g)'
    BY DEF SourcesKept, Simple
  <2>1. SourceKept(g) /\ (Parsed(g) => Parsed(g)')
    BY <1>1, <1>8 DEF KeepsInv, SourcesKept, FilesStayParsed
  <2>2. \A j \in Present' \ Present : j.kind # "group" BY <1>6 DEF Comes
  <2>3. CASE g = f /\ groupJobs = 1
    <3>1. Parsed(g)' BY <1>3, <2>1, <2>3 DEF SourceKept
    <3>2. JobsOf("group", g)' = {} BY <1>4, <1>7, <2>3, NoGroupJobsNext
    <3> QED BY <3>1, <3>2 DEF SourceKept
  <2>4. CASE g # f \/ groupJobs # 1
    <3>1. srcLayers'[g] = srcLayers[g] BY <1>4, <1>9, <2>4 DEF LateTypes
    <3> QED BY <2>1, <2>2, <3>1, SourceStays
  <2> QED BY <2>3, <2>4
<1>13. LateUsesAreKnown'
  <2>1. srcLayers[f] = "deleted" => ~Simple(f) BY <1>1, <1>3, SourceIsLive
  <2>2. \A x \in gone : srcLayers[f] = "deleted" /\ x = <<"srcLayers", f>>
    BY FaultFacts DEF gone
  <2>3. \A x \in gone : x[1] = "srcLayers" /\ x[2] \in Files /\ ~Simple(x[2])
    BY <2>1, <2>2
  <2> QED BY <1>1, <1>4, <2>3, FaultsStayKnown
<1> QED BY <1>9, <1>10, <1>11, <1>12, <1>13 DEF LateInv, KeepsInv

-----------------------------------------------------------------------------
(* The step that counts lines.                                               *)

\* A job of lines makes groups that the lines of its file name.
LEMMA NewsAreNamed ==
  ASSUME TypeOK, NEW e \in Executors, NEW label, InStep(e, "lines", label)
  PROVE  ToSet(News(e)) \subseteq RequestsOf(job[e].of)
<1> DEFINE f == job[e].of
           j == job[e]
           s == SubSeq(Lines[f], j.from + 1, j.from + j.count)
<1>1. f \in Files /\ j \in ToSet(LinesJobs(f)) BY NewsOfJob
<1>2. /\ s \in Seq(Seq(Requests)) /\ Elems(j) \subseteq DOMAIN Lines[f]
      /\ ToSet(s) = {Lines[f][k] : k \in Elems(j)}
  BY <1>1, LinesOfJob
<1>3. News(e) = FlattenSeq(s) BY DEF News
<1> HIDE DEF s
<1>4. ToSet(News(e)) = UNION {ToSet(s[k]) : k \in DOMAIN s}
  BY <1>2, <1>3, ElementsOfFlattened
<1> SUFFICES ASSUME NEW r \in ToSet(News(e)) PROVE r \in RequestsOf(f) OBVIOUS
<1>5. PICK k \in DOMAIN s : r \in ToSet(s[k]) BY <1>4
<1>6. s[k] \in ToSet(s) BY DEF ToSet
<1>7. PICK m \in DOMAIN Lines[f] : s[k] = Lines[f][m] BY <1>2, <1>6
<1> QED BY <1>5, <1>7 DEF RequestsOf

\* A file that names no group gets no ParseGroup job, and one that is parsed at once
\* is parsed when its lines are counted.
LEMMA SimpleIsParsed ==
  ASSUME Inv, NEW e \in Executors, InStep(e, "lines", "cache"), Continue(e, "push"),
         NEW f \in Files, f = job[e].of, ~FilePending(f)', SourceKept(f), ~Parsed(f), Simple(f),
         \A x \in Present' \ Present : \/ x.kind = "group" /\ x \in ToSet(outbox[e])
                                       \/ x.kind = "items",
         JobsOf("group", f)' # {}
  PROVE  Parsed(f)'
<1>1. TypeOK /\ Steps BY DEF Inv
<1>2. job' = job /\ at'[e] = "push" BY <1>1, Continued DEF Labels
<1>3. at[e] = "cache" BY DEF InStep
<1>4. RequestsOf(f) # {}
  <2> SUFFICES ASSUME RequestsOf(f) = {} PROVE FALSE OBVIOUS
  <2>1. PICK x \in Present' : x.kind = "group" /\ x.of = f BY DEF JobsOf
  <2>2. x \notin Present BY <2>1 DEF SourceKept, JobsOf
  <2>3. x \in ToSet(outbox[e]) BY <2>1, <2>2
  <2>4. outbox[e] = [k \in DOMAIN News(e) |-> ParseGroup(job[e].of, News(e)[k])]
    BY <1>1, <1>3 DEF Steps, StepOf
  <2>5. PICK k : k \in DOMAIN News(e) BY <2>3, <2>4 DEF ToSet
  <2>6. News(e)[k] \in ToSet(News(e)) BY <2>5 DEF ToSet
  <2> QED BY <1>1, <2>6, NewsAreNamed
<1>5. JobsOf("lines", f)' \subseteq {job[e]}
  <2>1. JobsOf("lines", f)' = {x \in Present' : x.kind = "lines" /\ x.of = f}
    BY DEF JobsOf
  <2>2. JobsOf("lines", f)' \subseteq JobsOf("lines", f) BY <2>1 DEF JobsOf
  <2>3. JobsOf("lines", f) \subseteq ToSet(LinesJobs(f)) /\ job[e] \in ToSet(LinesJobs(f))
    BY <1>1, LinesApart, NewsOfJob
  <2>4. LinesJobs(f) \in Seq(AllJobs) /\ ~(Len(LinesJobs(f)) > 1)
    BY <1>4, PartsOfLines DEF Parts, Simple
  <2> DEFINE q == LinesJobs(f)
  <2>5. ToSet(q) \subseteq {q[1]}
    <3> HIDE DEF q
    <3>1. q \in Seq(AllJobs) /\ ~(Len(q) > 1) BY <2>4 DEF q
    <3>2. Len(q) \in Nat /\ DOMAIN q = 1 .. Len(q) BY <3>1, LenProperties
    <3>3. \A k \in DOMAIN q : k = 1 BY <3>1, <3>2
    <3> QED BY <3>3 DEF ToSet
  <2> QED BY <2>2, <2>3, <2>5
<1>6. job[e] \in InHand({"push"})' BY <1>2 DEF InHand
<1> QED BY <1>5, <1>6, ParsedNext

\* Lines are counted; the last of a file fill the cache, or release it and delete the
\* layers of their file (ExecutorJobFunc.cpp:147-191).
LEMMA CacheItemsKeepsLate ==
  ASSUME Inv, SaveInv, OrderInv, LateInv, NEW e \in Executors, CacheItems(e)
  PROVE  LateInv'
<1>1. KeepsInv /\ LateUsesAreKnown /\ TypeOK /\ GroupsCounted /\ Steps
  BY DEF LateInv, Inv
<1>2. InStep(e, "lines", "cache") /\ Continue(e, "push") BY DEF CacheItems
<1>3. /\ Inv' /\ LinesCountedBy(e)
      /\ \A x \in Present' \ Present : \/ x.kind = "group" /\ x \in ToSet(outbox[e])
                                       \/ x.kind = "items" /\ Releases(e)
  BY CacheItemsKeepsInv
<1>4. PICK f \in Files : /\ f = job[e].of /\ ~FilePending(f) /\ ~FilePending(f)' /\ ~Parsed(f)
                         /\ IsLast(f, job[e]) <=> Parsed(f)'
                         /\ \A g \in Files \ {f} : SameLinesOf(g)
  BY <1>3 DEF LinesCountedBy
<1>5. PICK s \in Subs : s = SubOf(f) /\ FileOf[s] = f BY ConstantTypes
<1> DEFINE lost == Fault(IsLast(f, job[e]) /\ srcLayers[f] = "deleted", "srcLayers", f)
           unset == Fault(IsLast(f, job[e]) /\ Src[s] \notin layerReady, "size", s)
<1>6. /\ groupJobs' = groupJobs + Len(outbox[e])
      /\ srcLayers' = IF Releases(e) THEN [srcLayers EXCEPT ![f] = "deleted"] ELSE srcLayers
      /\ faults' = faults \cup (lost \cup unset)
      /\ UNCHANGED <<known, info, parseDone, itemReady>>
      /\ \A x \in Executors \ {e} : outbox'[x] = outbox[x]
  <2>1. groupJobs' = groupJobs + Len(outbox[e]) /\ UNCHANGED <<known, info, parseDone, itemReady>>
    BY DEF CacheItems, WithNews, groups
  <2>2. srcLayers' = IF Releases(e) THEN [srcLayers EXCEPT ![f] = "deleted"] ELSE srcLayers
    BY <1>4 DEF CacheItems, WithNews, NoGroupLeft, Releases, IsLast
  <2>3. faults' = faults \cup (lost \cup unset)
    BY <1>4, <1>5 DEF CacheItems, Record, IsLast
  <2>4. \A x \in Executors \ {e} : outbox'[x] = outbox[x]
    BY <1>1 DEF CacheItems, TypeOK
  <2> QED BY <2>1, <2>2, <2>3, <2>4
<1> HIDE DEF lost, unset
<1>7. Others(e) /\ at[e] = "cache" /\ job[e].kind = "lines" /\ at'[e] = "push"
  <2>1. job' = job /\ at'[e] = "push" /\ \A x \in Executors \ {e} : at'[x] = at[x]
    BY <1>1, <1>2, Continued DEF Labels
  <2> QED BY <1>2, <1>6, <2>1 DEF Others, InStep
<1>8. Comes({"group", "items"}) BY <1>3 DEF Comes
<1>9. FilesStayParsed /\ ParsersStay /\ CountersStay
  <2>1. FilesStayParsed BY <1>4 DEF FilesStayParsed, SameLinesOf
  <2> QED BY <1>7, <1>8, <2>1, CalmFrame DEF Calm
<1>10. LateTypes /\ LateTypes' BY <1>1, <1>6 DEF KeepsInv, LateTypes
<1>11. OrderInv' /\ ItemsHeldBack' /\ GroupsCounted' /\ Registered'
  BY <1>3, LinesKeepOrder DEF Inv, OrderInv
<1>12. Releases(e) => /\ IsLast(f, job[e]) /\ groupJobs = 0 /\ groupJobs' = 0
                      /\ \A x \in Executors : job[x].kind # "group"
  <2>1. groupJobs \in Nat /\ Len(outbox[e]) \in Nat
    BY <1>1, FS_CardinalityType, LenProperties DEF TypeOK, GroupsCounted
  <2>2. Releases(e) => IsLast(f, job[e]) /\ groupJobs = 0 /\ groupJobs' = 0
    BY <1>4, <1>6, <2>1 DEF Releases
  <2> QED BY <1>1, <2>2, ParsersAreCounted
<1>13. InfoOfJobs' /\ InfoOfKnown' /\ InfoOfParsed' /\ InfoOfItems'
  <2>1. ASSUME NEW u \in Subs, JobsOf("items", u)' # {}
        PROVE  \/ JobsOf("items", u) # {}
               \/ \A r \in RequestsOf(FileOf[u]) : info'[ItemOf[r]] # "none"
    <3>1. JobsOf("items", u)' = {x \in Present' : x.kind = "items" /\ x.of = u}
      BY DEF JobsOf
    <3>2. JobsOf("items", u) # {} \/ Releases(e) BY <1>3, <2>1, <3>1 DEF JobsOf
    <3>3. CASE Releases(e)
      BY <1>1, <1>6, <1>11, <1>12, <2>1, <3>3, ReleasedHaveInfo
    <3> QED BY <3>2, <3>3
  <2> QED BY <1>1, <1>6, <1>8, <1>9, <1>10, <2>1, InfoStays DEF KeepsInv
<1>14. InfoKept' BY <1>1, <1>6, <1>8, <1>9, KeptStays DEF KeepsInv
<1>15. SourcesKept'
  <2> SUFFICES ASSUME NEW g \in Files, Simple(g) PROVE SourceKept(g)'
    BY DEF SourcesKept, Simple
  <2>1. SourceKept(g) /\ (Parsed(g) => Parsed(g)')
    BY <1>1, <1>9 DEF KeepsInv, SourcesKept, FilesStayParsed
  <2>2. CASE g = f
    <3>1. JobsOf("group", g)' # {} => Parsed(g)'
      BY <1>2, <1>3, <1>4, <2>1, <2>2, SimpleIsParsed
    <3>2. srcLayers'[g] = "deleted" => Releases(e)
      BY <1>4, <1>6, <2>1, <2>2 DEF SourceKept
    <3>3. Releases(e) => Parsed(g)' /\ JobsOf("group", g)' = {}
      BY <1>4, <1>11, <1>12, <2>2, NoGroupJobsNext
    <3> QED BY <3>1, <3>2, <3>3 DEF SourceKept
  <2>3. CASE g # f
    <3>1. srcLayers'[g] = srcLayers[g] BY <1>6, <1>10, <2>3 DEF LateTypes
    <3>2. \A x \in ToSet(outbox[e]) : x.of = f
      <4>1. outbox[e] = [k \in DOMAIN News(e) |-> ParseGroup(job[e].of, News(e)[k])]
        BY <1>1, <1>7 DEF Steps, StepOf
      <4>2. \A r : ParseGroup(f, r).of = f BY JobFields DEF ParseGroup
      <4> QED BY <1>4, <4>1, <4>2 DEF ToSet
    <3> QED BY <1>3, <2>1, <2>3, <3>1, <3>2, SourceStays
  <2> QED BY <2>2, <2>3
<1>16. LateUsesAreKnown'
  <2>1. srcLayers[f] = "deleted" => ~Simple(f)
    BY <1>1, <1>4 DEF KeepsInv, SourcesKept, SourceKept
  <2>2. unset = {}
    <3>1. Src[s] \in layerReady BY <1>4, <1>5, SizeIsKnown DEF SaveInv
    <3> QED BY <3>1 DEF unset, Fault
  <2>3. \A x \in lost : srcLayers[f] = "deleted" /\ x = <<"srcLayers", f>>
    BY FaultFacts DEF lost
  <2>4. \A x \in lost \cup unset : x[1] = "srcLayers" /\ x[2] \in Files /\ ~Simple(x[2])
    BY <2>1, <2>2, <2>3
  <2> QED BY <1>1, <1>6, <2>4, FaultsStayKnown
<1> QED BY <1>10, <1>13, <1>14, <1>15, <1>16 DEF LateInv, KeepsInv

\* At first no group is there to be deleted.
LEMMA InitLate ==
  ASSUME Init
  PROVE  LateInv
<1>1. /\ Unstarted
      /\ known = {} /\ parseDone = {} /\ itemReady = {} /\ faults = {}
      /\ srcLayers = [f \in Files |-> "live"] /\ info = [i \in Items |-> "none"]
  BY InitInv DEF Init
<1>2. \A x : JobsOf("items", x) = {} /\ JobsOf("group", x) = {}
  BY <1>1 DEF Unstarted, JobsOf
<1>3. LateTypes BY <1>1 DEF LateTypes
<1>4. InfoOfJobs /\ InfoOfKnown /\ InfoOfParsed /\ InfoOfItems
  BY <1>1, <1>2 DEF InfoOfJobs, Makes, Unstarted, InfoOfKnown, KnownItem, InfoOfParsed, InfoOfItems
<1>5. InfoKept BY <1>1 DEF InfoKept
<1>6. SourcesKept BY <1>1, <1>2 DEF SourcesKept, SourceKept
<1>7. LateUsesAreKnown BY <1>1 DEF LateUsesAreKnown
<1> QED BY <1>3, <1>4, <1>5, <1>6, <1>7 DEF LateInv, KeepsInv

\* Every step keeps what is used.
LEMMA NextKeepsLate ==
  ASSUME RunParallel, Inv, SaveInv, OrderInv, LateInv, [Next]_vars
  PROVE  LateInv'
<1>0. 0 \in Executors BY ConstantTypes DEF Executors
<1>1. CASE Select \/ UNCHANGED vars BY <1>0, <1>1, MovesKeepLate
<1>2. ASSUME NEW e \in Executors, Take(e) PROVE LateInv' BY <1>2, MovesKeepLate
<1>3. ASSUME NEW e \in Executors, Step(e) PROVE LateInv'
  <2>1. CASE LoadLayer(e) \/ CopyLoad(e) BY <2>1, LayersKeepLate
  <2>2. CASE PushLines(e) \/ PushParsed(e) BY <2>2, MovesKeepLate
  <2>3. CASE ParseLines(e) \/ CacheItems(e)
    BY <2>3, ParseLinesKeepsLate, CacheItemsKeepsLate
  <2>4. CASE FindInsertGroup(e) \/ PublishGroup(e)
    BY <2>4, FindInsertGroupKeepsLate, PublishGroupKeepsLate
  <2>5. CASE ParseConditions(e) \/ CopyInfo(e) BY <2>5, ParsedInfoKeepsLate
  <2>6. CASE AddElements(e) \/ AddChecked(e) BY <2>6, BuildingKeepsLate
  <2>7. CASE TestChecked(e) \/ ReadTagName(e) \/ InitTypeGroup(e)
    BY <2>7, TestCheckedKeepsLate, ReadTagNameKeepsLate, InitTypeGroupKeepsLate
  <2>8. CASE ProcessItems(e) BY <2>8, ProcessItemsKeepsLate
  <2>9. CASE CompleteFile(e) \/ CountFile(e) \/ SaveLayer(e)
    BY <2>9, SavesKeepLate
  <2> QED
    BY <1>3, <2>1, <2>2, <2>3, <2>4, <2>5, <2>6, <2>7, <2>8, <2>9 DEF Step
<1> QED BY <1>1, <1>2, <1>3 DEF Next, Finished

\* Of what the jobs share and delete, only what is known to be used too late is: the
\* GroupInfo of a type group that has been made, by the last job to count its items, by
\* a dynamic group that copies it, or (early or late) by the init job of a second tag
\* (ExecutorJobFunc.cpp:304, Config.cpp:671, ExecutorJobFunc.cpp:276), and the layers of
\* a file that is parsed in several parts (ExecutorJobFunc.cpp:254).  In parallel mode.
THEOREM LateUsesAreTheKnown ==
  ASSUME RunParallel
  PROVE  Spec => []LateUsesAreKnown
<1>1. Init => Inv /\ SaveInv /\ OrderInv /\ LateInv
  BY InitInv, InitSaves, InitOrder, InitLate
<1>2. Inv /\ SaveInv /\ OrderInv /\ LateInv /\ [Next]_vars
        => (Inv /\ SaveInv /\ OrderInv /\ LateInv)'
  BY NextKeepsInv, NextKeepsSaves, NextKeepsOrder, NextKeepsLate
<1>3. LateInv => LateUsesAreKnown BY DEF LateInv
<1> QED BY <1>1, <1>2, <1>3, PTL DEF Spec
=============================================================================
