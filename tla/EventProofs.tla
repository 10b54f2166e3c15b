---------------------------- MODULE EventProofs ----------------------------
(***************************************************************************)
(* Proofs about EventClustering, for every set of points and every pair of  *)
(* thresholds.  The pass along the timeline is a function of the number of   *)
(* points passed; what holds after each is shown by UpTo, an induction       *)
(* stated on a set.  PassInv is the loop's invariant: each event so far is    *)
(* Sound, between two of them is a break, and together they cut the timeline. *)
(***************************************************************************)
EXTENDS MCDerived, NaturalsInduction, WellFoundedInduction, FiniteSetTheorems, TLAPS

-----------------------------------------------------------------------------
(* Naturals and finite sets.                                               *)

\* A set of naturals that is not empty has a least element.
LEMMA LeastNatural ==
    ASSUME NEW T, T \subseteq Nat, T # {}
    PROVE  \E m \in T : \A n \in T : m <= n
<1> DEFINE R == OpToRel(<, Nat)
<1>1. R = {ss \in Nat \X Nat : ss[1] < ss[2]}
  BY DEF OpToRel
<1>2. IsWellFoundedOn(R, Nat)
  BY NatLessThanWellFounded
<1> HIDE DEF R
<1>3. PICK m \in T : \A n \in T : ~(<<n, m>> \in R)
  BY <1>2, WFMin
<1>4. ASSUME NEW n \in T PROVE m <= n
  <2>1. <<n, m>> \in Nat \X Nat /\ ~(<<n, m>> \in R)
    BY <1>3
  <2>2. ~(n < m)
    BY <1>1, <2>1
  <2> QED BY <2>1, <2>2
<1> QED
  BY <1>4

\* A set that has 0, and each number up to n whose predecessor it has, has all of
\* them.
LEMMA UpTo ==
    ASSUME NEW n \in Nat, NEW T, 0 \in T, \A k \in 1..n : k - 1 \in T => k \in T
    PROVE  \A k \in 0..n : k \in T
<1> SUFFICES ASSUME NEW x \in 0..n, x \notin T PROVE FALSE
  OBVIOUS
<1> DEFINE Out == {k \in 0..n : k \notin T}
<1>1. Out \subseteq Nat /\ Out # {}
  OBVIOUS
<1>2. PICK m \in Out : \A k \in Out : m <= k
  <2> HIDE DEF Out
  <2> QED BY <1>1, LeastNatural
<1>3. m \in 1..n /\ m - 1 \in 0..n /\ m - 1 \notin Out
  BY <1>2
<1> QED BY <1>3

\* The same for all naturals.
LEMMA Always ==
    ASSUME NEW T, 0 \in T, \A k \in Nat : k \in T => k + 1 \in T
    PROVE  \A k \in Nat : k \in T
<1> SUFFICES ASSUME NEW n \in Nat PROVE n \in T
  OBVIOUS
<1>1. ASSUME NEW k \in 1..n, k - 1 \in T PROVE k \in T
  <2>1. k - 1 \in Nat /\ (k - 1) + 1 = k
    OBVIOUS
  <2> QED BY <1>1, <2>1
<1>2. \A k \in 0..n : k \in T
  BY <1>1, UpTo
<1> QED BY <1>2

LEMMA Division ==
    ASSUME NEW a \in Nat, NEW b \in Nat \ {0}
    PROVE  /\ a \div b \in Nat
           /\ a = b * (a \div b) + (a % b)
           /\ a % b \in 0..(b - 1)
OBVIOUS

\* A quotient and a remainder are told by the number.
LEMMA DivisionUnique ==
    ASSUME NEW b \in Nat \ {0}, NEW q \in Nat, NEW r \in 0..(b - 1),
           NEW p \in Nat, NEW s \in 0..(b - 1), b * q + r = b * p + s
    PROVE  q = p /\ r = s
<1>1. ~(q < p)
  <2> SUFFICES ASSUME q < p PROVE FALSE
    OBVIOUS
  <2>1. PICK d \in Nat : p = q + 1 + d
    OBVIOUS
  <2>2. b * p = b * q + b + b * d /\ b * d >= 0
    BY <2>1
  <2> QED BY <2>2
<1>2. ~(p < q)
  <2> SUFFICES ASSUME p < q PROVE FALSE
    OBVIOUS
  <2>1. PICK d \in Nat : q = p + 1 + d
    OBVIOUS
  <2>2. b * q = b * p + b + b * d /\ b * d >= 0
    BY <2>1
  <2> QED BY <2>2
<1>3. q = p
  BY <1>1, <1>2
<1> QED BY <1>3

\* A list without repetition of as many elements as a set has, all of them its
\* own, has every one.
LEMMA ListHasAll ==
    ASSUME NEW S, IsFiniteSet(S), NEW s \in [1..Cardinality(S) -> S],
           \A k, l \in 1..Cardinality(S) : k < l => s[k] # s[l], NEW i \in S
    PROVE  \E k \in 1..Cardinality(S) : s[k] = i
<1> SUFFICES ASSUME \A k \in 1..Cardinality(S) : s[k] # i PROVE FALSE
  OBVIOUS
<1> DEFINE n == Cardinality(S)
<1>1. n \in Nat
  BY FS_CardinalityType
<1>2. s \in [1..n -> S \ {i}]
  OBVIOUS
<1>3. IsFiniteSet(S \ {i}) /\ Cardinality(S \ {i}) = n - 1
  BY FS_RemoveElement
<1>4. IsFiniteSet(1..n) /\ Cardinality(1..n) = n
  BY <1>1, FS_Interval
<1>5. Cardinality(S \ {i}) < Cardinality(1..n)
  BY <1>1, <1>3, <1>4
<1>6. \A k, l \in 1..n : k < l => s[k] # s[l]
  OBVIOUS
<1>7. PICK k, l \in 1..n : k # l /\ s[k] = s[l]
  <2> DEFINE D == 1..n
             C == S \ {i}
  <2>1. /\ IsFiniteSet(D) /\ IsFiniteSet(C) /\ Cardinality(C) < Cardinality(D)
        /\ s \in [D -> C]
    BY <1>2, <1>3, <1>4, <1>5
  <2> HIDE DEF D, C, n
  <2>2. \E k, l \in D : k # l /\ s[k] = s[l]
    BY <2>1, FS_PigeonHole
  <2> QED BY <2>2 DEF D
<1>8. k < l \/ l < k
  BY <1>1, <1>7
<1> QED BY <1>6, <1>7, <1>8

-----------------------------------------------------------------------------
(* Events: the timeline.                                                   *)

\* What LoadClusteringPoints returns: a time comes with its source.
Point == [at : Int, source : {"exif", "filesystem", "none"}, place : Int]
Points == {points \in Seq(Point) :
             \A i \in DOMAIN points : points[i].at # Event!Undated => points[i].source # "none"}

LEMMA EventCount == \A S : Event!Cardinality(S) = Cardinality(S)
BY DEF Event!Cardinality, Cardinality

LEMMA DatedFinite ==
    ASSUME NEW points \in Points
    PROVE  /\ Event!Dated(points) \subseteq 1..Len(points) /\ Len(points) \in Nat
           /\ IsFiniteSet(Event!Dated(points)) /\ Cardinality(Event!Dated(points)) \in Nat
<1>1. Len(points) \in Nat /\ DOMAIN points = 1..Len(points)
  BY DEF Points
<1>2. Event!Dated(points) \subseteq 1..Len(points)
  BY <1>1 DEF Event!Dated
<1>3. IsFiniteSet(1..Len(points))
  BY <1>1, FS_Interval
<1> QED BY <1>1, <1>2, <1>3, FS_Subset, FS_CardinalityType

\* Capture times with ties broken by the id are a total order.
LEMMA EarlierIsTotal ==
    ASSUME NEW points \in Points, NEW i \in 1..Len(points), NEW j \in 1..Len(points)
    PROVE  /\ i # j => Event!Earlier(points, i, j) \/ Event!Earlier(points, j, i)
           /\ ~Event!Earlier(points, i, i)
           /\ \A k \in 1..Len(points) :
                Event!Earlier(points, i, j) /\ Event!Earlier(points, j, k)
                  => Event!Earlier(points, i, k)
<1>1. Len(points) \in Nat /\ points \in Seq(Point)
  BY DEF Points
<1>2. ASSUME NEW k \in 1..Len(points) PROVE points[k].at \in Int /\ k \in Int
  <2>1. points[k] \in Point
    BY <1>1
  <2> QED BY <2>1 DEF Point
<1> QED BY <1>2 DEF Event!Earlier

\* A set of points that is not empty has a last one.
LEMMA LastPoint ==
    ASSUME NEW points \in Points, NEW S, S \subseteq 1..Len(points), S # {}
    PROVE  \E m \in S : \A i \in S \ {m} : Event!Earlier(points, i, m)
<1> DEFINE last(k) == \A R : R \subseteq 1..k /\ R # {} =>
                        \E m \in R : \A i \in R \ {m} : Event!Earlier(points, i, m)
           T == {k \in 0..Len(points) : last(k)}
<1>1. Len(points) \in Nat
  BY DEF Points
<1>2. 0 \in T
  BY <1>1
<1>3. ASSUME NEW k \in 1..Len(points), k - 1 \in T PROVE k \in T
  <2> SUFFICES ASSUME NEW R, R \subseteq 1..k, R # {}
               PROVE  \E m \in R : \A i \in R \ {m} : Event!Earlier(points, i, m)
    BY <1>1
  <2>1. CASE R \ {k} = {}
    BY <2>1
  <2>2. CASE R \ {k} # {}
    <3>1. R \ {k} \subseteq 1..(k - 1)
      BY <1>1
    <3>2. PICK m \in R \ {k} : \A i \in (R \ {k}) \ {m} : Event!Earlier(points, i, m)
      BY <1>3, <2>2, <3>1
    <3>3. CASE k \notin R
      BY <3>2, <3>3
    <3>4. CASE k \in R /\ Event!Earlier(points, k, m)
      BY <3>2, <3>4
    <3>5. CASE k \in R /\ Event!Earlier(points, m, k)
      <4>1. \A i \in R \ {k} : i \in 1..Len(points) /\ (i = m \/ Event!Earlier(points, i, m))
        BY <1>1, <3>2
      <4>2. \A i \in R \ {k} : Event!Earlier(points, i, k)
        BY <1>1, <3>2, <3>5, <4>1, EarlierIsTotal
      <4> QED BY <3>5, <4>2
    <3>6. m \in 1..Len(points) /\ m # k
      BY <1>1, <3>2
    <3> QED BY <3>3, <3>4, <3>5, <3>6, EarlierIsTotal
  <2> QED BY <2>1, <2>2
<1>4. Len(points) \in T
  <2> HIDE DEF T
  <2>1. \A k \in 0..Len(points) : k \in T
    BY <1>1, <1>2, <1>3, UpTo
  <2> QED BY <1>1, <2>1
<1> QED BY <1>4

\* So the sort has a result.
LEMMA SortExists ==
    ASSUME NEW points \in Points
    PROVE  \A n \in Nat : \A S :
              S \subseteq 1..Len(points) /\ IsFiniteSet(S) /\ Cardinality(S) = n =>
                \E line \in [1..n -> S] :
                    \A k, l \in 1..n : k < l => Event!Earlier(points, line[k], line[l])
<1> DEFINE sorts(n) ==
             \A S : S \subseteq 1..Len(points) /\ IsFiniteSet(S) /\ Cardinality(S) = n =>
                \E line \in [1..n -> S] :
                    \A k, l \in 1..n : k < l => Event!Earlier(points, line[k], line[l])
           T == {n \in Nat : sorts(n)}
<1>1. 0 \in T
  <2>1. ASSUME NEW S
        PROVE  \E line \in [1..0 -> S] :
                    \A k, l \in 1..0 : k < l => Event!Earlier(points, line[k], line[l])
    <3>1. 1..0 = {}
      OBVIOUS
    <3>2. [k \in {} |-> 0] \in [{} -> S]
      OBVIOUS
    <3> QED BY <3>1, <3>2
  <2> QED BY <2>1
<1>2. ASSUME NEW n \in Nat, n \in T PROVE n + 1 \in T
  <2> SUFFICES ASSUME NEW S, S \subseteq 1..Len(points), IsFiniteSet(S), Cardinality(S) = n + 1
               PROVE  \E line \in [1..(n + 1) -> S] :
                        \A k, l \in 1..(n + 1) : k < l => Event!Earlier(points, line[k], line[l])
    OBVIOUS
  <2>1. S # {}
    BY FS_EmptySet
  <2>2. PICK m \in S : \A i \in S \ {m} : Event!Earlier(points, i, m)
    BY <2>1, LastPoint
  <2>3. IsFiniteSet(S \ {m}) /\ Cardinality(S \ {m}) = n
    BY FS_RemoveElement
  <2>4. PICK line \in [1..n -> S \ {m}] :
              \A k, l \in 1..n : k < l => Event!Earlier(points, line[k], line[l])
    BY <1>2, <2>3
  <2> DEFINE longer == [k \in 1..(n + 1) |-> IF k = n + 1 THEN m ELSE line[k]]
  <2>5. longer \in [1..(n + 1) -> S]
    BY <2>4
  <2>6. ASSUME NEW k \in 1..(n + 1), NEW l \in 1..(n + 1), k < l
        PROVE  Event!Earlier(points, longer[k], longer[l])
    <3>1. k \in 1..n /\ longer[k] = line[k]
      BY <2>6
    <3>2. CASE l = n + 1
      <4>1. longer[l] = m /\ line[k] \in S \ {m}
        BY <2>4, <3>1, <3>2
      <4> HIDE DEF longer
      <4> QED BY <2>2, <3>1, <4>1
    <3>3. CASE l # n + 1
      <4>1. l \in 1..n /\ longer[l] = line[l]
        BY <3>3
      <4> HIDE DEF longer
      <4> QED BY <2>4, <2>6, <3>1, <4>1
    <3> QED BY <3>2, <3>3
  <2> QED BY <2>5, <2>6
<1>3. \A n \in Nat : n \in T
  <2> HIDE DEF T
  <2> QED BY <1>1, <1>2, Always
<1> QED BY <1>3

\* clustering.go:212-221: the timeline lists every dated photo, once, in order.
LEMMA TimelineListsDated ==
    ASSUME NEW points \in Points
    PROVE  LET line == Event!Timeline(points)
               n == Cardinality(Event!Dated(points))
           IN  /\ n \in Nat /\ line \in [1..n -> Event!Dated(points)]
               /\ \A k, l \in 1..n : k < l => Event!Earlier(points, line[k], line[l])
               /\ \A i \in Event!Dated(points) : \E k \in 1..n : line[k] = i
<1> DEFINE line == Event!Timeline(points)
           S == Event!Dated(points)
           n == Cardinality(S)
<1>1. n \in Nat /\ S \subseteq 1..Len(points) /\ IsFiniteSet(S)
  BY DatedFinite
<1>2. \E s \in [1..n -> S] : \A k, l \in DOMAIN s :
         k < l => Event!Earlier(points, s[k], s[l])
  <2>1. \E s \in [1..n -> S] : \A k, l \in 1..n :
           k < l => Event!Earlier(points, s[k], s[l])
    BY <1>1, SortExists
  <2> QED BY <2>1
<1>3. line = CHOOSE s \in [1..n -> S] :
                \A k, l \in DOMAIN s : k < l => Event!Earlier(points, s[k], s[l])
  BY EventCount DEF Event!Timeline
<1> HIDE DEF line, S
<1>4. /\ line \in [1..n -> S]
      /\ \A k, l \in DOMAIN line : k < l => Event!Earlier(points, line[k], line[l])
  BY <1>2, <1>3
<1>5. \A k, l \in 1..n : k < l => line[k] # line[l]
  <2>1. \A k \in 1..n : line[k] \in 1..Len(points)
    BY <1>1, <1>4
  <2> QED BY <1>4, <2>1, EarlierIsTotal
<1>6. \A i \in S : \E k \in 1..n : line[k] = i
  BY <1>1, <1>4, <1>5, ListHasAll
<1> QED BY <1>1, <1>4, <1>6 DEF line, S

-----------------------------------------------------------------------------
(* Events: one cluster.                                                    *)

Option == [gap : Int, radius : Int]

LEMMA PointTypes ==
    ASSUME NEW points \in Points
    PROVE  /\ Len(points) \in Nat /\ DOMAIN points = 1..Len(points)
           /\ \A i \in 1..Len(points) :
                 points[i].at \in Int /\ points[i].place \in Int
           /\ \A i \in Event!Dated(points) : points[i].source \in {"exif", "filesystem"}
<1>1. Len(points) \in Nat /\ DOMAIN points = 1..Len(points) /\ points \in Seq(Point)
  BY DEF Points
<1>2. ASSUME NEW i \in 1..Len(points)
      PROVE  /\ points[i].at \in Int /\ points[i].place \in Int
             /\ points[i].source \in {"exif", "filesystem", "none"}
  <2>1. points[i] \in Point
    BY <1>1
  <2> QED BY <2>1 DEF Point
<1>3. ASSUME NEW i \in Event!Dated(points) PROVE points[i].source \in {"exif", "filesystem"}
  <2>1. i \in DOMAIN points /\ points[i].at # Event!Undated
    BY DEF Event!Dated
  <2>2. points[i].source # "none"
    BY <2>1 DEF Points
  <2> QED BY <1>1, <1>2, <2>1, <2>2
<1> QED BY <1>1, <1>2, <1>3

\* The places in an event whose photos have a position.
Located(points, c) == {k \in DOMAIN c.photos : points[c.photos[k]].place # Event!NoFix}

Cluster(points) ==
    [photos : Seq(DOMAIN points), started : Int, ended : Int, anchor : Int, far : Int,
     distance : UNION {[D -> Int] : D \in SUBSET DOMAIN points}, mtimes : Nat]

\* An event as EventsPartition and EventsBounded want each to be.
Members(points, c) ==
    /\ c \in Cluster(points)
    /\ c.photos \in Seq(Event!Dated(points)) /\ c.photos # <<>>
    /\ c.started \in Int /\ c.ended \in Int /\ c.started <= c.ended
    /\ c.mtimes \in Nat
    /\ c.mtimes = 0 <=> \A k \in DOMAIN c.photos : points[c.photos[k]].source = "exif"

\* That the anchor is the place of a member bounds how far two of them are apart.
Anchored(points, opts, c) ==
    /\ c.anchor \in Int
    /\ c.anchor = Event!NoFix => Located(points, c) = {}
    /\ c.anchor # Event!NoFix =>
          \E k \in Located(points, c) : points[c.photos[k]].place = c.anchor
    /\ \A k \in Located(points, c) :
          Event!Apart(c.anchor, points[c.photos[k]].place) <= opts.radius
    /\ c.far \in Int /\ c.far <= opts.radius
    /\ DOMAIN c.distance = {c.photos[k] : k \in Located(points, c)}

Unbroken(points, opts, c) ==
    \A k \in 1..(Len(c.photos) - 1) :
        points[c.photos[k + 1]].at - points[c.photos[k]].at <= opts.gap

Sound(points, opts, c) ==
    Members(points, c) /\ Anchored(points, opts, c) /\ Unbroken(points, opts, c)

LEMMA NewIsSound ==
    ASSUME NEW points \in Points, NEW opts \in Option, opts.radius > 0,
           NEW i \in Event!Dated(points)
    PROVE  /\ Sound(points, opts, Event!newCluster(points, i))
           /\ Event!newCluster(points, i).photos = <<i>>
<1> DEFINE c == Event!newCluster(points, i)
           located == Located(points, c)
<1>1. /\ i \in 1..Len(points) /\ points[i].at \in Int /\ points[i].place \in Int
      /\ points[i].source \in {"exif", "filesystem"}
  BY PointTypes, DatedFinite
<1>2. opts.radius \in Int
  BY DEF Option
<1>3. /\ c.photos = <<i>> /\ c.started = points[i].at /\ c.ended = points[i].at
      /\ c.anchor = points[i].place /\ c.far = 0
      /\ c.distance = [j \in {j \in {i} : points[j].place # Event!NoFix} |-> 0]
      /\ c.mtimes = IF points[i].source = "filesystem" THEN 1 ELSE 0
  BY DEF Event!newCluster
<1> HIDE DEF c
<1>4. /\ c.photos \in Seq(Event!Dated(points)) /\ c.photos # <<>> /\ Len(c.photos) = 1
      /\ DOMAIN c.photos = {1} /\ c.photos[1] = i
  BY <1>3
<1>5. located = IF points[i].place # Event!NoFix THEN {1} ELSE {}
  BY <1>4 DEF Located
<1>6. Event!Apart(points[i].place, points[i].place) = 0
  BY <1>1 DEF Event!Apart
<1>7. DOMAIN c.distance = {c.photos[k] : k \in located}
  BY <1>3, <1>4, <1>5
<1> HIDE DEF located
<1>8. c.mtimes \in Nat /\ (c.mtimes = 0 <=> \A k \in DOMAIN c.photos :
                                            points[c.photos[k]].source = "exif")
  BY <1>1, <1>3, <1>4
<1>9. /\ c.anchor \in Int /\ (c.anchor = Event!NoFix => located = {})
      /\ c.anchor # Event!NoFix => \E k \in located : points[c.photos[k]].place = c.anchor
      /\ \A k \in located : Event!Apart(c.anchor, points[c.photos[k]].place) <= opts.radius
  BY <1>1, <1>2, <1>3, <1>4, <1>5, <1>6
<1>10. /\ c.started \in Int /\ c.ended \in Int /\ c.started <= c.ended
       /\ c.far \in Int /\ c.far <= opts.radius
  BY <1>1, <1>2, <1>3
<1>11. \A k \in 1..(Len(c.photos) - 1) :
          points[c.photos[k + 1]].at - points[c.photos[k]].at <= opts.gap
  BY <1>4
<1>12. Members(points, c)
  <2>1. DOMAIN points = 1..Len(points)
    BY PointTypes
  <2>2. c.photos \in Seq(DOMAIN points)
    BY <1>1, <1>3, <2>1
  <2>3. c.distance \in [{j \in {i} : points[j].place # Event!NoFix} -> Int]
    BY <1>3
  <2>4. {j \in {i} : points[j].place # Event!NoFix} \in SUBSET DOMAIN points
    BY <1>1, <2>1
  <2>5. c \in [photos : {c.photos}, started : {c.started}, ended : {c.ended}, anchor : {c.anchor},
               far : {c.far}, distance : {c.distance}, mtimes : {c.mtimes}]
    BY DEF c, Event!newCluster
  <2>6. c \in Cluster(points)
    BY <1>8, <1>9, <1>10, <2>2, <2>3, <2>4, <2>5 DEF Cluster
  <2> QED BY <1>4, <1>8, <1>10, <2>6 DEF Members
<1>13. Anchored(points, opts, c)
  BY <1>7, <1>9, <1>10 DEF Anchored, located
<1>14. Unbroken(points, opts, c)
  BY <1>11 DEF Unbroken
<1> QED BY <1>3, <1>12, <1>13, <1>14 DEF Sound, c

LEMMA AddedIsSound ==
    ASSUME NEW points \in Points, NEW opts \in Option, opts.radius > 0,
           NEW c, Sound(points, opts, c), NEW i \in Event!Dated(points),
           ~Event!breaksCluster(points, c, i, opts)
    PROVE  /\ Sound(points, opts, Event!addTo(points, c, i))
           /\ Event!addTo(points, c, i).photos = Append(c.photos, i)
<1> DEFINE d == Event!addTo(points, c, i)
           p == points[i]
           anchor == IF c.anchor = Event!NoFix THEN p.place ELSE c.anchor
           away == Event!Apart(anchor, p.place)
           n == Len(c.photos)
           placed(e) == Located(points, e)
<1>1. /\ i \in 1..Len(points) /\ p.at \in Int /\ p.place \in Int
      /\ p.source \in {"exif", "filesystem"}
  BY PointTypes, DatedFinite
<1>2. opts.radius \in Int /\ opts.gap \in Int
  BY DEF Option
<1>3. /\ c.photos \in Seq(Event!Dated(points)) /\ c.photos # <<>>
      /\ n \in Nat \ {0} /\ DOMAIN c.photos = 1..n
      /\ c.started \in Int /\ c.ended \in Int /\ c.started <= c.ended
      /\ c.mtimes \in Nat /\ c.anchor \in Int /\ c.far \in Int /\ c.far <= opts.radius
  BY DEF Sound, Members, Anchored
<1>4. /\ d.photos = Append(c.photos, i)
      /\ d.started = c.started
      /\ d.ended = (IF p.at > c.ended THEN p.at ELSE c.ended)
      /\ d.mtimes = (IF p.source = "filesystem" THEN c.mtimes + 1 ELSE c.mtimes)
      /\ d.anchor = anchor
      /\ d.distance = [j \in DOMAIN c.distance \cup {k \in {i} : p.place # Event!NoFix} |->
                          IF j = i THEN away ELSE c.distance[j]]
      /\ d.far = (IF p.place # Event!NoFix /\ away > c.far THEN away ELSE c.far)
  BY DEF Event!addTo
<1>5. /\ c.anchor = Event!NoFix => placed(c) = {}
      /\ c.anchor # Event!NoFix => \E k \in placed(c) : points[c.photos[k]].place = c.anchor
      /\ \A k \in placed(c) : Event!Apart(c.anchor, points[c.photos[k]].place) <= opts.radius
      /\ DOMAIN c.distance = {c.photos[k] : k \in placed(c)}
      /\ c.mtimes = 0 <=> \A k \in 1..n : points[c.photos[k]].source = "exif"
      /\ \A k \in 1..(n - 1) : points[c.photos[k + 1]].at - points[c.photos[k]].at <= opts.gap
  BY <1>3 DEF Sound, Members, Anchored, Unbroken
<1> HIDE DEF d
<1>6. /\ d.photos \in Seq(Event!Dated(points)) /\ Len(d.photos) = n + 1 /\ d.photos # <<>>
      /\ DOMAIN d.photos = 1..(n + 1) /\ d.photos[n + 1] = i
      /\ \A k \in 1..n : d.photos[k] = c.photos[k]
  BY <1>3, <1>4
<1>7. /\ ~(p.at - points[c.photos[n]].at > opts.gap)
      /\ ~(/\ c.anchor # Event!NoFix /\ p.place # Event!NoFix
           /\ Event!Apart(c.anchor, p.place) > opts.radius)
  BY DEF Event!breaksCluster, Event!Last
<1>8. points[c.photos[n]].at \in Int /\ Event!Apart(c.anchor, p.place) \in Int
  <2>1. c.photos[n] \in Event!Dated(points)
    BY <1>3
  <2>2. points[c.photos[n]].at \in Int
    BY <2>1, PointTypes, DatedFinite
  <2>3. p.place \in Int /\ c.anchor \in Int
    BY <1>1, <1>3
  <2>4. Event!Apart(c.anchor, p.place) \in Int
    BY <2>3 DEF Event!Apart
  <2> QED BY <2>2, <2>4
<1>9. away \in Int /\ (p.place # Event!NoFix => away <= opts.radius)
  <2>1. CASE c.anchor = Event!NoFix
    <3>1. away = Event!Apart(p.place, p.place) /\ Event!Apart(p.place, p.place) = 0
      BY <1>1, <2>1 DEF Event!Apart
    <3> QED BY <1>2, <3>1
  <2>2. CASE c.anchor # Event!NoFix
    <3>1. away = Event!Apart(c.anchor, p.place)
      BY <2>2
    <3>2. Event!Apart(c.anchor, p.place) \in Int
      BY <1>8
    <3> HIDE DEF away
    <3>3. p.place # Event!NoFix => ~(away > opts.radius)
      BY <1>7, <2>2, <3>1
    <3> QED BY <1>2, <3>1, <3>2, <3>3
  <2> QED BY <2>1, <2>2
<1> HIDE DEF away
<1>10. /\ placed(d) = (IF p.place # Event!NoFix THEN placed(c) \cup {n + 1} ELSE placed(c))
       /\ placed(c) \subseteq 1..n
  <2>1. DOMAIN c.photos = 1..n
    BY <1>3
  <2>2. placed(c) \subseteq 1..n
    BY <2>1 DEF Located
  <2>3. placed(c) = {k \in 1..n : points[c.photos[k]].place # Event!NoFix}
    BY <2>1 DEF Located
  <2>4. placed(d) = {k \in 1..(n + 1) : points[d.photos[k]].place # Event!NoFix}
    BY <1>6 DEF Located
  <2>5. /\ n \in Nat /\ points[d.photos[n + 1]] = p
        /\ \A k \in 1..n : points[d.photos[k]] = points[c.photos[k]]
    BY <1>3, <1>6
  <2> HIDE DEF placed, p, d
  <2>6. \A k : k \in placed(d) <=> k \in placed(c) \/ (k = n + 1 /\ p.place # Event!NoFix)
    <3>1. 1..(n + 1) = (1..n) \cup {n + 1} /\ n + 1 \notin 1..n
      BY <2>5
    <3>2. ASSUME NEW k \in 1..n PROVE k \in placed(d) <=> k \in placed(c)
      BY <2>3, <2>4, <2>5, <3>1
    <3>3. n + 1 \in placed(d) <=> p.place # Event!NoFix
      BY <2>4, <2>5, <3>1
    <3> QED BY <2>3, <2>4, <3>1, <3>2, <3>3
  <2>7. placed(d) = (IF p.place # Event!NoFix THEN placed(c) \cup {n + 1} ELSE placed(c))
    BY <2>6
  <2> QED BY <2>2, <2>7
<1> HIDE DEF placed
<1>11. d.anchor \in Int /\ (d.anchor = Event!NoFix => placed(d) = {})
  BY <1>1, <1>3, <1>4, <1>5, <1>10
<1>12. d.anchor # Event!NoFix => \E k \in placed(d) : points[d.photos[k]].place = d.anchor
  BY <1>4, <1>5, <1>6, <1>10
<1>13. ASSUME NEW k \in placed(d)
       PROVE  Event!Apart(d.anchor, points[d.photos[k]].place) <= opts.radius
  <2>1. CASE k \in placed(c)
    BY <1>4, <1>5, <1>6, <1>10, <2>1
  <2>2. CASE k = n + 1 /\ p.place # Event!NoFix
    BY <1>4, <1>6, <1>9, <2>2 DEF away
  <2> QED BY <1>10, <2>1, <2>2
<1>14. DOMAIN d.distance = {d.photos[k] : k \in placed(d)}
  <2>1. {d.photos[k] : k \in placed(c)} = {c.photos[k] : k \in placed(c)}
    BY <1>6, <1>10
  <2>2. CASE p.place # Event!NoFix
    <3>1. DOMAIN d.distance = DOMAIN c.distance \cup {i}
      BY <1>4, <2>2
    <3>2. {d.photos[k] : k \in placed(d)} = {d.photos[k] : k \in placed(c)} \cup {d.photos[n + 1]}
      BY <1>10, <2>2
    <3> QED BY <1>5, <1>6, <2>1, <3>1, <3>2
  <2>3. CASE p.place = Event!NoFix
    BY <1>4, <1>5, <1>10, <2>1, <2>3
  <2> QED BY <2>2, <2>3
<1>15. /\ d.mtimes \in Nat
       /\ d.mtimes = 0 <=> \A k \in DOMAIN d.photos : points[d.photos[k]].source = "exif"
  <2> DEFINE exif(j) == points[j].source = "exif"
  <2>1. exif(i) <=> p.source # "filesystem"
    BY <1>1
  <2>2. c.mtimes = 0 <=> \A k \in 1..n : exif(c.photos[k])
    BY <1>5
  <2> HIDE DEF exif
  <2>3. (\A k \in 1..(n + 1) : exif(d.photos[k]))
          <=> (\A k \in 1..n : exif(c.photos[k])) /\ exif(i)
    <3>1. 1..(n + 1) = (1..n) \cup {n + 1}
      BY <1>3
    <3> QED BY <1>6, <3>1
  <2>4. /\ d.mtimes \in Nat
        /\ d.mtimes = 0 <=> c.mtimes = 0 /\ p.source # "filesystem"
    BY <1>3, <1>4
  <2> QED BY <1>6, <2>1, <2>2, <2>3, <2>4 DEF exif
<1>16. ASSUME NEW k \in 1..(Len(d.photos) - 1)
       PROVE  points[d.photos[k + 1]].at - points[d.photos[k]].at <= opts.gap
  <2>0. k \in 1..n
    BY <1>3, <1>6
  <2>1. CASE k = n
    <3>1. d.photos[k + 1] = i /\ d.photos[k] = c.photos[n]
      BY <1>6, <2>0, <2>1
    <3>2. p.at - points[c.photos[n]].at <= opts.gap
      BY <1>1, <1>2, <1>7, <1>8
    <3> QED BY <3>1, <3>2
  <2>2. CASE k # n
    <3>1. k \in 1..(n - 1) /\ k + 1 \in 1..n
      BY <1>3, <2>0, <2>2
    <3> QED BY <1>5, <1>6, <2>0, <3>1
  <2> QED BY <2>1, <2>2
<1>17. /\ d.started \in Int /\ d.ended \in Int /\ d.started <= d.ended
       /\ d.far \in Int /\ d.far <= opts.radius
  <2>1. d.started \in Int /\ d.ended \in Int /\ d.started <= d.ended
    <3>1. /\ d.started = c.started /\ c.started \in Int /\ c.ended \in Int
          /\ c.started <= c.ended /\ p.at \in Int
      BY <1>1, <1>3, <1>4
    <3>2. d.ended = (IF p.at > c.ended THEN p.at ELSE c.ended)
      BY <1>4
    <3> HIDE DEF p
    <3> QED BY <3>1, <3>2
  <2>2. d.far \in Int /\ d.far <= opts.radius
    BY <1>2, <1>3, <1>4, <1>9
  <2> QED BY <2>1, <2>2
<1>18. Members(points, d)
  <2>1. DOMAIN points = 1..Len(points) /\ Event!Dated(points) \subseteq DOMAIN points
    BY PointTypes, DatedFinite
  <2>2. d.photos \in Seq(DOMAIN points)
    BY <1>6, <2>1
  <2>3. PICK D \in SUBSET DOMAIN points : c.distance \in [D -> Int]
    BY DEF Sound, Members, Cluster
  <2>4. d.distance \in [D \cup {k \in {i} : p.place # Event!NoFix} -> Int]
    BY <1>4, <1>9, <2>3
  <2>5. D \cup {k \in {i} : p.place # Event!NoFix} \in SUBSET DOMAIN points
    BY <1>1, <2>1
  <2>6. d \in [photos : {d.photos}, started : {d.started}, ended : {d.ended}, anchor : {d.anchor},
               far : {d.far}, distance : {d.distance}, mtimes : {d.mtimes}]
    BY DEF d, Event!addTo
  <2>7. d \in Cluster(points)
    BY <1>11, <1>15, <1>17, <2>2, <2>4, <2>5, <2>6 DEF Cluster
  <2> QED BY <1>6, <1>15, <1>17, <2>7 DEF Members
<1>19. Anchored(points, opts, d)
  BY <1>11, <1>12, <1>13, <1>14, <1>17 DEF Anchored, placed
<1>20. Unbroken(points, opts, d)
  BY <1>16 DEF Unbroken
<1> QED
  BY <1>4, <1>18, <1>19, <1>20 DEF Sound, d

-----------------------------------------------------------------------------
(* Events: the pass.                                                       *)

LEMMA PassLaw ==
    ASSUME NEW points \in Points, NEW opts
    PROVE  LET line == Event!Timeline(points)
               pass == Event!Pass(points, opts)
           IN  pass = [k \in 0..Len(line) |->
                         IF k = 0 THEN <<>> ELSE Event!Passed(points, opts, pass[k - 1], line[k])]
<1> DEFINE line == Event!Timeline(points)
           n == Len(line)
           follows(f, m) == f = [k \in 0..m |->
                              IF k = 0 THEN <<>> ELSE Event!Passed(points, opts, f[k - 1], line[k])]
           T == {m \in 0..n : \E f : follows(f, m)}
<1>0. n \in Nat
  BY TimelineListsDated
<1> HIDE DEF n
<1>1. 0 \in T
  <2> DEFINE f == [k \in 0..0 |-> <<>>]
  <2>1. follows(f, 0)
    OBVIOUS
  <2> HIDE DEF f, follows
  <2> QED BY <1>0, <2>1
<1>2. ASSUME NEW m \in 1..n, m - 1 \in T PROVE m \in T
  <2>1. PICK f : follows(f, m - 1)
    BY <1>2
  <2> DEFINE g == [k \in 0..m |-> IF k < m THEN f[k]
                                  ELSE Event!Passed(points, opts, f[k - 1], line[k])]
  <2>2. follows(g, m)
    <3>1. \A k \in 0..m : g[k] = IF k = 0 THEN <<>>
                                 ELSE Event!Passed(points, opts, g[k - 1], line[k])
      BY <1>0, <2>1
    <3> QED BY <3>1
  <2> HIDE DEF g, follows
  <2> QED BY <2>2
<1>3. \E f : follows(f, n)
  <2> HIDE DEF T
  <2>1. n \in T
    BY <1>0, <1>1, <1>2, UpTo
  <2> QED BY <2>1 DEF T
<1> QED BY <1>3 DEF Event!Pass, n

\* Between two events there is a silence, or a place too far away.
Broken(points, opts, b, c) ==
    \/ points[c.photos[1]].at - points[b.photos[Len(b.photos)]].at > opts.gap
    \/ /\ points[c.photos[1]].place # Event!NoFix
       /\ \E k \in Located(points, b) :
             Event!Apart(points[b.photos[k]].place, points[c.photos[1]].place) > opts.radius

\* The events cut the first k points of a timeline: each is what lies between two cuts.
Cuts(line, k, events, cut) ==
    /\ cut \in [1..(Len(events) + 1) -> 0..k]
    /\ cut[1] = 0 /\ cut[Len(events) + 1] = k
    /\ \A e \in DOMAIN events :
          /\ cut[e] < cut[e + 1]
          /\ events[e].photos = SubSeq(line, cut[e] + 1, cut[e + 1])

PassInv(points, opts, k, events) ==
    /\ events \in Seq(Cluster(points))
    /\ k > 0 => events # <<>>
    /\ \A e \in DOMAIN events : Sound(points, opts, events[e])
    /\ \A e \in 1..(Len(events) - 1) : Broken(points, opts, events[e], events[e + 1])
    /\ \E cut : Cuts(Event!Timeline(points), k, events, cut)

LEMMA SliceGrows ==
    ASSUME NEW S, NEW s \in Seq(S), NEW a \in Nat, NEW k \in Nat, a < k, k <= Len(s)
    PROVE  Append(SubSeq(s, a + 1, k - 1), s[k]) = SubSeq(s, a + 1, k)
OBVIOUS

LEMMA Prefix ==
    ASSUME NEW S, NEW s \in Seq(S), NEW k \in Nat, k <= Len(s)
    PROVE  /\ SubSeq(s, 1, k) \in Seq(S) /\ Len(SubSeq(s, 1, k)) = k
           /\ \A e \in 1..k : SubSeq(s, 1, k)[e] = s[e]
OBVIOUS

LEMMA LastReplaced ==
    ASSUME NEW S, NEW s \in Seq(S), s # <<>>, NEW x \in S
    PROVE  LET t == Append(SubSeq(s, 1, Len(s) - 1), x)
           IN  /\ t \in Seq(S) /\ t # <<>> /\ Len(t) = Len(s)
               /\ DOMAIN t = 1..Len(s) /\ t[Len(s)] = x
               /\ \A e \in 1..(Len(s) - 1) : t[e] = s[e]
<1> DEFINE n == Len(s)
           f == SubSeq(s, 1, n - 1)
           t == Append(f, x)
<1>1. n \in Nat \ {0}
  OBVIOUS
<1>2. /\ f \in Seq(S) /\ Len(f) = n - 1
      /\ \A e \in 1..(n - 1) : f[e] = s[e]
  <2>1. n - 1 \in Nat /\ n - 1 <= n
    BY <1>1
  <2> QED BY <2>1, Prefix
<1> HIDE DEF f, n
<1>3. /\ t \in Seq(S) /\ Len(t) = Len(f) + 1 /\ DOMAIN t = 1..Len(t) /\ t[Len(f) + 1] = x
      /\ \A e \in 1..Len(f) : t[e] = f[e]
  BY <1>2
<1> HIDE DEF t
<1>4. Len(f) + 1 = n /\ t # <<>>
  BY <1>1, <1>2, <1>3
<1>5. /\ t \in Seq(S) /\ t # <<>> /\ Len(t) = n /\ DOMAIN t = 1..n /\ t[n] = x
      /\ \A e \in 1..(n - 1) : t[e] = s[e]
  BY <1>2, <1>3, <1>4
<1> QED BY <1>5 DEF t, f, n

LEMMA PassBegins ==
    ASSUME NEW points \in Points, NEW opts \in Option, opts.radius > 0,
           NEW k \in 1..Len(Event!Timeline(points)), NEW events,
           PassInv(points, opts, k - 1, events),
           \/ events = <<>>
           \/ Event!breaksCluster(points, Event!Last(events), Event!Timeline(points)[k], opts)
    PROVE  PassInv(points, opts, k,
                   Append(events, Event!newCluster(points, Event!Timeline(points)[k])))
<1> DEFINE line == Event!Timeline(points)
           i == line[k]
           new == Event!newCluster(points, i)
           n == Len(events)
           after == Append(events, new)
<1>1. /\ line \in Seq(Event!Dated(points)) /\ Len(line) \in Nat /\ k \in Nat
      /\ 1 <= k /\ k <= Len(line) /\ i \in Event!Dated(points)
  <2>1. line \in Seq(Event!Dated(points))
    BY TimelineListsDated
  <2> HIDE DEF line
  <2>2. Len(line) \in Nat /\ k \in 1..Len(line)
    BY <2>1 DEF line
  <2> QED BY <2>1, <2>2
<1>2. /\ events \in Seq(Cluster(points)) /\ n \in Nat /\ DOMAIN events = 1..n
      /\ k - 1 > 0 => events # <<>>
      /\ \A e \in 1..n : Sound(points, opts, events[e])
      /\ \A e \in 1..(n - 1) : Broken(points, opts, events[e], events[e + 1])
  BY DEF PassInv
<1>3. PICK cut : Cuts(line, k - 1, events, cut)
  BY DEF PassInv
<1> HIDE DEF n
<1>4. Sound(points, opts, new) /\ new.photos = <<i>> /\ new \in Cluster(points)
  BY <1>1, NewIsSound DEF Sound, Members
<1> HIDE DEF new
<1>5. /\ after \in Seq(Cluster(points)) /\ after # <<>> /\ Len(after) = n + 1
      /\ DOMAIN after = 1..(n + 1) /\ after[n + 1] = new
      /\ \A e \in 1..n : after[e] = events[e]
  BY <1>2, <1>4 DEF n
<1> HIDE DEF after
<1>6. \A e \in DOMAIN after : Sound(points, opts, after[e])
  BY <1>2, <1>4, <1>5
<1>7. ASSUME NEW e \in 1..n PROVE Broken(points, opts, after[e], after[e + 1])
  <2>1. CASE e < n
    <3>1. e \in 1..(n - 1) /\ e + 1 \in 1..n
      BY <1>2, <2>1
    <3> QED BY <1>2, <1>5, <3>1
  <2>2. CASE e = n
    <3> DEFINE b == events[n]
    <3>1. events # <<>> /\ Event!Last(events) = b /\ Sound(points, opts, b)
      BY <1>2, <2>2 DEF Event!Last, n
    <3>2. Event!breaksCluster(points, b, i, opts)
      BY <3>1
    <3>3. b.anchor # Event!NoFix =>
             \E j \in Located(points, b) : points[b.photos[j]].place = b.anchor
      BY <3>1 DEF Sound, Anchored
    <3>4. Broken(points, opts, b, new)
      BY <1>4, <3>2, <3>3 DEF Broken, Event!breaksCluster, Event!Last
    <3> QED BY <1>5, <2>2, <3>4
  <2> QED BY <1>2, <2>1, <2>2
<1>8. \E c : Cuts(line, k, after, c)
  <2> DEFINE c == [e \in 1..(n + 2) |-> IF e = n + 2 THEN k ELSE cut[e]]
  <2>1. /\ cut \in [1..(n + 1) -> 0..(k - 1)] /\ cut[1] = 0 /\ cut[n + 1] = k - 1
        /\ \A e \in 1..n : /\ cut[e] < cut[e + 1]
                           /\ events[e].photos = SubSeq(line, cut[e] + 1, cut[e + 1])
    BY <1>2, <1>3 DEF Cuts, n
  <2>2. /\ c \in [1..(n + 2) -> 0..k] /\ c[1] = 0 /\ c[n + 2] = k /\ c[n + 1] = k - 1
        /\ \A e \in 1..(n + 1) : c[e] = cut[e]
    BY <1>1, <1>2, <2>1
  <2>3. <<i>> = SubSeq(line, k, k)
    BY <1>1
  <2> HIDE DEF c
  <2>4. ASSUME NEW e \in 1..(n + 1)
        PROVE  c[e] < c[e + 1] /\ after[e].photos = SubSeq(line, c[e] + 1, c[e + 1])
    <3>1. CASE e = n + 1
      <4>1. c[e] = k - 1 /\ c[e + 1] = k /\ after[e] = new
        BY <1>2, <1>5, <2>2, <3>1
      <4> QED BY <1>1, <1>4, <2>3, <4>1
    <3>2. CASE e # n + 1
      <4>1. e \in 1..n /\ e \in 1..(n + 1) /\ e + 1 \in 1..(n + 1)
        BY <1>2, <3>2
      <4> QED BY <1>5, <2>1, <2>2, <4>1
    <3> QED BY <3>1, <3>2
  <2>5. Len(after) + 1 = n + 2
    BY <1>2, <1>5
  <2> QED BY <1>5, <2>2, <2>4, <2>5 DEF Cuts
<1>9. Len(after) - 1 = n
  BY <1>2, <1>5
<1>10. PassInv(points, opts, k, after)
  BY <1>5, <1>6, <1>7, <1>8, <1>9 DEF PassInv
<1> QED BY <1>10 DEF after, new

LEMMA PassJoins ==
    ASSUME NEW points \in Points, NEW opts \in Option, opts.radius > 0,
           NEW k \in 1..Len(Event!Timeline(points)), NEW events,
           PassInv(points, opts, k - 1, events), events # <<>>,
           ~Event!breaksCluster(points, Event!Last(events), Event!Timeline(points)[k], opts)
    PROVE  PassInv(points, opts, k,
                   Append(Event!Front(events),
                          Event!addTo(points, Event!Last(events), Event!Timeline(points)[k])))
<1> DEFINE line == Event!Timeline(points)
           i == line[k]
           n == Len(events)
           last == events[n]
           new == Event!addTo(points, last, i)
           after == Append(Event!Front(events), new)
<1>1. /\ line \in Seq(Event!Dated(points)) /\ Len(line) \in Nat /\ k \in Nat
      /\ 1 <= k /\ k <= Len(line) /\ i \in Event!Dated(points)
  <2>1. line \in Seq(Event!Dated(points))
    BY TimelineListsDated
  <2> HIDE DEF line
  <2>2. Len(line) \in Nat /\ k \in 1..Len(line)
    BY <2>1 DEF line
  <2> QED BY <2>1, <2>2
<1>2. /\ events \in Seq(Cluster(points)) /\ n \in Nat \ {0} /\ DOMAIN events = 1..n
      /\ \A e \in 1..n : Sound(points, opts, events[e])
      /\ \A e \in 1..(n - 1) : Broken(points, opts, events[e], events[e + 1])
  BY DEF PassInv
<1>3. PICK cut : Cuts(line, k - 1, events, cut)
  BY DEF PassInv
<1> HIDE DEF n
<1>4. Event!Last(events) = last /\ Sound(points, opts, last)
  BY <1>2 DEF Event!Last, n
<1>5. /\ Sound(points, opts, new) /\ new.photos = Append(last.photos, i)
      /\ new \in Cluster(points)
  <2>1. ~Event!breaksCluster(points, last, i, opts)
    BY <1>4
  <2>2. Sound(points, opts, new) /\ new.photos = Append(last.photos, i)
    BY <1>1, <1>4, <2>1, AddedIsSound
  <2> HIDE DEF new
  <2>3. new \in Cluster(points)
    BY <2>2 DEF Sound, Members
  <2> QED BY <2>2, <2>3
<1>6. last.photos \in Seq(Event!Dated(points)) /\ last.photos # <<>>
  BY <1>4 DEF Sound, Members
<1> HIDE DEF new
<1>7. /\ after \in Seq(Cluster(points)) /\ after # <<>> /\ Len(after) = n
      /\ DOMAIN after = 1..n /\ after[n] = new
      /\ \A e \in 1..(n - 1) : after[e] = events[e]
  <2>1. Event!Front(events) = SubSeq(events, 1, n - 1)
    BY DEF Event!Front, n
  <2>2. events # <<>> /\ events \in Seq(Cluster(points))
    BY <1>2
  <2>3. after = Append(SubSeq(events, 1, n - 1), new)
    BY <2>1
  <2> HIDE DEF after
  <2> QED BY <1>5, <2>2, <2>3, LastReplaced DEF n
<1> HIDE DEF after
<1>8. \A e \in DOMAIN after : Sound(points, opts, after[e])
  <2>1. \A e \in 1..n : e = n \/ e \in 1..(n - 1)
    BY <1>2
  <2> QED BY <1>2, <1>5, <1>7, <2>1
<1>9. ASSUME NEW e \in 1..(n - 1) PROVE Broken(points, opts, after[e], after[e + 1])
  <2>1. Broken(points, opts, events[e], events[e + 1]) /\ after[e] = events[e]
    BY <1>2, <1>7
  <2>2. CASE e = n - 1
    <3>1. new.photos[1] = last.photos[1]
      BY <1>5, <1>6
    <3>2. after[e + 1] = new /\ events[e + 1] = last
      BY <1>2, <1>7, <2>2
    <3> QED BY <2>1, <3>1, <3>2 DEF Broken
  <2>3. CASE e # n - 1
    <3>1. e + 1 \in 1..(n - 1)
      BY <1>2, <2>3
    <3> QED BY <1>7, <2>1, <3>1
  <2> QED BY <2>2, <2>3
<1>10. \E c : Cuts(line, k, after, c)
  <2> DEFINE c == [e \in 1..(n + 1) |-> IF e = n + 1 THEN k ELSE cut[e]]
  <2>1. /\ cut \in [1..(n + 1) -> 0..(k - 1)] /\ cut[1] = 0 /\ cut[n + 1] = k - 1
        /\ \A e \in 1..n : /\ cut[e] < cut[e + 1]
                           /\ events[e].photos = SubSeq(line, cut[e] + 1, cut[e + 1])
    BY <1>2, <1>3 DEF Cuts, n
  <2>2. /\ c \in [1..(n + 1) -> 0..k] /\ c[1] = 0 /\ c[n + 1] = k
        /\ \A e \in 1..n : c[e] = cut[e]
    <3>0. \A e \in 1..(n + 1) : cut[e] \in 0..k
      BY <1>1, <2>1
    <3>1. /\ c \in [1..(n + 1) -> 0..k] /\ c[n + 1] = k
          /\ \A e \in 1..n : c[e] = cut[e]
      BY <1>1, <1>2, <3>0
    <3>2. 1 \in 1..n
      BY <1>2
    <3> HIDE DEF c
    <3> QED BY <2>1, <3>1, <3>2
  <2> HIDE DEF c
  <2>3. ASSUME NEW e \in 1..n
        PROVE  c[e] < c[e + 1] /\ after[e].photos = SubSeq(line, c[e] + 1, c[e + 1])
    <3>1. CASE e = n
      <4>0. n \in 1..n
        BY <1>2
      <4>1. last.photos = SubSeq(line, cut[n] + 1, k - 1) /\ cut[n] \in Nat /\ cut[n] < k - 1
        <5>1. /\ cut[n] < cut[n + 1] /\ events[n].photos = SubSeq(line, cut[n] + 1, cut[n + 1])
              /\ n \in 1..(n + 1)
          BY <1>2, <2>1, <4>0
        <5>2. cut[n] \in 0..(k - 1)
          BY <2>1, <5>1
        <5> QED BY <1>1, <2>1, <5>1, <5>2
      <4>2. Append(SubSeq(line, cut[n] + 1, k - 1), i) = SubSeq(line, cut[n] + 1, k)
        <5> DEFINE a == cut[n]
        <5>1. a \in Nat /\ a < k /\ k <= Len(line) /\ line \in Seq(Event!Dated(points))
          BY <1>1, <4>1
        <5> HIDE DEF a
        <5>2. Append(SubSeq(line, a + 1, k - 1), line[k]) = SubSeq(line, a + 1, k)
          BY <1>1, <5>1, SliceGrows
        <5> QED BY <5>2 DEF a
      <4>3. c[n] = cut[n] /\ c[n + 1] = k /\ after[n] = new
        BY <1>7, <2>2, <4>0
      <4>4. c[n] < c[n + 1]
        BY <1>1, <4>1, <4>3
      <4>5. after[n].photos = SubSeq(line, c[n] + 1, c[n + 1])
        BY <1>5, <4>1, <4>2, <4>3
      <4> QED BY <3>1, <4>4, <4>5
    <3>2. CASE e # n
      <4>1. e \in 1..(n - 1) /\ e \in 1..n /\ e + 1 \in 1..n
        BY <1>2, <3>2
      <4> QED BY <1>7, <2>1, <2>2, <4>1
    <3> QED BY <3>1, <3>2
  <2> QED BY <1>7, <2>2, <2>3 DEF Cuts
<1>11. PassInv(points, opts, k, after)
  BY <1>1, <1>7, <1>8, <1>9, <1>10 DEF PassInv
<1> QED BY <1>4, <1>11 DEF after, new

LEMMA PassKeepsInv ==
    ASSUME NEW points \in Points, NEW opts \in Option, opts.radius > 0
    PROVE  PassInv(points, opts, Len(Event!Timeline(points)),
                   Event!Pass(points, opts)[Len(Event!Timeline(points))])
<1> DEFINE line == Event!Timeline(points)
           n == Len(line)
           pass == Event!Pass(points, opts)
           T == {k \in 0..n : PassInv(points, opts, k, pass[k])}
<1>1. n \in Nat
  BY TimelineListsDated
<1>2. pass = [k \in 0..n |-> IF k = 0 THEN <<>> ELSE Event!Passed(points, opts, pass[k - 1], line[k])]
  BY PassLaw
<1> HIDE DEF pass
<1> HIDE DEF n
<1>3. 0 \in T
  <2>1. pass[0] = <<>>
    BY <1>1, <1>2
  <2> DEFINE c == [e \in 1..1 |-> 0]
  <2>2. Cuts(line, 0, <<>>, c)
    BY DEF Cuts
  <2>3. PassInv(points, opts, 0, <<>>)
    BY <2>2 DEF PassInv
  <2> QED BY <1>1, <2>1, <2>3
<1>4. ASSUME NEW k \in 1..n, k - 1 \in T PROVE k \in T
  <2> DEFINE events == pass[k - 1]
  <2>1. PassInv(points, opts, k - 1, events) /\ pass[k] = Event!Passed(points, opts, events, line[k])
    BY <1>1, <1>2, <1>4
  <2> HIDE DEF events
  <2>2. CASE events = <<>> \/ Event!breaksCluster(points, Event!Last(events), line[k], opts)
    <3>1. PassInv(points, opts, k, Append(events, Event!newCluster(points, line[k])))
      BY <2>1, <2>2, PassBegins DEF n
    <3>2. pass[k] = Append(events, Event!newCluster(points, line[k]))
      BY <2>1, <2>2 DEF Event!Passed
    <3>3. PassInv(points, opts, k, pass[k]) /\ k \in 0..n
      BY <1>1, <3>1, <3>2
    <3> QED BY <3>3
  <2>3. CASE ~(events = <<>> \/ Event!breaksCluster(points, Event!Last(events), line[k], opts))
    <3>1. PassInv(points, opts, k,
                  Append(Event!Front(events), Event!addTo(points, Event!Last(events), line[k])))
      BY <2>1, <2>3, PassJoins DEF n
    <3>2. pass[k] = Append(Event!Front(events), Event!addTo(points, Event!Last(events), line[k]))
      BY <2>1, <2>3 DEF Event!Passed
    <3>3. PassInv(points, opts, k, pass[k]) /\ k \in 0..n
      BY <1>1, <3>1, <3>2
    <3> QED BY <3>3
  <2> QED BY <2>2, <2>3
<1>5. n \in T
  <2> HIDE DEF T
  <2> QED BY <1>1, <1>3, <1>4, UpTo
<1> QED BY <1>5 DEF pass, n

LEMMA SlicesJoin ==
    ASSUME NEW S, NEW s \in Seq(S), NEW a \in Nat, NEW b \in Nat, a <= b, b <= Len(s)
    PROVE  SubSeq(s, 1, a) \o SubSeq(s, a + 1, b) = SubSeq(s, 1, b)
OBVIOUS

LEMMA WholeSlice ==
    ASSUME NEW S, NEW s \in Seq(S)
    PROVE  SubSeq(s, 1, Len(s)) = s
OBVIOUS

\* The lists joined one after the other.
Flattened(seqs, n, f) ==
    f = [i \in 1..n |-> IF i = 1 THEN seqs[i] ELSE f[i - 1] \o seqs[i]]

LEMMA FlattenLaw ==
    ASSUME NEW seqs, NEW n \in Nat \ {0}, Len(seqs) = n
    PROVE  \E f : Flattened(seqs, n, f) /\ Event!FlattenSeq(seqs) = f[n]
<1> DEFINE glue(x, i) == x \o seqs[i]
           follows(f, m) == f = [i \in 1..m |-> IF i = 1 THEN seqs[i] ELSE glue(f[i - 1], i)]
           T == {m \in 0..n : \E f : follows(f, m)}
           g == CHOOSE f : follows(f, n)
<1>1. Event!FlattenSeq(seqs) = g[n]
  BY Zenon DEF Event!FlattenSeq
<1> HIDE DEF glue
<1>2. 0 \in T
  <2> DEFINE f == [i \in 1..0 |-> <<>>]
  <2>1. follows(f, 0)
    OBVIOUS
  <2> HIDE DEF f, follows
  <2> QED BY <2>1
<1>3. ASSUME NEW m \in 1..n, m - 1 \in T PROVE m \in T
  <2>1. PICK f : follows(f, m - 1)
    BY <1>3
  <2> DEFINE h == [i \in 1..m |-> IF i < m THEN f[i]
                                  ELSE IF i = 1 THEN seqs[i] ELSE glue(f[i - 1], i)]
  <2>2. follows(h, m)
    <3>1. \A i \in 1..m : h[i] = IF i = 1 THEN seqs[i] ELSE glue(h[i - 1], i)
      BY <2>1
    <3> QED BY <3>1
  <2> HIDE DEF h, follows
  <2> QED BY <2>2
<1>4. follows(g, n)
  <2> HIDE DEF T
  <2>1. n \in T
    BY <1>2, <1>3, UpTo
  <2>2. \E f : follows(f, n)
    BY <2>1 DEF T
  <2> HIDE DEF follows
  <2> QED BY <2>2
<1> HIDE DEF g
<1>5. Flattened(seqs, n, g)
  BY <1>4 DEF glue, Flattened
<1> QED BY <1>1, <1>5

\* What was cut is the timeline again.
LEMMA FlattenCuts ==
    ASSUME NEW S, NEW line \in Seq(S), NEW m \in Nat, NEW seqs, NEW cut,
           cut \in [1..(m + 1) -> 0..Len(line)], cut[1] = 0, cut[m + 1] = Len(line),
           \A e \in 1..m : cut[e] < cut[e + 1],
           seqs = [e \in 1..m |-> SubSeq(line, cut[e] + 1, cut[e + 1])]
    PROVE  Event!FlattenSeq(seqs) = line
<1>0. Len(line) \in Nat
  OBVIOUS
<1>1. Len(seqs) = m
  OBVIOUS
<1>2. CASE m = 0
  <2>1. seqs = <<>> /\ Len(line) = 0
    BY <1>2
  <2>2. line = <<>>
    BY <2>1
  <2> QED BY <1>1, <1>2, <2>1, <2>2 DEF Event!FlattenSeq
<1>3. CASE m # 0
  <2>0. PICK f : Flattened(seqs, m, f) /\ Event!FlattenSeq(seqs) = f[m]
    <3>1. m \in Nat \ {0} /\ Len(seqs) = m
      BY <1>1, <1>3
    <3> QED BY <3>1, FlattenLaw, Zenon
  <2>1. /\ f = [i \in 1..m |-> IF i = 1 THEN seqs[i] ELSE f[i - 1] \o seqs[i]]
        /\ Event!FlattenSeq(seqs) = f[m]
    BY <2>0 DEF Flattened
  <2> DEFINE T == {e \in 0..m : e = 0 \/ f[e] = SubSeq(line, 1, cut[e + 1])}
  <2>2. 0 \in T
    OBVIOUS
  <2>3. ASSUME NEW e \in 1..m, e - 1 \in T PROVE e \in T
    <3>1. seqs[e] = SubSeq(line, cut[e] + 1, cut[e + 1])
      OBVIOUS
    <3>2. cut[e] \in Nat /\ cut[e + 1] \in Nat /\ cut[e] <= cut[e + 1] /\ cut[e + 1] <= Len(line)
      <4>1. e \in 1..(m + 1) /\ e + 1 \in 1..(m + 1)
        OBVIOUS
      <4>2. cut[e] \in 0..Len(line) /\ cut[e + 1] \in 0..Len(line) /\ cut[e] < cut[e + 1]
        BY <4>1
      <4> QED BY <1>0, <4>2
    <3>3. f[e] = SubSeq(line, 1, cut[e + 1])
      <4>1. CASE e = 1
        <5>1. f[e] = seqs[e]
          BY <2>1, <4>1
        <5>2. cut[e] = 0 /\ cut[e] + 1 = 1
          BY <4>1
        <5> QED BY <3>1, <5>1, <5>2
      <4>2. CASE e # 1
        <5>1. f[e] = f[e - 1] \o seqs[e]
          BY <2>1, <4>2
        <5>2. f[e - 1] = SubSeq(line, 1, cut[e])
          BY <2>3, <4>2
        <5> DEFINE a == cut[e]
                   b == cut[e + 1]
        <5>3. SubSeq(line, 1, a) \o SubSeq(line, a + 1, b) = SubSeq(line, 1, b)
          <6> HIDE DEF a, b
          <6>1. a \in Nat /\ b \in Nat /\ a <= b /\ b <= Len(line)
            BY <3>2 DEF a, b
          <6> QED BY <6>1, SlicesJoin
        <5> QED BY <3>1, <5>1, <5>2, <5>3
      <4> QED BY <4>1, <4>2
    <3> QED BY <3>3
  <2>4. m \in T
    <3> HIDE DEF T
    <3>1. \A e \in 0..m : e \in T
      BY <2>2, <2>3, UpTo
    <3> QED BY <3>1
  <2>5. f[m] = SubSeq(line, 1, Len(line))
    BY <1>3, <2>4
  <2> QED BY <2>1, <2>5, WholeSlice
<1> QED BY <1>2, <1>3

-----------------------------------------------------------------------------
(* Events: what Segment returns.                                           *)

LEMMA OptionsSet ==
    ASSUME NEW options \in Option
    PROVE  LET opts == Event!WithDefaults(options)
           IN  opts \in Option /\ opts.radius > 0 /\ opts.gap > 0
BY DEF Option, Event!WithDefaults, Event!DefaultOptions

LEMMA SegmentInv ==
    ASSUME NEW points \in Points, NEW options \in Option
    PROVE  PassInv(points, Event!WithDefaults(options), Len(Event!Timeline(points)),
                   Event!Segment(points, options))
BY OptionsSet, PassKeepsInv DEF Event!Segment

LEMMA SetOfList ==
    ASSUME NEW S, NEW s \in Seq(S)
    PROVE  \A x \in Event!ToSet(s) : \E k \in DOMAIN s : x = s[k]
BY DEF Event!ToSet

\* clustering.go:212-234, store/clusters.go:14-18: whatever the points and the
\* thresholds, each dated photo is in exactly one event, in order of time.
THEOREM SegmentPartitions ==
    ASSUME NEW points \in Points, NEW options \in Option
    PROVE  Event!EventsPartition(points, options)
<1> DEFINE opts == Event!WithDefaults(options)
           events == Event!Segment(points, options)
           line == Event!Timeline(points)
           n == Len(events)
           seqs == [k \in DOMAIN events |-> events[k].photos]
<1>1. PassInv(points, opts, Len(line), events)
  BY SegmentInv
<1> HIDE DEF events, opts, line
<1>2. /\ events \in Seq(Cluster(points)) /\ n \in Nat /\ DOMAIN events = 1..n
      /\ \A e \in DOMAIN events : Sound(points, opts, events[e])
  BY <1>1 DEF PassInv
<1>3. PICK cut : Cuts(line, Len(line), events, cut)
  BY <1>1 DEF PassInv, line
<1>4. line \in Seq(Event!Dated(points)) /\ Len(line) \in Nat
  BY TimelineListsDated DEF line
<1>5. Event!FlattenSeq(seqs) = line
  <2>1. /\ cut \in [1..(n + 1) -> 0..Len(line)] /\ cut[1] = 0 /\ cut[n + 1] = Len(line)
        /\ \A e \in 1..n : cut[e] < cut[e + 1]
        /\ \A e \in 1..n : events[e].photos = SubSeq(line, cut[e] + 1, cut[e + 1])
    BY <1>2, <1>3 DEF Cuts
  <2>2. seqs = [e \in 1..n |-> SubSeq(line, cut[e] + 1, cut[e + 1])]
    BY <1>2, <2>1
  <2> HIDE DEF seqs, n
  <2> QED BY <1>2, <1>4, <2>1, <2>2, FlattenCuts
<1>6. ASSUME NEW c \in Event!ToSet(events)
      PROVE  /\ c.photos # <<>> /\ c.started <= c.ended
             /\ Event!Confidence(c) = "high" <=>
                  \A k \in DOMAIN c.photos : points[c.photos[k]].source = "exif"
  <2>1. Members(points, c)
    BY <1>2, SetOfList DEF Sound
  <2>2. Event!Confidence(c) = "high" <=> c.mtimes = 0
    BY DEF Event!Confidence
  <2> QED BY <2>1, <2>2 DEF Members
<1> QED BY <1>5, <1>6 DEF Event!EventsPartition, events, line

\* Two places near a third are not far apart.
LEMMA ApartTriangle ==
    ASSUME NEW a \in Int, NEW x \in Int, NEW y \in Int, NEW r \in Int,
           Event!Apart(a, x) <= r, Event!Apart(a, y) <= r
    PROVE  Event!Apart(x, y) <= 2 * r
BY DEF Event!Apart

\* clustering.go:239-257: whatever the points and the thresholds, an event is bounded
\* in space and in silence, and ends only where one of the two bounds ends it.
THEOREM SegmentBounds ==
    ASSUME NEW points \in Points, NEW options \in Option
    PROVE  Event!EventsBounded(points, options)
<1> DEFINE opts == Event!WithDefaults(options)
           events == Event!Segment(points, options)
           sites(c) == {points[c.photos[k]].place : k \in DOMAIN c.photos} \ {Event!NoFix}
           lull(i, j) == points[j].at - points[i].at
<1>1. PassInv(points, opts, Len(Event!Timeline(points)), events)
  BY SegmentInv
<1>2. opts \in Option /\ opts.radius \in Int
  BY OptionsSet DEF Option
<1> HIDE DEF events, opts
<1>3. /\ events \in Seq(Cluster(points)) /\ DOMAIN events = 1..Len(events)
      /\ \A e \in DOMAIN events : Sound(points, opts, events[e])
      /\ \A e \in 1..(Len(events) - 1) : Broken(points, opts, events[e], events[e + 1])
  BY <1>1 DEF PassInv
<1>4. ASSUME NEW c \in Event!ToSet(events)
      PROVE  /\ \A x, y \in sites(c) : Event!Apart(x, y) <= 2 * opts.radius
             /\ \A k \in 1..(Len(c.photos) - 1) :
                    lull(c.photos[k], c.photos[k + 1]) <= opts.gap
             /\ c.far <= opts.radius
             /\ DOMAIN c.distance = {c.photos[k] : k \in {k \in DOMAIN c.photos :
                                       points[c.photos[k]].place # Event!NoFix}}
  <2>1. Members(points, c) /\ Anchored(points, opts, c) /\ Unbroken(points, opts, c)
    BY <1>3, SetOfList DEF Sound
  <2>2. ASSUME NEW x \in sites(c), NEW y \in sites(c)
        PROVE  Event!Apart(x, y) <= 2 * opts.radius
    <3>1. PICK k \in DOMAIN c.photos, l \in DOMAIN c.photos :
             x = points[c.photos[k]].place /\ y = points[c.photos[l]].place
      OBVIOUS
    <3>2. k \in Located(points, c) /\ l \in Located(points, c)
      BY <3>1 DEF Located
    <3>3. x \in Int /\ y \in Int
      <4>1. c.photos \in Seq(Event!Dated(points))
        BY <2>1 DEF Members
      <4>2. c.photos[k] \in 1..Len(points) /\ c.photos[l] \in 1..Len(points)
        BY <4>1, DatedFinite
      <4> QED BY <3>1, <4>2, PointTypes
    <3>4. c.anchor \in Int /\ Event!Apart(c.anchor, x) <= opts.radius
          /\ Event!Apart(c.anchor, y) <= opts.radius
      BY <2>1, <3>1, <3>2 DEF Anchored
    <3> QED BY <1>2, <3>3, <3>4, ApartTriangle
  <2> QED BY <2>1, <2>2 DEF Anchored, Unbroken, Located
<1>5. ASSUME NEW k \in 1..(Len(events) - 1)
      PROVE  LET before == events[k]
                 first == events[k + 1].photos[1]
             IN  \/ lull(Event!Last(before.photos), first) > opts.gap
                 \/ \E x \in sites(before) : /\ points[first].place # Event!NoFix
                                             /\ Event!Apart(x, points[first].place) > opts.radius
  <2>1. Broken(points, opts, events[k], events[k + 1])
    BY <1>3
  <2> QED BY <2>1 DEF Broken, Located, Event!Last
<1> QED BY <1>4, <1>5 DEF Event!EventsBounded, events, opts
=============================================================================
