--------------------------- MODULE SimilarGrouping --------------------------
(***************************************************************************)
(* GroupSimilar (internal/duplicates) on what LoadSimilarityCandidates gives*)
(* it: union-find over all pairs of perceptual hashes, then a ranking within*)
(* each component.  A hash is the set of its one bits; a photo is            *)
(* [sha, hash, score, worth], known by its place in the order of ids.  The  *)
(* criteria after the score - pixels, bytes, path, id - are a total order,  *)
(* and stand as one number, its ties broken by the place.  Components have  *)
(* fewer than 12 members: there sort.Slice is an insertion sort.            *)
(***************************************************************************)
EXTENDS Integers, Sequences, FiniteSets, FiniteSetsExt, SequencesExt

NoSha == "none"
Unscored == -1
qualityEpsilon == 2             \* hundredths
MaxSimilarityThreshold == 24

\* One candidate per distinct file, the copy exactKeeperOrder ranks first: copies
\* have one size once measured, and the rest of worth is what that order
\* compares.  A photo without sha256 is a file of its own.
Candidates(photos) ==
    {i \in DOMAIN photos :
        \/ photos[i].sha = NoSha
        \/ \A j \in DOMAIN photos \ {i} : photos[j].sha = photos[i].sha =>
              \/ photos[i].worth > photos[j].worth
              \/ photos[i].worth = photos[j].worth /\ i < j}

HammingDistance(g, h) == Cardinality((g \ h) \cup (h \ g))

Clamped(threshold) ==
    IF threshold < 0 THEN 0
    ELSE IF threshold > MaxSimilarityThreshold THEN MaxSimilarityThreshold ELSE threshold

Similar(photos, i, j, threshold) ==
    HammingDistance(photos[i].hash, photos[j].hash) <= Clamped(threshold)

-----------------------------------------------------------------------------
(* unionFind                                                               *)

newUnionFind(n) == [parent |-> [i \in 1..n |-> i], rank |-> [i \in 1..n |-> 0],
                    root |-> 0]

\* mutant: one level up is taken for the root
find_OneLevel(uf, x) == [uf EXCEPT !.root = uf.parent[x]]

\* One turn of find's loop: the path is halved as it goes.  No path is longer than
\* there are photos; the root is handed back in root.
Halve(w) ==
    LET grand == w.parent[w.parent[w.at]]
    IN  IF w.parent[w.at] = w.at THEN w
        ELSE [parent |-> [w.parent EXCEPT ![w.at] = grand], at |-> grand]

Walk(uf, x) ==
    LET walk[k \in 0..Len(uf.parent)] ==
            IF k = 0 THEN [parent |-> uf.parent, at |-> x] ELSE Halve(walk[k - 1])
    IN  walk

find(uf, x) ==
    LET end == Walk(uf, x)[Len(uf.parent)]
    IN  [parent |-> end.parent, rank |-> uf.rank, root |-> end.at]

union(uf, a, b) ==
    LET fa == find(uf, a)
        fb == find(fa, b)
        hi == IF fb.rank[fa.root] < fb.rank[fb.root] THEN fb.root ELSE fa.root
        lo == IF hi = fa.root THEN fb.root ELSE fa.root
    IN  IF fa.root = fb.root THEN fb
        ELSE [parent |-> [fb.parent EXCEPT ![lo] = hi],
              rank |-> [fb.rank EXCEPT ![hi] = IF @ = fb.rank[lo] THEN @ + 1 ELSE @],
              root |-> fb.root]

\* The k-th pair of the two loops over n candidates; a loop over j > i only passes
\* over the others.
Pair(k, n) == <<((k - 1) \div n) + 1, ((k - 1) % n) + 1>>

\* What the loops do at a pair.
Compare(photos, threshold, uf, p) ==
    IF /\ p[1] < p[2] /\ p[1] \in Candidates(photos) /\ p[2] \in Candidates(photos)
       /\ Similar(photos, p[1], p[2], threshold)
    THEN union(uf, p[1], p[2]) ELSE uf

\* The union-find after the first k pairs.
Joined(photos, threshold) ==
    LET n == Len(photos)
        uf[k \in 0..(n * n)] ==
            IF k = 0 THEN newUnionFind(n)
            ELSE Compare(photos, threshold, uf[k - 1], Pair(k, n))
    IN  uf

Components(photos, threshold) ==
    LET joined == Joined(photos, threshold)[Len(photos) * Len(photos)]
        root(i) == find(joined, i).root
    IN  {c \in {{j \in Candidates(photos) : root(j) = root(i)} : i \in Candidates(photos)} :
            Cardinality(c) >= 2}

-----------------------------------------------------------------------------
(* buildGroup                                                              *)

\* The comparison of the sort.
Better(photos, i, j) ==
    LET a == photos[i]
        b == photos[j]
        measured == a.score # Unscored /\ b.score # Unscored
        differ == a.score - b.score > qualityEpsilon \/ b.score - a.score > qualityEpsilon
    IN  IF measured /\ differ THEN a.score > b.score
        ELSE a.worth > b.worth \/ (a.worth = b.worth /\ i < j)

\* x moves left past the photos it is better than, up to the first it is not.
InsertRanked(photos, ranked, x) ==
    LET stop == Max({0} \cup {k \in DOMAIN ranked : ~Better(photos, x, ranked[k])})
    IN  SubSeq(ranked, 1, stop) \o <<x>> \o SubSeq(ranked, stop + 1, Len(ranked))

\* The members among the first k photos, ranked.
RankedUpTo(photos, component) ==
    LET ranked[k \in 0..Len(photos)] ==
            IF k = 0 THEN <<>>
            ELSE IF k \in component THEN InsertRanked(photos, ranked[k - 1], k)
            ELSE ranked[k - 1]
    IN  ranked

Ranked(photos, component) == RankedUpTo(photos, component)[Len(photos)]

buildGroup(photos, component) ==
    LET ranked == Ranked(photos, component)
        apart(i, j) == HammingDistance(photos[i].hash, photos[j].hash)
    IN  [photos |-> ranked, keep |-> ranked[1],
         widest |-> Max({apart(i, j) : i, j \in component}),
         distances |-> [i \in component |-> apart(ranked[1], i)]]

GroupSimilar(photos, threshold) ==
    {buildGroup(photos, c) : c \in Components(photos, threshold)}

\* What the listing calls a chained group.
Chained(group, threshold) == group.widest > threshold

-----------------------------------------------------------------------------
(* References, and what is to hold of every input.                         *)

\* The photos reached from i over at most n similar pairs of distinct files.
Within(photos, i, threshold) ==
    LET grown[n \in 0..Len(photos)] ==
            IF n = 0 THEN {i}
            ELSE {j \in Candidates(photos) :
                    \E k \in grown[n - 1] : Similar(photos, j, k, threshold)}
    IN  grown

Reach(photos, i, threshold) == Within(photos, i, threshold)[Len(photos)]

\* similar.go:78-97: whatever the order in which pairs are merged, the groups
\* are the connected components of the similarity graph over distinct files.
GroupsAreComponents(photos, threshold) ==
    {{g.photos[k] : k \in DOMAIN g.photos} : g \in GroupSimilar(photos, threshold)} =
    {c \in {Reach(photos, i, threshold) : i \in Candidates(photos)} : Cardinality(c) >= 2}

\* similar.go:67-74, store/similar.go ListSimilarGroups: a group is marked as
\* chained exactly when two of its members are not similar themselves.
ChainsAreMarked(photos, threshold) ==
    \A g \in GroupSimilar(photos, threshold) :
        Chained(g, Clamped(threshold)) <=>
            \E i, j \in DOMAIN g.distances : ~Similar(photos, i, j, threshold)

\* similar.go:166-204: the comparison is not transitive - scores within the
\* epsilon count as equal, a missing score compares by the rest - and yet the
\* keeper is never one that the next in rank beats, nor is any other member.
RankedPairwise(photos, threshold) ==
    \A g \in GroupSimilar(photos, threshold) :
        \A k \in 1..(Len(g.photos) - 1) : ~Better(photos, g.photos[k + 1], g.photos[k])
=============================================================================
