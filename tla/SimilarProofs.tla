--------------------------- MODULE SimilarProofs ---------------------------
(***************************************************************************)
(* Proofs about SimilarGrouping, for every list of photos and every         *)
(* threshold.  The union-find is followed by a label for each tree, the name  *)
(* of its root; JoinInv, the invariant of the loop over the pairs, says that   *)
(* files linked so far have one label, and that a set no link leaves is left   *)
(* by no label either.                                                      *)
(***************************************************************************)
EXTENDS EventProofs

-----------------------------------------------------------------------------
(* Near-duplicates: union-find.                                            *)

\* Ranks grow towards the roots.
Forest(n, parent, rank) ==
    /\ parent \in [1..n -> 1..n] /\ rank \in [1..n -> Nat]
    /\ \A x \in 1..n : parent[x] # x => rank[x] < rank[parent[x]]

\* Each tree is named by its root.
Labelled(n, parent, label) ==
    /\ label \in [1..n -> 1..n]
    /\ \A x \in 1..n : label[parent[x]] = label[x]
    /\ \A x \in 1..n : parent[x] = x => label[x] = x

LEMMA HalveKeeps ==
    ASSUME NEW n \in Nat, NEW w, NEW rank, NEW label,
           Forest(n, w.parent, rank), Labelled(n, w.parent, label), w.at \in 1..n
    PROVE  LET v == Similar!Halve(w)
           IN  /\ Forest(n, v.parent, rank) /\ Labelled(n, v.parent, label)
               /\ \A y \in 1..n : w.parent[y] = y => v.parent[y] = y
               /\ v.at \in 1..n /\ label[v.at] = label[w.at]
               /\ w.parent[w.at] = w.at => v = w
               /\ w.parent[w.at] # w.at => rank[w.at] < rank[v.at]
<1> DEFINE p == w.parent
           x == w.at
           grand == p[p[x]]
           v == Similar!Halve(w)
           q == [p EXCEPT ![x] = grand]
<1>1. CASE p[x] = x
  <2>1. v = w
    BY <1>1 DEF Similar!Halve
  <2> QED BY <1>1, <2>1
<1>2. CASE p[x] # x
  <2>1. v = [parent |-> q, at |-> grand]
    BY <1>2 DEF Similar!Halve
  <2>2. v.parent = q /\ v.at = grand
    BY <2>1
  <2>3. /\ p \in [1..n -> 1..n] /\ rank \in [1..n -> Nat] /\ x \in 1..n /\ label \in [1..n -> 1..n]
        /\ \A y \in 1..n : p[y] # y => rank[y] < rank[p[y]]
        /\ \A y \in 1..n : label[p[y]] = label[y]
        /\ \A y \in 1..n : p[y] = y => label[y] = y
    BY DEF Forest, Labelled
  <2> HIDE DEF p, x, v
  <2>4. p[x] \in 1..n /\ grand \in 1..n
    BY <2>3
  <2>5. rank[x] < rank[p[x]] /\ (p[p[x]] # p[x] => rank[p[x]] < rank[grand])
    BY <1>2, <2>3, <2>4
  <2>6. rank[x] < rank[grand] /\ grand # x
    <3>1. rank[x] \in Nat /\ rank[p[x]] \in Nat /\ rank[grand] \in Nat
      BY <2>3, <2>4
    <3> QED BY <2>5, <3>1
  <2>7. label[grand] = label[x]
    BY <2>3, <2>4
  <2> HIDE DEF grand
  <2>8. q \in [1..n -> 1..n] /\ q[x] = grand /\ \A y \in 1..n : y # x => q[y] = p[y]
    BY <2>3, <2>4
  <2> HIDE DEF q
  <2>9. Forest(n, q, rank)
    BY <2>3, <2>6, <2>8 DEF Forest
  <2>10. Labelled(n, q, label)
    BY <2>3, <2>6, <2>7, <2>8 DEF Labelled
  <2>11. /\ Forest(n, v.parent, rank) /\ Labelled(n, v.parent, label)
         /\ v.at \in 1..n /\ label[v.at] = label[x] /\ rank[x] < rank[v.at]
    BY <2>2, <2>4, <2>6, <2>7, <2>9, <2>10
  <2>12. \A y \in 1..n : p[y] = y => v.parent[y] = y
    BY <1>2, <2>2, <2>8
  <2> QED BY <1>2, <2>11, <2>12 DEF p, x, v
<1> QED BY <1>1, <1>2

LEMMA WalkLaw ==
    ASSUME NEW uf, NEW x, NEW n \in Nat, Len(uf.parent) = n
    PROVE  LET walk == Similar!Walk(uf, x)
           IN  walk = [k \in 0..n |-> IF k = 0 THEN [parent |-> uf.parent, at |-> x]
                                      ELSE Similar!Halve(walk[k - 1])]
<1> DEFINE start == [parent |-> uf.parent, at |-> x]
           follows(f, m) == f = [k \in 0..m |-> IF k = 0 THEN start ELSE Similar!Halve(f[k - 1])]
           T == {m \in 0..n : \E f : follows(f, m)}
           g == CHOOSE f : follows(f, n)
<1>0. Similar!Walk(uf, x) = g
  BY Zenon DEF Similar!Walk
<1> HIDE DEF start
<1>1. 0 \in T
  <2> DEFINE f == [k \in 0..0 |-> start]
  <2>1. follows(f, 0)
    OBVIOUS
  <2> HIDE DEF f, follows
  <2> QED BY <2>1
<1>2. ASSUME NEW m \in 1..n, m - 1 \in T PROVE m \in T
  <2>1. PICK f : follows(f, m - 1)
    BY <1>2
  <2> DEFINE h == [k \in 0..m |-> IF k < m THEN f[k] ELSE Similar!Halve(f[k - 1])]
  <2>2. follows(h, m)
    <3>1. \A k \in 0..m : h[k] = IF k = 0 THEN start ELSE Similar!Halve(h[k - 1])
      BY <2>1
    <3> QED BY <3>1
  <2> HIDE DEF h, follows
  <2> QED BY <2>2
<1>3. follows(g, n)
  <2> HIDE DEF T
  <2>1. \A k \in 0..n : k \in T
    BY <1>1, <1>2, UpTo
  <2>2. n \in T
    BY <2>1
  <2>3. \E f : follows(f, n)
    BY <2>2 DEF T
  <2> HIDE DEF follows
  <2> QED BY <2>3
<1> HIDE DEF g
<1> QED BY <1>0, <1>3 DEF start

\* No path is longer than there are files: find ends at the root, and its halving
\* moves no file to another tree.
LEMMA FindRoot ==
    ASSUME NEW n \in Nat, NEW uf, NEW label, NEW x \in 1..n,
           Forest(n, uf.parent, uf.rank), Labelled(n, uf.parent, label)
    PROVE  LET found == Similar!find(uf, x)
           IN  /\ Forest(n, found.parent, uf.rank) /\ Labelled(n, found.parent, label)
               /\ found.rank = uf.rank /\ found.root \in 1..n
               /\ found.root = label[x] /\ found.parent[found.root] = found.root
               /\ \A y \in 1..n : uf.parent[y] = y => found.parent[y] = y
<1> DEFINE walk == Similar!Walk(uf, x)
           rank == uf.rank
           at(k) == walk[k].at
           ends(k) == walk[k].parent[at(k)] = at(k)
           climbs(k) == \A i, j \in 0..k : i < j => rank[at(i)] < rank[at(j)]
           kept(k) == /\ Forest(n, walk[k].parent, rank) /\ Labelled(n, walk[k].parent, label)
                      /\ at(k) \in 1..n /\ label[at(k)] = label[x]
                      /\ \A y \in 1..n : uf.parent[y] = y => walk[k].parent[y] = y
           T == {k \in 0..n : kept(k) /\ \A i \in 0..k : at(i) \in 1..n}
           R == {k \in 0..n : ends(k) \/ climbs(k)}
<1>1. Len(uf.parent) = n /\ rank \in [1..n -> Nat]
  BY DEF Forest
<1>2. walk = [k \in 0..n |-> IF k = 0 THEN [parent |-> uf.parent, at |-> x]
                             ELSE Similar!Halve(walk[k - 1])]
  BY <1>1, WalkLaw
<1> HIDE DEF walk, rank
<1>3. walk[0] = [parent |-> uf.parent, at |-> x]
  BY <1>2
<1>4. \A k \in 1..n : walk[k] = Similar!Halve(walk[k - 1])
  BY <1>2
<1>5. \A k \in 0..n : k \in T
  <2>1. 0 \in T
    BY <1>3 DEF rank
  <2>2. ASSUME NEW k \in 1..n, k - 1 \in T PROVE k \in T
    <3>1. kept(k - 1) /\ \A i \in 0..(k - 1) : at(i) \in 1..n
      BY <2>2
    <3>2. kept(k)
      <4> DEFINE w == walk[k - 1]
      <4>1. /\ Forest(n, w.parent, rank) /\ Labelled(n, w.parent, label)
            /\ w.at \in 1..n /\ label[w.at] = label[x]
            /\ \A y \in 1..n : uf.parent[y] = y => w.parent[y] = y
        BY <3>1
      <4> HIDE DEF w
      <4>2. /\ Forest(n, Similar!Halve(w).parent, rank) /\ Labelled(n, Similar!Halve(w).parent, label)
            /\ Similar!Halve(w).at \in 1..n /\ label[Similar!Halve(w).at] = label[w.at]
            /\ \A y \in 1..n : w.parent[y] = y => Similar!Halve(w).parent[y] = y
        BY <4>1, HalveKeeps
      <4>3. walk[k] = Similar!Halve(w)
        BY <1>4 DEF w
      <4> QED BY <4>1, <4>2, <4>3
    <3>3. \A i \in 0..k : at(i) \in 1..n
      <4>1. \A i \in 0..k : i = k \/ i \in 0..(k - 1)
        OBVIOUS
      <4> QED BY <3>1, <3>2, <4>1
    <3> HIDE DEF kept, at
    <3> QED BY <3>2, <3>3
  <2> HIDE DEF T
  <2> QED BY <2>1, <2>2, UpTo
<1>6. \A k \in 0..n : at(k) \in 1..n /\ kept(k)
  BY <1>5
<1> HIDE DEF T
<1>7. \A k \in 0..n : k \in R
  <2>1. 0 \in R
    OBVIOUS
  <2>2. ASSUME NEW k \in 1..n, k - 1 \in R PROVE k \in R
    <3> DEFINE w == walk[k - 1]
    <3>1. kept(k - 1) /\ at(k) \in 1..n /\ at(k - 1) \in 1..n
      BY <1>6
    <3>2. /\ w.parent[w.at] = w.at => walk[k] = w
          /\ w.parent[w.at] # w.at => rank[w.at] < rank[walk[k].at]
      <4>1. Forest(n, w.parent, rank) /\ Labelled(n, w.parent, label) /\ w.at \in 1..n
        BY <3>1
      <4> HIDE DEF w
      <4>2. /\ w.parent[w.at] = w.at => Similar!Halve(w) = w
            /\ w.parent[w.at] # w.at => rank[w.at] < rank[Similar!Halve(w).at]
        BY <4>1, HalveKeeps
      <4>3. walk[k] = Similar!Halve(w)
        BY <1>4 DEF w
      <4> QED BY <4>2, <4>3
    <3>3. CASE w.parent[w.at] = w.at
      <4>1. walk[k] = walk[k - 1] /\ ends(k - 1)
        BY <3>2, <3>3
      <4>2. ends(k)
        BY <4>1
      <4> HIDE DEF ends, climbs
      <4> QED BY <4>2
    <3>4. CASE w.parent[w.at] # w.at
      <4>1. climbs(k - 1) /\ rank[at(k - 1)] < rank[at(k)]
        BY <2>2, <3>2, <3>4
      <4>2. \A i \in 0..n : rank[at(i)] \in Nat
        BY <1>1, <1>6
      <4> HIDE DEF at
      <4>3. ASSUME NEW i \in 0..k, NEW j \in 0..k, i < j PROVE rank[at(i)] < rank[at(j)]
        <5>1. CASE j < k
          <6>1. i \in 0..(k - 1) /\ j \in 0..(k - 1)
            BY <4>3, <5>1
          <6> QED BY <4>1, <4>3, <6>1
        <5>2. CASE j = k
          <6>1. i = k - 1 \/ (i \in 0..(k - 1) /\ k - 1 \in 0..(k - 1) /\ i < k - 1)
            BY <4>3, <5>2
          <6>2. i = k - 1 \/ rank[at(i)] < rank[at(k - 1)]
            BY <4>1, <6>1
          <6>3. rank[at(i)] \in Nat /\ rank[at(k - 1)] \in Nat /\ rank[at(k)] \in Nat
            BY <4>2
          <6> QED BY <4>1, <5>2, <6>2, <6>3
        <5> QED BY <5>1, <5>2
      <4>4. climbs(k)
        BY <4>3
      <4> HIDE DEF climbs, ends
      <4> QED BY <4>4
    <3> QED BY <3>3, <3>4
  <2> HIDE DEF R
  <2> QED BY <2>1, <2>2, UpTo
<1>8. ends(n)
  <2> SUFFICES ASSUME ~ends(n) PROVE FALSE
    OBVIOUS
  <2>1. climbs(n)
    BY <1>7
  <2> DEFINE D == 0..n
             C == 1..n
             f == [k \in D |-> at(k)]
  <2>2. IsFiniteSet(D) /\ IsFiniteSet(C) /\ Cardinality(D) = n + 1 /\ Cardinality(C) = n
    <3>1. Cardinality(0..n) = n - 0 + 1 /\ Cardinality(1..n) = n - 1 + 1
      BY FS_Interval
    <3> QED BY <3>1, FS_Interval
  <2>3. f \in [D -> C]
    BY <1>6
  <2>4. \A i, j \in D : i # j => f[i] # f[j]
    <3>1. \A i \in D : f[i] = at(i) /\ rank[at(i)] \in Nat
      BY <1>1, <1>6
    <3> HIDE DEF at, f
    <3>2. \A i, j \in D : i # j => i < j \/ j < i
      OBVIOUS
    <3> QED BY <2>1, <3>1, <3>2
  <2> HIDE DEF f, C, D
  <2>5. Cardinality(C) < Cardinality(D)
    BY <2>2
  <2>6. \E i, j \in D : i # j /\ f[i] = f[j]
    BY <2>2, <2>3, <2>5, FS_PigeonHole
  <2> QED BY <2>4, <2>6
<1> DEFINE end == walk[n]
<1>9. /\ Forest(n, end.parent, rank) /\ Labelled(n, end.parent, label)
      /\ end.at \in 1..n /\ label[end.at] = label[x] /\ end.parent[end.at] = end.at
      /\ \A y \in 1..n : uf.parent[y] = y => end.parent[y] = y
  BY <1>6, <1>8
<1> HIDE DEF end
<1>10. label[end.at] = end.at
  BY <1>9 DEF Labelled
<1>11. Similar!find(uf, x) = [parent |-> end.parent, rank |-> rank, root |-> end.at]
  BY <1>1 DEF Similar!find, end, walk, rank
<1> QED BY <1>9, <1>10, <1>11 DEF rank

\* A union: one of two roots becomes the child of the other, and gives up its name.
\* The classes of two files become one.
MergedAs(n, label, a, b, new) ==
    /\ new \in [1..n -> 1..n] /\ new[a] = new[b]
    /\ \A i, j \in 1..n : label[i] = label[j] => new[i] = new[j]
    /\ \A i, j \in 1..n : new[i] = new[j] =>
          \/ label[i] = label[j]
          \/ label[i] = label[a] /\ label[j] = label[b]
          \/ label[i] = label[b] /\ label[j] = label[a]

LEMMA UnionMerges ==
    ASSUME NEW n \in Nat, NEW uf, NEW label, NEW a \in 1..n, NEW b \in 1..n,
           Forest(n, uf.parent, uf.rank), Labelled(n, uf.parent, label)
    PROVE  LET joined == Similar!union(uf, a, b)
           IN  \E new : /\ Forest(n, joined.parent, joined.rank)
                        /\ Labelled(n, joined.parent, new)
                        /\ MergedAs(n, label, a, b, new)
<1> DEFINE joined == Similar!union(uf, a, b)
           fa == Similar!find(uf, a)
           fb == Similar!find(fa, b)
           hi == IF fb.rank[fa.root] < fb.rank[fb.root] THEN fb.root ELSE fa.root
           lo == IF hi = fa.root THEN fb.root ELSE fa.root
           p == fb.parent
           r == fb.rank
           q == [p EXCEPT ![lo] = hi]
           up == IF r[hi] = r[lo] THEN r[hi] + 1 ELSE r[hi]
           s == [r EXCEPT ![hi] = up]
           merged == [parent |-> q, rank |-> s, root |-> fb.root]
<1>1. joined = IF fa.root = fb.root THEN fb ELSE merged
  BY DEF Similar!union
<1>2. /\ Forest(n, fa.parent, fa.rank) /\ Labelled(n, fa.parent, label)
      /\ fa.root = label[a] /\ fa.parent[fa.root] = fa.root /\ fa.root \in 1..n
  BY FindRoot
<1> HIDE DEF fa
<1>3. /\ Forest(n, p, r) /\ Labelled(n, p, label)
      /\ fb.root = label[b] /\ p[fb.root] = fb.root /\ fb.root \in 1..n
      /\ \A y \in 1..n : fa.parent[y] = y => p[y] = y
  BY <1>2, FindRoot
<1> HIDE DEF fb, p, r
<1>4. /\ p \in [1..n -> 1..n] /\ r \in [1..n -> Nat] /\ label \in [1..n -> 1..n]
      /\ \A x \in 1..n : p[x] # x => r[x] < r[p[x]]
      /\ \A x \in 1..n : label[p[x]] = label[x]
      /\ \A x \in 1..n : p[x] = x => label[x] = x
  BY <1>3 DEF Forest, Labelled
<1>7. p[fa.root] = fa.root
  BY <1>2, <1>3
<1>5. CASE fa.root = fb.root
  <2>1. joined.parent = p /\ joined.rank = r
    BY <1>1, <1>5 DEF p, r
  <2>2. Forest(n, joined.parent, joined.rank) /\ Labelled(n, joined.parent, label)
    BY <1>3, <2>1
  <2>3. label[a] = label[b] /\ label \in [1..n -> 1..n]
    BY <1>2, <1>3, <1>4, <1>5
  <2>4. MergedAs(n, label, a, b, label)
    BY <2>3 DEF MergedAs
  <2> HIDE DEF joined
  <2> QED BY <2>2, <2>4 DEF joined
<1>6. CASE fa.root # fb.root
  <2>1. joined.parent = q /\ joined.rank = s
    BY <1>1, <1>6
  <2> HIDE DEF joined
  <2>2. /\ p[fa.root] = fa.root /\ p[fb.root] = fb.root /\ fa.root \in 1..n /\ fb.root \in 1..n
        /\ label[fa.root] = fa.root /\ label[fb.root] = fb.root
    BY <1>2, <1>3, <1>4, <1>7
  <2>3. /\ hi \in 1..n /\ lo \in 1..n /\ hi # lo /\ p[hi] = hi /\ p[lo] = lo
        /\ label[hi] = hi /\ label[lo] = lo /\ r[lo] <= r[hi]
        /\ \/ label[a] = hi /\ label[b] = lo
           \/ label[a] = lo /\ label[b] = hi
    <3>1. r[fa.root] \in Nat /\ r[fb.root] \in Nat
      BY <1>4, <2>2
    <3>2. fb.rank = r
      BY DEF r
    <3> QED BY <1>2, <1>3, <1>6, <2>2, <3>1, <3>2
  <2> HIDE DEF hi, lo
  <2>4. /\ q \in [1..n -> 1..n] /\ q[lo] = hi /\ \A y \in 1..n : y # lo => q[y] = p[y]
        /\ s \in [1..n -> Nat] /\ s[lo] < s[hi] /\ s[hi] >= r[hi]
        /\ \A y \in 1..n : y # hi => s[y] = r[y]
    <3>1. q \in [1..n -> 1..n] /\ q[lo] = hi /\ \A y \in 1..n : y # lo => q[y] = p[y]
      BY <1>4, <2>3
    <3>2. r[hi] \in Nat /\ r[lo] \in Nat
      BY <1>4, <2>3
    <3>3. up \in Nat /\ up >= r[hi] /\ r[lo] < up
      BY <2>3, <3>2
    <3> HIDE DEF up
    <3>4. /\ s \in [1..n -> Nat] /\ s[hi] = up
          /\ \A y \in 1..n : y # hi => s[y] = r[y]
      BY <1>4, <2>3, <3>3
    <3> HIDE DEF q, s
    <3> QED BY <2>3, <3>1, <3>3, <3>4
  <2> HIDE DEF q, s
  <2>5. Forest(n, q, s)
    <3>1. ASSUME NEW x \in 1..n, q[x] # x PROVE s[x] < s[q[x]]
      <4>1. CASE x = lo
        BY <2>4, <4>1
      <4>2. CASE x # lo
        <5>1. q[x] = p[x] /\ p[x] # x /\ r[x] < r[p[x]] /\ p[x] \in 1..n /\ x # hi
          BY <1>4, <2>3, <2>4, <3>1, <4>2
        <5>2. s[x] = r[x] /\ r[x] \in Nat /\ r[p[x]] \in Nat /\ s[p[x]] \in Nat /\ s[p[x]] >= r[p[x]]
          <6>1. s[p[x]] = r[p[x]] \/ s[p[x]] >= r[p[x]]
            <7>1. CASE p[x] = hi
              BY <2>4, <7>1
            <7>2. CASE p[x] # hi
              BY <2>4, <5>1, <7>2
            <7> QED BY <7>1, <7>2
          <6>2. s[x] = r[x] /\ r[x] \in Nat /\ r[p[x]] \in Nat /\ s[p[x]] \in Nat
            BY <1>4, <2>4, <5>1
          <6> QED BY <6>1, <6>2
        <5> QED BY <5>1, <5>2
      <4> QED BY <4>1, <4>2
    <3> QED BY <2>4, <3>1 DEF Forest
  <2> DEFINE new == [y \in 1..n |-> IF label[y] = lo THEN hi ELSE label[y]]
  <2>6. new \in [1..n -> 1..n] /\ \A y \in 1..n : new[y] = IF label[y] = lo THEN hi ELSE label[y]
    BY <1>4, <2>3
  <2> HIDE DEF new
  <2>7. Labelled(n, q, new)
    <3>1. ASSUME NEW x \in 1..n PROVE new[q[x]] = new[x]
      <4>1. CASE x = lo
        <5>1. q[x] = hi /\ new[x] = hi /\ new[hi] = hi
          BY <2>3, <2>4, <2>6, <4>1
        <5> QED BY <5>1
      <4>2. CASE x # lo
        <5>1. q[x] = p[x] /\ p[x] \in 1..n /\ label[p[x]] = label[x]
          BY <1>4, <2>4, <4>2
        <5>2. new[p[x]] = new[x]
          BY <2>6, <5>1
        <5> QED BY <5>1, <5>2
      <4> QED BY <4>1, <4>2
    <3>2. ASSUME NEW x \in 1..n, q[x] = x PROVE new[x] = x
      <4>1. x # lo /\ label[x] = x
        BY <1>4, <2>3, <2>4, <3>2
      <4> QED BY <2>6, <4>1
    <3> QED BY <2>6, <3>1, <3>2 DEF Labelled
  <2>8. new[a] = new[b]
    BY <2>3, <2>6
  <2>9. \A i, j \in 1..n : label[i] = label[j] => new[i] = new[j]
    BY <2>6
  <2>10. \A i, j \in 1..n : new[i] = new[j] =>
              \/ label[i] = label[j]
              \/ label[i] = label[a] /\ label[j] = label[b]
              \/ label[i] = label[b] /\ label[j] = label[a]
    BY <2>3, <2>6
  <2>11. Forest(n, joined.parent, joined.rank) /\ Labelled(n, joined.parent, new)
    BY <2>1, <2>5, <2>7
  <2>12. MergedAs(n, label, a, b, new)
    BY <2>6, <2>8, <2>9, <2>10 DEF MergedAs
  <2> QED BY <2>11, <2>12 DEF joined
<1> QED BY <1>5, <1>6

-----------------------------------------------------------------------------
(* Near-duplicates: the pass over the pairs.                               *)

\* What LoadSimilarityCandidates returns, whatever the digests are.
Bits == 0..63
Loaded(photos) ==
    /\ Len(photos) \in Nat /\ DOMAIN photos = 1..Len(photos)
    /\ \A i \in 1..Len(photos) : /\ photos[i].hash \subseteq Bits
                                 /\ photos[i].score \in Int /\ photos[i].worth \in Int

LEMMA FileTypes ==
    ASSUME NEW photos, Loaded(photos)
    PROVE  /\ Len(photos) \in Nat /\ DOMAIN photos = 1..Len(photos)
           /\ \A i \in 1..Len(photos) : /\ photos[i].hash \subseteq Bits
                                        /\ photos[i].score \in Int /\ photos[i].worth \in Int
           /\ Similar!Candidates(photos) \subseteq 1..Len(photos)
BY DEF Loaded, Similar!Candidates

LEMMA SimilarCount == \A S : Similar!Cardinality(S) = Cardinality(S)
BY DEF Similar!Cardinality, Cardinality

\* The distance of two hashes is a number of bits, and the same both ways.
LEMMA DistanceBetween ==
    ASSUME NEW photos, Loaded(photos), NEW i \in 1..Len(photos), NEW j \in 1..Len(photos)
    PROVE  LET d(k, l) == Similar!HammingDistance(photos[k].hash, photos[l].hash)
           IN  d(i, j) \in 0..64 /\ d(i, j) = d(j, i) /\ d(i, i) = 0
<1> DEFINE g == photos[i].hash
           h == photos[j].hash
           D == (g \ h) \cup (h \ g)
<1>1. g \subseteq Bits /\ h \subseteq Bits
  BY FileTypes
<1>2. IsFiniteSet(Bits) /\ Cardinality(Bits) = 64
  <2>1. \A b \in Nat : IsFiniteSet(0..b) /\ Cardinality(0..b) = b + 1
    <3>1. \A b \in Nat : 0 \in Int /\ b \in Int /\ ~(0 > b) /\ b - 0 + 1 = b + 1
      OBVIOUS
    <3> QED BY <3>1, FS_Interval
  <2>2. 63 \in Nat /\ 63 + 1 = 64
    OBVIOUS
  <2> QED BY <2>1, <2>2 DEF Bits
<1>3. D \subseteq Bits
  BY <1>1
<1>4. Cardinality(D) \in Nat /\ Cardinality(D) <= 64
  <2> HIDE DEF D
  <2> QED BY <1>2, <1>3, FS_Subset, FS_CardinalityType
<1>5. (h \ g) \cup (g \ h) = D /\ (g \ g) \cup (g \ g) = {}
  OBVIOUS
<1>6. Cardinality({}) = 0
  BY FS_EmptySet
<1>7. /\ Similar!HammingDistance(g, h) = Cardinality(D)
      /\ Similar!HammingDistance(h, g) = Cardinality((h \ g) \cup (g \ h))
      /\ Similar!HammingDistance(g, g) = Cardinality((g \ g) \cup (g \ g))
  BY SimilarCount DEF Similar!HammingDistance
<1>8. Similar!HammingDistance(h, g) = Cardinality(D) /\ Similar!HammingDistance(g, g) = 0
  <2> HIDE DEF g, h
  <2> QED BY <1>5, <1>6, <1>7, Zenon
<1>9. Cardinality(D) \in 0..64
  <2> DEFINE c == Cardinality(D)
  <2>1. c \in Nat /\ c <= 64
    BY <1>4
  <2> HIDE DEF c
  <2>2. c \in 0..64
    BY <2>1
  <2> QED BY <2>2 DEF c
<1> HIDE DEF D
<1>10. /\ Similar!HammingDistance(g, h) \in 0..64
       /\ Similar!HammingDistance(g, h) = Similar!HammingDistance(h, g)
       /\ Similar!HammingDistance(g, g) = 0
  <2> HIDE DEF g, h
  <2> QED BY <1>7, <1>8, <1>9
<1> QED BY <1>10 DEF g, h

\* Similarity is symmetric, and every photo is similar to itself.
LEMMA SimilarBothWays ==
    ASSUME NEW photos, Loaded(photos), NEW threshold \in Int,
           NEW i \in 1..Len(photos), NEW j \in 1..Len(photos)
    PROVE  /\ Similar!Similar(photos, i, j, threshold) <=> Similar!Similar(photos, j, i, threshold)
           /\ Similar!Similar(photos, i, i, threshold)
<1>1. Similar!Clamped(threshold) \in Nat
  BY DEF Similar!Clamped, Similar!MaxSimilarityThreshold
<1> QED BY <1>1, DistanceBetween DEF Similar!Similar

\* Two files the loops compare and find similar.
Linked(photos, threshold, i, j) ==
    /\ i \in Similar!Candidates(photos) /\ j \in Similar!Candidates(photos)
    /\ Similar!Similar(photos, i, j, threshold)

\* A set of files that none leaves over a link.
Closed(photos, threshold, C) ==
    \A i, j \in 1..Len(photos) : Linked(photos, threshold, i, j) /\ i \in C => j \in C

\* After k pairs the trees hold together what was linked so far, and nothing but
\* what some chain of links holds together.
JoinInv(photos, threshold, k, uf) ==
    LET n == Len(photos)
    IN  \E label :
           /\ Forest(n, uf.parent, uf.rank) /\ Labelled(n, uf.parent, label)
           /\ \A m \in 1..k :
                 LET p == Similar!Pair(m, n)
                 IN  p[1] < p[2] /\ Linked(photos, threshold, p[1], p[2]) => label[p[1]] = label[p[2]]
           /\ \A C : Closed(photos, threshold, C) =>
                 \A i, j \in 1..n : label[i] = label[j] /\ i \in C => j \in C

LEMMA PairInside ==
    ASSUME NEW n \in Nat, NEW k \in 1..(n * n)
    PROVE  Similar!Pair(k, n) \in (1..n) \X (1..n)
<1>1. n # 0 /\ k - 1 \in Nat /\ k - 1 < n * n
  OBVIOUS
<1> DEFINE a == k - 1
           q == a \div n
           r == a % n
<1>2. q \in Nat /\ r \in 0..(n - 1) /\ a = n * q + r
  BY <1>1, Division
<1> HIDE DEF q, r
<1>3. q < n
  <2> SUFFICES ASSUME q >= n PROVE FALSE
    BY <1>1, <1>2
  <2>1. PICK d \in Nat : q = n + d
    <3>1. q - n \in Nat /\ q = n + (q - n)
      BY <1>2
    <3> QED BY <3>1
  <2>2. n * q = n * n + n * d /\ n * d >= 0 /\ n * n \in Nat
    BY <2>1
  <2> QED BY <1>1, <1>2, <2>2
<1>4. q + 1 \in 1..n /\ r + 1 \in 1..n
  BY <1>1, <1>2, <1>3
<1> QED BY <1>4 DEF Similar!Pair, q, r

\* The loops come by every pair.
LEMMA PairsCovered ==
    ASSUME NEW n \in Nat, NEW i \in 1..n, NEW j \in 1..n
    PROVE  \E k \in 1..(n * n) : Similar!Pair(k, n) = <<i, j>>
<1> DEFINE k == n * (i - 1) + j
           q == (k - 1) \div n
           r == (k - 1) % n
<1>1. n \in Nat \ {0} /\ i - 1 \in Nat /\ j - 1 \in 0..(n - 1)
  OBVIOUS
<1>2. k \in 1..(n * n)
  <2>1. PICK d \in Nat : n = (i - 1) + 1 + d
    <3>1. n - i \in Nat /\ n = (i - 1) + 1 + (n - i)
      OBVIOUS
    <3> QED BY <3>1
  <2>2. n * n = n * (i - 1) + n + n * d /\ n * d >= 0 /\ n * (i - 1) \in Nat
    BY <1>1, <2>1
  <2> QED BY <2>2
<1>3. k - 1 \in Nat /\ k - 1 = n * (i - 1) + (j - 1)
  BY <1>2
<1> HIDE DEF k
<1>4. q \in Nat /\ r \in 0..(n - 1) /\ k - 1 = n * q + r
  BY <1>1, <1>3, Division
<1> HIDE DEF q, r
<1>5. q = i - 1 /\ r = j - 1
  <2>1. n * q + r = n * (i - 1) + (j - 1)
    BY <1>3, <1>4
  <2> QED BY <1>1, <1>4, <2>1, DivisionUnique
<1>6. Similar!Pair(k, n) = <<i, j>>
  BY <1>5 DEF Similar!Pair, q, r
<1> QED BY <1>2, <1>6

LEMMA JoinedLaw ==
    ASSUME NEW photos, Loaded(photos), NEW threshold
    PROVE  LET n == Len(photos)
               joined == Similar!Joined(photos, threshold)
           IN  joined = [k \in 0..(n * n) |->
                           IF k = 0 THEN Similar!newUnionFind(n)
                           ELSE Similar!Compare(photos, threshold, joined[k - 1], Similar!Pair(k, n))]
<1> DEFINE n == Len(photos)
           turns == n * n
           start == Similar!newUnionFind(n)
           follows(f, m) == f = [k \in 0..m |-> IF k = 0 THEN start
                               ELSE Similar!Compare(photos, threshold, f[k - 1], Similar!Pair(k, n))]
           T == {m \in 0..turns : \E f : follows(f, m)}
           g == CHOOSE f : follows(f, turns)
<1>0. Similar!Joined(photos, threshold) = g
  BY Zenon DEF Similar!Joined
<1>a. turns \in Nat
  BY FileTypes
<1> HIDE DEF start, turns
<1>1. 0 \in T
  <2> DEFINE f == [k \in 0..0 |-> start]
  <2>1. follows(f, 0)
    OBVIOUS
  <2> HIDE DEF f, follows
  <2> QED BY <1>a, <2>1
<1>2. ASSUME NEW m \in 1..turns, m - 1 \in T PROVE m \in T
  <2>1. PICK f : follows(f, m - 1)
    BY <1>2
  <2> DEFINE h == [k \in 0..m |-> IF k < m THEN f[k]
                     ELSE Similar!Compare(photos, threshold, f[k - 1], Similar!Pair(k, n))]
  <2>2. follows(h, m)
    <3>1. \A k \in 0..m : h[k] = IF k = 0 THEN start
                      ELSE Similar!Compare(photos, threshold, h[k - 1], Similar!Pair(k, n))
      BY <1>a, <2>1
    <3> QED BY <3>1
  <2> HIDE DEF h, follows
  <2> QED BY <2>2
<1>3. follows(g, turns)
  <2> HIDE DEF T
  <2>1. turns \in T
    BY <1>a, <1>1, <1>2, UpTo
  <2>2. \E f : follows(f, turns)
    BY <2>1 DEF T
  <2> HIDE DEF follows
  <2> QED BY <2>2
<1> HIDE DEF g
<1> QED BY <1>0, <1>3 DEF start, turns

LEMMA JoinBegins ==
    ASSUME NEW photos, Loaded(photos), NEW threshold
    PROVE  JoinInv(photos, threshold, 0, Similar!newUnionFind(Len(photos)))
<1> DEFINE n == Len(photos)
           uf == Similar!newUnionFind(n)
           label == [i \in 1..n |-> i]
<1>1. n \in Nat
  BY FileTypes
<1>2. uf.parent = label /\ uf.rank = [i \in 1..n |-> 0]
  BY DEF Similar!newUnionFind
<1>3. Forest(n, uf.parent, uf.rank) /\ Labelled(n, uf.parent, label)
  BY <1>1, <1>2 DEF Forest, Labelled
<1>4. \A i, j \in 1..n : label[i] = label[j] => i = j
  OBVIOUS
<1> HIDE DEF label, uf
<1> QED BY <1>3, <1>4 DEF JoinInv, uf

LEMMA JoinStep ==
    ASSUME NEW photos, Loaded(photos), NEW threshold \in Int, NEW k \in 1..(Len(photos) * Len(photos)),
           NEW uf, JoinInv(photos, threshold, k - 1, uf)
    PROVE  JoinInv(photos, threshold, k,
                   Similar!Compare(photos, threshold, uf, Similar!Pair(k, Len(photos))))
<1> DEFINE n == Len(photos)
           p == Similar!Pair(k, n)
           after == Similar!Compare(photos, threshold, uf, p)
           seen(m, label) ==
              LET q == Similar!Pair(m, n)
              IN  q[1] < q[2] /\ Linked(photos, threshold, q[1], q[2]) => label[q[1]] = label[q[2]]
           kept(label) == \A C : Closed(photos, threshold, C) =>
                 \A i, j \in 1..n : label[i] = label[j] /\ i \in C => j \in C
<1>1. n \in Nat /\ n * n \in Nat
  BY FileTypes
<1>2. p \in (1..n) \X (1..n) /\ p[1] \in 1..n /\ p[2] \in 1..n
  BY <1>1, PairInside
<1>3. PICK label : /\ Forest(n, uf.parent, uf.rank) /\ Labelled(n, uf.parent, label)
                   /\ \A m \in 1..(k - 1) : seen(m, label)
                   /\ kept(label)
  BY DEF JoinInv
<1>4. \A m \in 1..k : m = k \/ m \in 1..(k - 1)
  BY <1>1
<1>5. CASE ~(p[1] < p[2] /\ Linked(photos, threshold, p[1], p[2]))
  <2>1. after = uf
    BY <1>5 DEF Similar!Compare, Linked
  <2>2. seen(k, label)
    BY <1>5
  <2> HIDE DEF seen, p, after
  <2>3. \A m \in 1..k : seen(m, label)
    BY <1>3, <1>4, <2>2
  <2>4. /\ Forest(n, after.parent, after.rank) /\ Labelled(n, after.parent, label)
        /\ \A m \in 1..k : seen(m, label)
        /\ kept(label)
    BY <1>3, <2>1, <2>3
  <2>5. JoinInv(photos, threshold, k, after)
    BY <2>4 DEF JoinInv, seen
  <2> QED BY <2>5 DEF after, p
<1>6. CASE p[1] < p[2] /\ Linked(photos, threshold, p[1], p[2])
  <2> DEFINE a == p[1]
             b == p[2]
  <2>1. after = Similar!union(uf, a, b)
    BY <1>6 DEF Similar!Compare, Linked
  <2>2. PICK new : /\ Forest(n, after.parent, after.rank) /\ Labelled(n, after.parent, new)
                   /\ MergedAs(n, label, a, b, new)
    BY <1>1, <1>2, <1>3, <2>1, UnionMerges
  <2>3. new[a] = new[b]
    BY <2>2 DEF MergedAs
  <2>4. seen(k, new)
    BY <2>3
  <2>5. ASSUME NEW m \in 1..(k - 1) PROVE seen(m, new)
    <3>1. m \in 1..(n * n)
      BY <1>1
    <3> DEFINE q == Similar!Pair(m, n)
    <3>2. q[1] \in 1..n /\ q[2] \in 1..n
      BY <1>1, <3>1, PairInside
    <3>3. label[q[1]] = label[q[2]] => new[q[1]] = new[q[2]]
      BY <2>2, <3>2 DEF MergedAs
    <3> QED BY <1>3, <3>3
  <2>6. kept(new)
    <3> SUFFICES ASSUME NEW C, Closed(photos, threshold, C), NEW i \in 1..n, NEW j \in 1..n,
                        new[i] = new[j], i \in C
                 PROVE  j \in C
      OBVIOUS
    <3>1. \A x, y \in 1..n : label[x] = label[y] /\ x \in C => y \in C
      BY <1>3
    <3>2. a \in C <=> b \in C
      <4>1. Linked(photos, threshold, b, a)
        BY <1>2, <1>6, SimilarBothWays DEF Linked
      <4> QED BY <1>2, <1>6, <4>1 DEF Closed
    <3>3. \/ label[i] = label[j]
          \/ label[i] = label[a] /\ label[j] = label[b]
          \/ label[i] = label[b] /\ label[j] = label[a]
      BY <2>2 DEF MergedAs
    <3> HIDE DEF a, b
    <3>4. a \in 1..n /\ b \in 1..n
      BY <1>2 DEF a, b
    <3> QED BY <3>1, <3>2, <3>3, <3>4
  <2> HIDE DEF seen, p, after
  <2>7. \A m \in 1..k : seen(m, new)
    BY <1>4, <2>4, <2>5
  <2>8. JoinInv(photos, threshold, k, after)
    BY <2>2, <2>6, <2>7 DEF JoinInv, seen
  <2> QED BY <2>8 DEF after, p
<1> QED BY <1>5, <1>6

LEMMA JoinKeepsInv ==
    ASSUME NEW photos, Loaded(photos), NEW threshold \in Int
    PROVE  LET n == Len(photos)
           IN  JoinInv(photos, threshold, n * n, Similar!Joined(photos, threshold)[n * n])
<1> DEFINE n == Len(photos)
           turns == n * n
           joined == Similar!Joined(photos, threshold)
           T == {k \in 0..turns : JoinInv(photos, threshold, k, joined[k])}
<1>1. turns \in Nat
  BY FileTypes
<1>2. joined = [k \in 0..turns |->
                   IF k = 0 THEN Similar!newUnionFind(n)
                   ELSE Similar!Compare(photos, threshold, joined[k - 1], Similar!Pair(k, n))]
  BY JoinedLaw
<1> HIDE DEF joined
<1>3. joined[0] = Similar!newUnionFind(n)
  BY <1>1, <1>2
<1>4. \A k \in 1..turns :
         joined[k] = Similar!Compare(photos, threshold, joined[k - 1], Similar!Pair(k, n))
  BY <1>1, <1>2
<1>5. 0 \in T
  BY <1>1, <1>3, JoinBegins
<1>6. ASSUME NEW k \in 1..turns, k - 1 \in T PROVE k \in T
  <2>1. JoinInv(photos, threshold, k - 1, joined[k - 1])
    BY <1>6
  <2>2. JoinInv(photos, threshold, k, joined[k])
    BY <1>4, <2>1, JoinStep
  <2>3. k \in 0..turns
    BY <1>1
  <2> QED BY <2>2, <2>3
<1>7. turns \in T
  <2> HIDE DEF T, turns
  <2>1. \A k \in 0..turns : k \in T
    BY <1>1, <1>5, <1>6, UpTo
  <2> QED BY <1>1, <2>1
<1> QED BY <1>7 DEF joined

-----------------------------------------------------------------------------
(* Near-duplicates: components.                                            *)

\* A file's component as GroupSimilar finds it: the files with the same root.
ClassOf(photos, threshold, i) ==
    LET joined == Similar!Joined(photos, threshold)[Len(photos) * Len(photos)]
    IN  {j \in Similar!Candidates(photos) :
            Similar!find(joined, j).root = Similar!find(joined, i).root}

\* What the union-find holds together in the end: what is linked, and no more.
LEMMA ClassesByLabel ==
    ASSUME NEW photos, Loaded(photos), NEW threshold \in Int
    PROVE  \E label :
              /\ \A i \in Similar!Candidates(photos) : ClassOf(photos, threshold, i) =
                    {j \in Similar!Candidates(photos) : label[j] = label[i]}
              /\ \A i, j \in 1..Len(photos) :
                    Linked(photos, threshold, i, j) => label[i] = label[j]
              /\ \A C : Closed(photos, threshold, C) =>
                    \A i, j \in 1..Len(photos) : label[i] = label[j] /\ i \in C => j \in C
<1> DEFINE n == Len(photos)
           uf == Similar!Joined(photos, threshold)[n * n]
           seen(m, label) ==
              LET q == Similar!Pair(m, n)
              IN  q[1] < q[2] /\ Linked(photos, threshold, q[1], q[2]) => label[q[1]] = label[q[2]]
           kept(label) == \A C : Closed(photos, threshold, C) =>
                 \A i, j \in 1..n : label[i] = label[j] /\ i \in C => j \in C
<1>1. n \in Nat /\ Similar!Candidates(photos) \subseteq 1..n
  BY FileTypes
<1>2. JoinInv(photos, threshold, n * n, uf)
  BY JoinKeepsInv
<1> HIDE DEF uf
<1>3. PICK label : /\ Forest(n, uf.parent, uf.rank) /\ Labelled(n, uf.parent, label)
                   /\ \A m \in 1..(n * n) : seen(m, label)
                   /\ kept(label)
  BY <1>2 DEF JoinInv
<1>4. \A x \in 1..n : Similar!find(uf, x).root = label[x]
  BY <1>1, <1>3, FindRoot
<1>5. \A i \in Similar!Candidates(photos) : ClassOf(photos, threshold, i) =
         {j \in Similar!Candidates(photos) : label[j] = label[i]}
  BY <1>1, <1>4 DEF ClassOf, uf
<1>6. ASSUME NEW i \in 1..n, NEW j \in 1..n, i < j, Linked(photos, threshold, i, j)
      PROVE  label[i] = label[j]
  <2>1. PICK m \in 1..(n * n) : Similar!Pair(m, n) = <<i, j>>
    BY <1>1, PairsCovered
  <2>2. seen(m, label)
    BY <1>3
  <2> QED BY <1>6, <2>1, <2>2
<1>7. ASSUME NEW i \in 1..n, NEW j \in 1..n, Linked(photos, threshold, i, j)
      PROVE  label[i] = label[j]
  <2>1. Linked(photos, threshold, j, i)
    BY <1>7, SimilarBothWays DEF Linked
  <2>2. i < j \/ j < i \/ i = j
    OBVIOUS
  <2> QED BY <1>6, <1>7, <2>1, <2>2
<1> QED BY <1>3, <1>5, <1>7

LEMMA WithinLaw ==
    ASSUME NEW photos, Loaded(photos), NEW threshold, NEW i
    PROVE  LET within == Similar!Within(photos, i, threshold)
           IN  within = [k \in 0..Len(photos) |->
                  IF k = 0 THEN {i}
                  ELSE {j \in Similar!Candidates(photos) :
                          \E l \in within[k - 1] : Similar!Similar(photos, j, l, threshold)}]
<1> DEFINE n == Len(photos)
           start == {i}
           grow(C) == {j \in Similar!Candidates(photos) :
                         \E l \in C : Similar!Similar(photos, j, l, threshold)}
           follows(f, m) == f = [k \in 0..m |-> IF k = 0 THEN start ELSE grow(f[k - 1])]
           T == {m \in 0..n : \E f : follows(f, m)}
           g == CHOOSE f : follows(f, n)
<1>0. Similar!Within(photos, i, threshold) = g
  BY Zenon DEF Similar!Within
<1>a. n \in Nat
  BY FileTypes
<1> HIDE DEF start, grow, n
<1>1. 0 \in T
  <2> DEFINE f == [k \in 0..0 |-> start]
  <2>1. follows(f, 0)
    OBVIOUS
  <2> HIDE DEF f, follows
  <2> QED BY <1>a, <2>1
<1>2. ASSUME NEW m \in 1..n, m - 1 \in T PROVE m \in T
  <2>1. PICK f : follows(f, m - 1)
    BY <1>2
  <2> DEFINE h == [k \in 0..m |-> IF k < m THEN f[k] ELSE grow(f[k - 1])]
  <2>2. follows(h, m)
    <3>1. \A k \in 0..m : h[k] = IF k = 0 THEN start ELSE grow(h[k - 1])
      BY <1>a, <2>1
    <3> QED BY <3>1
  <2> HIDE DEF h, follows
  <2> QED BY <2>2
<1>3. follows(g, n)
  <2> HIDE DEF T
  <2>1. n \in T
    BY <1>a, <1>1, <1>2, UpTo
  <2>2. \E f : follows(f, n)
    BY <2>1 DEF T
  <2> HIDE DEF follows
  <2> QED BY <2>2
<1> HIDE DEF g
<1> QED BY <1>0, <1>3 DEF start, grow, n

\* No chain need be longer than there are files: what is reached is closed.
LEMMA ReachCloses ==
    ASSUME NEW photos, Loaded(photos), NEW threshold \in Int, NEW i \in Similar!Candidates(photos)
    PROVE  LET reach == Similar!Reach(photos, i, threshold)
           IN  /\ i \in reach /\ reach \subseteq Similar!Candidates(photos)
               /\ Closed(photos, threshold, reach)
               /\ \A C : Closed(photos, threshold, C) /\ i \in C => reach \subseteq C
<1> DEFINE n == Len(photos)
           within == Similar!Within(photos, i, threshold)
           files == Similar!Candidates(photos)
           grow(C) == {j \in files : \E l \in C : Similar!Similar(photos, j, l, threshold)}
<1>1. n \in Nat /\ files \subseteq 1..n /\ i \in 1..n
  BY FileTypes
<1>2. within[0] = {i} /\ \A k \in 1..n : within[k] = grow(within[k - 1])
  <2>1. within = [k \in 0..n |-> IF k = 0 THEN {i} ELSE grow(within[k - 1])]
    BY WithinLaw
  <2> HIDE DEF within, grow
  <2> QED BY <1>1, <2>1
<1> HIDE DEF within, files
<1>3. \A C \in SUBSET files : C \subseteq grow(C) /\ grow(C) \subseteq files
  BY <1>1, SimilarBothWays
<1> DEFINE T == {k \in 0..n : within[k] \subseteq files /\ i \in within[k]}
<1>4. \A k \in 0..n : within[k] \subseteq files /\ i \in within[k]
  <2>1. 0 \in T
    BY <1>1, <1>2 DEF files
  <2>2. ASSUME NEW k \in 1..n, k - 1 \in T PROVE k \in T
    <3>1. within[k - 1] \subseteq files /\ i \in within[k - 1]
      BY <2>2
    <3>2. within[k] = grow(within[k - 1])
      BY <1>2
    <3> HIDE DEF grow
    <3>3. within[k] \subseteq files /\ i \in within[k]
      BY <1>3, <3>1, <3>2
    <3> QED BY <3>3
  <2>3. \A k \in 0..n : k \in T
    <3> HIDE DEF T
    <3> QED BY <1>1, <2>1, <2>2, UpTo
  <2> QED BY <2>3
<1>5. IsFiniteSet(files) /\ Cardinality(files) \in Nat /\ Cardinality(files) <= n
  <2>1. IsFiniteSet(1..n) /\ Cardinality(1..n) = n
    <3> HIDE DEF n
    <3> QED BY <1>1, FS_Interval
  <2> QED BY <1>1, <2>1, FS_Subset, FS_CardinalityType
<1> DEFINE fixed(k) == grow(within[k]) = within[k]
           R == {k \in 0..n : fixed(k) \/ Cardinality(within[k]) >= k + 1}
<1>6. \A k \in 0..n : k \in R
  <2>1. 0 \in R
    <3>1. Cardinality(within[0]) = 1
      BY <1>2, FS_Singleton
    <3> QED BY <3>1
  <2>2. ASSUME NEW k \in 1..n, k - 1 \in R PROVE k \in R
    <3>1. within[k] = grow(within[k - 1])
      BY <1>2
    <3>2. within[k - 1] \subseteq files /\ within[k] \subseteq files
      BY <1>4
    <3> HIDE DEF grow
    <3>3. CASE fixed(k - 1)
      <4>1. fixed(k)
        BY <3>1, <3>3
      <4> HIDE DEF fixed
      <4> QED BY <4>1
    <3>4. CASE ~fixed(k - 1)
      <4>1. Cardinality(within[k - 1]) >= (k - 1) + 1
        BY <2>2, <3>4
      <4>2. within[k - 1] \subseteq within[k] /\ within[k - 1] # within[k]
        BY <1>3, <3>1, <3>2, <3>4
      <4>3. IsFiniteSet(within[k]) /\ IsFiniteSet(within[k - 1])
        BY <1>5, <3>2, FS_Subset
      <4> DEFINE a == within[k - 1]
                 b == within[k]
      <4>4. Cardinality(a) <= Cardinality(b) /\ Cardinality(a) # Cardinality(b)
        <5> HIDE DEF a, b
        <5>1. a \subseteq b /\ a # b /\ IsFiniteSet(b)
          BY <4>2, <4>3 DEF a, b
        <5> QED BY <5>1, FS_Subset
      <4>5. Cardinality(a) \in Nat /\ Cardinality(b) \in Nat
        BY <4>3, FS_CardinalityType
      <4>6. Cardinality(b) >= k + 1
        <5> HIDE DEF b
        <5> QED BY <4>1, <4>4, <4>5
      <4> HIDE DEF fixed
      <4> QED BY <4>6
    <3> QED BY <3>3, <3>4
  <2> HIDE DEF R
  <2> QED BY <1>1, <2>1, <2>2, UpTo
<1> DEFINE reach == within[n]
<1>7. reach \subseteq files /\ i \in reach
  BY <1>1, <1>4
<1>8. grow(reach) = reach
  <2>1. n \in R
    BY <1>1, <1>6
  <2>2. Cardinality(reach) \in Nat /\ Cardinality(reach) <= n
    <3> HIDE DEF reach
    <3>1. IsFiniteSet(reach) /\ Cardinality(reach) <= Cardinality(files)
      BY <1>5, <1>7, FS_Subset
    <3> QED BY <1>1, <1>5, <3>1, FS_CardinalityType
  <2>3. ~(Cardinality(reach) >= n + 1)
    BY <1>1, <2>2
  <2> QED BY <2>1, <2>3
<1>9. Closed(photos, threshold, reach)
  <2> SUFFICES ASSUME NEW a \in 1..n, NEW b \in 1..n, Linked(photos, threshold, a, b), a \in reach
               PROVE  b \in reach
    BY DEF Closed
  <2>1. b \in files /\ Similar!Similar(photos, b, a, threshold)
    BY SimilarBothWays DEF Linked, files
  <2>2. b \in grow(reach)
    BY <2>1
  <2> QED BY <1>8, <2>2
<1>10. ASSUME NEW C, Closed(photos, threshold, C), i \in C PROVE reach \subseteq C
  <2> DEFINE Q == {k \in 0..n : within[k] \subseteq C}
  <2>1. 0 \in Q
    BY <1>1, <1>2, <1>10
  <2>2. ASSUME NEW k \in 1..n, k - 1 \in Q PROVE k \in Q
    <3>1. within[k - 1] \subseteq C /\ within[k - 1] \subseteq files
      BY <1>4, <2>2
    <3>2. ASSUME NEW j \in grow(within[k - 1]) PROVE j \in C
      <4>1. PICK l \in within[k - 1] : Similar!Similar(photos, j, l, threshold)
        OBVIOUS
      <4>2. j \in files /\ l \in files /\ l \in C /\ j \in 1..n /\ l \in 1..n
        BY <1>1, <3>1
      <4>3. Linked(photos, threshold, l, j)
        BY <4>1, <4>2, SimilarBothWays DEF Linked, files
      <4> QED BY <1>10, <4>2, <4>3 DEF Closed
    <3>3. within[k] \subseteq C
      BY <1>2, <3>2
    <3> QED BY <3>3
  <2>3. n \in Q
    <3> HIDE DEF Q
    <3>1. \A k \in 0..n : k \in Q
      BY <1>1, <2>1, <2>2, UpTo
    <3> QED BY <1>1, <3>1
  <2> QED BY <2>3
<1>11. Similar!Reach(photos, i, threshold) = reach
  BY DEF Similar!Reach, within
<1> QED BY <1>7, <1>9, <1>10, <1>11 DEF files

\* similar.go:78-97: the class of a file is its connected component.
LEMMA ClassIsReach ==
    ASSUME NEW photos, Loaded(photos), NEW threshold \in Int, NEW i \in Similar!Candidates(photos)
    PROVE  ClassOf(photos, threshold, i) = Similar!Reach(photos, i, threshold)
<1> DEFINE n == Len(photos)
           files == Similar!Candidates(photos)
           reach == Similar!Reach(photos, i, threshold)
<1>1. files \subseteq 1..n
  BY FileTypes
<1>2. PICK label :
         /\ \A l \in files : ClassOf(photos, threshold, l) = {j \in files : label[j] = label[l]}
         /\ \A k, l \in 1..n : Linked(photos, threshold, k, l) => label[k] = label[l]
         /\ \A C : Closed(photos, threshold, C) =>
               \A k, l \in 1..n : label[k] = label[l] /\ k \in C => l \in C
  BY ClassesByLabel
<1> DEFINE class == {j \in files : label[j] = label[i]}
<1>3. /\ i \in reach /\ reach \subseteq files /\ Closed(photos, threshold, reach)
      /\ \A C : Closed(photos, threshold, C) /\ i \in C => reach \subseteq C
  BY ReachCloses
<1> HIDE DEF reach
<1>4. Closed(photos, threshold, class)
  BY <1>2 DEF Closed, Linked
<1>5. reach \subseteq class
  BY <1>3, <1>4
<1>6. class \subseteq reach
  BY <1>1, <1>2, <1>3
<1>7. ClassOf(photos, threshold, i) = class
  BY <1>2
<1> QED BY <1>5, <1>6, <1>7 DEF reach

-----------------------------------------------------------------------------
(* Near-duplicates: the ranking.                                           *)

\* A set of naturals that is not empty and has a bound has a greatest element.
LEMMA GreatestNatural ==
    ASSUME NEW S, S \subseteq Nat, S # {}, NEW b \in Nat, \A x \in S : x <= b
    PROVE  Similar!Max(S) \in S /\ \A x \in S : x <= Similar!Max(S)
<1> DEFINE T == {c \in Nat : \A x \in S : x <= c}
<1>1. T \subseteq Nat /\ T # {}
  OBVIOUS
<1>2. PICK m \in T : \A c \in T : m <= c
  <2> HIDE DEF T
  <2> QED BY <1>1, LeastNatural
<1>3. m \in Nat /\ \A x \in S : x <= m
  BY <1>2
<1>4. m \in S
  <2> SUFFICES ASSUME m \notin S PROVE FALSE
    OBVIOUS
  <2>1. PICK x \in S : TRUE
    OBVIOUS
  <2>2. \A y \in S : y \in Nat /\ y <= m /\ y # m
    BY <1>3
  <2>3. m - 1 \in Nat /\ \A y \in S : y <= m - 1
    BY <1>3, <2>1, <2>2
  <2>4. m - 1 \in T
    BY <2>3
  <2> QED BY <1>2, <1>3, <2>4
<1>5. \E x \in S : \A y \in S : x >= y
  BY <1>3, <1>4
<1>6. Similar!Max(S) \in S /\ \A y \in S : Similar!Max(S) >= y
  <2> DEFINE top == Similar!Max(S)
  <2>1. top = CHOOSE x \in S : \A y \in S : x >= y
    BY DEF Similar!Max
  <2> HIDE DEF top
  <2>2. top \in S /\ \A y \in S : top >= y
    BY <1>5, <2>1, Zenon
  <2> QED BY <2>2 DEF top
<1> QED BY <1>6

\* A list with one more element after its first k.
Insert(s, k, x) == SubSeq(s, 1, k) \o <<x>> \o SubSeq(s, k + 1, Len(s))

LEMMA Slice ==
    ASSUME NEW S, NEW s \in Seq(S), NEW a \in Nat \ {0}, NEW b \in Nat, b <= Len(s), a <= b + 1
    PROVE  /\ SubSeq(s, a, b) \in Seq(S) /\ Len(SubSeq(s, a, b)) = b - a + 1
           /\ \A j \in 1..(b - a + 1) : SubSeq(s, a, b)[j] = s[a + j - 1]
OBVIOUS

LEMMA ConcatLaw ==
    ASSUME NEW S, NEW s \in Seq(S), NEW t \in Seq(S)
    PROVE  /\ s \o t \in Seq(S) /\ Len(s \o t) = Len(s) + Len(t)
           /\ \A j \in 1..Len(s) : (s \o t)[j] = s[j]
           /\ \A j \in 1..Len(t) : (s \o t)[Len(s) + j] = t[j]
OBVIOUS

LEMMA InsertLaw ==
    ASSUME NEW S, NEW s \in Seq(S), NEW x \in S, NEW k \in 0..Len(s)
    PROVE  LET t == Insert(s, k, x)
           IN  /\ t \in Seq(S) /\ Len(t) = Len(s) + 1
               /\ \A j \in 1..k : t[j] = s[j]
               /\ t[k + 1] = x
               /\ \A j \in (k + 1)..Len(s) : t[j + 1] = s[j]
<1> DEFINE n == Len(s)
           a == SubSeq(s, 1, k)
           b == SubSeq(s, k + 1, n)
           c == a \o <<x>>
           t == c \o b
<1>1. n \in Nat /\ k \in Nat /\ k <= n
  OBVIOUS
<1> HIDE DEF n
<1>2. a \in Seq(S) /\ Len(a) = k /\ \A j \in 1..k : a[j] = s[j]
  <2>1. 1 \in Nat \ {0} /\ k <= Len(s) /\ 1 <= k + 1 /\ k - 1 + 1 = k
    BY <1>1 DEF n
  <2>2. a \in Seq(S) /\ Len(a) = k - 1 + 1 /\ \A j \in 1..(k - 1 + 1) : a[j] = s[1 + j - 1]
    BY <1>1, <2>1, Slice
  <2>3. \A j \in 1..k : 1 + j - 1 = j
    OBVIOUS
  <2> HIDE DEF a
  <2> QED BY <2>1, <2>2, <2>3
<1>3. b \in Seq(S) /\ Len(b) = n - k /\ \A j \in 1..(n - k) : b[j] = s[k + j]
  <2>1. k + 1 \in Nat \ {0} /\ n <= Len(s) /\ k + 1 <= n + 1 /\ n - (k + 1) + 1 = n - k
    BY <1>1 DEF n
  <2>2. b \in Seq(S) /\ Len(b) = n - (k + 1) + 1
        /\ \A j \in 1..(n - (k + 1) + 1) : b[j] = s[(k + 1) + j - 1]
    BY <1>1, <2>1, Slice
  <2>3. \A j \in 1..(n - k) : (k + 1) + j - 1 = k + j
    BY <1>1
  <2> HIDE DEF b
  <2> QED BY <2>1, <2>2, <2>3
<1> HIDE DEF a, b
<1>4. /\ c \in Seq(S) /\ Len(c) = k + 1 /\ c[k + 1] = x
      /\ \A j \in 1..k : c[j] = s[j]
  BY <1>2
<1> HIDE DEF c
<1>5. /\ t \in Seq(S) /\ Len(t) = Len(c) + Len(b)
      /\ \A j \in 1..Len(c) : t[j] = c[j]
      /\ \A j \in 1..Len(b) : t[Len(c) + j] = b[j]
  <2>1. c \in Seq(S) /\ b \in Seq(S)
    BY <1>3, <1>4
  <2>2. t \in Seq(S) /\ Len(t) = Len(c) + Len(b)
    BY <2>1, ConcatLaw
  <2>3. \A j \in 1..Len(c) : t[j] = c[j]
    BY <2>1, ConcatLaw
  <2>4. \A j \in 1..Len(b) : t[Len(c) + j] = b[j]
    BY <2>1, ConcatLaw
  <2> QED BY <2>2, <2>3, <2>4
<1> HIDE DEF t
<1>6. Len(t) = n + 1 /\ t[k + 1] = x /\ \A j \in 1..k : t[j] = s[j]
  BY <1>1, <1>3, <1>4, <1>5
<1>7. ASSUME NEW j \in (k + 1)..n PROVE t[j + 1] = s[j]
  <2>1. j - k \in 1..(n - k) /\ Len(c) + (j - k) = j + 1 /\ k + (j - k) = j
    BY <1>1, <1>4
  <2>2. j - k \in 1..Len(b)
    BY <1>3, <2>1
  <2>3. t[Len(c) + (j - k)] = b[j - k] /\ b[j - k] = s[k + (j - k)]
    BY <1>3, <1>5, <2>1, <2>2
  <2> QED BY <2>1, <2>3
<1>8. Insert(s, k, x) = t
  BY DEF Insert, t, c, a, b, n
<1> QED BY <1>5, <1>6, <1>7, <1>8 DEF n

\* The comparison is one way only, although it is not transitive.
LEMMA BetterOneWay ==
    ASSUME NEW photos, Loaded(photos), NEW i \in 1..Len(photos), NEW j \in 1..Len(photos),
           Similar!Better(photos, i, j)
    PROVE  ~Similar!Better(photos, j, i)
<1>1. /\ photos[i].score \in Int /\ photos[i].worth \in Int
      /\ photos[j].score \in Int /\ photos[j].worth \in Int
  BY FileTypes
<1> QED BY <1>1 DEF Similar!Better, Similar!Unscored, Similar!qualityEpsilon

\* Nobody is ranked behind a photo it beats.
InRank(photos, s) ==
    \A k \in 1..(Len(s) - 1) : ~Similar!Better(photos, s[k + 1], s[k])

\* A ranking has x.
Lists(s, x) == \E k \in DOMAIN s : s[k] = x

LEMMA InsertKeepsRank ==
    ASSUME NEW photos, Loaded(photos), NEW S, S \subseteq 1..Len(photos), NEW s \in Seq(S), NEW x \in S,
           InRank(photos, s)
    PROVE  LET t == Similar!InsertRanked(photos, s, x)
           IN  /\ t \in Seq(S) /\ Len(t) = Len(s) + 1 /\ InRank(photos, t)
               /\ Lists(t, x) /\ \A i : Lists(s, i) => Lists(t, i)
<1> DEFINE n == Len(s)
           blocks == {0} \cup {k \in DOMAIN s : ~Similar!Better(photos, x, s[k])}
           stop == Similar!Max(blocks)
           t == Insert(s, stop, x)
<1>1. n \in Nat /\ DOMAIN s = 1..n /\ \A k \in 1..n : s[k] \in S
  OBVIOUS
<1>2. stop \in blocks /\ \A k \in blocks : k <= stop
  <2>1. blocks \subseteq Nat /\ blocks # {} /\ \A k \in blocks : k <= n
    BY <1>1
  <2> HIDE DEF blocks, n
  <2> QED BY <1>1, <2>1, GreatestNatural
<1>3. stop \in 0..n
  BY <1>1, <1>2
<1>4. stop # 0 => ~Similar!Better(photos, x, s[stop])
  BY <1>2
<1>5. \A k \in 1..n : k > stop => Similar!Better(photos, x, s[k])
  <2>1. ASSUME NEW k \in 1..n, k > stop, ~Similar!Better(photos, x, s[k]) PROVE FALSE
    <3>1. k \in blocks
      BY <1>1, <2>1
    <3>2. k <= stop
      BY <1>2, <3>1
    <3> HIDE DEF stop
    <3> QED BY <1>1, <1>3, <2>1, <3>2
  <2> QED BY <2>1
<1>6. Similar!InsertRanked(photos, s, x) = t
  BY DEF Similar!InsertRanked, Insert
<1> HIDE DEF stop
<1>7. /\ t \in Seq(S) /\ Len(t) = n + 1
      /\ \A j \in 1..stop : t[j] = s[j]
      /\ t[stop + 1] = x
      /\ \A j \in (stop + 1)..n : t[j + 1] = s[j]
  <2> DEFINE u == Insert(s, stop, x)
  <2>1. stop \in 0..Len(s)
    BY <1>3
  <2>2. u \in Seq(S) /\ Len(u) = Len(s) + 1 /\ u[stop + 1] = x
    BY <2>1, InsertLaw
  <2>3. \A j \in 1..stop : u[j] = s[j]
    BY <2>1, InsertLaw
  <2>4. \A j \in (stop + 1)..Len(s) : u[j + 1] = s[j]
    BY <2>1, InsertLaw
  <2> QED BY <2>2, <2>3, <2>4
<1> HIDE DEF t, n
<1>8. DOMAIN t = 1..(n + 1)
  BY <1>1, <1>7
<1>9. ASSUME NEW k \in 1..n PROVE ~Similar!Better(photos, t[k + 1], t[k])
  <2>1. CASE k < stop
    <3>1. k \in 1..stop /\ k + 1 \in 1..stop /\ k \in 1..(n - 1)
      BY <1>1, <1>3, <2>1
    <3> QED BY <1>7, <3>1 DEF InRank, n
  <2>2. CASE k = stop
    <3>1. k \in 1..stop /\ stop # 0
      BY <1>1, <1>3, <2>2
    <3>2. t[k] = s[stop] /\ t[k + 1] = x
      BY <1>7, <2>2, <3>1
    <3> QED BY <1>4, <3>1, <3>2
  <2>3. CASE k = stop + 1
    <3>1. k \in (stop + 1)..n /\ k > stop
      BY <1>1, <1>3, <2>3
    <3>2. t[k + 1] = s[k] /\ t[k] = x
      BY <1>7, <2>3, <3>1
    <3>3. Similar!Better(photos, x, s[k]) /\ s[k] \in 1..Len(photos) /\ x \in 1..Len(photos)
      BY <1>1, <1>5, <3>1
    <3> QED BY <3>2, <3>3, BetterOneWay
  <2>4. CASE k > stop + 1
    <3>1. k \in (stop + 1)..n /\ k - 1 \in (stop + 1)..n /\ (k - 1) + 1 = k /\ k - 1 \in 1..(n - 1)
      BY <1>1, <1>3, <2>4
    <3>2. t[k + 1] = s[k] /\ t[k] = s[k - 1]
      BY <1>7, <3>1
    <3>3. ~Similar!Better(photos, s[(k - 1) + 1], s[k - 1])
      BY <3>1 DEF InRank, n
    <3> QED BY <3>1, <3>2, <3>3
  <2>5. k < stop \/ k = stop \/ k = stop + 1 \/ k > stop + 1
    BY <1>1, <1>3
  <2> QED BY <2>1, <2>2, <2>3, <2>4, <2>5
<1>10. InRank(photos, t)
  <2>1. Len(t) - 1 = n
    BY <1>1, <1>7
  <2> QED BY <1>9, <2>1 DEF InRank
<1>11. stop + 1 \in DOMAIN t
  BY <1>1, <1>3, <1>8
<1>12. ASSUME NEW k \in DOMAIN s PROVE \E j \in DOMAIN t : t[j] = s[k]
  <2>1. CASE k <= stop
    <3>1. k \in 1..stop /\ k \in DOMAIN t
      BY <1>1, <1>3, <1>8, <2>1
    <3> QED BY <1>7, <3>1
  <2>2. CASE k > stop
    <3>1. k \in (stop + 1)..n /\ k + 1 \in DOMAIN t
      BY <1>1, <1>3, <1>8, <2>2
    <3> QED BY <1>7, <3>1
  <2>3. k <= stop \/ k > stop
    BY <1>1, <1>3
  <2> QED BY <2>1, <2>2, <2>3
<1>13. /\ t \in Seq(S) /\ Len(t) = n + 1 /\ InRank(photos, t)
       /\ Lists(t, x) /\ \A i : Lists(s, i) => Lists(t, i)
  BY <1>7, <1>10, <1>11, <1>12 DEF Lists
<1> QED BY <1>6, <1>13 DEF n

LEMMA RankedLaw ==
    ASSUME NEW photos, Loaded(photos), NEW component
    PROVE  LET ranked == Similar!RankedUpTo(photos, component)
           IN  ranked = [k \in 0..Len(photos) |->
                  IF k = 0 THEN <<>>
                  ELSE IF k \in component THEN Similar!InsertRanked(photos, ranked[k - 1], k)
                  ELSE ranked[k - 1]]
<1> DEFINE n == Len(photos)
           step(s, k) == IF k \in component THEN Similar!InsertRanked(photos, s, k) ELSE s
           follows(f, m) == f = [k \in 0..m |-> IF k = 0 THEN <<>> ELSE step(f[k - 1], k)]
           T == {m \in 0..n : \E f : follows(f, m)}
           g == CHOOSE f : follows(f, n)
<1>0. Similar!RankedUpTo(photos, component) = g
  BY Zenon DEF Similar!RankedUpTo
<1>a. n \in Nat
  BY FileTypes
<1> HIDE DEF step, n
<1>1. 0 \in T
  <2> DEFINE f == [k \in 0..0 |-> <<>>]
  <2>1. follows(f, 0)
    OBVIOUS
  <2> HIDE DEF f, follows
  <2> QED BY <1>a, <2>1
<1>2. ASSUME NEW m \in 1..n, m - 1 \in T PROVE m \in T
  <2>1. PICK f : follows(f, m - 1)
    BY <1>2
  <2> DEFINE h == [k \in 0..m |-> IF k < m THEN f[k] ELSE step(f[k - 1], k)]
  <2>2. follows(h, m)
    <3>1. \A k \in 0..m : h[k] = IF k = 0 THEN <<>> ELSE step(h[k - 1], k)
      BY <1>a, <2>1
    <3> QED BY <3>1
  <2> HIDE DEF h, follows
  <2> QED BY <2>2
<1>3. follows(g, n)
  <2> HIDE DEF T
  <2>1. n \in T
    BY <1>a, <1>1, <1>2, UpTo
  <2>2. \E f : follows(f, n)
    BY <2>1 DEF T
  <2> HIDE DEF follows
  <2> QED BY <2>2
<1> HIDE DEF g
<1> QED BY <1>0, <1>3 DEF step, n

\* similar.go:202-231: the ranking holds each member of the component and nobody else,
\* and nobody in it beats the one before.
LEMMA RankedLists ==
    ASSUME NEW photos, Loaded(photos), NEW component, component \subseteq 1..Len(photos)
    PROVE  LET ranked == Similar!Ranked(photos, component)
           IN  /\ ranked \in Seq(component) /\ InRank(photos, ranked)
               /\ \A i \in component : Lists(ranked, i)
<1> DEFINE n == Len(photos)
           ranked == Similar!RankedUpTo(photos, component)
           lists(k, s) == /\ s \in Seq(component) /\ InRank(photos, s)
                          /\ \A i \in component : i <= k => Lists(s, i)
           T == {k \in 0..n : lists(k, ranked[k])}
<1>1. n \in Nat
  BY FileTypes
<1>2. ranked[0] = <<>> /\ \A k \in 1..n :
         ranked[k] = IF k \in component THEN Similar!InsertRanked(photos, ranked[k - 1], k)
                     ELSE ranked[k - 1]
  <2>1. ranked = [k \in 0..n |->
                  IF k = 0 THEN <<>>
                  ELSE IF k \in component THEN Similar!InsertRanked(photos, ranked[k - 1], k)
                  ELSE ranked[k - 1]]
    BY RankedLaw
  <2> HIDE DEF ranked
  <2> QED BY <1>1, <2>1
<1> HIDE DEF ranked
<1>3. 0 \in T
  <2>1. \A i \in component : ~(i <= 0)
    OBVIOUS
  <2>2. <<>> \in Seq(component) /\ InRank(photos, <<>>)
    BY DEF InRank
  <2>3. lists(0, <<>>)
    BY <2>1, <2>2
  <2> HIDE DEF lists
  <2> QED BY <1>1, <1>2, <2>3
<1>4. ASSUME NEW k \in 1..n, k - 1 \in T PROVE k \in T
  <2> DEFINE s == ranked[k - 1]
  <2>1. lists(k - 1, s)
    BY <1>4
  <2> HIDE DEF s
  <2>2. \A i \in component : i <= k => i = k \/ i <= k - 1
    BY <1>1
  <2>3. lists(k, ranked[k])
    <3>1. CASE k \notin component
      <4>1. ranked[k] = s
        BY <1>2, <3>1 DEF s
      <4> QED BY <2>1, <2>2, <3>1, <4>1
    <3>2. CASE k \in component
      <4> DEFINE t == Similar!InsertRanked(photos, s, k)
      <4>1. ranked[k] = t
        BY <1>2, <3>2 DEF s
      <4>2. /\ t \in Seq(component) /\ InRank(photos, t)
            /\ Lists(t, k) /\ \A i : Lists(s, i) => Lists(t, i)
        <5>1. s \in Seq(component) /\ InRank(photos, s)
          BY <2>1
        <5>2. component \subseteq 1..Len(photos)
          OBVIOUS
        <5> QED BY <3>2, <5>1, <5>2, InsertKeepsRank
      <4> HIDE DEF t
      <4>3. ASSUME NEW i \in component, i <= k PROVE Lists(t, i)
        <5>1. i = k \/ Lists(s, i)
          BY <2>1, <2>2, <4>3
        <5> QED BY <4>2, <5>1
      <4> QED BY <4>1, <4>2, <4>3
    <3> QED BY <3>1, <3>2
  <2> HIDE DEF lists
  <2>4. k \in 0..n
    BY <1>1
  <2> QED BY <2>3, <2>4
<1>5. lists(n, ranked[n])
  <2> HIDE DEF T
  <2>1. \A k \in 0..n : k \in T
    BY <1>1, <1>3, <1>4, UpTo
  <2>2. n \in T
    BY <1>1, <2>1
  <2> QED BY <2>2 DEF T
<1>6. \A i \in component : i <= n
  BY <1>1
<1> QED BY <1>5, <1>6 DEF Similar!Ranked, ranked

-----------------------------------------------------------------------------
(* Near-duplicates: what GroupSimilar returns.                             *)

\* A group is made of a component of two files or more.
LEMMA GroupOfClass ==
    ASSUME NEW photos, Loaded(photos), NEW threshold \in Int
    PROVE  /\ Similar!Components(photos, threshold) =
                 {c \in {Similar!Reach(photos, i, threshold) : i \in Similar!Candidates(photos)} :
                    Similar!Cardinality(c) >= 2}
           /\ \A c \in Similar!Components(photos, threshold) :
                 c \subseteq 1..Len(photos) /\ c # {}
<1> DEFINE files == Similar!Candidates(photos)
           classes == {ClassOf(photos, threshold, i) : i \in files}
           reaches == {Similar!Reach(photos, i, threshold) : i \in files}
<1>1. Similar!Components(photos, threshold) = {c \in classes : Similar!Cardinality(c) >= 2}
  BY DEF Similar!Components, ClassOf
<1>2. classes = reaches
  BY ClassIsReach
<1>3. ASSUME NEW c \in reaches PROVE c # {} /\ c \subseteq 1..Len(photos)
  <2>1. PICK i \in files : c = Similar!Reach(photos, i, threshold)
    OBVIOUS
  <2>2. i \in c /\ c \subseteq files
    BY <2>1, ReachCloses
  <2>3. files \subseteq 1..Len(photos)
    BY FileTypes
  <2> QED BY <2>2, <2>3
<1> HIDE DEF classes, reaches
<1>4. \A c \in Similar!Components(photos, threshold) : c \in reaches
  BY <1>1, <1>2
<1> QED BY <1>1, <1>2, <1>3, <1>4 DEF reaches

\* similar.go:78-97: whatever the photos and the threshold, the groups are the connected
\* components of the similarity graph over distinct files.
THEOREM GroupsConnected ==
    ASSUME NEW photos, Loaded(photos), NEW threshold \in Int
    PROVE  Similar!GroupsAreComponents(photos, threshold)
<1> DEFINE components == Similar!Components(photos, threshold)
           members(g) == {g.photos[k] : k \in DOMAIN g.photos}
           group(c) == Similar!buildGroup(photos, c)
<1>1. ASSUME NEW c \in components PROVE members(group(c)) = c
  <2>1. group(c).photos = Similar!Ranked(photos, c)
    BY DEF Similar!buildGroup
  <2>2. c \subseteq 1..Len(photos)
    BY GroupOfClass
  <2>3. /\ Similar!Ranked(photos, c) \in Seq(c)
        /\ \A i \in c : Lists(Similar!Ranked(photos, c), i)
    BY <2>2, RankedLists
  <2> DEFINE s == Similar!Ranked(photos, c)
  <2> HIDE DEF s, group
  <2>4. \A k \in DOMAIN s : s[k] \in c
    BY <2>3 DEF s
  <2>5. \A i \in c : \E k \in DOMAIN s : s[k] = i
    BY <2>3 DEF s, Lists
  <2> QED BY <2>1, <2>4, <2>5 DEF s
<1>2. Similar!GroupSimilar(photos, threshold) = {group(c) : c \in components}
  BY DEF Similar!GroupSimilar
<1>3. {members(g) : g \in {group(c) : c \in components}} = components
  <2> HIDE DEF members, group, components
  <2> QED BY <1>1
<1>4. {members(g) : g \in Similar!GroupSimilar(photos, threshold)} = components
  BY <1>2, <1>3
<1> QED BY <1>4, GroupOfClass DEF Similar!GroupsAreComponents

\* How many bits the hashes of two photos differ in.
Distance(photos, i, j) == Similar!HammingDistance(photos[i].hash, photos[j].hash)

\* similar.go:67-74: a group is marked as chained exactly when two of its members are
\* not similar themselves, whatever the photos and the threshold.
THEOREM ChainsMarked ==
    ASSUME NEW photos, Loaded(photos), NEW threshold \in Int
    PROVE  Similar!ChainsAreMarked(photos, threshold)
<1> DEFINE limit == Similar!Clamped(threshold)
<1>0. limit \in Nat
  BY DEF Similar!Clamped, Similar!MaxSimilarityThreshold
<1> SUFFICES ASSUME NEW c \in Similar!Components(photos, threshold)
             PROVE  LET g == Similar!buildGroup(photos, c)
                    IN  Similar!Chained(g, limit) <=>
                          \E i, j \in DOMAIN g.distances : ~Similar!Similar(photos, i, j, threshold)
  BY DEF Similar!ChainsAreMarked, Similar!GroupSimilar
<1> DEFINE g == Similar!buildGroup(photos, c)
           spans == {Distance(photos, i, j) : i, j \in c}
<1>1. g.widest = Similar!Max(spans) /\ DOMAIN g.distances = c
  BY DEF Similar!buildGroup, Distance
<1>2. c # {} /\ \A i, j \in c : Distance(photos, i, j) \in 0..64
  <2>1. c \subseteq 1..Len(photos) /\ c # {}
    BY GroupOfClass
  <2> QED BY <2>1, DistanceBetween DEF Distance
<1>3. spans \subseteq Nat /\ spans # {} /\ \A x \in spans : x <= 64
  <2>1. ASSUME NEW x \in spans PROVE x \in Nat /\ x <= 64
    <3>1. PICK i \in c, j \in c : x = Distance(photos, i, j)
      OBVIOUS
    <3>2. Distance(photos, i, j) \in 0..64
      <4>1. \A k, l \in c : Distance(photos, k, l) \in 0..64
        BY <1>2
      <4>2. i \in c /\ j \in c
        OBVIOUS
      <4> QED BY <4>1, <4>2
    <3> QED BY <3>1, <3>2
  <2>2. PICK i \in c : TRUE
    BY <1>2
  <2>3. Distance(photos, i, i) \in spans
    BY <2>2
  <2> QED BY <2>1, <2>3
<1>4. Similar!Max(spans) \in spans /\ \A x \in spans : x <= Similar!Max(spans)
  <2> HIDE DEF spans
  <2>1. 64 \in Nat
    OBVIOUS
  <2> QED BY <1>3, <2>1, GreatestNatural
<1>5. Similar!Max(spans) > limit <=> \E i, j \in c : Distance(photos, i, j) > limit
  <2> DEFINE top == Similar!Max(spans)
  <2>1. top \in Nat /\ top \in spans /\ \A x \in spans : x <= top /\ x \in Nat
    <3> HIDE DEF spans
    <3> QED BY <1>3, <1>4
  <2> HIDE DEF top, limit
  <2>2. top > limit <=> \E x \in spans : x > limit
    <3> HIDE DEF spans
    <3> QED BY <1>0, <2>1
  <2>3. (\E x \in spans : x > limit) <=> \E i, j \in c : Distance(photos, i, j) > limit
    OBVIOUS
  <2> QED BY <2>2, <2>3 DEF top
<1>6. \A i, j \in c : ~Similar!Similar(photos, i, j, threshold) <=> Distance(photos, i, j) > limit
  <2>1. \A i, j \in c : Similar!Similar(photos, i, j, threshold) <=> Distance(photos, i, j) <= limit
    BY DEF Similar!Similar, Distance
  <2> HIDE DEF limit
  <2>2. \A i, j \in c : Distance(photos, i, j) \in Int
    <3>1. 0..64 \subseteq Int
      OBVIOUS
    <3> QED BY <1>2, <3>1, Zenon
  <2> QED BY <1>0, <2>1, <2>2
<1> HIDE DEF g, spans, limit
<1> QED BY <1>1, <1>5, <1>6 DEF Similar!Chained, g, limit

\* similar.go:166-204: nobody in a group is ranked behind a photo it beats, whatever the
\* photos and the threshold.
THEOREM RanksHold ==
    ASSUME NEW photos, Loaded(photos), NEW threshold \in Int
    PROVE  Similar!RankedPairwise(photos, threshold)
<1> SUFFICES ASSUME NEW c \in Similar!Components(photos, threshold)
             PROVE  InRank(photos, Similar!buildGroup(photos, c).photos)
  BY DEF Similar!RankedPairwise, Similar!GroupSimilar, InRank
<1>1. Similar!buildGroup(photos, c).photos = Similar!Ranked(photos, c)
  BY DEF Similar!buildGroup
<1>2. c \subseteq 1..Len(photos)
  BY GroupOfClass
<1>3. InRank(photos, Similar!Ranked(photos, c))
  BY <1>2, RankedLists
<1> QED BY <1>1, <1>3, Zenon
=============================================================================
