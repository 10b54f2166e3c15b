--------------------------- MODULE EventClustering --------------------------
(***************************************************************************)
(* Segment (internal/clustering) on the points LoadClusteringPoints gives   *)
(* it.  A point is [at, source, place], known by its place in the order of  *)
(* ids; places lie on a line, which keeps what matters of distances on the  *)
(* sphere: the triangle they form with a third point may exceed the radius. *)
(***************************************************************************)
EXTENDS Integers, Sequences, FiniteSets, FiniteSetsExt, SequencesExt

Undated == -1
NoFix == -1
DefaultOptions == [gap |-> 4, radius |-> 2]

\* A threshold that is not positive is the caller's unset one.
WithDefaults(opts) ==
    [gap    |-> IF opts.gap > 0 THEN opts.gap ELSE DefaultOptions.gap,
     radius |-> IF opts.radius > 0 THEN opts.radius ELSE DefaultOptions.radius]

Apart(a, b) == IF a < b THEN b - a ELSE a - b

Dated(points) == {i \in DOMAIN points : points[i].at # Undated}

\* By capture time, ties by id.
Earlier(points, i, j) ==
    \/ points[i].at < points[j].at
    \/ points[i].at = points[j].at /\ i < j

\* The dated points, sorted.
Timeline(points) ==
    CHOOSE line \in [1..Cardinality(Dated(points)) -> Dated(points)] :
        \A k, l \in DOMAIN line : k < l => Earlier(points, line[k], line[l])

newCluster(points, i) ==
    [photos |-> <<i>>, started |-> points[i].at, ended |-> points[i].at,
     anchor |-> points[i].place, far |-> 0,
     distance |-> [j \in {j \in {i} : points[j].place # NoFix} |-> 0],
     mtimes |-> IF points[i].source = "filesystem" THEN 1 ELSE 0]

addTo(points, c, i) ==
    LET p == points[i]
        located == p.place # NoFix
        anchor == IF c.anchor = NoFix THEN p.place ELSE c.anchor
        away == Apart(anchor, p.place)
    IN  [photos |-> Append(c.photos, i), started |-> c.started,
         ended |-> IF p.at > c.ended THEN p.at ELSE c.ended,
         anchor |-> anchor, far |-> IF located /\ away > c.far THEN away ELSE c.far,
         distance |-> [j \in DOMAIN c.distance \cup {k \in {i} : located} |->
                         IF j = i THEN away ELSE c.distance[j]],
         mtimes |-> IF p.source = "filesystem" THEN c.mtimes + 1 ELSE c.mtimes]

\* mutant: the silence is measured from the start of the event
breaksCluster_FromStart(points, c, i, opts) ==
    \/ points[i].at - c.started > opts.gap
    \/ /\ c.anchor # NoFix /\ points[i].place # NoFix
       /\ Apart(c.anchor, points[i].place) > opts.radius

\* Silence since the previous photo, or too far from the cluster's anchor.
breaksCluster(points, c, i, opts) ==
    \/ points[i].at - points[Last(c.photos)].at > opts.gap
    \/ /\ c.anchor # NoFix /\ points[i].place # NoFix
       /\ Apart(c.anchor, points[i].place) > opts.radius

\* The clusters once i has been passed: it begins one or joins the last.
Passed(points, opts, clusters, i) ==
    IF clusters = <<>> \/ breaksCluster(points, Last(clusters), i, opts)
    THEN Append(clusters, newCluster(points, i))
    ELSE Append(Front(clusters), addTo(points, Last(clusters), i))

\* The pass along the timeline: the clusters after its first k points.
Pass(points, opts) ==
    LET line == Timeline(points)
        clusters[k \in 0..Len(line)] ==
            IF k = 0 THEN <<>> ELSE Passed(points, opts, clusters[k - 1], line[k])
    IN  clusters

Segment(points, options) == Pass(points, WithDefaults(options))[Len(Timeline(points))]

Confidence(c) ==
    CASE c.mtimes = 0 -> "high"
      [] c.mtimes = Len(c.photos) /\ c.mtimes # 0 -> "low"
      [] OTHER -> "mixed"

-----------------------------------------------------------------------------
(* What is to hold of every input.                                         *)

\* store/clusters.go:14-18: every dated photo is in exactly one event, in order
\* of time and in none out of it, and the undated are those left over: the
\* counts of a library reconcile.
EventsPartition(points, options) ==
    /\ FlattenSeq([k \in DOMAIN Segment(points, options) |-> Segment(points, options)[k].photos])
         = Timeline(points)
    /\ \A c \in ToSet(Segment(points, options)) :
         /\ c.photos # <<>> /\ c.started <= c.ended
         /\ Confidence(c) = "high" <=>
              \A k \in DOMAIN c.photos : points[c.photos[k]].source = "exif"

\* clustering.go:239-257: no event holds two located photos more than twice the
\* radius apart, however small the steps between them, or a silence longer than
\* the gap; and an event ends only where one of the two tests ends it.
EventsBounded(points, options) ==
    LET events == Segment(points, options)
        opts == WithDefaults(options)
        sites(c) == {points[c.photos[k]].place : k \in DOMAIN c.photos} \ {NoFix}
        lull(i, j) == points[j].at - points[i].at
    IN  /\ \A c \in ToSet(events) :
             /\ \A x, y \in sites(c) : Apart(x, y) <= 2 * opts.radius
             /\ \A k \in 1..(Len(c.photos) - 1) :
                    lull(c.photos[k], c.photos[k + 1]) <= opts.gap
             /\ c.far <= opts.radius
             /\ DOMAIN c.distance = {c.photos[k] : k \in {k \in DOMAIN c.photos :
                                       points[c.photos[k]].place # NoFix}}
        /\ \A k \in 1..(Len(events) - 1) :
             LET before == events[k]
                 first == events[k + 1].photos[1]
             IN  \/ lull(Last(before.photos), first) > opts.gap
                 \/ \E x \in sites(before) : /\ points[first].place # NoFix
                                             /\ Apart(x, points[first].place) > opts.radius
=============================================================================
