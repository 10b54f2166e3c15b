---------------------------- MODULE PhotoListing ----------------------------
(***************************************************************************)
(* ListPhotoViews (store/photoview.go) behind GET .../photos: a filter, an  *)
(* ordering and a page.  A row is [key, fix, grouped, captured]: the sort   *)
(* column, which of latitude and longitude are set, whether a duplicate      *)
(* group has it, and the capture time; rows are known by their id's place.  *)
(* A query is [gps, duplicates, from, to, descending, limit, offset].       *)
(***************************************************************************)
EXTENDS Integers, Sequences, FiniteSets

Null == -1
DefaultLimit == 100
MostRows == 500

\* A presence filter has three states: not asked, wanted, not wanted.
Asks(want, has) == want = "any" \/ (want = "yes") = has

\* EXISTS, or NOT EXISTS, over the members of duplicate groups.
membership(row, want) == Asks(want, row.grouped)

\* parsePhotoQuery rejects a range that ends before it begins.
Accepted(q) == q.from = Null \/ q.to = Null \/ q.to >= q.from

\* predicate: a comparison with NULL is not true.
Matches(row, q) ==
    /\ q.from # Null => row.captured # Null /\ row.captured >= q.from
    /\ q.to # Null => row.captured # Null /\ row.captured <= q.to
    /\ Asks(q.gps, row.fix = {"latitude", "longitude"})
    /\ membership(row, q.duplicates)

Found(rows, q) == {i \in DOMAIN rows : Accepted(q) /\ Matches(rows[i], q)}

\* mutant: no id at the end of the ordering
Before_NoId(rows, q, i, j) ==
    LET a == rows[i].key
        b == rows[j].key
    IN  \/ a # Null /\ b = Null
        \/ a # Null /\ b # Null /\ (IF q.descending THEN a > b ELSE a < b)

\* ORDER BY key [DESC] NULLS LAST, id.
Before(rows, q, i, j) ==
    LET a == rows[i].key
        b == rows[j].key
    IN  \/ a # Null /\ b = Null
        \/ a # Null /\ b # Null /\ (IF q.descending THEN a > b ELSE a < b)
        \/ a = b /\ i < j

\* The orders PostgreSQL may return a statement's rows in.
Orders(rows, q) ==
    LET n == Cardinality(Found(rows, q))
    IN  {s \in [1..n -> Found(rows, q)] :
            \A k, l \in 1..n : k < l => s[k] # s[l] /\ ~Before(rows, q, s[l], s[k])}

Limit(q) == IF q.limit <= 0 \/ q.limit > MostRows THEN DefaultLimit ELSE q.limit
Offset(q) == IF q.offset < 0 THEN 0 ELSE q.offset

Page(order, q) ==
    LET n == Len(order)
        end == Offset(q) + Limit(q)
    IN  SubSeq(order, Offset(q) + 1, IF end < n THEN end ELSE n)

Total(rows, q) == Cardinality(Found(rows, q))

\* handleListPhotoViews: the total is that of the filter.
Answer(rows, order, q) == [photos |-> Page(order, q), total |-> Total(rows, q)]

-----------------------------------------------------------------------------
(* What is to hold of every table and query.                               *)

\* photoview.go:341-346: walking the pages of an unchanged table up to the total
\* shows every photo that matches once, whatever order the planner picks for
\* equal keys in each statement.
PagesPartition(rows, q) ==
    LET limit == Limit(q)
        last == (Answer(rows, <<>>, q).total + limit - 1) \div limit
        page(order, k) == Answer(rows, order, [q EXCEPT !.offset = (k - 1) * limit]).photos
    IN  \A pick \in [1..last -> Orders(rows, q)] :
            \A i \in Found(rows, q) :
                Cardinality({at \in (1..last) \X (1..limit) :
                    LET shown == page(pick[at[1]], at[1])
                    IN  at[2] <= Len(shown) /\ shown[at[2]] = i}) = 1

\* photoview.go:195-204, 122-126: asking for a presence and for its absence
\* splits what is found without asking, a half-written position included; and
\* photos that were not measured come last whichever way the order runs.
PresenceSplits(rows, q) ==
    LET found(f) == Found(rows, f)
        yes == found([q EXCEPT !.gps = "yes"])
        no  == found([q EXCEPT !.gps = "no"])
    IN  /\ yes \cap no = {} /\ yes \cup no = found([q EXCEPT !.gps = "any"])
        /\ \A o \in Orders(rows, q) : \A k, l \in DOMAIN o :
              k < l /\ rows[o[k]].key = Null => rows[o[l]].key = Null
=============================================================================
