---------------------------- MODULE GroupRebuild ----------------------------
(***************************************************************************)
(* The statements by which the three kinds of groups of a library are       *)
(* rebuilt and listed: RebuildDuplicateGroups, RebuildSimilarGroups,        *)
(* RebuildClusters and the List... of each, in PostgreSQL at READ COMMITTED.*)
(* A statement sees what was committed when it ran; it waits for the        *)
(* transaction that deleted a row it wants to delete, or that inserted the  *)
(* key it wants to insert.  Several rebuilds of one library overlap when a  *)
(* job's lease lapsed, or when the API process hashes it too.               *)
(*                                                                         *)
(* What makes two pictures belong together is one digest here; how groups   *)
(* follow from distances and times: SimilarGrouping and EventClustering.    *)
(***************************************************************************)
EXTENDS Integers, FiniteSets

CONSTANTS Picture,    \* photos of the library
          Digest,     \* sha256 values, similarity classes, events
          Rebuild,    \* 1..n: rebuilds, in the order in which they begin
          MaxChanges  \* bound: how often photos change in a behaviour

ASSUME RebuildAssumption ==
    /\ Rebuild \subseteq Nat /\ MaxChanges \in Nat /\ IsFiniteSet(Picture)
    /\ "unset" \notin Digest /\ "gone" \notin Digest

VARIABLES
    feature,    \* which of the three rebuilds and listings this is
    value,      \* value[p]: its digest, "unset", or "gone" for a missing photo
    groups,     \* the committed rows: groups, each with its member rows
    tx,         \* tx[r]: a rebuild and its transaction
    page,       \* the groups the first statement of a listing returned
    changes     \* how often photos changed

groupVars == <<feature, value, groups, tx, page, changes>>

NothingLoaded == [p \in Picture |-> "unset"]

Unused == [pc |-> "waiting", loaded |-> NothingLoaded,
           doomed |-> {}, made |-> {}, lone |-> TRUE, steady |-> TRUE]

Active == {r \in Rebuild : tx[r].pc \notin {"waiting", "done", "failed"}}
Rival(r) == Active \ {r}

\* HAVING count(*) > 1, the component of one, the event of one.
Least == IF feature = "clusters" THEN 1 ELSE 2

Alike(v, d) == {p \in Picture : v[p] = d}
Keys(v) == {d \in Digest : Cardinality(Alike(v, d)) >= Least}
GroupOf(r, v, d) == [by |-> r, key |-> d, count |-> Cardinality(Alike(v, d)),
                     members |-> Alike(v, d)]
GroupsOf(r, v) == {GroupOf(r, v, d) : d \in Keys(v)}
Id(g) == <<g.by, g.key>>

\* What the statements of r see of the tables beside its own insertions.
Visible(r) == groups \ tx[r].doomed

Step(r, to, doomed, made) ==
    tx' = [tx EXCEPT ![r].pc = to, ![r].doomed = doomed, ![r].made = made]

\* Its transaction is over; only how it ended is remembered.
End(r, how) == tx' = [tx EXCEPT ![r] = [Unused EXCEPT !.pc = how]]

GroupInit ==
    /\ feature \in {"duplicates", "similar", "clusters"}
    /\ value \in [Picture -> Digest \cup {"unset"}]
    /\ groups = {}
    /\ tx = [r \in Rebuild |-> Unused]
    /\ page = {} /\ changes = 0

-----------------------------------------------------------------------------
(* Photos change under the rebuilds.                                       *)

Change(p, v) ==
    /\ changes < MaxChanges /\ changes' = changes + 1
    /\ value' = [value EXCEPT ![p] = v]
    /\ tx' = [r \in Rebuild |-> [tx[r] EXCEPT !.steady = IF r \in Active THEN FALSE ELSE @]]
    /\ UNCHANGED <<feature, groups, page>>

\* SetPhotoHash and its kin, for a photo that has none yet.
Compute(p) == value[p] = "unset" /\ \E d \in Digest : Change(p, d)

\* A stage found no file: the photo is missing from now on.
Lose(p) == value[p] # "gone" /\ Change(p, "gone")

-----------------------------------------------------------------------------
(* A rebuild.                                                              *)

\* Duplicates are grouped inside the transaction; the other two read all
\* photos before it begins.
Begin(r) ==
    /\ tx[r].pc = "waiting" /\ \A s \in Rebuild : s < r => tx[s].pc # "waiting"
    /\ tx' = [s \in Rebuild |->
                IF s = r THEN [Unused EXCEPT !.pc = "begun", !.lone = (Active = {}),
                                  !.loaded = IF feature = "duplicates" THEN @ ELSE value]
                ELSE [tx[s] EXCEPT !.lone = IF s \in Active THEN FALSE ELSE @]]
    /\ UNCHANGED <<feature, value, groups, page, changes>>

\* mutant: the members are deleted in a transaction of their own
ClearMembers_Commits(r) ==
    /\ tx[r].pc = "begun"
    /\ \A s \in Rival(r) : tx[s].doomed = {}
    /\ Step(r, "emptied", {}, {})
    /\ groups' = {[g EXCEPT !.members = {}] : g \in groups}
    /\ UNCHANGED <<feature, value, page, changes>>

\* DELETE FROM ..._members waits for whoever deleted rows it sees.  Once it has
\* waited it sees here what is committed by then; the server would pass over rows
\* inserted meanwhile, which the DELETE of their groups takes along.
ClearMembers(r) ==
    /\ tx[r].pc = "begun"
    /\ \A s \in Rival(r) : tx[s].doomed = {}
    /\ Step(r, "emptied", groups, {})
    /\ UNCHANGED <<feature, value, groups, page, changes>>

\* mutant: groups that exist are left in place
ClearGroups_Keeps(r) ==
    /\ tx[r].pc = "emptied"
    /\ \A s \in Rival(r) : tx[s].doomed = {}
    /\ Step(r, "cleared", {}, {})
    /\ UNCHANGED <<feature, value, groups, page, changes>>

\* DELETE FROM ..._groups has a snapshot of its own: groups committed since
\* the members were cleared go too, and take their members along.
ClearGroups(r) ==
    /\ tx[r].pc = "emptied"
    /\ \A s \in Rival(r) : tx[s].doomed = {}
    /\ Step(r, "cleared", groups, {})
    /\ UNCHANGED <<feature, value, groups, page, changes>>

\* duplicate_groups_library_hash_idx lets in one row for a hash.
InsertDuplicateGroups(r) ==
    LET new == {[g EXCEPT !.members = {}] : g \in GroupsOf(r, value)}
        taken == {g.key : g \in Visible(r) \cup UNION {tx[s].made : s \in Rival(r)}}
    IN  /\ feature = "duplicates" /\ tx[r].pc = "cleared"
        /\ {g.key : g \in new} \cap taken = {}
        /\ Step(r, "grouped", tx[r].doomed, new)
        /\ UNCHANGED <<feature, value, groups, page, changes>>

\* The join runs over every group the statement sees, those of another rebuild
\* that committed since the DELETE included, and over the photos as they are
\* by now; a member row that exists already fails it.
InsertDuplicateMembers(r) ==
    LET fill(g) == [g EXCEPT !.members = @ \cup Alike(value, g.key)]
        joined  == {g \in Visible(r) : Alike(value, g.key) # {}}
    IN  /\ tx[r].pc = "grouped"
        /\ \A g \in joined : /\ Alike(value, g.key) \cap g.members = {}
                             /\ \A s \in Rival(r) : g \notin tx[s].doomed
        /\ Step(r, "filled", tx[r].doomed \cup joined,
                {fill(g) : g \in tx[r].made \cup joined})
        /\ UNCHANGED <<feature, value, groups, page, changes>>

\* mutant: cluster_members has no UNIQUE (photo_id)
InsertLoaded_NotUnique(r) ==
    /\ feature # "duplicates" /\ tx[r].pc = "cleared"
    /\ Step(r, "filled", tx[r].doomed, GroupsOf(r, tx[r].loaded))
    /\ UNCHANGED <<feature, value, groups, page, changes>>

\* Groups and members, one after the other, from what was loaded.  Only
\* cluster_members has UNIQUE (photo_id).
InsertLoaded(r) ==
    LET new == GroupsOf(r, tx[r].loaded)
        taken == UNION {g.members : g \in Visible(r) \cup UNION {tx[s].made : s \in Rival(r)}}
    IN  /\ feature # "duplicates" /\ tx[r].pc = "cleared"
        /\ feature = "clusters" => (UNION {g.members : g \in new}) \cap taken = {}
        /\ Step(r, "filled", tx[r].doomed, new)
        /\ UNCHANGED <<feature, value, groups, page, changes>>

Commit(r) ==
    /\ tx[r].pc = "filled"
    /\ groups' = Visible(r) \cup tx[r].made
    /\ End(r, "done")
    /\ UNCHANGED <<feature, value, page, changes>>

\* A statement fails - a key that is there, a deadlock, a cancelled context - or
\* the process dies: the transaction is rolled back.
RollBack(r) ==
    /\ r \in Active
    /\ End(r, "failed")
    /\ UNCHANGED <<feature, value, groups, page, changes>>

-----------------------------------------------------------------------------
(* A listing: one statement for the groups, one for the members of all.     *)

ListGroups ==
    /\ page = {} /\ page' = groups
    /\ UNCHANGED <<feature, value, groups, tx, changes>>

\* WHERE group_id = ANY (the ids on the page).
Shown(g) == UNION {h.members : h \in {h \in groups : Id(h) = Id(g)}}

\* The members are read, each put under its group, and the answer is sent.
ListMembers ==
    /\ page # {} /\ page' = {}
    /\ UNCHANGED <<feature, value, groups, tx, changes>>

GroupNext ==
    \/ \E p \in Picture : Compute(p) \/ Lose(p)
    \/ \E r \in Rebuild :
         \/ Begin(r) \/ ClearMembers(r) \/ ClearGroups(r)
         \/ InsertDuplicateGroups(r) \/ InsertDuplicateMembers(r) \/ InsertLoaded(r)
         \/ Commit(r) \/ RollBack(r)
    \/ ListGroups \/ ListMembers

GroupSpec == GroupInit /\ [][GroupNext]_groupVars

-----------------------------------------------------------------------------
(* Properties.                                                             *)

Group == [by : Rebuild, key : Digest, count : Nat, members : SUBSET Picture]

Values == [Picture -> Digest \cup {"unset", "gone"}]

Transaction ==
    [pc : {"waiting", "begun", "emptied", "cleared", "grouped", "filled", "done", "failed"},
     loaded : Values, doomed : SUBSET Group, made : SUBSET Group,
     lone : BOOLEAN, steady : BOOLEAN]

GroupTypeOK ==
    /\ feature \in {"duplicates", "similar", "clusters"}
    /\ value \in Values
    /\ groups \subseteq Group /\ page \subseteq Group
    /\ tx \in [Rebuild -> Transaction]
    /\ changes \in 0..MaxChanges

\* duplicates.go:108-114, clusters.go:61-66: however rebuilds overlap, fail and
\* race the stages that write photos, no photo ends up in two duplicate groups
\* or two events, and no hash has two groups.
OneGroupPerPhoto ==
    feature # "similar" =>
        \A g, h \in groups : g # h =>
            /\ g.members \cap h.members = {}
            /\ feature = "duplicates" => g.key # h.key

\* similar.go:177-180 holds a rebuild safe under at-least-once delivery since
\* running it again converges.  Two that overlap on a library without similar
\* groups both insert theirs, and every photo is in two groups.
OneSimilarGroupPerPhoto ==
    feature = "similar" =>
        \A g, h \in groups : g # h => g.members \cap h.members = {}

\* 0003_duplicates.sql:47-48 says of the counts of a duplicate group: "Recomputed
\* on every rebuild, so they cannot drift".  The group and its members are two
\* statements with two snapshots, and a photo that changes between them is in
\* one and not in the other.
CountsMembers ==
    feature = "duplicates" => \A g \in groups : g.count = Cardinality(g.members)

\* duplicates.go:108-114: a rebuild that no other overlaps, and under which no
\* photo changes, leaves exactly the groups the photos call for, each with the
\* count of its members, whatever overlapping rebuilds left before it.
LoneRebuildExact ==
    [][\A r \in Rebuild :
         tx[r].pc # "done" /\ tx'[r].pc = "done" /\ tx[r].lone /\ tx[r].steady
           => groups' = GroupsOf(r, value)]_groupVars

\* duplicates.go:255-258, clusters.go:242-243: the two statements of a listing
\* straddle rebuilds, and still a group is shown with every member it had, or -
\* when it was replaced between them - with none, never with some.
ListedWhole ==
    \A g \in page :
        \/ g.members \subseteq Shown(g)
        \/ Shown(g) = {} /\ Id(g) \notin {Id(h) : h \in groups}
=============================================================================
