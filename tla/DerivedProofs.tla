---------------------------- MODULE DerivedProofs ---------------------------
(***************************************************************************)
(* Proofs about what is derived from a scanned library: about ThumbnailFile *)
(* and LibraryPass for any parameters; that the parts with state behave in   *)
(* MCDerived as in their own specifications; about PhotoListing for any      *)
(* table; and that the run's inputs are among those the pure parts are       *)
(* proved for.  Of the pass, PoolInv counts the slots: one for each photo    *)
(* that is worked on, none of them worked on twice or queued at the same     *)
(* time.  CoverInv follows the end of the work: the groups are rebuilt with  *)
(* nothing left unmarked, or after a fetch that failed.                      *)
(***************************************************************************)
EXTENDS MCDerived, SimilarProofs, PictureProofs, GroupRebuildProofs

-----------------------------------------------------------------------------
(* The thumbnail file.                                                     *)

\* What is renamed into place was synced, and so is what the directory falls
\* back to.
WholeInv ==
    /\ \A a \in Attempt : try[a].pc = "synced" => temp[a] = "whole"
    /\ target.bytes \in {"none", "whole"}
    /\ settled.bytes \in {"none", "whole"}
    /\ sent.file.bytes \in {"none", "whole"}

\* Unless power was lost the target is that of the last rename, and no row and
\* no viewer knows of a later one.
TagInv ==
    /\ tagged <= renames /\ viewer <= renames
    /\ \A a \in Attempt : try[a].pc = "renamed" => try[a].nr <= renames
    /\ ~outage => target.nr = renames /\ sent.file.nr >= sent.tag

-----------------------------------------------------------------------------

LEMMA TypesInit == ThumbInit => ThumbTypeOK
<1> SUFFICES ASSUME ThumbInit PROVE ThumbTypeOK
  OBVIOUS
<1>1. 0 \in 0..MaxRenames BY ThumbnailAssumption
<1>2. NoFile \in ThumbFile BY <1>1 DEF NoFile, ThumbFile
<1>3. dims \in BOOLEAN /\ outage \in BOOLEAN BY DEF ThumbInit
<1> QED BY <1>1, <1>2, <1>3 DEF ThumbInit, ThumbTypeOK, Resting

LEMMA TypesStep == ThumbTypeOK /\ [ThumbNext]_thumbVars => ThumbTypeOK'
<1> SUFFICES ASSUME ThumbTypeOK, [ThumbNext]_thumbVars PROVE ThumbTypeOK'
  OBVIOUS
<1> USE ThumbnailAssumption DEF ThumbTypeOK, ThumbFile, NoFile, Resting, Goes
<1>1. ASSUME NEW a \in Attempt, Render(a) PROVE ThumbTypeOK'
  BY <1>1 DEF Render
<1>2. ASSUME NEW a \in Attempt, MarkFailed(a) PROVE ThumbTypeOK'
  <2>1. dims' \in BOOLEAN BY <1>2 DEF MarkFailed
  <2>2. 0 \in 0..MaxRenames OBVIOUS
  <2> QED BY <1>2, <2>1, <2>2 DEF MarkFailed
<1>3. ASSUME NEW a \in Attempt, CreateTemp(a) PROVE ThumbTypeOK'
  BY <1>3 DEF CreateTemp
<1>4. ASSUME NEW a \in Attempt, Flush(a) PROVE ThumbTypeOK'
  BY <1>4 DEF Flush
<1>5. ASSUME NEW a \in Attempt, Sync(a) PROVE ThumbTypeOK'
  BY <1>5 DEF Sync
<1>6. ASSUME NEW a \in Attempt, Rename(a) PROVE ThumbTypeOK'
  BY <1>6 DEF Rename
<1>7. ASSUME NEW a \in Attempt, Record(a) PROVE ThumbTypeOK'
  BY <1>7 DEF Record
<1>8. ASSUME NEW a \in Attempt, Abandon(a) PROVE ThumbTypeOK'
  BY <1>8 DEF Abandon
<1>9. ASSUME NEW s \in {"image", "garbage", "gone"}, Replace(s) PROVE ThumbTypeOK'
  BY <1>9 DEF Replace
<1>10. CASE Settle
  BY <1>10 DEF Settle
<1>11. CASE LosePower
  BY <1>11 DEF LosePower
<1>12. CASE LookUp
  BY <1>12 DEF LookUp
<1>13. CASE Send
  BY <1>13 DEF Send
<1>14. CASE UNCHANGED thumbVars
  BY <1>14 DEF thumbVars
<1> QED
  BY <1>1, <1>2, <1>3, <1>4, <1>5, <1>6, <1>7, <1>8, <1>9, <1>10, <1>11, <1>12,
     <1>13, <1>14 DEF ThumbNext

\* Every behaviour keeps the types.
THEOREM ThumbnailTypes == ThumbSpec => []ThumbTypeOK
<1>1. ThumbInit => ThumbTypeOK BY TypesInit
<1>2. ThumbTypeOK /\ [ThumbNext]_thumbVars => ThumbTypeOK' BY TypesStep
<1> QED BY <1>1, <1>2, PTL DEF ThumbSpec

-----------------------------------------------------------------------------

LEMMA WholeInit == ThumbInit => WholeInv
  BY DEF ThumbInit, WholeInv, NoFile, Resting

LEMMA WholeStep == ThumbTypeOK /\ WholeInv /\ [ThumbNext]_thumbVars => WholeInv'
<1> SUFFICES ASSUME ThumbTypeOK, WholeInv, [ThumbNext]_thumbVars PROVE WholeInv'
  OBVIOUS
<1> USE DEF ThumbTypeOK, WholeInv, NoFile, Resting, Goes
<1>1. ASSUME NEW a \in Attempt, Render(a) PROVE WholeInv'
  BY <1>1 DEF Render
<1>2. ASSUME NEW a \in Attempt, MarkFailed(a) PROVE WholeInv'
  BY <1>2 DEF MarkFailed
<1>3. ASSUME NEW a \in Attempt, CreateTemp(a) PROVE WholeInv'
  BY <1>3 DEF CreateTemp
<1>4. ASSUME NEW a \in Attempt, Flush(a) PROVE WholeInv'
  BY <1>4 DEF Flush
<1>5. ASSUME NEW a \in Attempt, Sync(a) PROVE WholeInv'
  BY <1>5 DEF Sync
<1>6. ASSUME NEW a \in Attempt, Rename(a) PROVE WholeInv'
  BY <1>6 DEF Rename
<1>7. ASSUME NEW a \in Attempt, Record(a) PROVE WholeInv'
  BY <1>7 DEF Record
<1>8. ASSUME NEW a \in Attempt, Abandon(a) PROVE WholeInv'
  BY <1>8 DEF Abandon
<1>9. ASSUME NEW s \in {"image", "garbage", "gone"}, Replace(s) PROVE WholeInv'
  BY <1>9 DEF Replace
<1>10. CASE Settle
  BY <1>10 DEF Settle
<1>11. CASE LosePower
  BY <1>11 DEF LosePower
<1>12. CASE LookUp
  BY <1>12 DEF LookUp
<1>13. CASE Send
  BY <1>13 DEF Send
<1>14. CASE UNCHANGED thumbVars
  BY <1>14 DEF thumbVars
<1> QED
  BY <1>1, <1>2, <1>3, <1>4, <1>5, <1>6, <1>7, <1>8, <1>9, <1>10, <1>11, <1>12,
     <1>13, <1>14 DEF ThumbNext

\* Whatever dies while a thumbnail is written, the machine included, no reader is
\* sent half a file.
THEOREM ReadersSeeWholeFiles == ThumbSpec => []SentWhole
<1>1. ThumbInit => ThumbTypeOK /\ WholeInv BY TypesInit, WholeInit
<1>2. ThumbTypeOK /\ WholeInv /\ [ThumbNext]_thumbVars => (ThumbTypeOK /\ WholeInv)'
  BY TypesStep, WholeStep
<1>3. WholeInv => SentWhole BY DEF WholeInv, SentWhole
<1> QED BY <1>1, <1>2, <1>3, PTL DEF ThumbSpec

-----------------------------------------------------------------------------

LEMMA TagInit == ThumbInit => TagInv
  BY DEF ThumbInit, TagInv, NoFile, Resting

LEMMA TagStep == ThumbTypeOK /\ TagInv /\ [ThumbNext]_thumbVars => TagInv'
<1> SUFFICES ASSUME ThumbTypeOK, TagInv, [ThumbNext]_thumbVars PROVE TagInv'
  OBVIOUS
<1> USE ThumbnailAssumption DEF ThumbTypeOK, ThumbFile, TagInv, NoFile, Resting, Goes
<1>1. ASSUME NEW a \in Attempt, Render(a) PROVE TagInv'
  BY <1>1 DEF Render
<1>2. ASSUME NEW a \in Attempt, MarkFailed(a) PROVE TagInv'
  BY <1>2 DEF MarkFailed
<1>3. ASSUME NEW a \in Attempt, CreateTemp(a) PROVE TagInv'
  BY <1>3 DEF CreateTemp
<1>4. ASSUME NEW a \in Attempt, Flush(a) PROVE TagInv'
  BY <1>4 DEF Flush
<1>5. ASSUME NEW a \in Attempt, Sync(a) PROVE TagInv'
  BY <1>5 DEF Sync
<1>6. ASSUME NEW a \in Attempt, Rename(a) PROVE TagInv'
  BY <1>6 DEF Rename
<1>7. ASSUME NEW a \in Attempt, Record(a) PROVE TagInv'
  BY <1>7 DEF Record
<1>8. ASSUME NEW a \in Attempt, Abandon(a) PROVE TagInv'
  BY <1>8 DEF Abandon
<1>9. ASSUME NEW s \in {"image", "garbage", "gone"}, Replace(s) PROVE TagInv'
  BY <1>9 DEF Replace
<1>10. CASE Settle
  BY <1>10 DEF Settle
<1>11. CASE LosePower
  BY <1>11 DEF LosePower
<1>12. CASE LookUp
  BY <1>12 DEF LookUp
<1>13. CASE Send
  BY <1>13 DEF Send
<1>14. CASE UNCHANGED thumbVars
  BY <1>14 DEF thumbVars
<1> QED
  BY <1>1, <1>2, <1>3, <1>4, <1>5, <1>6, <1>7, <1>8, <1>9, <1>10, <1>11, <1>12,
     <1>13, <1>14 DEF ThumbNext

\* A tag that is sent names the file sent with it, or an earlier one.
THEOREM TagsFollowFiles == ThumbSpec => []TagNeverAhead
<1>1. ThumbInit => ThumbTypeOK /\ TagInv BY TypesInit, TagInit
<1>2. ThumbTypeOK /\ TagInv /\ [ThumbNext]_thumbVars => (ThumbTypeOK /\ TagInv)'
  BY TypesStep, TagStep
<1>3. ThumbTypeOK /\ TagInv => TagNeverAhead
  BY ThumbnailAssumption DEF ThumbTypeOK, ThumbFile, TagInv, TagNeverAhead
<1> QED BY <1>1, <1>2, <1>3, PTL DEF ThumbSpec

-----------------------------------------------------------------------------
(* The in-process pass: its batches.                                       *)

\* A fetch that returns nothing found nothing to do.
LEMMA EmptyBatch ==
  ASSUME Batch = {}
  PROVE  Photo \subseteq marked
<1> DEFINE need == Photo \ marked
<1> SUFFICES ASSUME need # {} PROVE FALSE
  OBVIOUS
<1>1. need \subseteq Nat
  BY PassAssumption
<1>2. PICK i \in need : \A j \in need : ~(j < i)
  <2>1. IsWellFoundedOn(OpToRel(<, Nat), Nat)
    BY NatLessThanWellFounded
  <2>2. \E i \in need : \A j \in need : ~(<<j, i>> \in OpToRel(<, Nat))
    BY <1>1, <2>1, WFMin
  <2> QED BY <1>1, <2>2 DEF OpToRel
<1>3. {j \in need : j <= i} = {i}
  BY <1>1, <1>2
<1>4. Cardinality({j \in need : j <= i}) = 1
  BY <1>3, FS_Singleton
<1>5. i \in Batch
  BY <1>4, PassAssumption DEF Batch
<1> QED BY <1>5

LEMMA BatchUnmarked == Batch \subseteq Photo \ marked
  BY DEF Batch

-----------------------------------------------------------------------------
(* The in-process pass: the pool.                                          *)

\* A slot is taken for every photo that is worked on, by one goroutine each, and
\* what is queued is not worked on.  Outside of a batch nothing runs.
PoolInv ==
    /\ taken = Cardinality(Working)
    /\ \A i \in Photo : flight[i] <= 1
    /\ \A i \in queue : flight[i] = 0
    /\ stage # "spawn" => queue = {}
    /\ stage \notin {"spawn", "await"} => \A i \in Photo : flight[i] = 0

LEMMA WorkingFinite == IsFiniteSet(Working) /\ Cardinality(Working) \in Nat
  BY PassAssumption, FS_Subset, FS_CardinalityType DEF Working

LEMMA NoneWorking ==
  ASSUME \A i \in Photo : flight[i] = 0
  PROVE  Working = {} /\ Cardinality(Working) = 0
  BY FS_EmptySet DEF Working

LEMMA PassTypesInit == PassInit => PassTypeOK /\ PoolInv
<1> SUFFICES ASSUME PassInit PROVE PassTypeOK /\ PoolInv
  OBVIOUS
<1>1. PassTypeOK
  <2>1. {cancelled, erred, some, unread} \subseteq BOOLEAN
    BY Zenon DEF PassInit
  <2>2. taken \in 0..Slots /\ flight \in [Photo -> Nat]
    BY PassAssumption DEF PassInit
  <2> QED BY <2>1, <2>2 DEF PassInit, PassTypeOK, NoGroups
<1>2. taken = Cardinality(Working)
  BY NoneWorking DEF PassInit
<1> QED BY <1>1, <1>2 DEF PassInit, PoolInv

\* A goroutine that ends gives back the slot that was taken for it.
LEMMA LeaveAt ==
  ASSUME PassTypeOK, PoolInv, NEW i \in Photo, Leave(i)
  PROVE  /\ taken' \in 0..Slots /\ flight' \in [Photo -> Nat]
         /\ taken' = Cardinality(Working')
         /\ flight[i] = 1 /\ flight'[i] = 0
         /\ \A j \in Photo : j # i => flight'[j] = flight[j]
<1>1. flight \in [Photo -> Nat] /\ flight[i] = 1 /\ taken \in 0..Slots
  BY DEF PassTypeOK, PoolInv, Leave
<1>2. flight' \in [Photo -> Nat] /\ flight'[i] = 0 /\ \A j \in Photo : j # i => flight'[j] = flight[j]
  BY <1>1 DEF Leave
<1>3. i \in Working /\ Working' = Working \ {i}
  BY <1>1, <1>2 DEF Working
<1>4. Cardinality(Working') = Cardinality(Working) - 1
  BY <1>3, WorkingFinite, FS_RemoveElement
<1>5. Cardinality(Working) # 0
  BY <1>3, WorkingFinite, FS_EmptySet
<1>6. taken' = taken - 1 /\ taken = Cardinality(Working) /\ Cardinality(Working) \in Nat
  BY WorkingFinite DEF Leave, PoolInv
<1>7. taken' = Cardinality(Working') /\ taken' \in 0..Slots
  BY <1>1, <1>4, <1>5, <1>6, PassAssumption
<1> QED BY <1>1, <1>2, <1>7

\* A goroutine is started on a photo that none works on, in a slot that is free.
LEMMA SpawnAt ==
  ASSUME PassTypeOK, PoolInv, Spawn
  PROVE  \E i \in queue :
           /\ taken' \in 0..Slots /\ flight' \in [Photo -> Nat]
           /\ taken' = Cardinality(Working')
           /\ queue' = queue \ {i}
           /\ flight'[i] = 1
           /\ \A j \in Photo : j # i => flight'[j] = flight[j]
<1>1. PICK i \in queue :
        /\ queue' = queue \ {i}
        /\ taken' = taken + 1 /\ flight' = [flight EXCEPT ![i] = flight[i] + 1]
  BY DEF Spawn
<1>2. i \in Photo /\ flight[i] = 0 /\ flight \in [Photo -> Nat] /\ taken \in 0..Slots /\ taken < Slots
  BY DEF PassTypeOK, PoolInv, Spawn
<1>3. flight' \in [Photo -> Nat] /\ flight'[i] = 1 /\ \A j \in Photo : j # i => flight'[j] = flight[j]
  BY <1>1, <1>2
<1>4. i \notin Working /\ Working' = Working \cup {i}
  BY <1>2, <1>3 DEF Working
<1>5. Cardinality(Working') = Cardinality(Working) + 1
  BY <1>4, WorkingFinite, FS_AddElement
<1>6. taken' \in 0..Slots /\ taken' = Cardinality(Working')
  BY <1>1, <1>2, <1>5, PassAssumption DEF PoolInv
<1> QED BY <1>1, <1>3, <1>6

LEMMA PoolStep == PassTypeOK /\ PoolInv /\ [PassNext]_passVars => PassTypeOK' /\ PoolInv'
<1> SUFFICES ASSUME PassTypeOK, PoolInv, [PassNext]_passVars PROVE PassTypeOK' /\ PoolInv'
  OBVIOUS
<1>0. PassNext \/ UNCHANGED passVars
  OBVIOUS
<1>a. flight' = flight => Working' = Working
  BY DEF Working
<1>1. CASE Fetch
  <2>1. Batch \subseteq Photo
    BY BatchUnmarked
  <2>2. Working' = Working
    BY <1>1, <1>a DEF Fetch
  <2> QED BY <1>1, <2>1, <2>2 DEF Fetch, Conclude, PassTypeOK, PoolInv
<1>2. CASE Spawn
  <2>1. PICK i \in queue :
           /\ taken' \in 0..Slots /\ flight' \in [Photo -> Nat]
           /\ taken' = Cardinality(Working')
           /\ queue' = queue \ {i}
           /\ flight'[i] = 1
           /\ \A j \in Photo : j # i => flight'[j] = flight[j]
    BY <1>2, SpawnAt
  <2>2. /\ stage = "spawn" /\ stage' = stage /\ kind' = kind /\ marked' = marked
        /\ broken' = broken /\ cancelled' = cancelled /\ erred' = erred /\ some' = some
        /\ unread' = unread /\ built' = built
    BY <1>2 DEF Spawn
  <2>3. PassTypeOK'
    BY <2>1, <2>2 DEF PassTypeOK
  <2>4. PoolInv'
    BY <2>1, <2>2 DEF PassTypeOK, PoolInv
  <2> QED BY <2>3, <2>4
<1>3. CASE SpawningEnds
  BY <1>3, <1>a DEF SpawningEnds, PassTypeOK, PoolInv
<1>4. CASE BatchDone
  <2>1. \A i \in Photo : flight[i] = 0
    BY <1>4 DEF BatchDone, Working, PassTypeOK
  <2> QED BY <1>4, <1>a, <2>1 DEF BatchDone, PassTypeOK, PoolInv
<1>5. CASE Interrupted
  BY <1>5, <1>a DEF Interrupted, PassTypeOK, PoolInv
<1>6. CASE BuildGroups
  BY <1>6, <1>a DEF BuildGroups, PassTypeOK, PoolInv
<1>7. CASE PassLeaves
  BY <1>7, <1>a DEF PassLeaves, PassTypeOK, PoolInv
<1>8. ASSUME NEW i \in Photo, ItemMarked(i) PROVE PassTypeOK' /\ PoolInv'
  <2>1. /\ taken' \in 0..Slots /\ flight' \in [Photo -> Nat]
        /\ taken' = Cardinality(Working')
        /\ flight[i] = 1 /\ flight'[i] = 0
        /\ \A j \in Photo : j # i => flight'[j] = flight[j]
    BY <1>8, LeaveAt DEF ItemMarked
  <2>2. /\ stage' = stage /\ kind' = kind /\ marked' = marked \cup {i} /\ some' = TRUE
        /\ broken' = broken /\ queue' = queue /\ cancelled' = cancelled /\ erred' = erred
        /\ unread' = unread /\ built' = built
    BY <1>8 DEF ItemMarked
  <2>3. PassTypeOK'
    BY <2>1, <2>2 DEF PassTypeOK
  <2>4. PoolInv'
    BY <2>1, <2>2 DEF PassTypeOK, PoolInv
  <2> QED BY <2>3, <2>4
<1>9. ASSUME NEW i \in Photo, ItemFails(i) PROVE PassTypeOK' /\ PoolInv'
  <2>1. /\ taken' \in 0..Slots /\ flight' \in [Photo -> Nat]
        /\ taken' = Cardinality(Working')
        /\ flight[i] = 1 /\ flight'[i] = 0
        /\ \A j \in Photo : j # i => flight'[j] = flight[j]
    BY <1>9, LeaveAt DEF ItemFails
  <2>2. /\ stage' = stage /\ kind' = kind /\ marked' = marked /\ some' = some
        /\ broken' = broken /\ queue' = queue /\ cancelled' = cancelled
        /\ unread' = unread /\ built' = built /\ erred' \in BOOLEAN
    BY <1>9 DEF ItemFails
  <2>3. PassTypeOK'
    BY <2>1, <2>2 DEF PassTypeOK
  <2>4. PoolInv'
    BY <2>1, <2>2 DEF PassTypeOK, PoolInv
  <2> QED BY <2>3, <2>4
<1>10. CASE BeginPass
  BY <1>10, <1>a DEF BeginPass, PassTypeOK, PoolInv, NoGroups
<1>11. CASE FetchFails
  BY <1>11, <1>a DEF FetchFails, Conclude, PassTypeOK, PoolInv
<1>12. CASE Cancel
  BY <1>12, <1>a DEF Cancel, PassTypeOK, PoolInv
<1>13. CASE PassDies
  <2>1. \A i \in Photo : flight'[i] = 0
    BY <1>13 DEF PassDies
  <2>2. Cardinality(Working') = 0
    BY <2>1, FS_EmptySet DEF Working
  <2>3. {cancelled', erred', some', unread'} \subseteq BOOLEAN
    BY <1>13 DEF PassDies, PassTypeOK
  <2>4. PassTypeOK'
    <3>1. taken' \in 0..Slots /\ flight' \in [Photo -> Nat]
      BY <1>13, PassAssumption DEF PassDies
    <3> QED BY <1>13, <2>3, <3>1 DEF PassDies, PassTypeOK
  <2>5. PoolInv'
    BY <1>13, <2>1, <2>2 DEF PassDies, PoolInv
  <2> QED BY <2>4, <2>5
<1>14. CASE UNCHANGED passVars
  BY <1>14, <1>a DEF passVars, PassTypeOK, PoolInv
<1> HIDE DEF PassTypeOK, PoolInv
<1> QED
  BY <1>0, <1>1, <1>2, <1>3, <1>4, <1>5, <1>6, <1>7, <1>8, <1>9, <1>10, <1>11,
     <1>12, <1>13, <1>14 DEF PassNext, PassStep

LEMMA PoolAlways == PassSpec => [](PassTypeOK /\ PoolInv)
  BY PassTypesInit, PoolStep, PTL DEF PassSpec

\* Every variable of a pass has its type; no more slots are ever taken than there
\* are, and none is given back that was not taken (pass.go:47-118).
THEOREM PassTypes == PassSpec => []PassTypeOK
  BY PoolAlways, PTL

LEMMA PoolInvBounds == PassTypeOK /\ PoolInv => PoolBounds
<1> SUFFICES ASSUME PassTypeOK, PoolInv PROVE PoolBounds
  OBVIOUS
<1>1. Cardinality(Working) <= Slots
  BY PassAssumption DEF PassTypeOK, PoolInv
<1>2. ASSUME NEW i \in Photo PROVE flight[i] + (IF i \in queue THEN 1 ELSE 0) <= 1
  <2>1. flight[i] \in Nat /\ flight[i] <= 1 /\ (i \in queue => flight[i] = 0)
    BY DEF PassTypeOK, PoolInv
  <2> QED BY <2>1
<1> QED BY <1>1, <1>2 DEF PoolBounds

\* pass.go:25-34, its two properties: live goroutines are capped by the slots, and
\* no photo is worked on, or queued to be, while another goroutine works on it.
THEOREM PoolIsBounded == PassSpec => []PoolBounds
  BY PoolAlways, PoolInvBounds, PTL

-----------------------------------------------------------------------------
(* The in-process pass: the groups.                                        *)

\* A pass comes to the rebuild with every photo marked, or over a failed fetch.
CoverInv ==
    /\ stage = "group" => Photo \subseteq marked \/ unread
    /\ \A from \in built : from = Photo \/ unread

LEMMA CoverStep ==
  PassTypeOK /\ PoolInv /\ CoverInv /\ [PassNext]_passVars => CoverInv'
<1> SUFFICES ASSUME PassTypeOK, PoolInv, CoverInv, [PassNext]_passVars PROVE CoverInv'
  OBVIOUS
<1>0. PassNext \/ UNCHANGED passVars
  OBVIOUS
<1>1. CASE Fetch
  BY <1>1, EmptyBatch DEF Fetch, CoverInv
<1>2. CASE FetchFails
  BY <1>2 DEF FetchFails, CoverInv
<1>3. CASE BuildGroups
  <2>1. Photo \subseteq marked \/ unread
    BY <1>3 DEF BuildGroups, CoverInv
  <2>2. \A from \in built' : from \in built \/ from = marked
    BY <1>3 DEF BuildGroups
  <2>3. marked \subseteq Photo
    BY DEF PassTypeOK
  <2> QED BY <1>3, <2>1, <2>2, <2>3 DEF BuildGroups, CoverInv
<1>4. CASE BeginPass
  BY <1>4 DEF BeginPass, CoverInv, NoGroups
<1>5. ASSUME NEW i \in Photo, ItemMarked(i) \/ ItemFails(i) PROVE CoverInv'
  BY <1>5 DEF ItemMarked, ItemFails, CoverInv
<1>6. CASE Spawn
  BY <1>6 DEF Spawn, CoverInv
<1>7. CASE SpawningEnds \/ BatchDone \/ Interrupted \/ PassLeaves \/ Cancel \/ PassDies
  BY <1>7 DEF SpawningEnds, BatchDone, Interrupted, PassLeaves, Cancel, PassDies, CoverInv
<1>8. CASE UNCHANGED passVars
  BY <1>8 DEF passVars, CoverInv
<1> HIDE DEF CoverInv
<1> QED
  BY <1>0, <1>1, <1>2, <1>3, <1>4, <1>5, <1>6, <1>7, <1>8 DEF PassNext, PassStep

\* hashing.go:95-136, phash.go:69-115: groups published by a pass come from a
\* library whose every photo was looked at, unless a fetch failed; never from one
\* that was interrupted, at whatever point that was.
THEOREM GroupsCoverLibrary == PassSpec => []GroupsFromWholeLibrary
<1>1. PassInit => CoverInv
  BY DEF PassInit, CoverInv, NoGroups
<1>2. CoverInv => GroupsFromWholeLibrary
  BY DEF CoverInv, GroupsFromWholeLibrary
<1> QED BY <1>1, <1>2, PassTypesInit, PoolStep, CoverStep, PTL DEF PassSpec

-----------------------------------------------------------------------------
(* The parts with state.                                                   *)

LEMMA PartsStep ==
    [Next]_vars => /\ [PassNext]_passVars
                   /\ [GroupNext]_groupVars
                   /\ [ThumbNext]_thumbVars
BY DEF Next, Read, vars

\* A behaviour of the run is one of each of its parts, so that what is proved of
\* the in-process pass, the rebuilds and the thumbnail holds in it.
THEOREM PartsRun == Spec => PassSpec /\ GroupSpec /\ ThumbSpec
<1>1. Init => PassInit /\ GroupInit /\ ThumbInit
  BY DEF Init
<1> QED
  BY <1>1, PartsStep, PTL DEF Spec, PassSpec, GroupSpec, ThumbSpec

\* The types of the in-process pass, the rebuilds and the thumbnail, together.
THEOREM DerivedTypes == Spec => []DerivedTypeOK
<1>1. PassTypeOK /\ GroupTypeOK /\ ThumbTypeOK => DerivedTypeOK
  BY DEF DerivedTypeOK
<1> QED
  BY <1>1, PartsRun, PassTypes, GroupTypes, ThumbnailTypes, PTL

-----------------------------------------------------------------------------
(* Pages.                                                                  *)

\* A table of photos and a query, as the handler takes them from the request.
Row == [key : Int, captured : Int, fix : SUBSET {"latitude", "longitude"}, grouped : BOOLEAN]
Presence == {"any", "yes", "no"}
Query == [gps : Presence, duplicates : Presence, from : Int, to : Int,
          descending : BOOLEAN, limit : Int, offset : Int]

LEMMA SameCount ==
    \A S : Listing!Cardinality(S) = Cardinality(S)
BY DEF Listing!Cardinality, Cardinality

LEMMA FoundFinite ==
    ASSUME NEW rows \in Seq(Row), NEW q
    PROVE  /\ IsFiniteSet(Listing!Found(rows, q))
           /\ Cardinality(Listing!Found(rows, q)) \in Nat
<1>1. Len(rows) \in Nat /\ DOMAIN rows = 1..Len(rows)
  OBVIOUS
<1>2. IsFiniteSet(1..Len(rows))
  BY <1>1, FS_Interval
<1>3. Listing!Found(rows, q) \subseteq 1..Len(rows)
  BY <1>1 DEF Listing!Found
<1> QED
  BY <1>2, <1>3, FS_Subset, FS_CardinalityType

\* An order of the statement lists every photo that matches, once.
LEMMA OrderListsAll ==
    ASSUME NEW rows \in Seq(Row), NEW q, NEW s \in Listing!Orders(rows, q)
    PROVE  LET found == Listing!Found(rows, q)
               n == Cardinality(found)
           IN  /\ n \in Nat /\ s \in [1..n -> found]
               /\ \A k, l \in 1..n : k # l => s[k] # s[l]
               /\ \A i \in found : \E k \in 1..n : s[k] = i
<1> DEFINE found == Listing!Found(rows, q)
           n == Cardinality(found)
<1>1. IsFiniteSet(found) /\ n \in Nat
  BY FoundFinite
<1>2. /\ s \in [1..n -> found]
      /\ \A k, l \in 1..n : k < l => s[k] # s[l]
  BY SameCount DEF Listing!Orders
<1> HIDE DEF found
<1>3. \A k, l \in 1..n : k # l => s[k] # s[l]
  <2>1. ASSUME NEW k \in 1..n, NEW l \in 1..n, k # l PROVE s[k] # s[l]
    <3>1. k < l \/ l < k
      BY <1>1, <2>1
    <3> QED BY <1>2, <3>1
  <2> QED BY <2>1
<1>4. ASSUME NEW i \in found, \A k \in 1..n : s[k] # i PROVE FALSE
  <2>1. s \in [1..n -> found \ {i}]
    BY <1>2, <1>4
  <2>2. IsFiniteSet(found \ {i}) /\ Cardinality(found \ {i}) = n - 1
    BY <1>1, FS_RemoveElement
  <2>3. IsFiniteSet(1..n) /\ Cardinality(1..n) = n
    BY <1>1, FS_Interval
  <2>4. \E k, l \in 1..n : k # l /\ s[k] = s[l]
    <3>1. Cardinality(found \ {i}) < Cardinality(1..n)
      BY <1>1, <2>2, <2>3
    <3> HIDE DEF n
    <3> QED BY <2>1, <2>2, <2>3, <3>1, FS_PigeonHole
  <2> QED BY <1>3, <2>4
<1> QED
  BY <1>1, <1>2, <1>3, <1>4 DEF found

\* ORDER BY ends with the id: no two rows tie.
LEMMA NoTies ==
    ASSUME NEW rows \in Seq(Row), NEW q \in Query,
           NEW i \in DOMAIN rows, NEW j \in DOMAIN rows, i # j
    PROVE  Listing!Before(rows, q, i, j) \/ Listing!Before(rows, q, j, i)
<1>1. rows[i].key \in Int /\ rows[j].key \in Int /\ i \in Int /\ j \in Int
  <2>1. i \in 1..Len(rows) /\ j \in 1..Len(rows)
    OBVIOUS
  <2>2. rows[i] \in Row /\ rows[j] \in Row
    BY <2>1
  <2> QED BY <2>1, <2>2 DEF Row
<1> DEFINE a == rows[i].key
           b == rows[j].key
<1> HIDE DEF a, b
<1> QED
  BY <1>1 DEF Listing!Before, Listing!Null

\* So the planner has no choice.
LEMMA OneOrder ==
    ASSUME NEW rows \in Seq(Row), NEW q \in Query,
           NEW s \in Listing!Orders(rows, q), NEW t \in Listing!Orders(rows, q)
    PROVE  s = t
<1> DEFINE found == Listing!Found(rows, q)
           n == Cardinality(found)
           differ == {k \in 1..n : s[k] # t[k]}
<1>1. /\ n \in Nat /\ s \in [1..n -> found] /\ t \in [1..n -> found]
      /\ \A k, l \in 1..n : k # l => s[k] # s[l] /\ t[k] # t[l]
      /\ \A i \in found : \E k \in 1..n : s[k] = i
      /\ \A i \in found : \E k \in 1..n : t[k] = i
  BY OrderListsAll
<1>2. \A k, l \in 1..n : k < l => /\ ~Listing!Before(rows, q, s[l], s[k])
                                  /\ ~Listing!Before(rows, q, t[l], t[k])
  BY SameCount DEF Listing!Orders
<1>3. found \subseteq DOMAIN rows
  BY DEF Listing!Found
<1> HIDE DEF found, n
<1>4. ASSUME differ # {} PROVE FALSE
  <2>1. differ \subseteq Nat
    BY <1>1
  <2>2. PICK m \in differ : \A k \in differ : m <= k
    <3> HIDE DEF differ
    <3> QED BY <1>4, <2>1, LeastNatural
  <2>3. m \in 1..n /\ s[m] # t[m] /\ \A k \in 1..n : k < m => s[k] = t[k]
    BY <1>1, <2>2
  <2>4. PICK k \in 1..n : s[k] = t[m]
    BY <1>1, <2>3
  <2>5. PICK l \in 1..n : t[l] = s[m]
    BY <1>1, <2>3
  <2>6. m < k
    <3>1. k # m
      BY <2>3, <2>4
    <3>2. ~(k < m)
      BY <1>1, <2>3, <2>4, <3>1
    <3> QED BY <1>1, <2>3, <3>1, <3>2
  <2>7. m < l
    <3>1. l # m
      BY <2>3, <2>5
    <3>2. ~(l < m)
      BY <1>1, <2>3, <2>5, <3>1
    <3> QED BY <1>1, <2>3, <3>1, <3>2
  <2>8. ~Listing!Before(rows, q, t[m], s[m]) /\ ~Listing!Before(rows, q, s[m], t[m])
    BY <1>2, <2>3, <2>4, <2>5, <2>6, <2>7
  <2>9. s[m] \in DOMAIN rows /\ t[m] \in DOMAIN rows
    BY <1>1, <1>3, <2>3
  <2> QED BY <2>3, <2>8, <2>9, NoTies
<1>5. \A k \in 1..n : s[k] = t[k]
  BY <1>4
<1>6. s = [k \in 1..n |-> s[k]] /\ t = [k \in 1..n |-> t[k]]
  BY <1>1
<1> QED
  BY <1>5, <1>6

\* photoview.go:195-204, 122-126: for any table, a presence filter and its opposite
\* split what is found without it, and what was not measured comes last.
THEOREM FiltersSplit ==
    ASSUME NEW rows \in Seq(Row), NEW q \in Query
    PROVE  Listing!PresenceSplits(rows, q)
<1> DEFINE wants(w) == Listing!Found(rows, [q EXCEPT !.gps = w])
<1>1. ASSUME NEW w \in Presence
      PROVE  wants(w) = {i \in DOMAIN rows :
                /\ Listing!Accepted(q)
                /\ q.from # Listing!Null => rows[i].captured # Listing!Null /\ rows[i].captured >= q.from
                /\ q.to # Listing!Null => rows[i].captured # Listing!Null /\ rows[i].captured <= q.to
                /\ Listing!Asks(w, rows[i].fix = {"latitude", "longitude"})
                /\ Listing!membership(rows[i], q.duplicates)}
  <2> DEFINE f == [q EXCEPT !.gps = w]
  <2>1. f.gps = w /\ f.duplicates = q.duplicates /\ f.from = q.from /\ f.to = q.to
    BY DEF Query
  <2>2. Listing!Accepted(f) <=> Listing!Accepted(q)
    BY <2>1 DEF Listing!Accepted
  <2> HIDE DEF f
  <2>3. Listing!Found(rows, f) = {i \in DOMAIN rows :
                /\ Listing!Accepted(q)
                /\ q.from # Listing!Null => rows[i].captured # Listing!Null /\ rows[i].captured >= q.from
                /\ q.to # Listing!Null => rows[i].captured # Listing!Null /\ rows[i].captured <= q.to
                /\ Listing!Asks(w, rows[i].fix = {"latitude", "longitude"})
                /\ Listing!membership(rows[i], q.duplicates)}
    BY <2>1, <2>2 DEF Listing!Found, Listing!Matches
  <2> QED BY <2>3 DEF f
<1>2. \A has \in BOOLEAN : /\ Listing!Asks("any", has)
                           /\ Listing!Asks("yes", has) <=> has
                           /\ Listing!Asks("no", has) <=> ~has
  BY DEF Listing!Asks
<1>3. wants("yes") \cap wants("no") = {} /\ wants("yes") \cup wants("no") = wants("any")
  <2>1. "yes" \in Presence /\ "no" \in Presence /\ "any" \in Presence
    BY DEF Presence
  <2>2. \A i : (rows[i].fix = {"latitude", "longitude"}) \in BOOLEAN
    OBVIOUS
  <2> HIDE DEF wants
  <2> QED BY <1>1, <1>2, <2>1, <2>2
<1>4. ASSUME NEW o \in Listing!Orders(rows, q), NEW k \in DOMAIN o, NEW l \in DOMAIN o,
             k < l, rows[o[k]].key = Listing!Null
      PROVE  rows[o[l]].key = Listing!Null
  <2>1. DOMAIN o = 1..Listing!Cardinality(Listing!Found(rows, q))
    BY DEF Listing!Orders
  <2>2. ~Listing!Before(rows, q, o[l], o[k])
    BY <1>4, <2>1 DEF Listing!Orders
  <2> QED BY <1>4, <2>2 DEF Listing!Before
<1> HIDE DEF wants
<1> QED
  BY <1>3, <1>4 DEF Listing!PresenceSplits, wants

\* A page shows the rows of the order that follow those of the pages before it.
LEMMA PageShows ==
    ASSUME NEW D, NEW order \in Seq(D), NEW f, f.offset \in Nat, Listing!Limit(f) \in Nat \ {0}
    PROVE  LET shown == Listing!Page(order, f)
           IN  \A j \in 1..Listing!Limit(f) :
                  /\ j <= Len(shown) <=> f.offset + j <= Len(order)
                  /\ j <= Len(shown) => shown[j] = order[f.offset + j]
<1> DEFINE shown == Listing!Page(order, f)
           size == Listing!Limit(f)
           off == f.offset
           n == Len(order)
<1>0. n \in Nat /\ size \in Nat \ {0} /\ off \in Nat
  OBVIOUS
<1> HIDE DEF shown, size, off, n
<1> SUFFICES ASSUME NEW j \in 1..size
             PROVE  /\ j <= Len(shown) <=> off + j <= n
                    /\ j <= Len(shown) => shown[j] = order[off + j]
  BY DEF shown, size, off, n
<1> DEFINE end == IF off + size < n THEN off + size ELSE n
<1>1. off \in Nat
  BY <1>0
<1>2. Listing!Limit(f) = size /\ Listing!Offset(f) = off
  BY <1>0 DEF Listing!Offset, size, off
<1>3. Len(order) = n /\ order \in [1..n -> D]
  BY LenProperties DEF n
<1>4. shown = SubSeq(order, off + 1, end)
  BY <1>2, <1>3 DEF Listing!Page, shown
<1>5. end \in Int /\ end <= n
  BY <1>0
<1>6. /\ Len(shown) = IF off + 1 <= end THEN end - (off + 1) + 1 ELSE 0
      /\ \A i \in 1..(end - (off + 1) + 1) : shown[i] = order[off + 1 + i - 1]
  <2>1. \A i \in (off + 1)..end : order[i] \in D
    BY <1>0, <1>3, <1>5
  <2> DEFINE first == off + 1
  <2>2. first \in Int
    BY <1>1
  <2> HIDE DEF end, first
  <2>3. /\ Len(SubSeq(order, first, end)) = IF first <= end THEN end - first + 1 ELSE 0
        /\ \A i \in 1..(end - first + 1) : SubSeq(order, first, end)[i] = order[first + i - 1]
    <3>1. \A i \in first..end : order[i] \in D
      BY <2>1 DEF first
    <3> QED BY <1>5, <2>2, <3>1, SubSeqProperties
  <2> QED BY <1>4, <2>3 DEF first
<1>7. j <= Len(shown) <=> off + j <= n
  <2>1. CASE off + size < n
    <3>1. end = off + size /\ off + 1 <= off + size
      BY <1>0, <2>1
    <3>2. Len(shown) = size
      <4> HIDE DEF end
      <4> QED BY <1>0, <1>6, <3>1
    <3> QED BY <1>0, <2>1, <3>2
  <2>2. CASE ~(off + size < n)
    BY <1>0, <1>6, <2>2
  <2> QED BY <2>1, <2>2
<1>8. ASSUME j <= Len(shown) PROVE shown[j] = order[off + j]
  <2>1. j \in 1..(end - (off + 1) + 1)
    BY <1>1, <1>5, <1>6, <1>8
  <2>2. off + 1 + j - 1 = off + j
    BY <1>1
  <2> QED BY <1>6, <2>1, <2>2
<1> QED
  BY <1>1, <1>7, <1>8

\* photoview.go:341-346: for any table and query, walking the pages up to the total
\* shows every photo that matches once, whatever order the planner picks each time.
THEOREM PagesAreWhole ==
    ASSUME NEW rows \in Seq(Row), NEW q \in Query
    PROVE  Listing!PagesPartition(rows, q)
<1> DEFINE found == Listing!Found(rows, q)
           n == Cardinality(found)
           size == Listing!Limit(q)
           last == (Listing!Answer(rows, <<>>, q).total + size - 1) \div size
           pageOf(order, k) ==
              Listing!Answer(rows, order, [q EXCEPT !.offset = (k - 1) * size]).photos
           places(pick, i) == {at \in (1..last) \X (1..size) :
                                  LET shown == pageOf(pick[at[1]], at[1])
                                  IN  at[2] <= Len(shown) /\ shown[at[2]] = i}
<1>0. size = Listing!Limit(q)
  OBVIOUS
<1>1. size \in Nat \ {0}
  BY DEF Query, Listing!Limit, Listing!MostRows, Listing!DefaultLimit
<1>2. n \in Nat
  BY FoundFinite
<1>3. last = (n + size - 1) \div size
  BY SameCount DEF Listing!Answer, Listing!Total
<1>4. \A order, k : pageOf(order, k) = Listing!Page(order, [q EXCEPT !.offset = (k - 1) * size])
  BY DEF Listing!Answer
<1>5. ASSUME NEW pick \in [1..last -> Listing!Orders(rows, q)], NEW i \in found
      PROVE  Listing!Cardinality(places(pick, i)) = 1
  <2>1. 1 <= n
    <3>1. n # 0
      BY <1>2, FoundFinite, FS_EmptySet
    <3> QED BY <1>2, <3>1
  <2>2. last \in Nat /\ 1 <= last
    <3>1. n + size - 1 \in Nat /\ n + size - 1 >= size * 1
      BY <1>1, <1>2, <2>1
    <3> HIDE DEF last, n, size
    <3> QED BY <1>1, <1>3, <3>1, Division, QuotientBounds
  <2> DEFINE s == pick[1]
  <2>3. s \in Listing!Orders(rows, q)
    BY <2>2
  <2>4. /\ s \in [1..n -> found]
        /\ \A k, l \in 1..n : k # l => s[k] # s[l]
        /\ \E k \in 1..n : s[k] = i
    BY <2>3, OrderListsAll
  <2>5. \A k \in 1..last : pick[k] = s
    BY <2>3, OneOrder
  <2> HIDE DEF s, last, found, n, size
  <2>6. ASSUME NEW k \in 1..last, NEW j \in 1..size
        PROVE  <<k, j>> \in places(pick, i) <=>
                  size * (k - 1) + j <= n /\ s[size * (k - 1) + j] = i
    <3> DEFINE shown == pageOf(pick[k], k)
    <3>1. shown = Listing!Page(s, [q EXCEPT !.offset = (k - 1) * size])
      BY <1>4, <2>5
    <3>2. k \in Nat \ {0}
      BY <2>2
    <3> HIDE DEF shown
    <3>3. /\ j <= Len(shown) <=> size * (k - 1) + j <= n
          /\ j <= Len(shown) => shown[j] = s[size * (k - 1) + j]
      <4> DEFINE off == (k - 1) * size
      <4>1. off \in Nat /\ size * (k - 1) = off
        BY <1>1, <3>2
      <4> DEFINE f == [q EXCEPT !.offset = off]
      <4>2. f.limit = q.limit /\ f.offset = off
        BY DEF Query
      <4>3. shown = Listing!Page(s, f)
        BY <3>1
      <4> HIDE DEF off, f
      <4>4. size = Listing!Limit(f)
        BY <1>0, <4>2 DEF Listing!Limit
      <4> HIDE DEF places
      <4>5. \A e \in 1..size : /\ e <= Len(shown) <=> off + e <= n
                               /\ e <= Len(shown) => shown[e] = s[off + e]
        <5>1. f.offset \in Nat /\ Listing!Limit(f) \in Nat \ {0}
          BY <1>1, <4>1, <4>2, <4>4
        <5>2. s \in Seq(found) /\ Len(s) = n
          BY <1>2, <2>4
        <5>3. \A e \in 1..Listing!Limit(f) :
                 /\ e <= Len(Listing!Page(s, f)) <=> f.offset + e <= Len(s)
                 /\ e <= Len(Listing!Page(s, f)) => Listing!Page(s, f)[e] = s[f.offset + e]
          BY <5>1, <5>2, PageShows, SMTT(30)
        <5> QED BY <4>2, <4>3, <4>4, <5>2, <5>3
      <4> QED BY <4>1, <4>5
    <3>4. <<k, j>> \in places(pick, i) <=> j <= Len(shown) /\ shown[j] = i
      BY DEF shown
    <3> QED BY <3>3, <3>4
  <2>7. PICK pos \in 1..n : s[pos] = i
    BY <2>4
  <2> DEFINE k0 == (pos - 1) \div size
             j0 == (pos - 1) % size
  <2>8. k0 \in Nat /\ j0 \in 0..(size - 1) /\ pos = size * k0 + j0 + 1
    <3> DEFINE a == pos - 1
    <3>1. a \in Nat /\ pos = a + 1
      BY <1>2
    <3> HIDE DEF a
    <3>2. a \div size \in Nat /\ a % size \in 0..(size - 1)
          /\ a = size * (a \div size) + (a % size)
      BY <1>1, <3>1, Division
    <3>3. k0 = a \div size /\ j0 = a % size
      BY DEF a
    <3> HIDE DEF k0, j0
    <3> QED BY <3>1, <3>2, <3>3
  <2> HIDE DEF k0, j0
  <2>9. k0 + 1 \in 1..last /\ j0 + 1 \in 1..size
    <3>1. n + size - 1 \in Nat /\ k0 + 1 \in Nat
      BY <1>1, <1>2, <2>8
    <3>2. n + size - 1 >= size * (k0 + 1)
      BY <1>1, <1>2, <2>8
    <3>3. last >= k0 + 1
      BY <1>1, <1>3, <3>1, <3>2, QuotientBounds
    <3> QED BY <1>1, <2>2, <2>8, <3>3
  <2>10. <<k0 + 1, j0 + 1>> \in places(pick, i)
    <3>1. size * ((k0 + 1) - 1) + (j0 + 1) = pos
      BY <1>1, <2>8
    <3>2. pos <= n
      BY <1>2
    <3> HIDE DEF places
    <3> QED BY <2>6, <2>7, <2>9, <3>1, <3>2
  <2>11. ASSUME NEW at \in places(pick, i) PROVE at = <<k0 + 1, j0 + 1>>
    <3>1. at[1] \in 1..last /\ at[2] \in 1..size /\ at = <<at[1], at[2]>>
      OBVIOUS
    <3> DEFINE k == at[1]
               j == at[2]
    <3> HIDE DEF places, k, j
    <3>2. k \in 1..last /\ j \in 1..size /\ <<k, j>> \in places(pick, i)
      BY <2>11, <3>1 DEF k, j
    <3>3. size * (k - 1) + j <= n /\ s[size * (k - 1) + j] = i
      BY <2>6, <3>2
    <3>4. k - 1 \in Nat /\ j - 1 \in 0..(size - 1) /\ size * (k - 1) \in Nat
      BY <1>1, <2>2, <3>2
    <3>5. size * (k - 1) + j = pos
      BY <1>2, <2>4, <2>7, <3>2, <3>3, <3>4
    <3>6. size * (k - 1) + (j - 1) = size * k0 + j0
      BY <1>1, <2>8, <3>2, <3>4, <3>5
    <3>7. k - 1 = k0 /\ j - 1 = j0
      <4> DEFINE u == k - 1
                 v == j - 1
      <4>1. u \in Nat /\ v \in 0..(size - 1) /\ size * u + v = size * k0 + j0
        BY <3>4, <3>6
      <4> HIDE DEF u, v
      <4>2. u = k0 /\ v = j0
        BY <1>1, <2>8, <4>1, DivisionUnique
      <4> QED BY <4>2 DEF u, v
    <3> QED BY <3>1, <3>2, <3>7, <2>2, <2>8 DEF k, j
  <2>12. places(pick, i) = {<<k0 + 1, j0 + 1>>}
    <3> HIDE DEF places
    <3> QED BY <2>10, <2>11
  <2> HIDE DEF places
  <2> QED BY <2>12, SameCount, FS_Singleton
<1> QED
  BY <1>5 DEF Listing!PagesPartition

-----------------------------------------------------------------------------
(* What the run reads.                                                     *)

\* A pure part has read nothing or one of its inputs.
InputInv == part \in DOMAIN Inputs => input \subseteq Inputs[part]

LEMMA InputsRead == Spec => []InputInv
<1>1. Init => InputInv
  BY DEF Init, InputInv
<1>2. InputInv /\ [Next]_vars => InputInv'
  <2>1. InputInv /\ Read => InputInv'
    BY DEF Read, InputInv
  <2>2. InputInv /\ UNCHANGED <<part, input>> => InputInv'
    BY DEF InputInv
  <2> QED
    BY <2>1, <2>2 DEF Next, vars
<1> QED
  BY <1>1, <1>2, PTL DEF Spec

LEMMA Triples ==
    ASSUME NEW S, NEW d \in [1..3 -> S]
    PROVE  d \in Seq(S)
<1>1. d \in UNION {[1..n -> S] : n \in Nat}
  OBVIOUS
<1> QED
  BY <1>1, SeqDef

LEMMA EventsRead ==
    ASSUME NEW i \in EventInputs
    PROVE  i.points \in Points /\ i.options \in Option
<1>1. PICK f \in [1..3 -> {Event!Undated, 0, 2, 3} \X {Event!NoFix, 0, 1, 3}] :
         i = [points |-> [k \in 1..3 |-> [at |-> f[k][1], place |-> f[k][2],
                            source |-> IF f[k][2] = Event!NoFix THEN "filesystem" ELSE "exif"]],
              options |-> [gap |-> 2, radius |-> 1]]
  BY DEF EventInputs
<1>2. i.options \in Option
  BY <1>1 DEF Option
<1>3. \A k \in 1..3 : [at |-> f[k][1], place |-> f[k][2],
                       source |-> IF f[k][2] = Event!NoFix THEN "filesystem" ELSE "exif"] \in Point
  BY DEF Point, Event!Undated, Event!NoFix
<1>4. i.points \in [1..3 -> Point] /\ \A k \in 1..3 : i.points[k].source # "none"
  BY <1>1, <1>3
<1>5. \A d \in [1..3 -> Point] : d \in Seq(Point)
  BY Triples
<1>6. i.points \in Points
  BY <1>4, <1>5 DEF Points
<1> QED
  BY <1>2, <1>6

LEMMA SimilarRead ==
    ASSUME NEW i \in SimilarInputs
    PROVE  Loaded(i.photos) /\ i.threshold \in Int
<1> DEFINE chain(h, copies) ==
             [k \in 1..4 |-> [sha |-> IF k \in copies THEN "same" ELSE Similar!NoSha,
                              hash |-> h[k], score |-> Similar!Unscored, worth |-> k]]
           ranks(f) == [k \in 1..3 |-> [sha |-> Similar!NoSha, hash |-> {},
                                        score |-> f[k][1], worth |-> f[k][2]]]
           H == {1..n : n \in 0..3}
           F == {Similar!Unscored, 50, 52, 54} \X (0..2)
<1>0. \A g \in H : g \subseteq Bits
  <2>1. ASSUME NEW g \in H PROVE g \subseteq Bits
    <3>1. PICK n \in 0..3 : g = 1..n
      OBVIOUS
    <3> QED BY <3>1 DEF Bits
  <2> QED BY <2>1
<1>1. CASE \E h \in [1..4 -> H], copies \in {{}, {1, 4}} :
             i = [photos |-> chain(h, copies), threshold |-> 1]
  <2>1. PICK h \in [1..4 -> H], copies \in {{}, {1, 4}} :
             i = [photos |-> chain(h, copies), threshold |-> 1]
    BY <1>1
  <2>2. i.photos = chain(h, copies) /\ i.threshold = 1
    BY <2>1
  <2>3. /\ Len(chain(h, copies)) = 4 /\ DOMAIN chain(h, copies) = 1..4
        /\ \A k \in 1..4 : /\ chain(h, copies)[k].hash = h[k]
                           /\ chain(h, copies)[k].score = Similar!Unscored
                           /\ chain(h, copies)[k].worth = k
    OBVIOUS
  <2>4. \A k \in 1..4 : h[k] \subseteq Bits
    <3>1. \A k \in 1..4 : h[k] \in H
      OBVIOUS
    <3> HIDE DEF H
    <3> QED BY <1>0, <3>1
  <2> HIDE DEF chain
  <2> QED BY <2>2, <2>3, <2>4 DEF Loaded, Similar!Unscored
<1>2. CASE \E f \in [1..3 -> F] : i = [photos |-> ranks(f), threshold |-> -1]
  <2>1. PICK f \in [1..3 -> F] : i = [photos |-> ranks(f), threshold |-> -1]
    BY <1>2
  <2>2. i.photos = ranks(f) /\ i.threshold = -1
    BY <2>1
  <2>3. /\ Len(ranks(f)) = 3 /\ DOMAIN ranks(f) = 1..3
        /\ \A k \in 1..3 : /\ ranks(f)[k].hash = {}
                           /\ ranks(f)[k].score = f[k][1] /\ ranks(f)[k].worth = f[k][2]
    OBVIOUS
  <2>4. \A k \in 1..3 : f[k][1] \in Int /\ f[k][2] \in Int
    BY DEF Similar!Unscored
  <2> HIDE DEF ranks
  <2> QED BY <2>2, <2>3, <2>4 DEF Loaded
<1> QED
  BY <1>1, <1>2 DEF SimilarInputs

LEMMA PicturesRead ==
    ASSUME NEW i \in PictureInputs
    PROVE  StoredImage(i.file) /\ i.mtime \in BOOLEAN
<1> DEFINE Tags == {"missing", "old", "time"}
<1>1. \A d \in [1..3 -> Tags] : d \in Seq(Tags)
  BY Triples
<1>2. <<"missing", "missing", "missing">> \in Seq(Tags)
  OBVIOUS
<1>3. CASE \E w \in {1, 2, 5}, h \in {1, 2, 5}, e \in {"absent", "damaged", "readable"}, o \in 0..9 :
             i = [file |-> [w |-> w, h |-> h, exif |-> e, orientation |-> o,
                            dates |-> <<"missing", "missing", "missing">>,
                            lat |-> Upright!NoTag, lon |-> Upright!NoTag], mtime |-> TRUE]
  <2>1. PICK w \in {1, 2, 5}, h \in {1, 2, 5}, e \in {"absent", "damaged", "readable"}, o \in 0..9 :
             i = [file |-> [w |-> w, h |-> h, exif |-> e, orientation |-> o,
                            dates |-> <<"missing", "missing", "missing">>,
                            lat |-> Upright!NoTag, lon |-> Upright!NoTag], mtime |-> TRUE]
    BY <1>3
  <2>2. i.file.w = w /\ i.file.h = h /\ i.file.dates = <<"missing", "missing", "missing">>
        /\ i.file.lat = Upright!NoTag /\ i.file.lon = Upright!NoTag /\ i.mtime = TRUE
    BY <2>1
  <2>3. w \in Nat \ {0} /\ h \in Nat \ {0} /\ Upright!NoTag \in Int
    BY DEF Upright!NoTag
  <2> QED BY <1>2, <2>2, <2>3 DEF StoredImage
<1>4. CASE \E e \in {"absent", "damaged", "readable"}, d \in [1..3 -> Tags],
             lat \in {0, 91, Upright!NoTag}, lon \in {0, 5, Upright!NoTag}, m \in BOOLEAN :
             i = [file |-> [w |-> 3, h |-> 2, exif |-> e, orientation |-> 0, dates |-> d,
                            lat |-> lat, lon |-> lon], mtime |-> m]
  <2>1. PICK e \in {"absent", "damaged", "readable"}, d \in [1..3 -> Tags],
             lat \in {0, 91, Upright!NoTag}, lon \in {0, 5, Upright!NoTag}, m \in BOOLEAN :
             i = [file |-> [w |-> 3, h |-> 2, exif |-> e, orientation |-> 0, dates |-> d,
                            lat |-> lat, lon |-> lon], mtime |-> m]
    BY <1>4
  <2> HIDE DEF Tags
  <2>2. i.file.w = 3 /\ i.file.h = 2 /\ i.file.dates = d /\ i.file.lat = lat
        /\ i.file.lon = lon /\ i.mtime = m
    BY <2>1
  <2>3. d \in Seq(Tags) /\ lat \in Int /\ lon \in Int
    BY <1>1 DEF Upright!NoTag
  <2>4. i.file.w \in Nat \ {0} /\ i.file.h \in Nat \ {0} /\ i.mtime \in BOOLEAN
    BY <2>2
  <2>5. i.file.lat \in Int /\ i.file.lon \in Int /\ i.file.dates \in Seq(Tags)
    BY <2>2, <2>3
  <2> QED BY <2>4, <2>5 DEF StoredImage, Tags
<1> QED
  BY <1>3, <1>4 DEF PictureInputs

LEMMA ListingsRead ==
    ASSUME NEW i \in ListingInputs
    PROVE  i.rows \in Seq(Row) /\ i.query \in Query
<1>1. PICK f \in [1..3 -> {Listing!Null, 1, 2} \X {{}, {"latitude"}, {"latitude", "longitude"}}],
           gps \in {"any", "no"}, from \in {Listing!Null, 1}, down \in BOOLEAN, limit \in {1, 2} :
         i = [rows |-> [k \in 1..3 |-> [key |-> f[k][1], captured |-> f[k][1], fix |-> f[k][2],
                                        grouped |-> f[k][1] = 1]],
              query |-> [gps |-> gps, duplicates |-> "any", from |-> from, to |-> Listing!Null,
                         descending |-> down, limit |-> limit, offset |-> 0]]
  BY DEF ListingInputs
<1>2. i.query \in Query
  BY <1>1 DEF Query, Presence, Listing!Null
<1>3. \A k \in 1..3 : [key |-> f[k][1], captured |-> f[k][1], fix |-> f[k][2],
                       grouped |-> f[k][1] = 1] \in Row
  BY DEF Row, Listing!Null
<1>4. i.rows \in [1..3 -> Row]
  BY <1>1, <1>3
<1>5. \A d \in [1..3 -> Row] : d \in Seq(Row)
  BY Triples
<1>6. i.rows \in Seq(Row)
  BY <1>4, <1>5
<1> QED
  BY <1>2, <1>6

LEMMA QualityRead ==
    ASSUME NEW i \in QualityInputs
    PROVE  Plane(i)
<1>1. PICK spots \in Spots, tone \in {<<0, 255>>, <<100, 0>>, <<90, 110>>} :
         i = Spotted(spots, tone)
  BY DEF QualityInputs
<1>2. tone[1] \in Int /\ tone[2] \in Int
  OBVIOUS
<1>3. i.px \in [(0..3) \X (0..2) -> Int]
  BY <1>1, <1>2 DEF Spotted
<1>4. Quality!Pixels(i) = (0..3) \X (0..2)
  <2>1. i.w = 4 /\ i.h = 3
    BY <1>1 DEF Spotted
  <2> QED BY <2>1 DEF Quality!Pixels
<1>5. i.w = 4 /\ i.h = 3
  BY <1>1 DEF Spotted
<1> QED
  BY <1>3, <1>4, <1>5 DEF Plane

\* Pictures are shown upright, with the shape the row gives them, and dates and
\* places are the camera's or marked as not.
THEOREM PicturesAreUpright == Spec => []PicturesUpright
<1>1. InputInv => PicturesUpright
  <2> SUFFICES ASSUME InputInv, part = "picture", NEW i \in input
               PROVE  /\ Upright!OrientUpright(i.file.w, i.file.h)
                      /\ Upright!ThumbnailAgrees(i.file, 2)
                      /\ Upright!CaptureTrusted(i.file, i.mtime)
    BY DEF PicturesUpright
  <2>1. StoredImage(i.file) /\ i.mtime \in BOOLEAN
    <3>1. i \in PictureInputs
      BY DEF InputInv, Inputs
    <3> QED BY <3>1, PicturesRead
  <2>2. i.file.w \in Nat \ {0} /\ i.file.h \in Nat \ {0} /\ 2 \in Nat \ {0}
    BY <2>1 DEF StoredImage
  <2> QED BY <2>1, <2>2, OrientedUpright, ThumbnailsAgree, CapturesTrusted
<1> QED
  BY <1>1, InputsRead, PTL

\* The near-duplicate groups are the connected components over distinct files, a
\* chained one is marked, and nobody in one is ranked behind a photo it beats.
THEOREM SimilarGroupsAreExact == Spec => []SimilarGroupsExact
<1>1. InputInv => SimilarGroupsExact
  <2> SUFFICES ASSUME InputInv, part = "similar", NEW i \in input
               PROVE  /\ Similar!GroupsAreComponents(i.photos, i.threshold)
                      /\ Similar!ChainsAreMarked(i.photos, i.threshold)
                      /\ Similar!RankedPairwise(i.photos, i.threshold)
    BY DEF SimilarGroupsExact
  <2>1. Loaded(i.photos) /\ i.threshold \in Int
    <3>1. i \in SimilarInputs
      BY DEF InputInv, Inputs
    <3> QED BY <3>1, SimilarRead
  <2> QED BY <2>1, GroupsConnected, ChainsMarked, RanksHold
<1> QED
  BY <1>1, InputsRead, PTL

\* Each dated photo is in one event, in order; an event is bounded in space and in
\* silence, and ends only where one of the two ends it.
THEOREM EventsAreExact == Spec => []EventsExact
<1>1. InputInv => EventsExact
  <2> SUFFICES ASSUME InputInv, part = "events", NEW i \in input
               PROVE  /\ Event!EventsPartition(i.points, i.options)
                      /\ Event!EventsBounded(i.points, i.options)
    BY DEF EventsExact
  <2>1. i.points \in Points /\ i.options \in Option
    <3>1. i \in EventInputs
      BY DEF InputInv, Inputs
    <3> QED BY <3>1, EventsRead
  <2> QED BY <2>1, SegmentPartitions, SegmentBounds
<1> QED
  BY <1>1, InputsRead, PTL

\* Walking the pages of a listing shows every photo that matches once, and a
\* presence filter and its opposite split the library.
THEOREM PagesAreExact == Spec => []PagesExact
<1>1. InputInv => PagesExact
  <2> SUFFICES ASSUME InputInv, part = "listing", NEW i \in input
               PROVE  /\ Listing!PagesPartition(i.rows, i.query)
                      /\ Listing!PresenceSplits(i.rows, i.query)
    BY DEF PagesExact
  <2>1. i.rows \in Seq(Row) /\ i.query \in Query
    <3>1. i \in ListingInputs
      BY DEF InputInv, Inputs
    <3> QED BY <3>1, ListingsRead
  <2> QED BY <2>1, PagesAreWhole, FiltersSplit
<1> QED
  BY <1>1, InputsRead, PTL

\* A picture and a turned, mirrored or enlarged copy of it are measured alike, and
\* scores and flags tell one story.
THEOREM ScoresAreFair == Spec => []ScoresFair
<1>1. InputInv => ScoresFair
  <2> SUFFICES ASSUME InputInv, part = "quality", NEW i \in input
               PROVE  /\ Quality!ScoresComparable(40, 31, i)
                      /\ Quality!FlagsAgree(40, 31, i)
    BY DEF ScoresFair
  <2>1. Plane(i)
    <3>1. i \in QualityInputs
      BY DEF InputInv, Inputs
    <3> QED BY <3>1, QualityRead
  <2>2. 40 \in Nat \ {0} /\ 31 \in Nat \ {0}
    OBVIOUS
  <2> QED BY <2>1, <2>2, ScoresCompare, FlagsAndScores
<1> QED
  BY <1>1, InputsRead, PTL

=============================================================================
