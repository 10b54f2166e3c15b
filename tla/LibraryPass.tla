----------------------------- MODULE LibraryPass ----------------------------
(***************************************************************************)
(* The in-process pass over a library (ingest/pass.go) as its three kinds   *)
(* of caller use it: ProcessLibrary and AnalyzeLibrary ("plain"),           *)
(* HashLibrary ("hash") and PHashLibrary ("phash"), the last two of which   *)
(* rebuild the groups when the pass is over.  Photos are numbered in the    *)
(* order of their ids.  A pass fetches photos without the completion        *)
(* marker, works on them in a bounded number of goroutines, waits for the   *)
(* batch and fetches again.                                                *)
(***************************************************************************)
EXTENDS Integers, FiniteSets

CONSTANTS Photo,      \* photos of the library: 1..n, in id order
          Slots,      \* Processor.concurrency
          FetchLimit  \* metadataBatchSize

ASSUME PassAssumption ==
    /\ Photo \subseteq Nat /\ IsFiniteSet(Photo)
    /\ Slots \in Nat \ {0} /\ FetchLimit \in Nat \ {0}

VARIABLES
    stage,      \* where the pass is; "idle" when the map has no entry for it
    kind,       \* which of the passes it is
    marked,     \* photos whose completion marker is set
    broken,     \* photos whose processing fails without setting it, every time
    queue,      \* fetched and not spawned yet
    taken,      \* slots of the semaphore that are taken
    flight,     \* flight[i]: goroutines that work on photo i
    cancelled,  \* Shutdown cancelled the pass
    erred,      \* passResult.FirstErr is set
    some,       \* passResult.Done > 0
    unread,     \* history: a fetch failed
    built       \* history: groups this pass published, [from: photos marked then]

passVars == <<stage, kind, marked, broken, queue, taken, flight, cancelled, erred,
              some, unread, built>>

\* The photos some goroutine works on.
Working == {i \in Photo : flight[i] > 0}

\* mutant: the query does not leave out the photos that are done
Batch_All == {i \in Photo : Cardinality({j \in Photo : j <= i}) <= FetchLimit}

\* ListPhotosNeeding...: ORDER BY id LIMIT n.
Batch == LET need == Photo \ marked
         IN  {i \in need : Cardinality({j \in need : j <= i}) <= FetchLimit}

NoGroups == {}

PassInit ==
    /\ stage = "idle" /\ kind = "plain"
    /\ marked = {} /\ broken \in SUBSET Photo
    /\ queue = {} /\ taken = 0 /\ flight = [i \in Photo |-> 0]
    /\ cancelled = FALSE /\ erred = FALSE /\ some = FALSE
    /\ unread = FALSE /\ built = NoGroups

\* StartAsync, StartHashAsync: one pass of a kind per library and process.
BeginPass ==
    /\ stage = "idle" /\ ~cancelled
    /\ stage' = "fetch" /\ kind' \in {"plain", "hash", "phash"}
    /\ erred' = FALSE /\ some' = FALSE /\ unread' = FALSE /\ built' = NoGroups
    /\ UNCHANGED <<marked, broken, queue, taken, flight, cancelled>>

\* After the loop: the caller looks at the result.
Conclude(err, any) ==
    IF kind = "plain" \/ (kind = "phash" /\ err /\ ~any) THEN "over" ELSE "group"

\* mutant: a batch that is not full is taken for the last and left
Fetch_ShortIsLast ==
    /\ stage = "fetch" /\ ~cancelled
    /\ queue' = IF Cardinality(Batch) < FetchLimit THEN {} ELSE Batch
    /\ stage' = IF Cardinality(Batch) < FetchLimit THEN Conclude(erred, some) ELSE "spawn"
    /\ UNCHANGED <<kind, marked, broken, taken, flight, cancelled, erred, some, unread, built>>

Fetch ==
    /\ stage = "fetch" /\ ~cancelled
    /\ queue' = Batch
    /\ stage' = IF Batch = {} THEN Conclude(erred, some) ELSE "spawn"
    /\ UNCHANGED <<kind, marked, broken, taken, flight, cancelled, erred, some, unread, built>>

FetchFails ==
    /\ stage = "fetch" /\ ~cancelled
    /\ erred' = TRUE /\ unread' = TRUE
    /\ stage' = Conclude(TRUE, some)
    /\ UNCHANGED <<kind, marked, broken, queue, taken, flight, cancelled, some, built>>

\* A slot of the semaphore is taken before the goroutine starts.
Spawn ==
    /\ stage = "spawn" /\ ~cancelled /\ taken < Slots
    /\ \E i \in queue :
         /\ \A j \in queue : i <= j
         /\ queue' = queue \ {i}
         /\ taken' = taken + 1 /\ flight' = [flight EXCEPT ![i] = @ + 1]
    /\ UNCHANGED <<stage, kind, marked, broken, cancelled, erred, some, unread, built>>

SpawningEnds ==
    /\ stage = "spawn"
    /\ queue = {} \/ cancelled
    /\ stage' = "await" /\ queue' = {}
    /\ UNCHANGED <<kind, marked, broken, taken, flight, cancelled, erred, some, unread, built>>

\* A goroutine for photo i ends and releases its slot.
Leave(i) ==
    /\ flight[i] > 0
    /\ taken' = taken - 1 /\ flight' = [flight EXCEPT ![i] = @ - 1]

\* HashOne and its kin wrote the marker: for a good photo, a missing file and an
\* undecodable one alike.
ItemMarked(i) ==
    /\ i \notin broken /\ Leave(i)
    /\ marked' = marked \cup {i} /\ some' = TRUE
    /\ UNCHANGED <<stage, kind, broken, queue, cancelled, erred, unread, built>>

\* mutant: the slot is released in the error path and by the deferred call
ItemFails_FreesTwice(i) ==
    /\ flight[i] > 0
    /\ taken' = taken - 2 /\ flight' = [flight EXCEPT ![i] = @ - 1]
    /\ erred' = (erred \/ ~cancelled)
    /\ UNCHANGED <<stage, kind, marked, broken, queue, cancelled, some, unread, built>>

\* It returned an error, which counts unless the pass is being cancelled.
ItemFails(i) ==
    /\ Leave(i)
    /\ erred' = (erred \/ ~cancelled)
    /\ UNCHANGED <<stage, kind, marked, broken, queue, cancelled, some, unread, built>>

\* mutant: the next batch is fetched without waiting for this one
BatchDone_NoWait ==
    /\ stage = "await"
    /\ stage' = IF cancelled THEN "over" ELSE "fetch"
    /\ UNCHANGED <<kind, marked, broken, queue, taken, flight, cancelled, erred, some, unread, built>>

\* wg.Wait returned.
BatchDone ==
    /\ stage = "await" /\ Working = {}
    /\ stage' = IF cancelled THEN "over" ELSE "fetch"
    /\ UNCHANGED <<kind, marked, broken, queue, taken, flight, cancelled, erred, some, unread, built>>

\* The loop sees the cancelled context before it fetches.
Interrupted ==
    /\ stage = "fetch" /\ cancelled
    /\ stage' = "over"
    /\ UNCHANGED <<kind, marked, broken, queue, taken, flight, cancelled, erred, some, unread, built>>

\* RebuildDuplicateGroups or RebuildSimilarGroups; it fails, and under a
\* cancelled context it always does.
BuildGroups ==
    /\ stage = "group"
    /\ stage' = "over"
    /\ \/ built' = built
       \/ ~cancelled /\ built' = {marked}
    /\ UNCHANGED <<kind, marked, broken, queue, taken, flight, cancelled, erred, some, unread>>

\* The deferred delete of the map entry; a process that was told to stop exits
\* and is replaced by a new one.
PassLeaves ==
    /\ stage = "over"
    /\ stage' = "idle" /\ cancelled' = FALSE
    /\ UNCHANGED <<kind, marked, broken, queue, taken, flight, erred, some, unread, built>>

\* Processor.Shutdown.
Cancel ==
    /\ stage # "idle" /\ ~cancelled
    /\ cancelled' = TRUE
    /\ UNCHANGED <<stage, kind, marked, broken, queue, taken, flight, erred, some, unread, built>>

\* The process dies, and a new one starts.
PassDies ==
    /\ stage # "idle"
    /\ stage' = "idle" /\ queue' = {} /\ taken' = 0 /\ flight' = [i \in Photo |-> 0]
    /\ cancelled' = FALSE
    /\ UNCHANGED <<kind, marked, broken, erred, some, unread, built>>

PassStep ==
    \/ Fetch \/ Spawn \/ SpawningEnds \/ BatchDone \/ Interrupted \/ BuildGroups \/ PassLeaves
    \/ \E i \in Photo : ItemMarked(i) \/ ItemFails(i)

PassNext == PassStep \/ BeginPass \/ FetchFails \/ Cancel \/ PassDies

PassSpec == PassInit /\ [][PassNext]_passVars

-----------------------------------------------------------------------------
(* Properties.                                                             *)

PassTypeOK ==
    /\ stage \in {"idle", "fetch", "spawn", "await", "group", "over"}
    /\ kind \in {"plain", "hash", "phash"}
    /\ marked \subseteq Photo /\ broken \subseteq Photo /\ queue \subseteq Photo
    /\ taken \in 0..Slots /\ flight \in [Photo -> Nat]
    /\ {cancelled, erred, some, unread} \subseteq BOOLEAN
    /\ built \subseteq SUBSET Photo

\* pass.go:25-34: however fetches, failures and cancellation fall, no more
\* goroutines live than there are slots, and no photo is worked on by two of
\* them: what a batch has not marked yet is not fetched again under it.
PoolBounds ==
    /\ Cardinality(Working) <= Slots
    /\ \A i \in Photo : flight[i] + (IF i \in queue THEN 1 ELSE 0) <= 1

\* hashing.go:116-122: an interrupted pass publishes no groups.  Those that are
\* published come from a library whose every photo was looked at, or after a
\* fetch failed: the code does not tell that apart from the end of the work.
GroupsFromWholeLibrary == \A from \in built : from = Photo \/ unread

\* hashing.go:116-121 leaves out the rebuild after an interrupted pass because
\* "publishing groups derived from a partially-hashed library looks authoritative
\* but is wrong".  A fetch that fails ends the pass as well, and groups are
\* published of what it had hashed by then.
GroupsOnlyWhole == \A from \in built : from = Photo

\* pass.go:56-75: fewer broken photos than a batch holds keep no other photo
\* from being reached, and a pass over a library without broken ones ends -
\* unless it is cancelled, dies, or ends over a failed fetch.
PassProgress ==
    /\ (stage = "fetch" /\ Cardinality(broken) < FetchLimit)
         ~> (Photo \ broken \subseteq marked \/ cancelled \/ stage \in {"over", "idle", "group"})
    /\ (stage = "fetch" /\ broken = {}) ~> stage \in {"over", "idle"}

PassFairness ==
    /\ WF_passVars(PassStep)
    /\ \A i \in Photo : SF_passVars(ItemMarked(i))
=============================================================================
