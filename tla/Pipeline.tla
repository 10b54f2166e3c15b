------------------------------ MODULE Pipeline ------------------------------
(***************************************************************************)
(* One library going through the pipeline: POST /process fans photos out   *)
(* into per-photo jobs and aggregate jobs, statement by statement; handlers*)
(* fill columns of photos; aggregates count the jobs they depend on, defer *)
(* or rebuild.                                                             *)
(*                                                                         *)
(* Jobs are known by their dedupe key, and status[k] is that of the newest *)
(* row of k. The queue is taken by its contract (QueueContract): a row has *)
(* one owner, only the owner's report counts, and a goroutine may outlive  *)
(* its claim. Leases, clocks and workers are in JobQueue.                  *)
(***************************************************************************)
EXTENDS Naturals, Sequences, FiniteSets

CONSTANTS
    Photo,        \* the photos of the library
    Library,      \* the target of the aggregate jobs
    Stage,        \* the per-photo stages of the instance
    Aggregate,    \* its aggregate stages
    Garbage,      \* photos whose file is not a decodable image
    Fleeting,     \* photos whose file may be deleted
    Client,       \* calls of POST /process, one each
    Patient,      \* whether a call awaits the end of the aggregates before it
    Run, NoRun,   \* goroutines that may run one key at the same time
    Stalling,     \* stages and aggregates whose lease may lapse in a live run
    MaxAttempts

FanOut == <<"metadata", "hash", "phash", "quality", "thumbnail">>
AllStages == {FanOut[i] : i \in DOMAIN FanOut}
AllAggregates == {"duplicates", "similar", "clusters"}

ASSUME InstanceAssumption ==
    /\ Stage \subseteq AllStages
    /\ Aggregate \subseteq AllAggregates
    /\ Library \notin Photo
    /\ NoRun \notin Run
    /\ Patient \in BOOLEAN
ASSUME AttemptsAssumption == MaxAttempts \in Nat \ {0}

VARIABLES
    disk,      \* disk[p]: the file of p
    known,     \* the photos that scans have inserted
    state,     \* state[p]: photos.state
    column,    \* column[s][p]: what stage s left in the row of p
    status, attempts,  \* of the newest row of each key
    owner,     \* owner[k]: the run that holds it, or NoRun
    takers,    \* takers[k]: the runs of it that have not ended
    waits,     \* waits[a]: the per-photo jobs that were outstanding when the
               \* newest row of a was inserted and are so still (history)
    pc,        \* pc[k][r]: where goroutine r of key k is
    todo,      \* todo[a][r]: the prerequisites r has yet to count
    loaded,    \* loaded[a][r]: what r has loaded
    view,      \* view[a]: what the groups stored for a were built from
    step,      \* step[c]: the stage a call fans out, see Enqueue
    ids,       \* ids[c]: the photos it listed for that stage
    cut        \* whether the last call to end was cut short

photoVars == <<disk, known, state, column>>
queueVars == <<status, attempts, owner, takers, waits>>
runVars == <<pc, todo, loaded, view>>
callVars == <<step, ids, cut>>
vars == <<photoVars, queueVars, runVars, callVars>>

Key == (Stage \X Photo) \cup (Aggregate \X {Library})
KeyOf(a) == <<a, Library>>
Position == {"idle", "claimed", "image", "garbage", "gone", "half",
             "counting", "checked", "loaded", "deferred", "ok"}
View == [Photo -> SUBSET AllStages]
Empty == [p \in Photo |-> {}]

\* What an aggregate counts before it runs, in this order.
Prereqs(a) == CASE a = "duplicates" -> <<"hash">>
                [] a = "similar" -> <<"hash", "phash", "quality">>
                [] a = "clusters" -> <<"metadata">>
PrereqSet(a) == {Prereqs(a)[i] : i \in DOMAIN Prereqs(a)}

\* The photos that take part in a rebuild, and the columns it reads of them.
\* The similar rebuild ranks by width and height, which metadata extraction
\* writes although nothing waits for it.
Member(a, p) ==
    /\ p \in known
    /\ CASE a = "duplicates" -> state[p] # "missing" /\ column["hash"][p] = "value"
         [] a = "similar" -> state[p] # "missing" /\ column["phash"][p] = "value"
         [] a = "clusters" -> state[p] \notin {"missing", "failed"}
Reads(a) == PrereqSet(a) \cup (IF a = "similar" THEN {"metadata"} ELSE {})
Seen(a) == [p \in Photo |->
               IF Member(a, p) THEN {s \in Reads(a) : column[s][p] = "value"} ELSE {}]

Outstanding(k) == status[k] \in {"pending", "running"}

\* What a listing finds: photos the stage never visited, less those that some
\* stage found missing or, if the stage needs pixels, undecodable.
Needing(s) ==
    {p \in known :
        /\ s \in Stage
        /\ column[s][p] = "unset"
        /\ s # "metadata" => state[p] # "missing"
        /\ s \notin {"metadata", "hash"} => state[p] # "failed"}

Init ==
    /\ disk = [p \in Photo |-> IF p \in Garbage THEN "garbage" ELSE "image"]
    /\ known = {}
    /\ state = [p \in Photo |-> "discovered"]
    /\ column = [s \in AllStages |-> [p \in Photo |-> "unset"]]
    /\ status = [k \in Key |-> "none"]
    /\ attempts = [k \in Key |-> 0]
    /\ owner = [k \in Key |-> NoRun]
    /\ takers = [k \in Key |-> {}]
    /\ waits = [a \in Aggregate |-> {}]
    /\ pc = [k \in Key |-> [r \in Run |-> "idle"]]
    /\ todo = [a \in Aggregate |-> [r \in Run |-> <<>>]]
    /\ loaded = [a \in Aggregate |-> [r \in Run |-> Empty]]
    /\ view = [a \in Aggregate |-> Empty]
    /\ step = [c \in Client |-> 0]
    /\ ids = [c \in Client |-> {}]
    /\ cut = FALSE
-----------------------------------------------------------------------------
(* The folder, and the scan that inserts what it finds *)

Vanish(p) ==
    /\ p \in Fleeting
    /\ disk[p] # "gone"
    /\ disk' = [disk EXCEPT ![p] = "gone"]
    /\ UNCHANGED <<known, state, column, queueVars, runVars, callVars>>

Discover(p) ==
    /\ p \notin known
    /\ disk[p] # "gone"
    /\ known' = known \cup {p}
    /\ UNCHANGED <<disk, state, column, queueVars, runVars, callVars>>
-----------------------------------------------------------------------------
(* EnqueuePhotoJobs: step[c] is 0 before the call, i while it fans out stage
   FanOut[i], Last at the aggregates and Last + 1 after the end. *)

Last == Len(FanOut) + 1

\* The keys the partial index on dedupe_key lets in.
Fresh_Once(K) == {k \in K : status[k] = "none"}    \* mutant: the index is not partial
Fresh(K) == {k \in K : ~Outstanding(k)}

\* Insert a row for each key of K that has none outstanding.
Enqueue(K) ==
    LET new == Fresh(K) IN
    /\ status' = [k \in Key |-> IF k \in new THEN "pending" ELSE status[k]]
    /\ attempts' = [k \in Key |-> IF k \in new THEN 0 ELSE attempts[k]]
    /\ takers' = [k \in Key |-> IF k \in new THEN {} ELSE takers[k]]
    /\ waits' = [a \in Aggregate |->
                    IF KeyOf(a) \in new THEN {k \in Stage \X Photo : Outstanding(k)}
                                        ELSE waits[a]]
    /\ UNCHANGED owner

Call(c) ==
    /\ step[c] = 0
    /\ Patient => /\ \A d \in Client : step[d] \in {0, Last + 1}
                  /\ \A a \in Aggregate : ~Outstanding(KeyOf(a))
    /\ step' = [step EXCEPT ![c] = 1]
    /\ UNCHANGED <<ids, cut, photoVars, queueVars, runVars>>

List(c) ==
    /\ step[c] \in 1..Len(FanOut)
    /\ ids[c] = {}
    /\ LET found == Needing(FanOut[step[c]]) IN
       /\ ids' = [ids EXCEPT ![c] = found]
       /\ step' = [step EXCEPT ![c] = IF found = {} THEN @ + 1 ELSE @]
    /\ UNCHANGED <<cut, photoVars, queueVars, runVars>>

EnqueuePage(c) ==
    /\ ids[c] # {}
    /\ Enqueue({FanOut[step[c]]} \X ids[c])
    /\ ids' = [ids EXCEPT ![c] = {}]
    /\ step' = [step EXCEPT ![c] = @ + 1]
    /\ UNCHANGED <<cut, photoVars, runVars>>

EnqueueAggregates(c) ==
    /\ step[c] = Last
    /\ Enqueue(Aggregate \X {Library})
    /\ step' = [step EXCEPT ![c] = Last + 1]
    /\ cut' = FALSE
    /\ UNCHANGED <<ids, photoVars, runVars>>

\* The client disconnects, a statement fails or the API process ends.
CutShort(c) ==
    /\ step[c] \in 1..Last
    /\ step' = [step EXCEPT ![c] = Last + 1]
    /\ ids' = [ids EXCEPT ![c] = {}]
    /\ cut' = TRUE
    /\ UNCHANGED <<photoVars, queueVars, runVars>>
-----------------------------------------------------------------------------
(* The queue, by its contract *)

\* The row of k leaves the running state as st.
Release(k, st) ==
    /\ status' = [status EXCEPT ![k] = st]
    /\ owner' = [owner EXCEPT ![k] = NoRun]
    /\ waits' = [a \in Aggregate |->
                    IF st = "pending" THEN waits[a] ELSE waits[a] \ {k}]

\* What may become of a row whose run did not succeed. That a row may be
\* queued again is bounded by MaxAttempts; a permanent error ends it at once.
Unsuccessful_Failed(k) == {"failed"}               \* mutant: failed rows rest
Unsuccessful(k) == {"dead"} \cup (IF attempts[k] < MaxAttempts THEN {"pending"} ELSE {})

Move(k, r, to) == pc' = [pc EXCEPT ![k][r] = to]

Claim(k, r) ==
    /\ status[k] = "pending"
    /\ pc[k][r] = "idle"
    /\ status' = [status EXCEPT ![k] = "running"]
    /\ owner' = [owner EXCEPT ![k] = r]
    /\ takers' = [takers EXCEPT ![k] = @ \cup {r}]
    /\ attempts' = [attempts EXCEPT ![k] = @ + 1]
    /\ Move(k, r, IF k[1] \in Aggregate THEN "counting" ELSE "claimed")
    /\ todo' = [a \in Aggregate |-> IF k = KeyOf(a)
                                    THEN [todo[a] EXCEPT ![r] = Prereqs(a)]
                                    ELSE todo[a]]
    /\ UNCHANGED <<waits, loaded, view, photoVars, callVars>>

\* The lease lapses and the row is reaped: its run is gone, or stalls.
Reap(k) ==
    /\ status[k] = "running"
    /\ k[1] \in Stalling \/ pc[k][owner[k]] = "idle"
    /\ \E st \in Unsuccessful(k) : Release(k, st)
    /\ UNCHANGED <<attempts, takers, runVars, photoVars, callVars>>

\* Goroutine r of k is no more.
Return(k, r) ==
    /\ Move(k, r, "idle")
    /\ takers' = [takers EXCEPT ![k] = @ \ {r}]
    /\ UNCHANGED <<todo, loaded, view, photoVars, callVars>>

\* Its process ends, or its report is lost.
Crash(k, r) ==
    /\ pc[k][r] # "idle"
    /\ Return(k, r)
    /\ UNCHANGED <<status, attempts, owner, waits>>

\* Report a run as st. The reports of the owner count. Those of an earlier run
\* of the same row do if its worker happens to hold the row again, and no others.
Reported(k, r, st) ==
    /\ status[k] = "running"
    /\ r \in takers[k]
    /\ Release(k, st)
Refused(k, r) ==
    /\ owner[k] # r
    /\ UNCHANGED <<status, owner, waits>>

Complete(k, r) ==
    /\ pc[k][r] = "ok"
    /\ Reported(k, r, "succeeded") \/ Refused(k, r)
    /\ Return(k, r)
    /\ UNCHANGED attempts

\* A read or a statement fails before the end of the handler.
Fail(k, r) ==
    /\ pc[k][r] \notin {"idle", "deferred", "ok"}
    /\ (\E st \in Unsuccessful(k) : Reported(k, r, st)) \/ Refused(k, r)
    /\ Return(k, r)
    /\ UNCHANGED attempts

\* A deferral gives its attempt back.
Defer(k, r) ==
    /\ pc[k][r] = "deferred"
    /\ \/ /\ Reported(k, r, "pending")
          /\ attempts' = [attempts EXCEPT ![k] = IF @ > 0 THEN @ - 1 ELSE 0]
       \/ Refused(k, r) /\ UNCHANGED attempts
    /\ Return(k, r)
-----------------------------------------------------------------------------
(* Per-photo handlers: open and read the file, then write *)

ReadFile(s, p, r) ==
    /\ pc[<<s, p>>][r] = "claimed"
    /\ Move(<<s, p>>, r, disk[p])
    /\ UNCHANGED <<todo, loaded, view, queueVars, photoVars, callVars>>

\* Bytes that are no image have a digest and nothing else; a failed quality
\* analysis leaves older scores where they are.
Result_OnSuccess(s, p, read) ==                    \* mutant: failures leave no mark
    IF read = "image" THEN "value" ELSE column[s][p]
Result(s, p, read) ==
    IF read = "image" \/ (read = "garbage" /\ s = "hash") THEN "value"
    ELSE IF s = "quality" /\ column[s][p] = "value" THEN "value" ELSE "none"

Write(s, p, r) ==
    LET read == pc[<<s, p>>][r] IN
    /\ read \in {"image", "garbage"}
    /\ column' = [column EXCEPT ![s][p] = Result(s, p, read)]
    /\ state' = [state EXCEPT ![p] =
                    IF s = "metadata" THEN IF read = "image" THEN "processing" ELSE "failed"
                    ELSE @]
    /\ Move(<<s, p>>, r, "ok")
    /\ UNCHANGED <<disk, known, todo, loaded, view, queueVars, callVars>>

\* A file that is gone: every stage marks the photo missing by writing its
\* metadata, and those other than extraction then mark themselves done.
WriteMissing(s, p, r) ==
    /\ pc[<<s, p>>][r] = "gone"
    /\ state' = [state EXCEPT ![p] = "missing"]
    /\ column' = [column EXCEPT !["metadata"][p] = "none"]
    /\ Move(<<s, p>>, r, IF s = "metadata" THEN "ok" ELSE "half")
    /\ UNCHANGED <<disk, known, todo, loaded, view, queueVars, callVars>>

WriteGone(s, p, r) ==
    /\ pc[<<s, p>>][r] = "half"
    /\ column' = [column EXCEPT ![s][p] = Result(s, p, "gone")]
    /\ Move(<<s, p>>, r, "ok")
    /\ UNCHANGED <<disk, known, state, todo, loaded, view, queueVars, callVars>>
-----------------------------------------------------------------------------
(* Aggregate handlers *)

Remaining_Running(s) ==                            \* mutant: pending jobs not counted
    {p \in Photo : s \in Stage /\ status[<<s, p>>] = "running"}
Remaining_Unsucceeded(s) ==                        \* mutant: dead jobs counted
    {p \in Photo : s \in Stage /\ status[<<s, p>>] \notin {"none", "succeeded"}}
Remaining(s) == {p \in Photo : s \in Stage /\ Outstanding(<<s, p>>)}

\* Count the outstanding jobs of the next prerequisite.
Count(a, r) ==
    /\ pc[KeyOf(a)][r] = "counting"
    /\ IF Remaining(Head(todo[a][r])) # {}
       THEN /\ Move(KeyOf(a), r, "deferred")
            /\ UNCHANGED todo
       ELSE /\ Move(KeyOf(a), r, IF Len(todo[a][r]) = 1 THEN "checked" ELSE "counting")
            /\ todo' = [todo EXCEPT ![a][r] = Tail(@)]
    /\ UNCHANGED <<loaded, view, queueVars, photoVars, callVars>>

\* Duplicate groups are derived inside the transaction that stores them.
Rebuild(r) ==
    /\ "duplicates" \in Aggregate
    /\ pc[KeyOf("duplicates")][r] = "checked"
    /\ view' = [view EXCEPT !["duplicates"] = Seen("duplicates")]
    /\ Move(KeyOf("duplicates"), r, "ok")
    /\ UNCHANGED <<todo, loaded, queueVars, photoVars, callVars>>

\* Similar groups and clusters are derived from what was loaded before it.
Load(a, r) ==
    /\ a # "duplicates"
    /\ pc[KeyOf(a)][r] = "checked"
    /\ loaded' = [loaded EXCEPT ![a][r] = Seen(a)]
    /\ Move(KeyOf(a), r, "loaded")
    /\ UNCHANGED <<todo, view, queueVars, photoVars, callVars>>

Store(a, r) ==
    /\ pc[KeyOf(a)][r] = "loaded"
    /\ view' = [view EXCEPT ![a] = loaded[a][r]]
    /\ loaded' = [loaded EXCEPT ![a][r] = Empty]
    /\ Move(KeyOf(a), r, "ok")
    /\ UNCHANGED <<todo, queueVars, photoVars, callVars>>
-----------------------------------------------------------------------------
Folder == \E p \in Photo : Vanish(p) \/ Discover(p)
Process(c) == List(c) \/ EnqueuePage(c) \/ EnqueueAggregates(c)
Handle(s, p, r) ==
    ReadFile(s, p, r) \/ Write(s, p, r) \/ WriteMissing(s, p, r) \/ WriteGone(s, p, r)
Aggregation(a, r) == Count(a, r) \/ Load(a, r) \/ Store(a, r)
Ends(k, r) == Complete(k, r) \/ Defer(k, r)

Next ==
    \/ Folder
    \/ \E c \in Client : Call(c) \/ Process(c) \/ CutShort(c)
    \/ \E k \in Key : Reap(k)
    \/ \E k \in Key, r \in Run : Claim(k, r) \/ Crash(k, r) \/ Fail(k, r) \/ Ends(k, r)
    \/ \E s \in Stage, p \in Photo, r \in Run : Handle(s, p, r)
    \/ \E a \in Aggregate, r \in Run : Aggregation(a, r)
    \/ \E r \in Run : Rebuild(r)

\* JobQueue shows that the queue hands out and recovers every job; handlers
\* return. A call may be cut short, so nothing is asked of calls.
Fairness ==
    /\ \A k \in Key : WF_vars(Reap(k) /\ pc[k][owner[k]] = "idle")
    /\ \A k \in Key : WF_vars(\E r \in Run : Claim(k, r))
    /\ \A k \in Key, r \in Run : WF_vars(Ends(k, r))
    /\ \A s \in Stage, p \in Photo, r \in Run : WF_vars(Handle(s, p, r))
    /\ \A a \in Aggregate, r \in Run : WF_vars(Aggregation(a, r))
    /\ \A r \in Run : WF_vars(Rebuild(r))

Spec == Init /\ [][Next]_vars
FairSpec == Spec /\ Fairness
-----------------------------------------------------------------------------
(* Properties *)

TypeOK ==
    /\ disk \in [Photo -> {"image", "garbage", "gone"}]
    /\ known \subseteq Photo
    /\ state \in [Photo -> {"discovered", "processing", "failed", "missing"}]
    /\ column \in [AllStages -> [Photo -> {"unset", "none", "value"}]]
    /\ status \in [Key -> {"none", "pending", "running", "succeeded", "dead"}]
    /\ attempts \in [Key -> Nat]
    /\ owner \in [Key -> Run \cup {NoRun}]
    /\ takers \in [Key -> SUBSET Run]
    /\ waits \in [Aggregate -> SUBSET (Stage \X Photo)]
    /\ pc \in [Key -> [Run -> Position]]
    /\ todo \in [Aggregate -> [Run -> Seq(AllStages)]]
    /\ loaded \in [Aggregate -> [Run -> View]]
    /\ view \in [Aggregate -> View]
    /\ step \in [Client -> 0..(Last + 1)]
    /\ ids \in [Client -> SUBSET Photo]
    /\ cut \in BOOLEAN

\* What an aggregate waits for: a rebuild never starts while a prerequisite
\* that was outstanding when the aggregate was queued is so still, whatever
\* was retried, reaped or queued again meanwhile. handlers.go counts types one
\* after the other, in statements of their own, and remembers nothing.
RebuildWaits ==
    \A a \in Aggregate : \A r \in takers[KeyOf(a)] :
        pc[KeyOf(a)][r] \in {"checked", "loaded", "ok"} =>
            \A k \in waits[a] : k[1] \notin PrereqSet(a)

\* A stage that succeeded for a photo left its mark, a result or the fact that
\* there is none, so that no later call queues it again: an undecodable or
\* deleted file is not tried for ever.
SucceededIsMarked ==
    \A s \in Stage, p \in Photo :
        status[<<s, p>>] = "succeeded" => column[s][p] # "unset"

\* Once nothing is outstanding, after a call that reached its aggregates, the
\* stored groups were built from every photo whose prerequisites succeeded and
\* whose file is still there: none is left out because it came late. Only the
\* columns the aggregate waits for are compared.
Quiet ==
    /\ \A k \in Key : ~Outstanding(k)
    /\ \A c \in Client : step[c] \in {0, Last + 1}
    /\ ~cut
GroupsComplete ==
    Quiet =>
        \A a \in Aggregate, p \in known :
            /\ status[KeyOf(a)] = "succeeded"
            /\ disk[p] # "gone"
            /\ \A s \in PrereqSet(a) \cap Stage : status[<<s, p>>] = "succeeded"
            => view[a][p] \cap PrereqSet(a) = Seen(a)[p] \cap PrereqSet(a)

\* Deferring ends: an aggregate that waits for its prerequisites succeeds or
\* dies, although each deferral gives its attempt back.
AggregatesEnd ==
    \A a \in Aggregate : Outstanding(KeyOf(a)) ~> ~Outstanding(KeyOf(a))
=============================================================================
