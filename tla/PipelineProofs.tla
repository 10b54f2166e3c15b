--------------------------- MODULE PipelineProofs ---------------------------
(***************************************************************************)
(* Proofs about Pipeline, for every set of photos, calls and goroutines,   *)
(* every choice of stages and aggregates, and every bound.                 *)
(***************************************************************************)
EXTENDS Pipeline, TLAPS

-----------------------------------------------------------------------------
(* What the operators return *)

LEMMA FanOutFacts ==
    /\ Len(FanOut) = 5
    /\ Last = 6
    /\ AllStages = {"metadata", "hash", "phash", "quality", "thumbnail"}
    /\ \A i \in 1..5 : FanOut[i] \in AllStages
BY DEF FanOut, AllStages, Last

LEMMA KeyFacts ==
    /\ \A a \in Aggregate : KeyOf(a) \in Key /\ KeyOf(a)[1] = a
    /\ \A s \in Stage, p \in Photo : <<s, p>> \in Key /\ <<s, p>> \in Stage \X Photo
    /\ \A a \in Aggregate, s \in Stage, p \in Photo : KeyOf(a) # <<s, p>>
    /\ \A a, b \in Aggregate : KeyOf(a) = KeyOf(b) => a = b
    /\ \A k \in Key : k[1] \in Aggregate => k = KeyOf(k[1])
    /\ \A k \in Key : k[1] \notin Aggregate => k \in Stage \X Photo
<1>1. \A s \in Stage : s \notin Aggregate
  BY InstanceAssumption, FanOutFacts DEF AllAggregates
<1> QED
  BY <1>1, InstanceAssumption DEF Key, KeyOf

LEMMA PrereqFacts ==
    ASSUME NEW a \in Aggregate
    PROVE  /\ Prereqs(a) \in Seq(AllStages)
           /\ Prereqs(a) # <<>>
           /\ PrereqSet(a) \subseteq AllStages
<1>1. a \in {"duplicates", "similar", "clusters"}
  BY InstanceAssumption DEF AllAggregates
<1>2. Prereqs(a) \in {<<"hash">>, <<"hash", "phash", "quality">>, <<"metadata">>}
  BY <1>1 DEF Prereqs
<1>3. Prereqs(a) \in Seq(AllStages) /\ Prereqs(a) # <<>>
  <2>1. CASE Prereqs(a) = <<"hash">>
    BY <2>1, FanOutFacts
  <2>2. CASE Prereqs(a) = <<"hash", "phash", "quality">>
    BY <2>2, FanOutFacts
  <2>3. CASE Prereqs(a) = <<"metadata">>
    BY <2>3, FanOutFacts
  <2> QED
    BY <1>2, <2>1, <2>2, <2>3
<1> QED
  BY <1>3 DEF PrereqSet

LEMMA TailFacts ==
    ASSUME NEW S, NEW t \in Seq(S), t # <<>>
    PROVE  /\ Tail(t) \in Seq(S)
           /\ Len(t) # 1 => Tail(t) # <<>>
           /\ \A i \in 1..Len(t) : t[i] = Head(t) \/ \E j \in 1..Len(Tail(t)) : t[i] = Tail(t)[j]
<1>1. Len(t) \in Nat /\ Len(t) > 0
  OBVIOUS
<1>2. Tail(t) \in Seq(S)
  BY <1>1
<1>3. Len(Tail(t)) = Len(t) - 1
  BY <1>1
<1>4. Len(t) # 1 => Tail(t) # <<>>
  <2>1. \A u : u = <<>> => Len(u) = 0
    OBVIOUS
  <2>2. Tail(t) = <<>> => Len(Tail(t)) = 0
    BY <2>1, Zenon
  <2>3. Len(t) # 1 => Len(Tail(t)) # 0
    BY <1>1, <1>3
  <2> QED
    BY <2>2, <2>3, Zenon
<1>5. ASSUME NEW i \in 1..Len(t), t[i] # Head(t)
      PROVE  i - 1 \in 1..Len(Tail(t)) /\ t[i] = Tail(t)[i - 1]
  BY <1>1, <1>3, <1>5
<1> QED
  BY <1>2, <1>4, <1>5

LEMMA SeenType ==
    ASSUME NEW a \in Aggregate
    PROVE  Seen(a) \in View
<1>1. Reads(a) \subseteq AllStages
  BY PrereqFacts, FanOutFacts DEF Reads
<1> QED
  BY <1>1 DEF Seen, View

LEMMA ResultType ==
    ASSUME NEW s, NEW p, NEW STATE read
    PROVE  Result(s, p, read) \in {"none", "value"}
BY DEF Result

-----------------------------------------------------------------------------
(* Type correctness *)

PhotoTypes ==
    /\ disk \in [Photo -> {"image", "garbage", "gone"}]
    /\ known \subseteq Photo
    /\ state \in [Photo -> {"discovered", "processing", "failed", "missing"}]
    /\ column \in [AllStages -> [Photo -> {"unset", "none", "value"}]]

QueueTypes ==
    /\ status \in [Key -> {"none", "pending", "running", "succeeded", "dead"}]
    /\ attempts \in [Key -> Nat]
    /\ owner \in [Key -> Run \cup {NoRun}]
    /\ takers \in [Key -> SUBSET Run]
    /\ waits \in [Aggregate -> SUBSET (Stage \X Photo)]

RunTypes ==
    /\ pc \in [Key -> [Run -> Position]]
    /\ todo \in [Aggregate -> [Run -> Seq(AllStages)]]
    /\ loaded \in [Aggregate -> [Run -> View]]
    /\ view \in [Aggregate -> View]

CallTypes ==
    /\ step \in [Client -> 0..(Last + 1)]
    /\ ids \in [Client -> SUBSET Photo]
    /\ cut \in BOOLEAN

\* A run that is counting has something left to count.
TodoLeft ==
    \A a \in Aggregate, r \in Run :
        pc[KeyOf(a)][r] = "counting" => todo[a][r] # <<>>

\* A call holds ids only while it fans a stage out.
Listed == \A c \in Client : ids[c] # {} => step[c] \in 1..Len(FanOut)

LEMMA TypeParts == TypeOK <=> PhotoTypes /\ QueueTypes /\ RunTypes /\ CallTypes
BY DEF TypeOK, PhotoTypes, QueueTypes, RunTypes, CallTypes

\* The statements that release a row keep the types of the queue.
LEMMA ReleaseTypes ==
    ASSUME QueueTypes, NEW k \in Key, NEW st \in {"pending", "succeeded", "dead"},
           Release(k, st)
    PROVE  /\ status' \in [Key -> {"none", "pending", "running", "succeeded", "dead"}]
           /\ owner' \in [Key -> Run \cup {NoRun}]
           /\ waits' \in [Aggregate -> SUBSET (Stage \X Photo)]
BY DEF Release, QueueTypes

\* What each action that writes the queue does to its types.
LEMMA QueueStep ==
    ASSUME TypeOK, [Next]_vars
    PROVE  QueueTypes'
<1>0. PhotoTypes /\ QueueTypes /\ RunTypes /\ CallTypes
  BY TypeParts
<1>1. CASE UNCHANGED queueVars
  BY <1>0, <1>1 DEF QueueTypes, queueVars
<1>2. ASSUME NEW c \in Client, EnqueuePage(c) PROVE QueueTypes'
  BY <1>0, <1>2 DEF EnqueuePage, Enqueue, Outstanding, QueueTypes
<1>3. ASSUME NEW c \in Client, EnqueueAggregates(c) PROVE QueueTypes'
  BY <1>0, <1>3 DEF EnqueueAggregates, Enqueue, Outstanding, QueueTypes
<1>4. ASSUME NEW k \in Key, NEW r \in Run, Claim(k, r) PROVE QueueTypes'
  BY <1>0, <1>4 DEF Claim, QueueTypes
<1>5. ASSUME NEW k \in Key, Reap(k) PROVE QueueTypes'
  <2>1. PICK st \in Unsuccessful(k) : Release(k, st)
    BY <1>5 DEF Reap
  <2>2. st \in {"pending", "dead"} /\ UNCHANGED <<attempts, takers>>
    BY <1>5 DEF Reap, Unsuccessful
  <2> QED
    BY <1>0, <2>1, <2>2, ReleaseTypes DEF QueueTypes
<1>6. ASSUME NEW k \in Key, NEW r \in Run, Crash(k, r) PROVE QueueTypes'
  BY <1>0, <1>6 DEF Crash, Return, QueueTypes
<1>7. ASSUME NEW k \in Key, NEW r \in Run, Complete(k, r) \/ Fail(k, r) \/ Defer(k, r)
      PROVE QueueTypes'
  <2>1. takers' \in [Key -> SUBSET Run]
    BY <1>0, <1>7 DEF Complete, Fail, Defer, Return, QueueTypes
  <2>2. attempts' \in [Key -> Nat]
    BY <1>0, <1>7 DEF Complete, Fail, Defer, QueueTypes
  <2>3. \/ UNCHANGED <<status, owner, waits>>
        \/ \E st \in {"pending", "succeeded", "dead"} : Release(k, st)
    BY <1>7 DEF Complete, Fail, Defer, Reported, Refused, Unsuccessful
  <2> QED
    BY <1>0, <2>1, <2>2, <2>3, ReleaseTypes DEF QueueTypes
<1>8. ASSUME NEW p \in Photo, Vanish(p) \/ Discover(p) PROVE QueueTypes'
  BY <1>1, <1>8 DEF Vanish, Discover
<1>9. ASSUME NEW c \in Client, Call(c) \/ List(c) \/ CutShort(c) PROVE QueueTypes'
  BY <1>1, <1>9 DEF Call, List, CutShort
<1>10. ASSUME NEW s \in Stage, NEW p \in Photo, NEW r \in Run, Handle(s, p, r)
       PROVE QueueTypes'
  BY <1>1, <1>10 DEF Handle, ReadFile, Write, WriteMissing, WriteGone
<1>11. ASSUME NEW a \in Aggregate, NEW r \in Run, Aggregation(a, r) PROVE QueueTypes'
  BY <1>1, <1>11 DEF Aggregation, Count, Load, Store
<1>12. ASSUME NEW r \in Run, Rebuild(r) PROVE QueueTypes'
  BY <1>1, <1>12 DEF Rebuild
<1>13. CASE UNCHANGED vars
  BY <1>1, <1>13 DEF vars
<1> QED
  BY <1>2, <1>3, <1>4, <1>5, <1>6, <1>7, <1>8, <1>9, <1>10, <1>11, <1>12, <1>13
     DEF Next, Folder, Process, Ends

\* The photos and what handlers write into them.
LEMMA PhotoStep ==
    ASSUME TypeOK, [Next]_vars
    PROVE  PhotoTypes'
<1>0. PhotoTypes /\ QueueTypes /\ RunTypes /\ CallTypes
  BY TypeParts
<1>1. CASE UNCHANGED photoVars
  BY <1>0, <1>1 DEF PhotoTypes, photoVars
<1>2. ASSUME NEW p \in Photo, Vanish(p) \/ Discover(p) PROVE PhotoTypes'
  BY <1>0, <1>2 DEF Vanish, Discover, PhotoTypes
<1>3. ASSUME NEW s \in Stage, NEW p \in Photo, NEW r \in Run, Handle(s, p, r)
      PROVE PhotoTypes'
  <2>1. CASE ReadFile(s, p, r)
    BY <1>1, <2>1 DEF ReadFile
  <2>2. CASE Write(s, p, r)
    <3> DEFINE read == pc[<<s, p>>][r]
    <3>1. column' = [column EXCEPT ![s][p] = Result(s, p, read)]
      BY <2>2 DEF Write
    <3>2. Result(s, p, read) \in {"none", "value"}
      BY ResultType
    <3>3. column' \in [AllStages -> [Photo -> {"unset", "none", "value"}]]
      <4> HIDE DEF read
      <4> QED BY <1>0, <3>1, <3>2 DEF PhotoTypes
    <3>4. state' \in [Photo -> {"discovered", "processing", "failed", "missing"}]
      <4>1. CASE s = "metadata"
        BY <1>0, <2>2, <4>1 DEF Write, PhotoTypes
      <4>2. CASE s # "metadata"
        BY <1>0, <2>2, <4>2 DEF Write, PhotoTypes
      <4> QED
        BY <4>1, <4>2
    <3> QED
      BY <1>0, <2>2, <3>3, <3>4 DEF Write, PhotoTypes
  <2>3. CASE WriteMissing(s, p, r)
    BY <1>0, <2>3 DEF WriteMissing, PhotoTypes
  <2>4. CASE WriteGone(s, p, r)
    <3>1. Result(s, p, "gone") \in {"none", "value"}
      BY ResultType
    <3> QED
      BY <1>0, <2>4, <3>1 DEF WriteGone, PhotoTypes
  <2> QED
    BY <1>3, <2>1, <2>2, <2>3, <2>4 DEF Handle
<1>4. ASSUME NEW c \in Client, Call(c) \/ Process(c) \/ CutShort(c) PROVE PhotoTypes'
  BY <1>1, <1>4 DEF Call, Process, List, EnqueuePage, EnqueueAggregates, CutShort
<1>5. ASSUME NEW k \in Key, Reap(k) PROVE PhotoTypes'
  BY <1>1, <1>5 DEF Reap
<1>6. ASSUME NEW k \in Key, NEW r \in Run,
             Claim(k, r) \/ Crash(k, r) \/ Fail(k, r) \/ Ends(k, r)
      PROVE PhotoTypes'
  BY <1>1, <1>6 DEF Claim, Crash, Fail, Ends, Complete, Defer, Return
<1>7. ASSUME NEW a \in Aggregate, NEW r \in Run, Aggregation(a, r)
      PROVE PhotoTypes'
  BY <1>1, <1>7 DEF Aggregation, Count, Load, Store
<1>8. ASSUME NEW r \in Run, Rebuild(r) PROVE PhotoTypes'
  BY <1>1, <1>8 DEF Rebuild
<1>9. CASE UNCHANGED vars
  BY <1>1, <1>9 DEF vars
<1> QED
  BY <1>2, <1>3, <1>4, <1>5, <1>6, <1>7, <1>8, <1>9 DEF Next, Folder

\* The calls of POST /process.
LEMMA CallStep ==
    ASSUME TypeOK, Listed, [Next]_vars
    PROVE  CallTypes' /\ Listed'
<1>0. PhotoTypes /\ QueueTypes /\ RunTypes /\ CallTypes
  BY TypeParts
<1>1. CASE UNCHANGED callVars
  BY <1>0, <1>1 DEF CallTypes, Listed, callVars
<1>2. ASSUME NEW c \in Client, Call(c) \/ Process(c) \/ CutShort(c)
      PROVE CallTypes' /\ Listed'
  <2>1. CASE Call(c)
    BY <1>0, <2>1, FanOutFacts DEF Call, CallTypes, Listed
  <2>2. CASE List(c)
    <3> DEFINE found == Needing(FanOut[step[c]])
    <3>1. found \subseteq Photo
      BY <1>0 DEF Needing, PhotoTypes
    <3>2. /\ step[c] \in 1..5
          /\ ids' = [ids EXCEPT ![c] = found]
          /\ step' = [step EXCEPT ![c] = IF found = {} THEN step[c] + 1 ELSE step[c]]
          /\ UNCHANGED cut
      BY <1>0, <2>2, FanOutFacts DEF List, CallTypes
    <3> HIDE DEF found
    <3> QED
      BY <1>0, <3>1, <3>2, FanOutFacts DEF CallTypes, Listed
  <2>3. CASE EnqueuePage(c)
    BY <1>0, <2>3, FanOutFacts DEF EnqueuePage, CallTypes, Listed
  <2>4. CASE EnqueueAggregates(c)
    <3>1. cut' \in BOOLEAN
      BY <2>4, Zenon DEF EnqueueAggregates
    <3> QED
      BY <1>0, <2>4, <3>1, FanOutFacts DEF EnqueueAggregates, CallTypes, Listed
  <2>5. CASE CutShort(c)
    BY <1>0, <2>5, FanOutFacts DEF CutShort, CallTypes, Listed
  <2> QED
    BY <1>2, <2>1, <2>2, <2>3, <2>4, <2>5 DEF Process
<1>3. ASSUME NEW p \in Photo, Vanish(p) \/ Discover(p) PROVE CallTypes' /\ Listed'
  BY <1>1, <1>3 DEF Vanish, Discover
<1>4. ASSUME NEW s \in Stage, NEW p \in Photo, NEW r \in Run, Handle(s, p, r)
      PROVE CallTypes' /\ Listed'
  BY <1>1, <1>4 DEF Handle, ReadFile, Write, WriteMissing, WriteGone
<1>5. ASSUME NEW k \in Key, Reap(k) PROVE CallTypes' /\ Listed'
  BY <1>1, <1>5 DEF Reap
<1>6. ASSUME NEW k \in Key, NEW r \in Run,
             Claim(k, r) \/ Crash(k, r) \/ Fail(k, r) \/ Ends(k, r)
      PROVE CallTypes' /\ Listed'
  BY <1>1, <1>6 DEF Claim, Crash, Fail, Ends, Complete, Defer, Return
<1>7. ASSUME NEW a \in Aggregate, NEW r \in Run, Aggregation(a, r)
      PROVE CallTypes' /\ Listed'
  BY <1>1, <1>7 DEF Aggregation, Count, Load, Store
<1>8. ASSUME NEW r \in Run, Rebuild(r) PROVE CallTypes' /\ Listed'
  BY <1>1, <1>8 DEF Rebuild
<1>9. CASE UNCHANGED vars
  BY <1>1, <1>9 DEF vars
<1> QED
  BY <1>2, <1>3, <1>4, <1>5, <1>6, <1>7, <1>8, <1>9 DEF Next, Folder

\* The goroutines.
LEMMA RunStep ==
    ASSUME TypeOK, TodoLeft, [Next]_vars
    PROVE  RunTypes' /\ TodoLeft'
<1>0. PhotoTypes /\ QueueTypes /\ RunTypes /\ CallTypes
  BY TypeParts
<1>1. CASE UNCHANGED runVars
  BY <1>0, <1>1 DEF RunTypes, TodoLeft, runVars
<1>2. ASSUME NEW k \in Key, NEW r \in Run, NEW to \in Position \ {"counting"},
             Move(k, r, to), UNCHANGED <<todo, loaded, view>>
      PROVE RunTypes' /\ TodoLeft'
  BY <1>0, <1>2, KeyFacts DEF Move, RunTypes, TodoLeft
<1>3. ASSUME NEW k \in Key, NEW r \in Run, Claim(k, r) PROVE RunTypes' /\ TodoLeft'
  <2>1. CASE k[1] \notin Aggregate
    <3>1. UNCHANGED todo
      BY <1>0, <1>3, <2>1, KeyFacts DEF Claim, RunTypes
    <3> QED
      BY <1>2, <1>3, <2>1, <3>1 DEF Claim, Position
  <2>2. CASE k[1] \in Aggregate
    <3> DEFINE a == k[1]
    <3>1. k = KeyOf(a)
      BY <2>2, KeyFacts
    <3>2. todo' = [todo EXCEPT ![a][r] = Prereqs(a)]
      BY <1>0, <1>3, <2>2, <3>1, KeyFacts, ZenonT(40) DEF Claim, RunTypes
    <3>3. pc' = [pc EXCEPT ![k][r] = "counting"] /\ UNCHANGED <<loaded, view>>
      BY <1>3, <2>2 DEF Claim, Move
    <3>4. RunTypes'
      BY <1>0, <2>2, <3>2, <3>3, PrereqFacts DEF RunTypes, Position
    <3>5. TodoLeft'
      BY <1>0, <2>2, <3>1, <3>2, <3>3, PrereqFacts, KeyFacts DEF RunTypes, TodoLeft
    <3> QED
      BY <3>4, <3>5
  <2> QED
    BY <2>1, <2>2
<1>4. ASSUME NEW k \in Key, NEW r \in Run, Crash(k, r) \/ Fail(k, r) \/ Ends(k, r)
      PROVE RunTypes' /\ TodoLeft'
  BY <1>2, <1>4 DEF Crash, Fail, Ends, Complete, Defer, Return, Position
<1>5. ASSUME NEW s \in Stage, NEW p \in Photo, NEW r \in Run, Handle(s, p, r)
      PROVE RunTypes' /\ TodoLeft'
  <2>1. PICK to \in {"image", "garbage", "gone", "half", "ok"} : Move(<<s, p>>, r, to)
    BY <1>0, <1>5 DEF Handle, ReadFile, Write, WriteMissing, WriteGone, PhotoTypes
  <2>2. UNCHANGED <<todo, loaded, view>>
    BY <1>5 DEF Handle, ReadFile, Write, WriteMissing, WriteGone
  <2> QED
    BY <1>2, <2>1, <2>2, KeyFacts DEF Position
<1>6. ASSUME NEW a \in Aggregate, NEW r \in Run, Aggregation(a, r)
      PROVE RunTypes' /\ TodoLeft'
  <2>1. CASE Count(a, r) /\ Remaining(Head(todo[a][r])) # {}
    BY <1>2, <2>1, KeyFacts DEF Count, Position
  <2>2. CASE Count(a, r) /\ Remaining(Head(todo[a][r])) = {}
    <3>1. todo[a][r] \in Seq(AllStages) /\ todo[a][r] # <<>>
      BY <1>0, <2>2 DEF Count, RunTypes, TodoLeft
    <3>2. todo' = [todo EXCEPT ![a][r] = Tail(todo[a][r])] /\ UNCHANGED <<loaded, view>>
      BY <1>0, <2>2 DEF Count, RunTypes
    <3>3. pc' = [pc EXCEPT ![KeyOf(a)][r] =
                    IF Len(todo[a][r]) = 1 THEN "checked" ELSE "counting"]
      BY <2>2 DEF Count, Move
    <3>4. Tail(todo[a][r]) \in Seq(AllStages)
          /\ (Len(todo[a][r]) # 1 => Tail(todo[a][r]) # <<>>)
      BY <3>1, TailFacts
    <3>5. RunTypes'
      BY <1>0, <3>2, <3>3, <3>4, KeyFacts DEF RunTypes, Position
    <3>6. TodoLeft'
      BY <1>0, <3>2, <3>3, <3>4, KeyFacts DEF RunTypes, TodoLeft
    <3> QED
      BY <3>5, <3>6
  <2>3. CASE Load(a, r)
    BY <1>0, <2>3, SeenType, KeyFacts DEF Load, Move, RunTypes, TodoLeft, Position
  <2>4. CASE Store(a, r)
    <3>1. Empty \in View
      BY DEF Empty, View
    <3>2. /\ view' = [view EXCEPT ![a] = loaded[a][r]]
          /\ loaded' = [loaded EXCEPT ![a][r] = Empty]
          /\ pc' = [pc EXCEPT ![KeyOf(a)][r] = "ok"]
          /\ UNCHANGED todo
      BY <2>4 DEF Store, Move
    <3>3. loaded[a][r] \in View
      BY <1>0 DEF RunTypes
    <3>4. RunTypes'
      BY <1>0, <3>1, <3>2, <3>3, KeyFacts DEF RunTypes, Position
    <3>5. TodoLeft'
      BY <1>0, <3>2, KeyFacts DEF RunTypes, TodoLeft
    <3> QED
      BY <3>4, <3>5
  <2> QED
    BY <1>6, <2>1, <2>2, <2>3, <2>4 DEF Aggregation
<1>7. ASSUME NEW r \in Run, Rebuild(r) PROVE RunTypes' /\ TodoLeft'
  BY <1>0, <1>7, SeenType, KeyFacts DEF Rebuild, Move, RunTypes, TodoLeft, Position
<1>8. ASSUME NEW c \in Client, Call(c) \/ Process(c) \/ CutShort(c)
      PROVE RunTypes' /\ TodoLeft'
  BY <1>1, <1>8 DEF Call, Process, List, EnqueuePage, EnqueueAggregates, CutShort
<1>9. ASSUME NEW p \in Photo, Vanish(p) \/ Discover(p) PROVE RunTypes' /\ TodoLeft'
  BY <1>1, <1>9 DEF Vanish, Discover
<1>10. ASSUME NEW k \in Key, Reap(k) PROVE RunTypes' /\ TodoLeft'
  BY <1>1, <1>10 DEF Reap
<1>11. CASE UNCHANGED vars
  BY <1>1, <1>11 DEF vars
<1> QED
  BY <1>3, <1>4, <1>5, <1>6, <1>7, <1>8, <1>9, <1>10, <1>11 DEF Next, Folder

LEMMA InitTypes == Init => TypeOK /\ Listed /\ TodoLeft
<1> SUFFICES ASSUME Init PROVE TypeOK /\ Listed /\ TodoLeft
  OBVIOUS
<1>1. PhotoTypes
  BY DEF Init, PhotoTypes
<1>2. QueueTypes
  BY DEF Init, QueueTypes
<1>3. RunTypes
  <2>1. Empty \in View /\ "idle" \in Position /\ <<>> \in Seq(AllStages)
    BY DEF Empty, View, Position
  <2> QED
    BY <2>1 DEF Init, RunTypes
<1>4. CallTypes /\ Listed
  <2>1. cut \in BOOLEAN
    BY Zenon DEF Init
  <2> QED
    BY <2>1, FanOutFacts DEF Init, CallTypes, Listed
<1>5. TodoLeft
  BY KeyFacts DEF Init, TodoLeft
<1> QED
  BY <1>1, <1>2, <1>3, <1>4, <1>5, TypeParts

LEMMA TypesStep ==
    ASSUME TypeOK, Listed, TodoLeft, [Next]_vars
    PROVE  TypeOK' /\ Listed' /\ TodoLeft'
<1>1. PhotoTypes' /\ QueueTypes' /\ RunTypes' /\ CallTypes' /\ Listed' /\ TodoLeft'
  BY PhotoStep, QueueStep, RunStep, CallStep
<1> QED
  BY <1>1 DEF TypeOK, PhotoTypes, QueueTypes, RunTypes, CallTypes

LEMMA TypesAlways == Spec => [](TypeOK /\ Listed /\ TodoLeft)
<1>1. (TypeOK /\ Listed /\ TodoLeft) /\ [Next]_vars => (TypeOK /\ Listed /\ TodoLeft)'
  BY TypesStep
<1> QED
  BY <1>1, InitTypes, PTL DEF Spec

\* Every behaviour keeps the types of the tables, the goroutines and the calls.
THEOREM PipelineTypes == Spec => []TypeOK
BY TypesAlways, PTL

-----------------------------------------------------------------------------
(* Marks *)

\* The strengthening: a run about to report success has left its mark.
Marked ==
    \A s \in Stage, p \in Photo :
        (status[<<s, p>>] = "succeeded" \/ \E r \in Run : pc[<<s, p>>][r] = "ok")
        => column[s][p] # "unset"

\* Columns and states change by the writes of handlers.
LEMMA WritesOnly ==
    ASSUME [Next]_vars
    PROVE  \/ UNCHANGED <<column, state>>
           \/ \E s \in Stage, p \in Photo, r \in Run :
                 Write(s, p, r) \/ WriteMissing(s, p, r) \/ WriteGone(s, p, r)
<1> DEFINE Kept == UNCHANGED <<column, state>>
           Written == \E s \in Stage, p \in Photo, r \in Run :
                         Write(s, p, r) \/ WriteMissing(s, p, r) \/ WriteGone(s, p, r)
<1>1. ASSUME NEW s \in Stage, NEW p \in Photo, NEW r \in Run, Handle(s, p, r)
      PROVE Kept \/ Written
  <2>1. CASE ReadFile(s, p, r)
    BY <2>1 DEF ReadFile, photoVars
  <2>2. CASE Write(s, p, r) \/ WriteMissing(s, p, r) \/ WriteGone(s, p, r)
    BY <2>2
  <2> QED
    BY <1>1, <2>1, <2>2 DEF Handle
<1>2. ASSUME NEW k \in Key, NEW r \in Run,
             Claim(k, r) \/ Crash(k, r) \/ Fail(k, r) \/ Ends(k, r)
      PROVE Kept
  <2>1. CASE Claim(k, r)
    BY <2>1 DEF Claim, photoVars
  <2>2. CASE Crash(k, r) \/ Fail(k, r)
    BY <2>2 DEF Crash, Fail, Return, photoVars
  <2>3. CASE Ends(k, r)
    BY <2>3 DEF Ends, Complete, Defer, Return, photoVars
  <2> QED
    BY <1>2, <2>1, <2>2, <2>3
<1>3. ASSUME NEW a \in Aggregate, NEW r \in Run, Aggregation(a, r) PROVE Kept
  BY <1>3 DEF Aggregation, Count, Load, Store, photoVars
<1>4. ASSUME NEW r \in Run, Rebuild(r) PROVE Kept
  BY <1>4 DEF Rebuild, photoVars
<1>5. ASSUME NEW c \in Client, Call(c) \/ Process(c) \/ CutShort(c) PROVE Kept
  <2>1. CASE Call(c) \/ CutShort(c)
    BY <2>1 DEF Call, CutShort, photoVars
  <2>2. CASE Process(c)
    BY <2>2 DEF Process, List, EnqueuePage, EnqueueAggregates, photoVars
  <2> QED
    BY <1>5, <2>1, <2>2
<1>6. ASSUME NEW p \in Photo, Vanish(p) \/ Discover(p) PROVE Kept
  BY <1>6 DEF Vanish, Discover, photoVars
<1>7. ASSUME NEW k \in Key, Reap(k) PROVE Kept
  BY <1>7 DEF Reap, photoVars
<1>8. CASE UNCHANGED vars
  BY <1>8 DEF vars, photoVars
<1> QED
  BY <1>1, <1>2, <1>3, <1>4, <1>5, <1>6, <1>7, <1>8 DEF Next, Folder

\* A mark once left stays: no statement resets one.
LEMMA MarksStay ==
    ASSUME TypeOK, [Next]_vars, NEW s \in Stage, NEW p \in Photo, column[s][p] # "unset"
    PROVE  column'[s][p] # "unset"
<1>0. s \in AllStages /\ PhotoTypes
  BY InstanceAssumption, TypeParts
<1>1. CASE UNCHANGED column
  BY <1>1
<1>2. ASSUME NEW t \in AllStages, NEW q \in Photo, NEW v \in {"none", "value"},
             column' = [column EXCEPT ![t][q] = v]
      PROVE column'[s][p] # "unset"
  BY <1>0, <1>2 DEF PhotoTypes
<1>3. \/ UNCHANGED column
      \/ \E t \in Stage, q \in Photo, r \in Run :
            Write(t, q, r) \/ WriteMissing(t, q, r) \/ WriteGone(t, q, r)
  BY WritesOnly
<1>4. ASSUME NEW t \in Stage, NEW q \in Photo, NEW r \in Run, Write(t, q, r)
      PROVE column'[s][p] # "unset"
  <2> DEFINE v == Result(t, q, pc[<<t, q>>][r])
  <2>1. v \in {"none", "value"}
    BY ResultType
  <2>2. column' = [column EXCEPT ![t][q] = v]
    BY <1>4 DEF Write
  <2> HIDE DEF v
  <2> QED
    BY <1>0, <2>1, <2>2, InstanceAssumption DEF PhotoTypes
<1>5. ASSUME NEW t \in Stage, NEW q \in Photo, NEW r \in Run, WriteMissing(t, q, r)
      PROVE column'[s][p] # "unset"
  BY <1>2, <1>5, FanOutFacts DEF WriteMissing
<1>6. ASSUME NEW t \in Stage, NEW q \in Photo, NEW r \in Run, WriteGone(t, q, r)
      PROVE column'[s][p] # "unset"
  <2> DEFINE v == Result(t, q, "gone")
  <2>1. v \in {"none", "value"}
    BY ResultType
  <2>2. column' = [column EXCEPT ![t][q] = v]
    BY <1>6 DEF WriteGone
  <2> HIDE DEF v
  <2> QED
    BY <1>0, <2>1, <2>2, InstanceAssumption DEF PhotoTypes
<1> QED
  BY <1>1, <1>3, <1>4, <1>5, <1>6

\* Only a handler's last write makes a run of a per-photo job ready.
LEMMA OkStep ==
    ASSUME TypeOK, [Next]_vars, NEW s \in Stage, NEW p \in Photo, NEW r \in Run,
           pc'[<<s, p>>][r] = "ok", pc[<<s, p>>][r] # "ok"
    PROVE  Handle(s, p, r)
<1>0. RunTypes /\ PhotoTypes /\ <<s, p>> \in Key
  BY TypeParts, KeyFacts
<1>1. ASSUME NEW k \in Key, NEW q \in Run, NEW to, Move(k, q, to),
             k # <<s, p>> \/ to # "ok"
      PROVE FALSE
  BY <1>0, <1>1 DEF Move, RunTypes
<1>2. ASSUME NEW k \in Key, NEW q \in Run,
             Claim(k, q) \/ Crash(k, q) \/ Fail(k, q) \/ Ends(k, q)
      PROVE FALSE
  <2>1. CASE Claim(k, q)
    <3>1. CASE k[1] \in Aggregate
      BY <1>1, <2>1, <3>1 DEF Claim
    <3>2. CASE k[1] \notin Aggregate
      BY <1>1, <2>1, <3>2 DEF Claim
    <3> QED BY <3>1, <3>2
  <2>2. CASE Crash(k, q) \/ Fail(k, q) \/ Ends(k, q)
    <3>1. Move(k, q, "idle")
      BY <2>2 DEF Crash, Fail, Ends, Complete, Defer, Return
    <3> QED BY <1>1, <3>1
  <2> QED
    BY <1>2, <2>1, <2>2
<1>3. ASSUME NEW t \in Stage, NEW q \in Photo, NEW n \in Run, Handle(t, q, n)
      PROVE Handle(s, p, r)
  <2>1. PICK to \in Position : Move(<<t, q>>, n, to)
    BY <1>0, <1>3 DEF Handle, ReadFile, Write, WriteMissing, WriteGone, PhotoTypes, Position
  <2>2. t = s /\ q = p /\ n = r
    <3>1. <<t, q>> \in Key
      BY KeyFacts
    <3> QED
      BY <1>0, <2>1, <3>1 DEF Move, RunTypes
  <2> QED
    BY <1>3, <2>2
<1>4. ASSUME NEW a \in Aggregate, NEW n \in Run, Aggregation(a, n) \/ Rebuild(n)
      PROVE FALSE
  <2>1. \E b \in Aggregate : \E to : Move(KeyOf(b), n, to)
    BY <1>4 DEF Aggregation, Count, Load, Store, Rebuild
  <2> QED
    BY <1>1, <2>1, KeyFacts
<1>5. ASSUME NEW n \in Run, Rebuild(n) PROVE FALSE
  BY <1>4, <1>5 DEF Rebuild
<1>6. CASE UNCHANGED pc
  BY <1>6
<1>7. ASSUME NEW c \in Client, Call(c) \/ Process(c) \/ CutShort(c) PROVE UNCHANGED pc
  BY <1>7 DEF Call, Process, List, EnqueuePage, EnqueueAggregates, CutShort, runVars
<1>8. ASSUME NEW q \in Photo, Vanish(q) \/ Discover(q) PROVE UNCHANGED pc
  BY <1>8 DEF Vanish, Discover, runVars
<1>9. ASSUME NEW k \in Key, Reap(k) PROVE UNCHANGED pc
  BY <1>9 DEF Reap, runVars
<1>10. CASE UNCHANGED vars
  BY <1>6, <1>10 DEF vars, runVars
<1> QED
  BY <1>2, <1>3, <1>4, <1>5, <1>6, <1>7, <1>8, <1>9, <1>10 DEF Next, Folder

\* A row succeeds only by the report of a run of it that is ready.
LEMMA SucceedStep ==
    ASSUME TypeOK, [Next]_vars, NEW k \in Key,
           status'[k] = "succeeded", status[k] # "succeeded"
    PROVE  \E r \in Run : r \in takers[k] /\ pc[k][r] = "ok"
<1> DEFINE Goal == \E r \in Run : r \in takers[k] /\ pc[k][r] = "ok"
<1>0. QueueTypes
  BY TypeParts
<1>1. CASE UNCHANGED status
  BY <1>1
<1>2. ASSUME NEW j \in Key, NEW st, Release(j, st), st # "succeeded" PROVE FALSE
  BY <1>0, <1>2 DEF Release, QueueTypes
<1>3. ASSUME NEW j \in Key, NEW r \in Run, Complete(j, r) PROVE Goal
  <2>1. CASE j = k
    <3>1. Reported(k, r, "succeeded")
      BY <1>1, <1>3, <2>1 DEF Complete, Refused
    <3> QED
      BY <1>3, <2>1, <3>1 DEF Complete, Reported
  <2>2. CASE j # k
    BY <1>0, <1>3, <2>2 DEF Complete, Reported, Refused, Release, QueueTypes
  <2> QED BY <2>1, <2>2
<1>4. ASSUME NEW j \in Key, NEW r \in Run, Fail(j, r) \/ Defer(j, r) PROVE FALSE
  <2>1. \/ UNCHANGED status
        \/ \E st \in {"pending", "dead"} : Release(j, st)
    BY <1>4 DEF Fail, Defer, Reported, Refused, Unsuccessful
  <2> QED BY <1>2, <2>1
<1>5. ASSUME NEW j \in Key, Reap(j) PROVE FALSE
  <2>1. \E st \in {"pending", "dead"} : Release(j, st)
    BY <1>5 DEF Reap, Unsuccessful
  <2> QED BY <1>2, <2>1
<1>6. ASSUME NEW j \in Key, NEW r \in Run, Claim(j, r) PROVE FALSE
  BY <1>0, <1>6 DEF Claim, QueueTypes
<1>7. ASSUME NEW j \in Key, NEW r \in Run, Crash(j, r) PROVE FALSE
  BY <1>7 DEF Crash
<1>8. ASSUME NEW c \in Client, Call(c) \/ Process(c) \/ CutShort(c) PROVE FALSE
  BY <1>8 DEF Call, Process, List, EnqueuePage, EnqueueAggregates, Enqueue, CutShort, queueVars
<1>9. ASSUME NEW q \in Photo, Vanish(q) \/ Discover(q) PROVE FALSE
  BY <1>9 DEF Vanish, Discover, queueVars
<1>10. ASSUME NEW s \in Stage, NEW q \in Photo, NEW n \in Run, Handle(s, q, n) PROVE FALSE
  BY <1>10 DEF Handle, ReadFile, Write, WriteMissing, WriteGone, queueVars
<1>11. ASSUME NEW a \in Aggregate, NEW n \in Run, Aggregation(a, n) PROVE FALSE
  BY <1>11 DEF Aggregation, Count, Load, Store, queueVars
<1>12. ASSUME NEW n \in Run, Rebuild(n) PROVE FALSE
  BY <1>12 DEF Rebuild, queueVars
<1>13. CASE UNCHANGED vars
  BY <1>1, <1>13 DEF vars, queueVars
<1> QED
  BY <1>3, <1>4, <1>5, <1>6, <1>7, <1>8, <1>9, <1>10, <1>11, <1>12, <1>13
     DEF Next, Folder, Ends

\* What a per-photo handler leaves when it is through.
LEMMA HandleMarks ==
    ASSUME TypeOK, NEW s \in Stage, NEW p \in Photo, NEW r \in Run,
           Handle(s, p, r), pc'[<<s, p>>][r] = "ok"
    PROVE  column'[s][p] # "unset"
<1>0. RunTypes /\ PhotoTypes /\ <<s, p>> \in Key /\ s \in AllStages
  BY TypeParts, KeyFacts, InstanceAssumption
<1>1. CASE ReadFile(s, p, r)
  BY <1>0, <1>1 DEF ReadFile, Move, RunTypes, PhotoTypes
<1>2. CASE Write(s, p, r)
  <2> DEFINE v == Result(s, p, pc[<<s, p>>][r])
  <2>1. v \in {"none", "value"}
    BY ResultType
  <2>2. column' = [column EXCEPT ![s][p] = v]
    BY <1>2 DEF Write
  <2> HIDE DEF v
  <2> QED
    BY <1>0, <2>1, <2>2 DEF PhotoTypes
<1>3. CASE WriteMissing(s, p, r)
  BY <1>0, <1>3 DEF WriteMissing, Move, RunTypes, PhotoTypes
<1>4. CASE WriteGone(s, p, r)
  <2>1. Result(s, p, "gone") \in {"none", "value"}
    BY ResultType
  <2> QED
    BY <1>0, <1>4, <2>1 DEF WriteGone, PhotoTypes
<1> QED
  BY <1>1, <1>2, <1>3, <1>4 DEF Handle

LEMMA MarkedStep ==
    ASSUME TypeOK, Marked, [Next]_vars
    PROVE  Marked'
<1> SUFFICES ASSUME NEW s \in Stage, NEW p \in Photo,
                    \/ status'[<<s, p>>] = "succeeded"
                    \/ \E r \in Run : pc'[<<s, p>>][r] = "ok"
             PROVE  column'[s][p] # "unset"
  BY DEF Marked
<1>0. <<s, p>> \in Key
  BY KeyFacts
<1>1. CASE status[<<s, p>>] = "succeeded" \/ \E r \in Run : pc[<<s, p>>][r] = "ok"
  BY <1>1, MarksStay DEF Marked
<1>2. CASE /\ status[<<s, p>>] # "succeeded"
           /\ \A r \in Run : pc[<<s, p>>][r] # "ok"
  <2>1. \E r \in Run : pc'[<<s, p>>][r] = "ok"
    BY <1>0, <1>2, SucceedStep
  <2>2. PICK r \in Run : pc'[<<s, p>>][r] = "ok"
    BY <2>1
  <2> QED
    BY <1>2, <2>2, OkStep, HandleMarks
<1> QED
  BY <1>1, <1>2

\* Every stage that succeeded has left its mark, for any photos and stages.
THEOREM MarksAreLeft == Spec => []SucceededIsMarked
<1>1. Init => Marked
  BY KeyFacts DEF Init, Marked
<1>2. TypeOK /\ Marked /\ [Next]_vars => Marked'
  BY MarkedStep
<1>3. Marked => SucceededIsMarked
  BY DEF Marked, SucceededIsMarked
<1> QED
  BY <1>1, <1>2, <1>3, PipelineTypes, PTL DEF Spec

-----------------------------------------------------------------------------
(* Rebuilds and their prerequisites *)

\* What an aggregate waits for is outstanding: once such a job ends, or ends
\* and is queued again, it is waited for no more.
WaitsOpen == \A a \in Aggregate : \A k \in waits[a] : Outstanding(k)

\* The strengthening: a run of the newest row that is still counting has yet
\* to count every prerequisite it waits for.
Uncounted ==
    \A a \in Aggregate : \A r \in takers[KeyOf(a)] : \A k \in waits[a] :
        k[1] \in PrereqSet(a) =>
            /\ pc[KeyOf(a)][r] \notin {"checked", "loaded", "ok"}
            /\ pc[KeyOf(a)][r] = "counting" =>
                  \E i \in 1..Len(todo[a][r]) : todo[a][r][i] = k[1]

\* What is waited for shrinks, but for a new row, which nobody has taken; and
\* it stays outstanding.
LEMMA WaitsStep ==
    ASSUME TypeOK, WaitsOpen, [Next]_vars, NEW a \in Aggregate
    PROVE  /\ waits'[a] \subseteq waits[a] \/ takers'[KeyOf(a)] = {}
           /\ \A k \in waits'[a] : Outstanding(k)'
<1> DEFINE Goal == /\ waits'[a] \subseteq waits[a] \/ takers'[KeyOf(a)] = {}
                   /\ \A k \in waits'[a] : Outstanding(k)'
<1>0. /\ QueueTypes
      /\ KeyOf(a) \in Key
      /\ \A k \in waits[a] : k \in Key /\ k # KeyOf(a) /\ Outstanding(k)
      /\ Stage \X Photo \subseteq Key
  <2>1. QueueTypes
    BY TypeParts
  <2> QED
    BY <2>1, KeyFacts DEF QueueTypes, WaitsOpen, Key
<1>1. CASE UNCHANGED <<status, waits>>
  BY <1>0, <1>1 DEF Outstanding
<1>2. ASSUME NEW K, Enqueue(K) PROVE Goal
  <2>1. CASE KeyOf(a) \in Fresh(K)
    BY <1>0, <1>2, <2>1 DEF Enqueue, Fresh, Outstanding, QueueTypes
  <2>2. CASE KeyOf(a) \notin Fresh(K)
    BY <1>0, <1>2, <2>2 DEF Enqueue, Fresh, Outstanding, QueueTypes
  <2> QED
    BY <2>1, <2>2
<1>3. ASSUME NEW j \in Key, NEW st \in {"pending", "succeeded", "dead"}, Release(j, st)
      PROVE Goal
  BY <1>0, <1>3 DEF Release, Outstanding, QueueTypes
<1>4. ASSUME NEW j \in Key, NEW r \in Run, Claim(j, r) PROVE Goal
  BY <1>0, <1>4 DEF Claim, Outstanding, QueueTypes
<1>5. ASSUME NEW j \in Key, Reap(j) PROVE Goal
  <2>1. \E st \in {"pending", "dead"} : Release(j, st)
    BY <1>5 DEF Reap, Unsuccessful
  <2> QED
    BY <1>3, <2>1
<1>6. ASSUME NEW j \in Key, NEW r \in Run, Crash(j, r) \/ Fail(j, r) \/ Ends(j, r) PROVE Goal
  <2>1. \/ UNCHANGED <<status, waits>>
        \/ \E st \in {"pending", "succeeded", "dead"} : Release(j, st)
    BY <1>6 DEF Crash, Fail, Ends, Complete, Defer, Reported, Refused, Unsuccessful
  <2> QED
    BY <1>1, <1>3, <2>1
<1>7. ASSUME NEW c \in Client, Call(c) \/ Process(c) \/ CutShort(c) PROVE Goal
  <2>1. UNCHANGED <<status, waits>> \/ \E K : Enqueue(K)
    BY <1>7 DEF Call, Process, List, EnqueuePage, EnqueueAggregates, CutShort, queueVars
  <2> QED
    BY <1>1, <1>2, <2>1
<1>8. ASSUME NEW q \in Photo, Vanish(q) \/ Discover(q) PROVE Goal
  BY <1>1, <1>8 DEF Vanish, Discover, queueVars
<1>9. ASSUME NEW s \in Stage, NEW q \in Photo, NEW n \in Run, Handle(s, q, n) PROVE Goal
  BY <1>1, <1>9 DEF Handle, ReadFile, Write, WriteMissing, WriteGone, queueVars
<1>10. ASSUME NEW b \in Aggregate, NEW n \in Run, Aggregation(b, n) PROVE Goal
  BY <1>1, <1>10 DEF Aggregation, Count, Load, Store, queueVars
<1>11. ASSUME NEW n \in Run, Rebuild(n) PROVE Goal
  BY <1>1, <1>11 DEF Rebuild, queueVars
<1>12. CASE UNCHANGED vars
  BY <1>1, <1>12 DEF vars, queueVars
<1> QED
  BY <1>4, <1>5, <1>6, <1>7, <1>8, <1>9, <1>10, <1>11, <1>12 DEF Next, Folder

\* How a run of an aggregate moves, and who becomes one of its takers.
LEMMA AggregateStep ==
    ASSUME TypeOK, TodoLeft, [Next]_vars, NEW a \in Aggregate, NEW r \in Run
    PROVE  \/ Claim(KeyOf(a), r)
           \/ Count(a, r)
           \/ /\ r \in takers'[KeyOf(a)] => r \in takers[KeyOf(a)]
              /\ \/ pc'[KeyOf(a)][r] = pc[KeyOf(a)][r] /\ todo'[a][r] = todo[a][r]
                 \/ pc'[KeyOf(a)][r] = "idle"
                 \/ Load(a, r) \/ Store(a, r) \/ (a = "duplicates" /\ Rebuild(r))
<1> DEFINE Kept == r \in takers'[KeyOf(a)] => r \in takers[KeyOf(a)]
           Same == pc'[KeyOf(a)][r] = pc[KeyOf(a)][r] /\ todo'[a][r] = todo[a][r]
           Idle == pc'[KeyOf(a)][r] = "idle"
           Built == Load(a, r) \/ Store(a, r) \/ (a = "duplicates" /\ Rebuild(r))
           Goal == \/ Claim(KeyOf(a), r)
                   \/ Count(a, r)
                   \/ Kept /\ (Same \/ Idle \/ Built)
<1>0. QueueTypes /\ RunTypes /\ KeyOf(a) \in Key
  BY TypeParts, KeyFacts
<1>1. ASSUME UNCHANGED <<pc, todo>>, UNCHANGED takers \/ \E K : Enqueue(K) PROVE Goal
  <2>1. Kept
    BY <1>0, <1>1 DEF Enqueue, QueueTypes
  <2> QED
    BY <1>1, <2>1
<1>2. ASSUME NEW j \in Key, NEW n \in Run, Claim(j, n) PROVE Goal
  <2>1. CASE j = KeyOf(a) /\ n = r
    BY <1>2, <2>1
  <2>2. CASE j # KeyOf(a) \/ n # r
    <3>1. Kept /\ pc'[KeyOf(a)][r] = pc[KeyOf(a)][r]
      BY <1>0, <1>2, <2>2 DEF Claim, Move, QueueTypes, RunTypes
    <3>2. todo'[a][r] = todo[a][r]
      BY <1>0, <1>2, <2>2 DEF Claim, RunTypes
    <3> QED
      BY <3>1, <3>2
  <2> QED
    BY <2>1, <2>2
<1>3. ASSUME NEW j \in Key, NEW n \in Run, Crash(j, n) \/ Fail(j, n) \/ Ends(j, n) PROVE Goal
  <2>1. Return(j, n)
    BY <1>3 DEF Crash, Fail, Ends, Complete, Defer
  <2>2. Kept
    BY <1>0, <2>1 DEF Return, QueueTypes
  <2>3. Same \/ Idle
    BY <1>0, <2>1 DEF Return, Move, RunTypes
  <2> QED
    BY <2>2, <2>3
<1>4. ASSUME NEW j \in Key, Reap(j) PROVE Goal
  BY <1>1, <1>4 DEF Reap, runVars
<1>5. ASSUME NEW c \in Client, Call(c) \/ Process(c) \/ CutShort(c) PROVE Goal
  BY <1>1, <1>5 DEF Call, Process, List, EnqueuePage, EnqueueAggregates, CutShort,
     queueVars, runVars
<1>6. ASSUME NEW q \in Photo, Vanish(q) \/ Discover(q) PROVE Goal
  BY <1>1, <1>6 DEF Vanish, Discover, queueVars, runVars
<1>7. ASSUME NEW s \in Stage, NEW q \in Photo, NEW n \in Run, Handle(s, q, n) PROVE Goal
  <2>1. /\ \E to : Move(<<s, q>>, n, to)
        /\ UNCHANGED <<todo, takers>>
    BY <1>7 DEF Handle, ReadFile, Write, WriteMissing, WriteGone, queueVars
  <2> QED
    BY <1>0, <2>1, KeyFacts DEF Move, RunTypes
<1>8. ASSUME NEW b \in Aggregate, NEW n \in Run, Aggregation(b, n) PROVE Goal
  <2>0. UNCHANGED takers
    BY <1>8 DEF Aggregation, Count, Load, Store, queueVars
  <2>1. CASE b = a /\ n = r
    <3>1. CASE Count(b, n)
      BY <2>1, <3>1
    <3>2. CASE Load(b, n) \/ Store(b, n)
      BY <2>0, <2>1, <3>2
    <3> QED
      BY <1>8, <3>1, <3>2 DEF Aggregation
  <2>2. CASE b # a \/ n # r
    <3>1. \E to : Move(KeyOf(b), n, to)
      BY <1>8 DEF Aggregation, Count, Load, Store
    <3>2. pc'[KeyOf(a)][r] = pc[KeyOf(a)][r]
      BY <1>0, <2>2, <3>1, KeyFacts DEF Move, RunTypes
    <3>3. todo'[a][r] = todo[a][r]
      BY <1>0, <1>8, <2>2 DEF Aggregation, Count, Load, Store, RunTypes
    <3> QED
      BY <2>0, <3>2, <3>3
  <2> QED
    BY <2>1, <2>2
<1>9. ASSUME NEW n \in Run, Rebuild(n) PROVE Goal
  <2>1. /\ UNCHANGED <<todo, takers>>
        /\ "duplicates" \in Aggregate
        /\ pc' = [pc EXCEPT ![KeyOf("duplicates")][n] = "ok"]
    BY <1>9 DEF Rebuild, Move, queueVars
  <2>2. CASE a = "duplicates" /\ n = r
    BY <1>9, <2>1, <2>2
  <2>3. CASE ~(a = "duplicates" /\ n = r)
    BY <1>0, <2>1, <2>3, KeyFacts DEF RunTypes
  <2> QED
    BY <2>2, <2>3
<1>10. CASE UNCHANGED vars
  BY <1>1, <1>10 DEF vars, queueVars, runVars
<1> QED
  BY <1>2, <1>3, <1>4, <1>5, <1>6, <1>7, <1>8, <1>9, <1>10 DEF Next, Folder

\* The strengthening is inductive.
LEMMA UncountedStep ==
    ASSUME TypeOK, TodoLeft, WaitsOpen, Uncounted, [Next]_vars
    PROVE  WaitsOpen' /\ Uncounted'
<1>1. WaitsOpen'
  BY WaitsStep DEF WaitsOpen
<1>2. Uncounted'
  <2> SUFFICES ASSUME NEW a \in Aggregate, NEW r \in takers'[KeyOf(a)],
                      NEW k \in waits'[a], k[1] \in PrereqSet(a)
               PROVE  /\ pc'[KeyOf(a)][r] \notin {"checked", "loaded", "ok"}
                      /\ pc'[KeyOf(a)][r] = "counting" =>
                            \E i \in 1..Len(todo'[a][r]) : todo'[a][r][i] = k[1]
    BY DEF Uncounted
  <2>0. /\ QueueTypes /\ RunTypes /\ KeyOf(a) \in Key /\ KeyOf(a)[1] = a
        /\ r \in Run /\ k \in waits[a] /\ Outstanding(k)
    <3>1. QueueTypes /\ RunTypes /\ QueueTypes' /\ KeyOf(a) \in Key /\ KeyOf(a)[1] = a
      BY TypeParts, QueueStep, KeyFacts
    <3>2. r \in Run
      BY <3>1 DEF QueueTypes
    <3>3. k \in waits[a]
      BY WaitsStep
    <3> QED
      BY <3>1, <3>2, <3>3 DEF WaitsOpen
  <2>1. CASE Claim(KeyOf(a), r)
    <3>1. pc'[KeyOf(a)][r] = "counting" /\ todo'[a][r] = Prereqs(a)
      BY <2>0, <2>1 DEF Claim, Move, RunTypes
    <3>2. \E i \in 1..Len(Prereqs(a)) : Prereqs(a)[i] = k[1]
      BY PrereqFacts DEF PrereqSet
    <3> QED
      BY <3>1, <3>2
  <2>2. CASE Count(a, r)
    <3>1. /\ r \in takers[KeyOf(a)]
          /\ pc[KeyOf(a)][r] = "counting"
      BY <2>2 DEF Count, queueVars
    <3>2. PICK i \in 1..Len(todo[a][r]) : todo[a][r][i] = k[1]
      BY <2>0, <3>1 DEF Uncounted
    <3>3. CASE Remaining(Head(todo[a][r])) # {}
      BY <2>0, <2>2, <3>3 DEF Count, Move, RunTypes
    <3>4. CASE Remaining(Head(todo[a][r])) = {}
      <4>1. todo[a][r] \in Seq(AllStages) /\ todo[a][r] # <<>>
        BY <2>0, <3>1 DEF TodoLeft, RunTypes
      <4>2. k[1] # Head(todo[a][r])
        <5>1. k[1] \in Stage /\ k[2] \in Photo /\ k = <<k[1], k[2]>>
          BY <2>0 DEF QueueTypes
        <5>2. k[2] \in Remaining(k[1])
          BY <2>0, <5>1 DEF Remaining
        <5> QED
          BY <3>4, <5>2
      <4>3. \E j \in 1..Len(Tail(todo[a][r])) : Tail(todo[a][r])[j] = k[1]
        BY <3>2, <4>1, <4>2, TailFacts
      <4>4. Len(todo[a][r]) # 1
        <5>1. ASSUME Len(todo[a][r]) = 1 PROVE FALSE
          BY <3>2, <4>1, <4>2, <5>1
        <5> QED
          BY <5>1
      <4>5. pc'[KeyOf(a)][r] = "counting" /\ todo'[a][r] = Tail(todo[a][r])
        <5>1. /\ pc' = [pc EXCEPT ![KeyOf(a)][r] = "counting"]
              /\ todo' = [todo EXCEPT ![a][r] = Tail(todo[a][r])]
          <6>1. ~(Len(todo[a][r]) = 1)
            BY <4>4
          <6>2. todo' = [todo EXCEPT ![a][r] = Tail(todo[a][r])]
            BY <2>0, <2>2, <3>4 DEF Count, RunTypes
          <6> QED
            BY <2>2, <3>4, <6>1, <6>2 DEF Count, Move
        <5> QED
          BY <2>0, <5>1 DEF RunTypes
      <4> QED
        BY <4>3, <4>5
    <3> QED
      BY <3>3, <3>4
  <2>3. CASE /\ r \in takers[KeyOf(a)]
             /\ \/ pc'[KeyOf(a)][r] = pc[KeyOf(a)][r] /\ todo'[a][r] = todo[a][r]
                \/ pc'[KeyOf(a)][r] = "idle"
    BY <2>0, <2>3 DEF Uncounted
  <2>4. CASE /\ r \in takers[KeyOf(a)]
             /\ Load(a, r) \/ Store(a, r) \/ (a = "duplicates" /\ Rebuild(r))
    <3>1. pc[KeyOf(a)][r] \in {"checked", "loaded"}
      BY <2>4 DEF Load, Store, Rebuild
    <3> QED
      BY <2>0, <2>4, <3>1 DEF Uncounted
  <2> QED
    BY <2>0, <2>1, <2>2, <2>3, <2>4, AggregateStep
<1> QED
  BY <1>1, <1>2

\* No rebuild starts before a prerequisite it was queued behind has ended, for
\* any photos, calls, retries and stale goroutines.
THEOREM RebuildsWait == Spec => []RebuildWaits
<1>1. Init => WaitsOpen /\ Uncounted
  BY KeyFacts DEF Init, WaitsOpen, Uncounted
<1>2. TypeOK /\ TodoLeft /\ (WaitsOpen /\ Uncounted) /\ [Next]_vars
      => (WaitsOpen /\ Uncounted)'
  BY UncountedStep
<1>3. Uncounted => RebuildWaits
  BY DEF Uncounted, RebuildWaits
<1> QED
  BY <1>1, <1>2, <1>3, TypesAlways, PTL DEF Spec
-----------------------------------------------------------------------------
(* What the groups were built from *)

\* Under these two conditions no call interleaves with a rebuild, and a rebuild
\* that loads before it stores is its row's only one. Without the first, and
\* without the second, TLC shows groups that are not complete.
Orderly == Patient /\ Aggregate \cap Stalling \subseteq {"duplicates"}

\* A handler has read the file as it is, unless it was deleted since.
HandlerReads ==
    \A s \in Stage, p \in Photo, r \in Run :
        /\ pc[<<s, p>>][r] = "image" => disk[p] \in {"image", "gone"}
        /\ pc[<<s, p>>][r] = "garbage" => disk[p] \in {"garbage", "gone"}
        /\ pc[<<s, p>>][r] \in {"gone", "half"} => disk[p] = "gone"

\* What a column says of the file, and that other stages are not run.
Columns ==
    \A s \in AllStages, p \in Photo :
        /\ column[s][p] = "value" => s \in Stage /\ (disk[p] \in {"image", "gone"} \/ s = "hash")
        /\ column[s][p] = "none" => disk[p] = "gone" \/ (disk[p] = "garbage" /\ s # "hash")

\* What photos.state says of the file.
States ==
    \A p \in Photo :
        /\ state[p] = "missing" => disk[p] = "gone"
        /\ state[p] = "failed" => disk[p] # "image"

PhotoInv == HandlerReads /\ Columns /\ States

\* Only photos that scans have inserted are queued.
Recorded ==
    /\ \A s \in Stage, p \in Photo : status[<<s, p>>] # "none" => p \in known
    /\ \A c \in Client : ids[c] \subseteq known

LEMMA ResultValues ==
    ASSUME NEW s, NEW p, NEW read
    PROVE  /\ Result(s, p, read) = "value" =>
                  read = "image" \/ s = "hash" \/ column[s][p] = "value"
           /\ Result(s, p, read) = "none" => read # "image" /\ ~(read = "garbage" /\ s = "hash")
BY DEF Result

LEMMA PhotoInvInit == Init => PhotoInv /\ Recorded
<1> SUFFICES ASSUME Init PROVE PhotoInv /\ Recorded
  OBVIOUS
<1>1. HandlerReads
  BY KeyFacts DEF Init, HandlerReads
<1>2. Columns /\ States
  BY DEF Init, Columns, States
<1>3. Recorded
  BY KeyFacts DEF Init, Recorded
<1> QED
  BY <1>1, <1>2, <1>3 DEF PhotoInv

\* How a goroutine of a per-photo job moves outside of its handler.
LEMMA HandlerMoves ==
    ASSUME TypeOK, [Next]_vars, NEW s \in Stage, NEW p \in Photo, NEW r \in Run
    PROVE  \/ pc'[<<s, p>>][r] \in {pc[<<s, p>>][r], "claimed", "idle"}
           \/ Handle(s, p, r)
<1> DEFINE Goal == \/ pc'[<<s, p>>][r] \in {pc[<<s, p>>][r], "claimed", "idle"}
                   \/ Handle(s, p, r)
<1>0. RunTypes /\ PhotoTypes /\ <<s, p>> \in Key /\ s \notin Aggregate
  BY TypeParts, KeyFacts
<1>1. ASSUME NEW k \in Key, NEW n \in Run, NEW to, Move(k, n, to),
             k # <<s, p>> \/ to \in {"claimed", "idle"}
      PROVE Goal
  BY <1>0, <1>1 DEF Move, RunTypes
<1>2. ASSUME NEW k \in Key, NEW n \in Run,
             Claim(k, n) \/ Crash(k, n) \/ Fail(k, n) \/ Ends(k, n)
      PROVE Goal
  <2>1. CASE Claim(k, n)
    <3>1. CASE k[1] \in Aggregate
      BY <1>0, <1>1, <2>1, <3>1 DEF Claim
    <3>2. CASE k[1] \notin Aggregate
      BY <1>1, <2>1, <3>2 DEF Claim
    <3> QED BY <3>1, <3>2
  <2>2. CASE Crash(k, n) \/ Fail(k, n) \/ Ends(k, n)
    <3>1. Move(k, n, "idle")
      BY <2>2 DEF Crash, Fail, Ends, Complete, Defer, Return
    <3> QED BY <1>1, <3>1
  <2> QED
    BY <1>2, <2>1, <2>2
<1>3. ASSUME NEW t \in Stage, NEW q \in Photo, NEW n \in Run, Handle(t, q, n)
      PROVE Goal
  <2>1. PICK to \in Position : Move(<<t, q>>, n, to)
    BY <1>0, <1>3 DEF Handle, ReadFile, Write, WriteMissing, WriteGone, PhotoTypes, Position
  <2>2. CASE t = s /\ q = p /\ n = r
    BY <1>3, <2>2
  <2>3. CASE ~(t = s /\ q = p /\ n = r)
    <3>1. <<t, q>> \in Key
      BY KeyFacts
    <3> QED
      BY <1>0, <2>1, <2>3, <3>1 DEF Move, RunTypes
  <2> QED
    BY <2>2, <2>3
<1>4. ASSUME NEW a \in Aggregate, NEW n \in Run, Aggregation(a, n) PROVE Goal
  <2>1. \E to : Move(KeyOf(a), n, to)
    BY <1>4 DEF Aggregation, Count, Load, Store
  <2> QED
    BY <1>1, <2>1, KeyFacts
<1>5. ASSUME NEW n \in Run, Rebuild(n) PROVE Goal
  <2>1. "duplicates" \in Aggregate /\ Move(KeyOf("duplicates"), n, "ok")
    BY <1>5 DEF Rebuild
  <2> QED
    BY <1>1, <2>1, KeyFacts
<1>6. CASE UNCHANGED pc
  BY <1>6
<1>7. ASSUME NEW c \in Client, Call(c) \/ Process(c) \/ CutShort(c) PROVE UNCHANGED pc
  BY <1>7 DEF Call, Process, List, EnqueuePage, EnqueueAggregates, CutShort, runVars
<1>8. ASSUME NEW q \in Photo, Vanish(q) \/ Discover(q) PROVE UNCHANGED pc
  BY <1>8 DEF Vanish, Discover, runVars
<1>9. ASSUME NEW k \in Key, Reap(k) PROVE UNCHANGED pc
  BY <1>9 DEF Reap, runVars
<1>10. CASE UNCHANGED vars
  BY <1>6, <1>10 DEF vars, runVars
<1> QED
  BY <1>2, <1>3, <1>4, <1>5, <1>6, <1>7, <1>8, <1>9, <1>10 DEF Next, Folder

\* Files do not change, but for being deleted.
LEMMA DiskStays ==
    ASSUME TypeOK, [Next]_vars, NEW p \in Photo
    PROVE  disk'[p] \in {disk[p], "gone"}
<1>0. PhotoTypes
  BY TypeParts
<1>1. ASSUME NEW s \in Stage, NEW q \in Photo, NEW r \in Run, Handle(s, q, r)
      PROVE UNCHANGED disk
  BY <1>1 DEF Handle, ReadFile, Write, WriteMissing, WriteGone, photoVars
<1>2. ASSUME NEW q \in Photo, Vanish(q) \/ Discover(q) PROVE UNCHANGED disk \/ Vanish(q)
  BY <1>2 DEF Discover
<1>3. ASSUME NEW k \in Key, NEW r \in Run,
             Claim(k, r) \/ Crash(k, r) \/ Fail(k, r) \/ Ends(k, r)
      PROVE UNCHANGED disk
  <2>1. CASE Claim(k, r)
    BY <2>1 DEF Claim, photoVars
  <2>2. CASE Crash(k, r) \/ Fail(k, r)
    BY <2>2 DEF Crash, Fail, Return, photoVars
  <2>3. CASE Ends(k, r)
    BY <2>3 DEF Ends, Complete, Defer, Return, photoVars
  <2> QED
    BY <1>3, <2>1, <2>2, <2>3
<1>4. ASSUME NEW a \in Aggregate, NEW r \in Run, Aggregation(a, r)
      PROVE UNCHANGED disk
  BY <1>4 DEF Aggregation, Count, Load, Store, photoVars
<1>5. ASSUME NEW c \in Client, Call(c) \/ Process(c) \/ CutShort(c) PROVE UNCHANGED disk
  BY <1>5 DEF Call, CutShort, Process, List, EnqueuePage, EnqueueAggregates, photoVars
<1>6. ASSUME NEW k \in Key, Reap(k) PROVE UNCHANGED disk
  BY <1>6 DEF Reap, photoVars
<1>7. ASSUME UNCHANGED vars PROVE UNCHANGED disk
  BY <1>7 DEF vars, photoVars
<1>8. ASSUME NEW r \in Run, Rebuild(r) PROVE UNCHANGED disk
  BY <1>8 DEF Rebuild, photoVars
<1>9. UNCHANGED disk \/ \E q \in Photo : Vanish(q)
  BY <1>1, <1>2, <1>3, <1>4, <1>5, <1>6, <1>7, <1>8 DEF Next, Folder
<1> QED
  BY <1>0, <1>9 DEF Vanish, PhotoTypes

LEMMA HandlerReadsStep ==
    ASSUME TypeOK, PhotoInv, [Next]_vars
    PROVE  HandlerReads'
<1> SUFFICES ASSUME NEW s \in Stage, NEW p \in Photo, NEW r \in Run
             PROVE  /\ pc'[<<s, p>>][r] = "image" => disk'[p] \in {"image", "gone"}
                    /\ pc'[<<s, p>>][r] = "garbage" => disk'[p] \in {"garbage", "gone"}
                    /\ pc'[<<s, p>>][r] \in {"gone", "half"} => disk'[p] = "gone"
  BY DEF HandlerReads
<1>0. /\ RunTypes /\ PhotoTypes /\ <<s, p>> \in Key
      /\ disk'[p] \in {disk[p], "gone"}
  BY TypeParts, KeyFacts, DiskStays
<1>1. CASE pc'[<<s, p>>][r] \in {pc[<<s, p>>][r], "claimed", "idle"}
  BY <1>0, <1>1 DEF PhotoInv, HandlerReads
<1>2. CASE Handle(s, p, r)
  <2>1. CASE ReadFile(s, p, r)
    <3>1. pc'[<<s, p>>][r] = disk[p] /\ UNCHANGED disk
      BY <1>0, <2>1 DEF ReadFile, Move, RunTypes, photoVars
    <3> QED
      BY <1>0, <3>1 DEF PhotoTypes
  <2>2. CASE Write(s, p, r) \/ WriteGone(s, p, r)
    <3>1. pc'[<<s, p>>][r] = "ok"
      BY <1>0, <2>2 DEF Write, WriteGone, Move, RunTypes
    <3> QED
      BY <3>1
  <2>3. CASE WriteMissing(s, p, r)
    <3>1. pc'[<<s, p>>][r] \in {"ok", "half"} /\ pc[<<s, p>>][r] = "gone"
      BY <1>0, <2>3 DEF WriteMissing, Move, RunTypes
    <3> QED
      BY <1>0, <3>1 DEF PhotoInv, HandlerReads
  <2> QED
    BY <1>2, <2>1, <2>2, <2>3 DEF Handle
<1> QED
  BY <1>1, <1>2, HandlerMoves

LEMMA ColumnsStep ==
    ASSUME TypeOK, PhotoInv, [Next]_vars
    PROVE  Columns' /\ States'
<1> DEFINE Value(t, q, v, d) ==
              /\ v = "value" => t \in Stage /\ (d \in {"image", "gone"} \/ t = "hash")
              /\ v = "none" => d = "gone" \/ (d = "garbage" /\ t # "hash")
<1>0. /\ PhotoTypes /\ Stage \subseteq AllStages
      /\ \A p \in Photo : disk'[p] \in {disk[p], "gone"}
      /\ \A t \in AllStages, q \in Photo : Value(t, q, column[t][q], disk[q])
      /\ States
      /\ "metadata" \in AllStages
  BY TypeParts, InstanceAssumption, DiskStays, FanOutFacts DEF PhotoInv, Columns
<1>1. CASE UNCHANGED <<column, state>>
  BY <1>0, <1>1 DEF Columns, States
<1>2. ASSUME NEW s \in Stage, NEW p \in Photo, NEW r \in Run,
             Write(s, p, r) \/ WriteMissing(s, p, r) \/ WriteGone(s, p, r)
      PROVE Columns' /\ States'
  <2>1. UNCHANGED disk
    BY <1>2 DEF Write, WriteMissing, WriteGone
  <2>2. ASSUME NEW t \in AllStages, NEW v, column' = [column EXCEPT ![t][p] = v],
               Value(t, p, v, disk[p])
        PROVE Columns'
    <3> SUFFICES ASSUME NEW u \in AllStages, NEW q \in Photo
                 PROVE  Value(u, q, column'[u][q], disk[q])
      BY <2>1 DEF Columns
    <3>1. CASE u = t /\ q = p
      BY <1>0, <2>2, <3>1 DEF PhotoTypes
    <3>2. CASE ~(u = t /\ q = p)
      <4>1. column'[u][q] = column[u][q]
        BY <1>0, <2>2, <3>2 DEF PhotoTypes
      <4> QED
        BY <1>0, <4>1
    <3> QED
      BY <3>1, <3>2
  <2>3. CASE Write(s, p, r)
    <3> DEFINE read == pc[<<s, p>>][r]
               v == Result(s, p, read)
    <3>1. /\ read \in {"image", "garbage"}
          /\ disk[p] \in {read, "gone"}
          /\ column' = [column EXCEPT ![s][p] = v]
          /\ state' = [state EXCEPT ![p] =
                    IF s = "metadata" THEN IF read = "image" THEN "processing" ELSE "failed"
                    ELSE state[p]]
      BY <1>0, <2>3 DEF Write, PhotoInv, HandlerReads, PhotoTypes
    <3>2. /\ v = "value" => read = "image" \/ s = "hash" \/ column[s][p] = "value"
          /\ v = "none" => read # "image" /\ ~(read = "garbage" /\ s = "hash")
      BY ResultValues
    <3>3. States'
      <4> HIDE DEF v, read
      <4> QED BY <1>0, <2>1, <3>1 DEF States, PhotoTypes
    <3>4. Value(s, p, v, disk[p])
      <4> HIDE DEF v, read
      <4> QED BY <1>0, <3>1, <3>2 DEF PhotoTypes
    <3>5. Columns'
      <4> HIDE DEF v, Value
      <4> QED BY <1>0, <2>2, <3>1, <3>4
    <3> QED
      BY <3>3, <3>5
  <2>4. CASE WriteMissing(s, p, r)
    <3>1. disk[p] = "gone"
      BY <2>4 DEF WriteMissing, PhotoInv, HandlerReads
    <3>2. Columns'
      BY <1>0, <2>2, <2>4, <3>1 DEF WriteMissing
    <3>3. States'
      BY <1>0, <2>1, <2>4, <3>1 DEF WriteMissing, States, PhotoTypes
    <3> QED
      BY <3>2, <3>3
  <2>5. CASE WriteGone(s, p, r)
    <3> DEFINE v == Result(s, p, "gone")
    <3>1. disk[p] = "gone" /\ column' = [column EXCEPT ![s][p] = v] /\ UNCHANGED state
      BY <2>5 DEF WriteGone, PhotoInv, HandlerReads
    <3> HIDE DEF v
    <3>2. Columns'
      BY <1>0, <2>2, <3>1
    <3>3. States'
      BY <1>0, <2>1, <3>1 DEF States
    <3> QED
      BY <3>2, <3>3
  <2> QED
    BY <1>2, <2>3, <2>4, <2>5
<1> QED
  BY <1>1, <1>2, WritesOnly

LEMMA RecordedStep ==
    ASSUME TypeOK, Listed, Recorded, [Next]_vars
    PROVE  Recorded'
<1>0. /\ PhotoTypes /\ QueueTypes /\ CallTypes
      /\ Stage \X Photo \subseteq Key
  BY TypeParts DEF Key
<1>1. CASE UNCHANGED <<status, ids, known>>
  BY <1>1 DEF Recorded
<1>2. ASSUME NEW k \in Key, NEW st, status[k] # "none",
             status' = [status EXCEPT ![k] = st], UNCHANGED <<ids, known>>
      PROVE Recorded'
  BY <1>0, <1>2 DEF Recorded, QueueTypes
<1>3. ASSUME NEW c \in Client, Call(c) \/ CutShort(c) PROVE Recorded'
  <2>1. UNCHANGED <<known, status>>
    BY <1>3 DEF Call, CutShort, photoVars, queueVars
  <2>2. ids' = ids \/ ids' = [ids EXCEPT ![c] = {}]
    BY <1>3 DEF Call, CutShort
  <2> QED
    BY <1>0, <2>1, <2>2 DEF Recorded, CallTypes
<1>4. ASSUME NEW c \in Client, List(c) PROVE Recorded'
  <2> DEFINE found == Needing(FanOut[step[c]])
  <2>1. /\ found \subseteq known
        /\ ids' = [ids EXCEPT ![c] = found] /\ UNCHANGED <<status, known>>
    BY <1>4 DEF List, Needing, photoVars, queueVars
  <2> HIDE DEF found
  <2> QED
    BY <1>0, <2>1 DEF Recorded, CallTypes
<1>5. ASSUME NEW c \in Client, EnqueuePage(c) PROVE Recorded'
  <2>1. \A k \in Key : status'[k] = status[k] \/ k \in {FanOut[step[c]]} \X ids[c]
    BY <1>5 DEF EnqueuePage, Enqueue, Fresh
  <2>2. ids' = [ids EXCEPT ![c] = {}] /\ UNCHANGED known
    BY <1>5 DEF EnqueuePage, photoVars
  <2>3. \A s \in Stage, p \in Photo :
           status'[<<s, p>>] = status[<<s, p>>] \/ p \in ids[c]
    BY <1>0, <2>1, KeyFacts
  <2> QED
    BY <1>0, <2>2, <2>3 DEF Recorded, CallTypes
<1>6. ASSUME NEW c \in Client, EnqueueAggregates(c) PROVE Recorded'
  <2>1. \A k \in Key : status'[k] = status[k] \/ k \in Aggregate \X {Library}
    BY <1>6 DEF EnqueueAggregates, Enqueue, Fresh
  <2>2. \A s \in Stage, p \in Photo : status'[<<s, p>>] = status[<<s, p>>]
    BY <1>0, <2>1, KeyFacts, InstanceAssumption
  <2> QED
    BY <1>6, <2>2 DEF EnqueueAggregates, Recorded, photoVars
<1>7. ASSUME NEW k \in Key, NEW r \in Run, Claim(k, r) PROVE Recorded'
  BY <1>2, <1>7 DEF Claim, photoVars, callVars
<1>8. ASSUME NEW k \in Key, Reap(k) PROVE Recorded'
  BY <1>2, <1>8 DEF Reap, Release, photoVars, callVars
<1>9. ASSUME NEW k \in Key, NEW r \in Run, Crash(k, r) \/ Fail(k, r) \/ Ends(k, r) PROVE Recorded'
  <2>1. UNCHANGED <<ids, known>>
    BY <1>9 DEF Crash, Fail, Ends, Complete, Defer, Return, photoVars, callVars
  <2>2. \/ UNCHANGED status
        \/ status[k] # "none" /\ \E st : status' = [status EXCEPT ![k] = st]
    BY <1>9 DEF Crash, Fail, Ends, Complete, Defer, Reported, Refused, Release
  <2> QED
    BY <1>1, <1>2, <2>1, <2>2
<1>10. ASSUME NEW p \in Photo, Vanish(p) \/ Discover(p) PROVE Recorded'
  BY <1>10 DEF Vanish, Discover, Recorded, queueVars, callVars
<1>11. ASSUME NEW s \in Stage, NEW p \in Photo, NEW r \in Run, Handle(s, p, r) PROVE Recorded'
  BY <1>1, <1>11 DEF Handle, ReadFile, Write, WriteMissing, WriteGone, photoVars, queueVars,
     callVars
<1>12. ASSUME NEW a \in Aggregate, NEW r \in Run, Aggregation(a, r) PROVE Recorded'
  BY <1>1, <1>12 DEF Aggregation, Count, Load, Store, photoVars, queueVars, callVars
<1>13. ASSUME NEW r \in Run, Rebuild(r) PROVE Recorded'
  BY <1>1, <1>13 DEF Rebuild, photoVars, queueVars, callVars
<1>14. CASE UNCHANGED vars
  BY <1>1, <1>14 DEF vars, photoVars, queueVars, callVars
<1> QED
  BY <1>3, <1>4, <1>5, <1>6, <1>7, <1>8, <1>9, <1>10, <1>11, <1>12, <1>13, <1>14
     DEF Next, Folder, Process

\* What a complete rebuild of a holds of p, as far as a waits for it.
Due(a, p) == CASE a = "duplicates" -> {"hash"} \cap Stage
               [] a = "similar" -> IF "phash" \in Stage /\ disk[p] = "image"
                                   THEN PrereqSet(a) \cap Stage ELSE {}
               [] a = "clusters" -> IF disk[p] = "image" THEN {"metadata"} \cap Stage ELSE {}

\* The photos that must not be left out.
Relevant(a, p) ==
    disk[p] # "gone" /\ \A s \in PrereqSet(a) \cap Stage : status[<<s, p>>] = "succeeded"

LEMMA PrereqSets ==
    /\ PrereqSet("duplicates") = {"hash"}
    /\ PrereqSet("similar") = {"hash", "phash", "quality"}
    /\ PrereqSet("clusters") = {"metadata"}
BY DEF PrereqSet, Prereqs

\* A column of a relevant photo: whether it has a value depends on the file only.
LEMMA ColumnDue ==
    ASSUME TypeOK, PhotoInv, Marked, NEW a \in Aggregate, NEW p \in Photo, Relevant(a, p),
           NEW s \in PrereqSet(a)
    PROVE  column[s][p] = "value" <=> s \in Stage /\ (s = "hash" \/ disk[p] = "image")
<1>0. PhotoTypes /\ s \in AllStages
  BY TypeParts, PrereqFacts
<1>1. CASE s \notin Stage
  BY <1>0, <1>1 DEF PhotoInv, Columns
<1>2. CASE s \in Stage
  <2>1. column[s][p] \in {"none", "value"}
    BY <1>0, <1>2 DEF Relevant, Marked, PhotoTypes
  <2>2. disk[p] \in {"image", "garbage"}
    BY <1>0 DEF Relevant, PhotoTypes
  <2> QED
    BY <1>0, <1>2, <2>1, <2>2 DEF PhotoInv, Columns
<1> QED
  BY <1>1, <1>2

\* Whoever reads the columns of a relevant photo sees what is due of it.
LEMMA SeenDue ==
    ASSUME TypeOK, PhotoInv, Recorded, Marked,
           NEW a \in Aggregate, NEW p \in Photo, Relevant(a, p)
    PROVE  Seen(a)[p] \cap PrereqSet(a) = Due(a, p)
<1>0. a \in {"duplicates", "similar", "clusters"}
  BY InstanceAssumption DEF AllAggregates
<1>1. \A s \in PrereqSet(a) :
         column[s][p] = "value" <=> s \in Stage /\ (s = "hash" \/ disk[p] = "image")
  BY ColumnDue
<1>2. PrereqSet(a) \cap Stage # {} => p \in known
  BY DEF Relevant, Recorded
<1>3. state[p] # "missing" /\ (disk[p] = "image" => state[p] # "failed")
  BY DEF Relevant, PhotoInv, States
<1>4. Seen(a)[p] \cap PrereqSet(a) =
         IF Member(a, p) THEN {s \in PrereqSet(a) : column[s][p] = "value"} ELSE {}
  BY DEF Seen, Reads
<1>5. CASE a = "duplicates"
  BY <1>1, <1>2, <1>3, <1>4, <1>5, PrereqSets DEF Member, Due
<1>6. CASE a = "similar"
  BY <1>1, <1>2, <1>3, <1>4, <1>6, PrereqSets DEF Member, Due
<1>7. CASE a = "clusters"
  BY <1>1, <1>2, <1>3, <1>4, <1>7, PrereqSets DEF Member, Due
<1> QED
  BY <1>0, <1>5, <1>6, <1>7

\* A row whose lease holds as long as its run lives has one run.
Solo ==
    \A a \in Aggregate, r \in Run :
        /\ a \notin Stalling /\ pc[KeyOf(a)][r] # "idle" =>
              /\ status[KeyOf(a)] = "running"
              /\ owner[KeyOf(a)] = r
        /\ a = "duplicates" => pc[KeyOf(a)][r] # "loaded"

LEMMA SoloStep ==
    ASSUME TypeOK, Solo, [Next]_vars
    PROVE  Solo'
<1> SUFFICES ASSUME NEW a \in Aggregate, NEW r \in Run
             PROVE  /\ a \notin Stalling /\ pc'[KeyOf(a)][r] # "idle" =>
                          /\ status'[KeyOf(a)] = "running"
                          /\ owner'[KeyOf(a)] = r
                    /\ a = "duplicates" => pc'[KeyOf(a)][r] # "loaded"
  BY DEF Solo
<1> DEFINE A == KeyOf(a)
           Goal == /\ a \notin Stalling /\ pc'[A][r] # "idle" =>
                         status'[A] = "running" /\ owner'[A] = r
                   /\ a = "duplicates" => pc'[A][r] # "loaded"
<1>0. /\ QueueTypes /\ RunTypes /\ A \in Key /\ A[1] = a
      /\ a \notin Stalling /\ pc[A][r] # "idle" => status[A] = "running" /\ owner[A] = r
      /\ a = "duplicates" => pc[A][r] # "loaded"
      /\ \A n \in Run : a \notin Stalling /\ pc[A][n] # "idle" => owner[A] = n
  BY TypeParts, KeyFacts DEF Solo
<1>1. ASSUME status[A] = "running" => status'[A] = "running" /\ owner'[A] = owner[A],
             pc'[A][r] # "idle" => pc[A][r] # "idle",
             pc'[A][r] = "loaded" => pc[A][r] = "loaded" \/ a # "duplicates"
      PROVE Goal
  BY <1>0, <1>1
<1>2. ASSUME NEW K, Enqueue(K), UNCHANGED pc PROVE Goal
  BY <1>0, <1>1, <1>2 DEF Enqueue, Fresh, Outstanding
<1>3. ASSUME NEW k \in Key, NEW n \in Run, Claim(k, n) PROVE Goal
  <2>1. CASE k = A
    BY <1>0, <1>3, <2>1 DEF Claim, Move, RunTypes, QueueTypes
  <2>2. CASE k # A
    BY <1>0, <1>3, <2>2 DEF Claim, Move, RunTypes, QueueTypes
  <2> QED BY <2>1, <2>2
<1>4. ASSUME NEW k \in Key, Reap(k) PROVE Goal
  <2>1. CASE k = A
    <3>1. UNCHANGED pc /\ (a \in Stalling \/ pc[A][owner[A]] = "idle") /\ status[A] = "running"
      BY <1>0, <1>4, <2>1 DEF Reap, runVars
    <3>2. a \notin Stalling => pc[A][r] = "idle"
      BY <1>0, <3>1
    <3> QED
      BY <1>0, <3>1, <3>2
  <2>2. CASE k # A
    BY <1>0, <1>1, <1>4, <2>2 DEF Reap, Release, QueueTypes, runVars
  <2> QED BY <2>1, <2>2
<1>5. ASSUME NEW k \in Key, NEW n \in Run, Crash(k, n) \/ Fail(k, n) \/ Ends(k, n) PROVE Goal
  <2>1. /\ pc' = [pc EXCEPT ![k][n] = "idle"]
        /\ pc[k][n] # "idle"
        /\ \/ UNCHANGED <<status, owner>>
           \/ \E st : status' = [status EXCEPT ![k] = st] /\ owner' = [owner EXCEPT ![k] = NoRun]
    BY <1>5 DEF Crash, Fail, Ends, Complete, Defer, Return, Move, Reported, Refused, Release
  <2>2. CASE k = A
    <3>1. CASE n = r
      BY <1>0, <2>1, <2>2, <3>1 DEF RunTypes
    <3>2. CASE n # r
      <4>1. a \notin Stalling => pc[A][r] = "idle"
        BY <1>0, <2>1, <2>2, <3>2
      <4>2. pc'[A][r] = pc[A][r]
        BY <1>0, <2>1, <2>2, <3>2 DEF RunTypes
      <4> QED
        BY <1>0, <4>1, <4>2
    <3> QED BY <3>1, <3>2
  <2>3. CASE k # A
    BY <1>0, <1>1, <2>1, <2>3 DEF RunTypes, QueueTypes
  <2> QED BY <2>2, <2>3
<1>6. ASSUME NEW s \in Stage, NEW p \in Photo, NEW n \in Run, Handle(s, p, n) PROVE Goal
  <2>1. /\ \E to : Move(<<s, p>>, n, to)
        /\ UNCHANGED <<status, owner>>
    BY <1>6 DEF Handle, ReadFile, Write, WriteMissing, WriteGone, queueVars
  <2>2. pc'[A] = pc[A]
    BY <1>0, <2>1, KeyFacts DEF Move, RunTypes
  <2> QED
    BY <1>0, <2>1, <2>2
<1>7. ASSUME NEW b \in Aggregate, NEW n \in Run, Aggregation(b, n) PROVE Goal
  <2>1. /\ \E to : Move(KeyOf(b), n, to) /\ (to = "loaded" => b # "duplicates")
        /\ pc[KeyOf(b)][n] # "idle"
        /\ UNCHANGED <<status, owner>>
    BY <1>7 DEF Aggregation, Count, Load, Store, queueVars
  <2> QED
    BY <1>0, <2>1, KeyFacts DEF Move, RunTypes
<1>8. ASSUME NEW n \in Run, Rebuild(n) PROVE Goal
  <2>1. /\ "duplicates" \in Aggregate /\ Move(KeyOf("duplicates"), n, "ok")
        /\ pc[KeyOf("duplicates")][n] # "idle"
        /\ UNCHANGED <<status, owner>>
    BY <1>8 DEF Rebuild, queueVars
  <2> QED
    BY <1>0, <2>1, KeyFacts DEF Move, RunTypes
<1>9. ASSUME NEW c \in Client, Call(c) \/ Process(c) \/ CutShort(c) PROVE Goal
  <2>1. UNCHANGED <<pc, status, owner>> \/ (UNCHANGED pc /\ \E K : Enqueue(K))
    BY <1>9 DEF Call, Process, List, EnqueuePage, EnqueueAggregates, CutShort, queueVars, runVars
  <2> QED
    BY <1>0, <1>2, <2>1
<1>10. ASSUME NEW p \in Photo, Vanish(p) \/ Discover(p) PROVE Goal
  BY <1>0, <1>10 DEF Vanish, Discover, queueVars, runVars
<1>11. CASE UNCHANGED vars
  BY <1>0, <1>11 DEF vars, queueVars, runVars
<1> QED
  BY <1>3, <1>4, <1>5, <1>6, <1>7, <1>8, <1>9, <1>10, <1>11 DEF Next, Folder

\* A call that runs is alone, and finds no aggregate queued.
CallsAlone ==
    \A c \in Client : step[c] \in 1..Last =>
        /\ \A d \in Client : d # c => step[d] \notin 1..Last
        /\ \A a \in Aggregate : ~Outstanding(KeyOf(a))

\* Rows become outstanding by calls only.
LEMMA OutstandingStep ==
    ASSUME TypeOK, [Next]_vars, NEW k \in Key
    PROVE  \/ \E c \in Client : EnqueuePage(c) \/ EnqueueAggregates(c)
           \/ ~Outstanding(k) => status'[k] = status[k]
<1> DEFINE Goal == \/ \E c \in Client : EnqueuePage(c) \/ EnqueueAggregates(c)
                   \/ ~Outstanding(k) => status'[k] = status[k]
<1>0. QueueTypes
  BY TypeParts
<1>1. CASE UNCHANGED status
  BY <1>1
<1>2. ASSUME NEW j \in Key, status[j] \in {"pending", "running"},
             NEW st, status' = [status EXCEPT ![j] = st]
      PROVE Goal
  BY <1>0, <1>2 DEF Outstanding, QueueTypes
<1>3. ASSUME NEW j \in Key, Reap(j) PROVE Goal
  BY <1>2, <1>3 DEF Reap, Release
<1>4. ASSUME NEW j \in Key, NEW n \in Run, Claim(j, n) PROVE Goal
  BY <1>2, <1>4 DEF Claim
<1>5. ASSUME NEW j \in Key, NEW n \in Run, Crash(j, n) \/ Fail(j, n) \/ Ends(j, n) PROVE Goal
  <2>1. \/ UNCHANGED status
        \/ status[j] = "running" /\ \E st : status' = [status EXCEPT ![j] = st]
    BY <1>5 DEF Crash, Fail, Ends, Complete, Defer, Reported, Refused, Release
  <2> QED BY <1>1, <1>2, <2>1
<1>6. ASSUME NEW c \in Client, Call(c) \/ Process(c) \/ CutShort(c) PROVE Goal
  BY <1>1, <1>6 DEF Call, Process, List, CutShort, queueVars
<1>7. ASSUME NEW p \in Photo, Vanish(p) \/ Discover(p) PROVE Goal
  BY <1>1, <1>7 DEF Vanish, Discover, queueVars
<1>8. ASSUME NEW s \in Stage, NEW p \in Photo, NEW n \in Run, Handle(s, p, n) PROVE Goal
  BY <1>1, <1>8 DEF Handle, ReadFile, Write, WriteMissing, WriteGone, queueVars
<1>9. ASSUME NEW b \in Aggregate, NEW n \in Run, Aggregation(b, n) PROVE Goal
  BY <1>1, <1>9 DEF Aggregation, Count, Load, Store, queueVars
<1>10. ASSUME NEW n \in Run, Rebuild(n) PROVE Goal
  BY <1>1, <1>10 DEF Rebuild, queueVars
<1>11. CASE UNCHANGED vars
  BY <1>1, <1>11 DEF vars, queueVars
<1> QED
  BY <1>3, <1>4, <1>5, <1>6, <1>7, <1>8, <1>9, <1>10, <1>11 DEF Next, Folder

\* Calls move by their own steps.
LEMMA CallsOnly ==
    ASSUME [Next]_vars
    PROVE  UNCHANGED callVars \/ \E c \in Client : Call(c) \/ Process(c) \/ CutShort(c)
<1>1. ASSUME NEW s \in Stage, NEW p \in Photo, NEW n \in Run, Handle(s, p, n)
      PROVE UNCHANGED callVars
  BY <1>1 DEF Handle, ReadFile, Write, WriteMissing, WriteGone
<1>2. ASSUME NEW k \in Key, NEW n \in Run,
             Claim(k, n) \/ Crash(k, n) \/ Fail(k, n) \/ Ends(k, n)
      PROVE UNCHANGED callVars
  <2>1. CASE Claim(k, n)
    BY <2>1 DEF Claim
  <2>2. CASE Crash(k, n) \/ Fail(k, n)
    BY <2>2 DEF Crash, Fail, Return
  <2>3. CASE Ends(k, n)
    BY <2>3 DEF Ends, Complete, Defer, Return
  <2> QED
    BY <1>2, <2>1, <2>2, <2>3
<1>3. ASSUME NEW a \in Aggregate, NEW n \in Run, Aggregation(a, n)
      PROVE UNCHANGED callVars
  BY <1>3 DEF Aggregation, Count, Load, Store
<1>4. ASSUME NEW n \in Run, Rebuild(n) PROVE UNCHANGED callVars
  BY <1>4 DEF Rebuild
<1>5. ASSUME NEW p \in Photo, Vanish(p) \/ Discover(p) PROVE UNCHANGED callVars
  BY <1>5 DEF Vanish, Discover
<1>6. ASSUME NEW k \in Key, Reap(k) PROVE UNCHANGED callVars
  BY <1>6 DEF Reap
<1>7. CASE UNCHANGED vars
  BY <1>7 DEF vars
<1> QED
  BY <1>1, <1>2, <1>3, <1>4, <1>5, <1>6, <1>7 DEF Next, Folder

LEMMA CallsAloneStep ==
    ASSUME Orderly, TypeOK, Listed, CallsAlone, [Next]_vars
    PROVE  CallsAlone'
<1> DEFINE Free == \A a \in Aggregate : ~Outstanding(KeyOf(a))
           Open(c) == step[c] \in 1..6
<1>0. /\ CallTypes /\ QueueTypes /\ Last = 6 /\ Len(FanOut) = 5
      /\ \A c \in Client : Open(c) => Free /\ \A d \in Client : d # c => ~Open(d)
  BY TypeParts, FanOutFacts DEF CallsAlone
<1>2. ASSUME \A c \in Client : ~EnqueueAggregates(c), Free
      PROVE \A a \in Aggregate : ~(status'[KeyOf(a)] \in {"pending", "running"})
  <2> SUFFICES ASSUME NEW a \in Aggregate
               PROVE  ~(status'[KeyOf(a)] \in {"pending", "running"})
    OBVIOUS
  <2>0. KeyOf(a) \in Key /\ ~Outstanding(KeyOf(a))
    BY <1>2, KeyFacts
  <2>1. CASE \E c \in Client : EnqueuePage(c)
    <3>1. PICK c \in Client : EnqueuePage(c)
      BY <2>1
    <3>2. KeyOf(a) \notin {FanOut[step[c]]} \X ids[c]
      BY <1>0, InstanceAssumption DEF CallTypes, KeyOf
    <3> QED
      BY <2>0, <3>1, <3>2 DEF EnqueuePage, Enqueue, Fresh, Outstanding
  <2>2. CASE ~Outstanding(KeyOf(a)) => status'[KeyOf(a)] = status[KeyOf(a)]
    BY <2>0, <2>2 DEF Outstanding
  <2> QED
    BY <1>2, <2>0, <2>1, <2>2, OutstandingStep
<1>3. CASE UNCHANGED callVars
  <2>1. step' = step /\ \A c \in Client : ~EnqueueAggregates(c)
    BY <1>0, <1>3 DEF callVars, EnqueueAggregates, CallTypes
  <2> QED
    BY <1>0, <1>2, <2>1 DEF CallsAlone, Outstanding
<1>4. ASSUME NEW c \in Client, Call(c) PROVE CallsAlone'
  <2>1. /\ Free /\ \A d \in Client : ~Open(d)
        /\ step' = [step EXCEPT ![c] = 1] /\ UNCHANGED status
    BY <1>0, <1>4 DEF Call, Orderly, queueVars
  <2> QED
    BY <1>0, <2>1 DEF CallTypes, CallsAlone, Outstanding
<1>5. ASSUME NEW c \in Client, List(c) \/ EnqueuePage(c) \/ CutShort(c) PROVE CallsAlone'
  <2>1. /\ Open(c) /\ \A d \in Client : d # c => step'[d] = step[d]
        /\ \A d \in Client : ~EnqueueAggregates(d)
    <3>1. Open(c)
      BY <1>0, <1>5 DEF List, EnqueuePage, CutShort, Listed
    <3>2. \A d \in Client : d # c => step'[d] = step[d]
      BY <1>0, <1>5 DEF List, EnqueuePage, CutShort, CallTypes
    <3>3. step'[c] # 7 \/ cut'
      BY <1>0, <1>5, <3>1 DEF List, EnqueuePage, CutShort, CallTypes, Listed
    <3>4. \A d \in Client : ~EnqueueAggregates(d)
      BY <1>0, <3>1, <3>2, <3>3 DEF EnqueueAggregates, CallTypes
    <3> QED
      BY <3>1, <3>2, <3>4
  <2>2. \A a \in Aggregate : ~(status'[KeyOf(a)] \in {"pending", "running"})
    BY <1>0, <1>2, <2>1
  <2>3. \A d, e \in Client : d # e => ~(step'[d] \in 1..6 /\ step'[e] \in 1..6)
    BY <1>0, <2>1
  <2> QED
    BY <1>0, <2>2, <2>3 DEF CallsAlone, Outstanding
<1>6. ASSUME NEW c \in Client, EnqueueAggregates(c) PROVE CallsAlone'
  <2>1. /\ Open(c) /\ step' = [step EXCEPT ![c] = 7]
    BY <1>0, <1>6 DEF EnqueueAggregates
  <2>2. \A d \in Client : step'[d] \notin 1..6
    BY <1>0, <2>1 DEF CallTypes
  <2> QED
    BY <1>0, <2>2 DEF CallsAlone
<1> QED
  BY <1>3, <1>4, <1>5, <1>6, CallsOnly DEF Process

\* No call runs, and the last one reached its aggregates.
Settled == ~cut /\ \A c \in Client : step[c] \in {0, Last + 1}

\* No prerequisite of a is outstanding.
Through(a) == \A s \in PrereqSet(a) \cap Stage, p \in Photo : ~Outstanding(<<s, p>>)

\* Between calls, every aggregate waits for every per-photo job there is.
Awaited ==
    Settled => \A a \in Aggregate, k \in Stage \X Photo : Outstanding(k) => k \in waits[a]

\* What is stored for p, and what r has loaded of it, is what is due.
Stored(a, p) == view[a][p] \cap PrereqSet(a) = Due(a, p)
Held(a, r, p) == loaded[a][r][p] \cap PrereqSet(a) = Due(a, p)

\* Between calls, from the end of a rebuild on, its prerequisites rest and what
\* it stored is complete; and so is what a run has loaded or is about to report.
WholeViews ==
    Settled =>
        \A a \in Aggregate :
            /\ status[KeyOf(a)] = "succeeded" => Through(a)
            /\ \A p \in Photo : Relevant(a, p) =>
                  /\ status[KeyOf(a)] = "succeeded" => Stored(a, p)
                  /\ \A r \in takers[KeyOf(a)] :
                        /\ pc[KeyOf(a)][r] = "ok" => Stored(a, p)
                        /\ pc[KeyOf(a)][r] = "loaded" => Held(a, r, p)

\* A settled library stays so while no call begins, and becomes so by the last
\* statement of a call.
LEMMA SettledStep ==
    ASSUME TypeOK, Listed, CallsAlone, [Next]_vars, Settled'
    PROVE  \/ Settled /\ UNCHANGED callVars
           \/ \E c \in Client : EnqueueAggregates(c)
<1>0. CallTypes /\ Last = 6 /\ Len(FanOut) = 5
  BY TypeParts, FanOutFacts
<1>1. CASE UNCHANGED callVars
  BY <1>1 DEF Settled, callVars
<1>2. ASSUME NEW c \in Client, Call(c) \/ List(c) \/ EnqueuePage(c) \/ CutShort(c) PROVE FALSE
  <2>1. CASE Call(c)
    BY <1>0, <2>1 DEF Call, Settled, CallTypes
  <2>2. CASE List(c)
    BY <1>0, <2>2 DEF List, Settled, CallTypes
  <2>3. CASE EnqueuePage(c)
    BY <1>0, <2>3 DEF EnqueuePage, Settled, CallTypes, Listed
  <2>4. CASE CutShort(c)
    BY <2>4 DEF CutShort, Settled
  <2> QED BY <1>2, <2>1, <2>2, <2>3, <2>4
<1> QED
  BY <1>1, <1>2, CallsOnly DEF Process

LEMMA NoInsert ==
    ASSUME TypeOK, Listed, UNCHANGED callVars, NEW c \in Client
    PROVE  ~EnqueuePage(c) /\ ~EnqueueAggregates(c)
<1>1. CallTypes /\ Last = 6 /\ Len(FanOut) = 5
  BY TypeParts, FanOutFacts
<1> QED
  BY <1>1 DEF EnqueuePage, EnqueueAggregates, Listed, CallTypes, callVars

\* While no call moves, what is waited for is so until it ends.
LEMMA WaitsKeep ==
    ASSUME TypeOK, Listed, [Next]_vars, UNCHANGED callVars, NEW a \in Aggregate,
           NEW k \in waits[a], Outstanding(k)'
    PROVE  k \in waits'[a]
<1>0. QueueTypes /\ CallTypes /\ Last = 6 /\ Len(FanOut) = 5 /\ k \in Key
  <2>1. QueueTypes /\ CallTypes
    BY TypeParts
  <2> QED
    BY <2>1, FanOutFacts DEF QueueTypes, Key
<1>1. CASE UNCHANGED waits
  BY <1>1
<1>2. ASSUME NEW j \in Key, NEW st \in {"pending", "succeeded", "dead"}, Release(j, st)
      PROVE k \in waits'[a]
  BY <1>0, <1>2 DEF Release, Outstanding, QueueTypes
<1>3. ASSUME NEW j \in Key, Reap(j) PROVE k \in waits'[a]
  <2>1. \E st \in {"pending", "dead"} : Release(j, st)
    BY <1>3 DEF Reap, Unsuccessful
  <2> QED BY <1>2, <2>1
<1>4. ASSUME NEW j \in Key, NEW n \in Run, Claim(j, n) \/ Crash(j, n) \/ Fail(j, n) \/ Ends(j, n)
      PROVE k \in waits'[a]
  <2>1. \/ UNCHANGED waits
        \/ \E st \in {"pending", "succeeded", "dead"} : Release(j, st)
    BY <1>4 DEF Claim, Crash, Fail, Ends, Complete, Defer, Reported, Refused, Unsuccessful
  <2> QED BY <1>1, <1>2, <2>1
<1>5. ASSUME NEW c \in Client, Call(c) \/ Process(c) \/ CutShort(c) PROVE k \in waits'[a]
  <2>1. ~EnqueuePage(c) /\ ~EnqueueAggregates(c)
    BY NoInsert
  <2> QED
    BY <1>1, <1>5, <2>1 DEF Call, Process, List, CutShort, queueVars
<1>6. ASSUME NEW q \in Photo, Vanish(q) \/ Discover(q) PROVE UNCHANGED waits
  BY <1>6 DEF Vanish, Discover, queueVars
<1>7. ASSUME NEW s \in Stage, NEW q \in Photo, NEW n \in Run, Handle(s, q, n)
      PROVE UNCHANGED waits
  BY <1>7 DEF Handle, ReadFile, Write, WriteMissing, WriteGone, queueVars
<1>8. ASSUME NEW b \in Aggregate, NEW n \in Run, Aggregation(b, n) PROVE UNCHANGED waits
  BY <1>8 DEF Aggregation, Count, Load, Store, queueVars
<1>9. ASSUME NEW n \in Run, Rebuild(n) PROVE UNCHANGED waits
  BY <1>9 DEF Rebuild, queueVars
<1>10. CASE UNCHANGED vars
  BY <1>1, <1>10 DEF vars, queueVars
<1> QED
  BY <1>1, <1>3, <1>4, <1>5, <1>6, <1>7, <1>8, <1>9, <1>10 DEF Next, Folder

\* What the last statement of a lone call does to an aggregate.
LEMMA Requeued ==
    ASSUME TypeOK, CallsAlone, NEW c \in Client, EnqueueAggregates(c), NEW a \in Aggregate
    PROVE  /\ status'[KeyOf(a)] = "pending"
           /\ takers'[KeyOf(a)] = {}
           /\ waits'[a] = {k \in Stage \X Photo : Outstanding(k)}
           /\ \A s \in Stage, p \in Photo : status'[<<s, p>>] = status[<<s, p>>]
<1>1. KeyOf(a) \in Key /\ KeyOf(a) \in Fresh(Aggregate \X {Library})
  BY KeyFacts, FanOutFacts DEF EnqueueAggregates, CallsAlone, Fresh, KeyOf
<1>2. \A s \in Stage, p \in Photo :
         <<s, p>> \in Key /\ <<s, p>> \notin Fresh(Aggregate \X {Library})
  BY KeyFacts, InstanceAssumption DEF Fresh
<1> QED
  BY <1>1, <1>2 DEF EnqueueAggregates, Enqueue

LEMMA AwaitedStep ==
    ASSUME TypeOK, Listed, CallsAlone, Awaited, [Next]_vars
    PROVE  Awaited'
<1> SUFFICES ASSUME Settled', NEW a \in Aggregate, NEW k \in Stage \X Photo,
                    status'[k] \in {"pending", "running"}
             PROVE  k \in waits'[a]
  BY DEF Awaited, Outstanding
<1>0. k \in Key /\ CallTypes /\ Last = 6
  BY TypeParts, FanOutFacts DEF Key
<1>1. CASE Settled /\ UNCHANGED callVars
  <2>1. ~ \E c \in Client : EnqueuePage(c) \/ EnqueueAggregates(c)
    BY <1>1, NoInsert
  <2>2. Outstanding(k)
    BY <1>0, <2>1, OutstandingStep DEF Outstanding
  <2>3. k \in waits[a]
    BY <1>1, <2>2 DEF Awaited
  <2>4. Outstanding(k)'
    BY DEF Outstanding
  <2> QED
    BY <1>1, <2>3, <2>4, WaitsKeep
<1>2. CASE \E c \in Client : EnqueueAggregates(c)
  <2>1. PICK c \in Client : EnqueueAggregates(c)
    BY <1>2
  <2>2. PICK s \in Stage, p \in Photo : k = <<s, p>>
    OBVIOUS
  <2>3. status'[k] = status[k] /\ waits'[a] = {j \in Stage \X Photo : Outstanding(j)}
    BY <2>1, <2>2, Requeued
  <2> QED
    BY <2>3 DEF Outstanding
<1> QED
  BY <1>1, <1>2, SettledStep

\* A run of the newest row that is past counting has nothing left to wait for.
LEMMA TakerThrough ==
    ASSUME TypeOK, Awaited, Uncounted, Settled, NEW a \in Aggregate,
           NEW r \in takers[KeyOf(a)], pc[KeyOf(a)][r] \in {"checked", "loaded", "ok"}
    PROVE  Through(a)
<1> SUFFICES ASSUME NEW s \in PrereqSet(a) \cap Stage, NEW p \in Photo, Outstanding(<<s, p>>)
             PROVE  FALSE
  BY DEF Through
<1>1. <<s, p>> \in waits[a] /\ <<s, p>>[1] = s
  BY DEF Awaited
<1> QED
  BY <1>1 DEF Uncounted

\* Who changes what is stored and loaded for an aggregate.
LEMMA ViewStep ==
    ASSUME TypeOK, [Next]_vars, NEW a \in Aggregate
    PROVE  /\ \/ view'[a] = view[a]
              \/ \E n \in Run : Store(a, n) \/ (a = "duplicates" /\ Rebuild(n))
           /\ \A r \in Run : loaded'[a][r] = loaded[a][r] \/ Load(a, r) \/ Store(a, r)
<1>0. RunTypes
  BY TypeParts
<1> DEFINE Goal == /\ \/ view'[a] = view[a]
                      \/ \E n \in Run : Store(a, n) \/ (a = "duplicates" /\ Rebuild(n))
                   /\ \A r \in Run : loaded'[a][r] = loaded[a][r] \/ Load(a, r) \/ Store(a, r)
<1>1. CASE UNCHANGED <<view, loaded>>
  BY <1>1
<1>2. ASSUME NEW b \in Aggregate, NEW n \in Run, Load(b, n) PROVE Goal
  BY <1>0, <1>2 DEF Load, RunTypes
<1>3. ASSUME NEW b \in Aggregate, NEW n \in Run, Store(b, n) PROVE Goal
  <2>1. /\ \A c \in Aggregate : c # b => view'[c] = view[c] /\ loaded'[c] = loaded[c]
        /\ \A r \in Run : r # n => loaded'[b][r] = loaded[b][r]
    BY <1>0, <1>3 DEF Store, RunTypes
  <2> QED
    BY <1>3, <2>1
<1>4. ASSUME NEW n \in Run, Rebuild(n) PROVE Goal
  <2>1. UNCHANGED loaded /\ view' = [view EXCEPT !["duplicates"] = Seen("duplicates")]
    BY <1>4 DEF Rebuild
  <2> QED
    BY <1>0, <1>4, <2>1 DEF RunTypes
<1>5. ASSUME NEW b \in Aggregate, NEW n \in Run, Count(b, n) PROVE Goal
  BY <1>1, <1>5 DEF Count
<1>6. ASSUME NEW s \in Stage, NEW p \in Photo, NEW n \in Run, Handle(s, p, n) PROVE Goal
  BY <1>1, <1>6 DEF Handle, ReadFile, Write, WriteMissing, WriteGone
<1>7. ASSUME NEW c \in Client, Call(c) \/ Process(c) \/ CutShort(c) PROVE Goal
  BY <1>1, <1>7 DEF Call, Process, List, EnqueuePage, EnqueueAggregates, CutShort, runVars
<1>8. ASSUME NEW p \in Photo, Vanish(p) \/ Discover(p) PROVE Goal
  BY <1>1, <1>8 DEF Vanish, Discover, runVars
<1>9. ASSUME NEW k \in Key, Reap(k) PROVE Goal
  BY <1>1, <1>9 DEF Reap, runVars
<1>10. ASSUME NEW k \in Key, NEW n \in Run, Claim(k, n) \/ Crash(k, n) \/ Fail(k, n) \/ Ends(k, n)
       PROVE Goal
  BY <1>1, <1>10 DEF Claim, Crash, Fail, Ends, Complete, Defer, Return
<1>11. CASE UNCHANGED vars
  BY <1>1, <1>11 DEF vars, runVars
<1> QED
  BY <1>2, <1>3, <1>4, <1>5, <1>6, <1>7, <1>8, <1>9, <1>10, <1>11
     DEF Next, Folder, Aggregation

\* While no call moves, prerequisites that rest go on resting, and which photos
\* are relevant and what is due of them is settled - but for deletions.
LEMMA RestingStep ==
    ASSUME TypeOK, Listed, [Next]_vars, UNCHANGED callVars, NEW a \in Aggregate, Through(a)
    PROVE  /\ Through(a)'
           /\ \A p \in Photo : Relevant(a, p)' => Relevant(a, p) /\ Due(a, p)' = Due(a, p)
<1>0. CallTypes /\ PhotoTypes /\ Last = 6 /\ \A p \in Photo : disk'[p] \in {disk[p], "gone"}
  BY TypeParts, FanOutFacts, DiskStays
<1>1. ~ \E c \in Client : EnqueuePage(c) \/ EnqueueAggregates(c)
  BY NoInsert
<1>2. \A s \in PrereqSet(a) \cap Stage, p \in Photo :
         status'[<<s, p>>] = status[<<s, p>>] /\ ~Outstanding(<<s, p>>)
  BY <1>1, OutstandingStep, KeyFacts DEF Through
<1>3. Through(a)'
  BY <1>2 DEF Through, Outstanding
<1>4. ASSUME NEW p \in Photo, Relevant(a, p)'
      PROVE  Relevant(a, p) /\ Due(a, p)' = Due(a, p)
  <2>1. disk'[p] = disk[p]
    BY <1>0, <1>4 DEF Relevant
  <2>2. Relevant(a, p)
    BY <1>2, <1>4, <2>1 DEF Relevant
  <2> QED
    BY <2>1, <2>2 DEF Due
<1> QED
  BY <1>3, <1>4

LEMMA WholeViewsStep ==
    ASSUME Orderly, TypeOK, Listed, TodoLeft, PhotoInv, Recorded, Marked, Solo, CallsAlone,
           Uncounted, Awaited, WholeViews, [Next]_vars
    PROVE  WholeViews'
<1> SUFFICES ASSUME Settled', NEW a \in Aggregate
             PROVE  /\ status'[KeyOf(a)] = "succeeded" => Through(a)'
                    /\ \A p \in Photo : Relevant(a, p)' =>
                        /\ status'[KeyOf(a)] = "succeeded" => Stored(a, p)'
                        /\ \A r \in takers'[KeyOf(a)] :
                              /\ pc'[KeyOf(a)][r] = "ok" => Stored(a, p)'
                              /\ pc'[KeyOf(a)][r] = "loaded" => Held(a, r, p)'
  BY DEF WholeViews
<1> DEFINE A == KeyOf(a)
<1>0. /\ A \in Key /\ QueueTypes /\ RunTypes /\ QueueTypes'
      /\ a \notin Stalling \/ a = "duplicates"
  BY KeyFacts, TypeParts, QueueStep DEF Orderly
<1>1. CASE \E c \in Client : EnqueueAggregates(c)
  BY <1>1, Requeued
<1>2. CASE Settled /\ UNCHANGED callVars
  <2>1. status'[A] = "succeeded" =>
           \/ status[A] = "succeeded"
           \/ \E r \in takers[A] : pc[A][r] = "ok"
    BY <1>0, SucceedStep
  <2>2. status'[A] = "succeeded" => Through(a)
    BY <1>2, <2>1, TakerThrough DEF WholeViews
  <2>3. Through(a) => Through(a)' /\ \A p \in Photo : Relevant(a, p)' =>
                                         Relevant(a, p) /\ Due(a, p)' = Due(a, p)
    BY <1>2, RestingStep
  <2>4. ASSUME NEW r \in takers'[A], pc'[A][r] \in {"loaded", "ok"}
        PROVE  /\ r \in Run /\ r \in takers[A]
               /\ Through(a)
               /\ \/ pc'[A][r] = pc[A][r]
                  \/ Load(a, r) \/ Store(a, r) \/ (a = "duplicates" /\ Rebuild(r))
    <3>1. r \in Run
      BY <1>0 DEF QueueTypes
    <3>2. CASE Claim(A, r)
      BY <1>0, <2>4, <3>1, <3>2, KeyFacts DEF Claim, Move, RunTypes
    <3>3. CASE Count(a, r)
      BY <1>0, <2>4, <3>1, <3>3 DEF Count, Move, RunTypes
    <3>4. CASE /\ r \in takers[A]
               /\ \/ pc'[A][r] = pc[A][r]
                  \/ Load(a, r) \/ Store(a, r) \/ (a = "duplicates" /\ Rebuild(r))
      <4>1. pc[A][r] \in {"checked", "loaded", "ok"}
        BY <2>4, <3>4 DEF Load, Store, Rebuild
      <4> QED
        BY <1>2, <3>1, <3>4, <4>1, TakerThrough
    <3> QED
      BY <2>4, <3>1, <3>2, <3>3, <3>4, AggregateStep
  <2>5. ASSUME NEW p \in Photo, Relevant(a, p)', Through(a),
               \/ status'[A] = "succeeded"
               \/ \E r \in takers'[A] : pc'[A][r] = "ok"
        PROVE  Stored(a, p)'
    <3>0. Relevant(a, p) /\ Due(a, p)' = Due(a, p)
      BY <2>3, <2>5
    <3>1. ASSUME NEW n \in Run, a = "duplicates", Rebuild(n) PROVE Stored(a, p)'
      <4>1. view'[a] = Seen(a)
        BY <1>0, <3>1 DEF Rebuild, RunTypes
      <4> QED
        BY <3>0, <4>1, SeenDue DEF Stored
    <3>2. ASSUME NEW n \in Run, Store(a, n) PROVE Stored(a, p)'
      <4>1. /\ pc[A][n] = "loaded" /\ view'[a] = loaded[a][n]
            /\ UNCHANGED <<status, takers>> /\ pc' = [pc EXCEPT ![A][n] = "ok"]
        BY <1>0, <3>2 DEF Store, Move, RunTypes, queueVars
      <4>2. a \notin Stalling
        BY <1>0, <4>1 DEF Solo
      <4>3. status[A] = "running" /\ \A r \in Run : pc[A][r] # "idle" => r = n
        BY <4>1, <4>2 DEF Solo
      <4>4. n \in takers[A]
        <5>1. PICK r \in takers'[A] : pc'[A][r] = "ok"
          BY <2>5, <4>1, <4>3
        <5>2. r \in Run
          BY <1>0 DEF QueueTypes
        <5> QED
          BY <1>0, <4>1, <4>3, <5>1, <5>2 DEF RunTypes
      <4>5. Held(a, n, p)
        BY <1>2, <3>0, <4>1, <4>4 DEF WholeViews
      <4> QED
        BY <3>0, <4>1, <4>5 DEF Held, Stored
    <3>3. CASE view'[a] = view[a]
      <4>1. Stored(a, p)
        <5>1. CASE status'[A] = "succeeded"
          BY <1>2, <2>1, <3>0, <5>1 DEF WholeViews
        <5>2. ASSUME NEW r \in takers'[A], pc'[A][r] = "ok" PROVE Stored(a, p) \/ Stored(a, p)'
          <6>1. CASE pc'[A][r] = pc[A][r]
            BY <1>2, <2>4, <3>0, <5>2, <6>1 DEF WholeViews
          <6>2. CASE Load(a, r)
            BY <1>0, <2>4, <5>2, <6>2 DEF Load, Move, RunTypes
          <6> QED
            BY <2>4, <3>1, <3>2, <5>2, <6>1, <6>2
        <5> QED
          BY <2>5, <3>0, <3>3, <5>1, <5>2 DEF Stored
      <4> QED
        BY <3>0, <3>3, <4>1 DEF Stored
    <3> QED
      BY <3>1, <3>2, <3>3, ViewStep
  <2>6. ASSUME NEW p \in Photo, Relevant(a, p)', NEW r \in takers'[A], pc'[A][r] = "loaded"
        PROVE  Held(a, r, p)'
    <3>0. r \in Run /\ r \in takers[A] /\ Relevant(a, p) /\ Due(a, p)' = Due(a, p)
      BY <2>3, <2>4, <2>6
    <3>1. CASE Load(a, r)
      <4>1. loaded'[a][r] = Seen(a)
        BY <1>0, <3>0, <3>1 DEF Load, RunTypes
      <4> QED
        BY <3>0, <4>1, SeenDue DEF Held
    <3>2. CASE Store(a, r) \/ (a = "duplicates" /\ Rebuild(r))
      BY <1>0, <2>6, <3>0, <3>2 DEF Store, Rebuild, Move, RunTypes
    <3>3. CASE pc'[A][r] = pc[A][r] /\ loaded'[a][r] = loaded[a][r]
      <4>1. Held(a, r, p)
        BY <1>2, <2>6, <3>0, <3>3 DEF WholeViews
      <4> QED
        BY <3>0, <3>3, <4>1 DEF Held
    <3>4. loaded'[a][r] = loaded[a][r] \/ Load(a, r) \/ Store(a, r)
      BY <3>0, ViewStep
    <3>5. pc'[A][r] = pc[A][r] \/ Load(a, r) \/ Store(a, r) \/ (a = "duplicates" /\ Rebuild(r))
      BY <2>4, <2>6
    <3> QED
      BY <3>1, <3>2, <3>3, <3>4, <3>5
  <2> QED
    BY <2>2, <2>3, <2>4, <2>5, <2>6
<1> QED
  BY <1>1, <1>2, SettledStep

\* Everything the completeness of groups rests on.
GroupsInv ==
    /\ TypeOK /\ Listed /\ TodoLeft /\ Marked /\ WaitsOpen /\ Uncounted
    /\ PhotoInv /\ Recorded /\ Solo /\ CallsAlone /\ Awaited /\ WholeViews

LEMMA GroupsInvInit ==
    Init => Marked /\ WaitsOpen /\ Uncounted /\ Solo /\ CallsAlone /\ Awaited /\ WholeViews
<1> SUFFICES ASSUME Init
             PROVE  Marked /\ WaitsOpen /\ Uncounted /\ Solo /\ CallsAlone /\ Awaited /\ WholeViews
  OBVIOUS
<1>1. Marked /\ WaitsOpen /\ Uncounted
  BY KeyFacts DEF Init, Marked, WaitsOpen, Uncounted
<1>2. Solo
  BY KeyFacts DEF Init, Solo
<1>3. CallsAlone
  BY FanOutFacts DEF Init, CallsAlone
<1>4. \A k \in Key : status[k] = "none" /\ takers[k] = {}
  BY DEF Init
<1>5. Awaited /\ WholeViews
  BY <1>4, KeyFacts DEF Awaited, WholeViews, Outstanding
<1> QED
  BY <1>1, <1>2, <1>3, <1>5

LEMMA GroupsInvStep ==
    ASSUME Orderly, GroupsInv, [Next]_vars
    PROVE  GroupsInv'
<1>1. TypeOK' /\ Listed' /\ TodoLeft'
  BY TypesStep DEF GroupsInv
<1>2. Marked' /\ WaitsOpen' /\ Uncounted'
  BY MarkedStep, UncountedStep DEF GroupsInv
<1>3. PhotoInv' /\ Recorded'
  BY HandlerReadsStep, ColumnsStep, RecordedStep DEF GroupsInv, PhotoInv
<1>4. Solo' /\ CallsAlone' /\ Awaited'
  BY SoloStep, CallsAloneStep, AwaitedStep DEF GroupsInv
<1>5. WholeViews'
  BY WholeViewsStep DEF GroupsInv
<1> QED
  BY <1>1, <1>2, <1>3, <1>4, <1>5 DEF GroupsInv

\* Provided calls await the aggregates before them and the rebuilds that load
\* before they store keep their leases, the groups of a library at rest leave out
\* no photo whose prerequisites succeeded (scanner.go:249-305, handlers.go:92-316):
\* for any photos, deletions, retries, crashes and stale goroutines. Both
\* provisos are needed: the runs pipeline_rerun and pipeline_stale drop one each.
THEOREM GroupsAreComplete ==
    ASSUME Orderly
    PROVE  Spec => []GroupsComplete
<1>1. Init => GroupsInv
  BY InitTypes, PhotoInvInit, GroupsInvInit DEF GroupsInv
<1>2. GroupsInv /\ [Next]_vars => GroupsInv'
  BY GroupsInvStep
<1>3. GroupsInv => GroupsComplete
  <2> SUFFICES ASSUME GroupsInv, Quiet, NEW a \in Aggregate, NEW p \in known,
                      status[KeyOf(a)] = "succeeded", disk[p] # "gone",
                      \A s \in PrereqSet(a) \cap Stage : status[<<s, p>>] = "succeeded"
               PROVE  view[a][p] \cap PrereqSet(a) = Seen(a)[p] \cap PrereqSet(a)
    BY DEF GroupsComplete
  <2>1. Settled /\ p \in Photo /\ Relevant(a, p)
    BY DEF Quiet, Settled, Relevant, GroupsInv, TypeOK
  <2>2. Stored(a, p)
    BY <2>1 DEF GroupsInv, WholeViews
  <2>3. Seen(a)[p] \cap PrereqSet(a) = Due(a, p)
    BY <2>1, SeenDue DEF GroupsInv
  <2> QED
    BY <2>2, <2>3 DEF Stored
<1> QED
  BY <1>1, <1>2, <1>3, PTL DEF Spec
=============================================================================
