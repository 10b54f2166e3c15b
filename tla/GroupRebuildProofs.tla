------------------------ MODULE GroupRebuildProofs ------------------------
(***************************************************************************)
(* Proofs about GroupRebuild, for any photos, digests and rebuilds.          *)
(* LockInv is the row lock: the rows that two open transactions have deleted *)
(* are apart.  ClashInv is the unique index, over what is stored and what is *)
(* about to be; HashInv ties members to hashes.  IdInv and PageInv follow    *)
(* the rows a listing has seen; LoneInv follows a rebuild that is alone.     *)
(* A lemma per kind of write (ChangeAt, BeginAt, StepAt, EndAt) says what it *)
(* does to each rebuild; the steps cite those.                               *)
(***************************************************************************)
EXTENDS GroupRebuild, FiniteSetTheorems, TLAPS

-----------------------------------------------------------------------------
(* Types, and what each kind of write does to a rebuild.                   *)

LEMMA UnusedTx == Unused \in Transaction
  BY DEF Unused, Transaction, NothingLoaded, Values

LEMMA GroupOfType ==
  ASSUME NEW r \in Rebuild, NEW v \in Values, NEW d \in Digest
  PROVE  GroupOf(r, v, d) \in Group
<1>1. Alike(v, d) \subseteq Picture
  BY DEF Alike
<1>2. Cardinality(Alike(v, d)) \in Nat
  BY <1>1, RebuildAssumption, FS_Subset, FS_CardinalityType
<1> QED BY <1>1, <1>2 DEF GroupOf, Group

LEMMA GroupsOfType ==
  ASSUME NEW r \in Rebuild, NEW v \in Values
  PROVE  GroupsOf(r, v) \subseteq Group
  BY GroupOfType DEF GroupsOf, Keys

LEMMA ChangeAt ==
  ASSUME GroupTypeOK, NEW p \in Picture, NEW v \in Digest \cup {"gone"}, Change(p, v)
  PROVE  /\ tx' \in [Rebuild -> Transaction]
         /\ value' \in Values /\ changes' \in 0..MaxChanges
         /\ \A r \in Rebuild :
              /\ tx'[r].pc = tx[r].pc /\ tx'[r].loaded = tx[r].loaded
              /\ tx'[r].doomed = tx[r].doomed /\ tx'[r].made = tx[r].made
              /\ tx'[r].lone = tx[r].lone
              /\ r \in Active => ~tx'[r].steady
<1>1. value' \in Values
  BY DEF Change, GroupTypeOK, Values
<1>2. changes' \in 0..MaxChanges
  BY RebuildAssumption DEF Change, GroupTypeOK
<1>3. ASSUME NEW r \in Rebuild
      PROVE  /\ tx'[r] \in Transaction
             /\ tx'[r].pc = tx[r].pc /\ tx'[r].loaded = tx[r].loaded
             /\ tx'[r].doomed = tx[r].doomed /\ tx'[r].made = tx[r].made
             /\ tx'[r].lone = tx[r].lone
             /\ r \in Active => ~tx'[r].steady
  <2>1. tx[r] \in Transaction
    BY DEF GroupTypeOK
  <2>2. tx'[r] = [tx[r] EXCEPT !.steady = IF r \in Active THEN FALSE ELSE tx[r].steady]
    BY <2>1 DEF Change
  <2>3. CASE r \in Active
    BY <2>1, <2>2, <2>3 DEF Transaction
  <2>4. CASE r \notin Active
    BY <2>1, <2>2, <2>4 DEF Transaction
  <2> QED BY <2>3, <2>4
<1>4. tx' \in [Rebuild -> Transaction]
  BY <1>3 DEF Change
<1> QED BY <1>1, <1>2, <1>3, <1>4

LEMMA BeginAt ==
  ASSUME GroupTypeOK, NEW r \in Rebuild, Begin(r)
  PROVE  /\ tx' \in [Rebuild -> Transaction]
         /\ tx'[r].pc = "begun" /\ tx'[r].doomed = {} /\ tx'[r].made = {}
         /\ tx'[r].lone => Active = {}
         /\ feature # "duplicates" => tx'[r].loaded = value
         /\ \A s \in Rebuild : s # r =>
              /\ tx'[s].pc = tx[s].pc /\ tx'[s].loaded = tx[s].loaded
              /\ tx'[s].doomed = tx[s].doomed /\ tx'[s].made = tx[s].made
              /\ tx'[s].steady = tx[s].steady
              /\ s \in Active => ~tx'[s].lone
<1> DEFINE alone == (Active = {})
<1>1. alone \in BOOLEAN
  OBVIOUS
<1>2. tx'[r] = [Unused EXCEPT !.pc = "begun", !.lone = alone,
                  !.loaded = IF feature = "duplicates" THEN Unused.loaded ELSE value]
  BY DEF Begin
<1>3. alone => Active = {}
  OBVIOUS
<1> HIDE DEF alone
<1>4. /\ tx'[r] \in Transaction
      /\ tx'[r].pc = "begun" /\ tx'[r].doomed = {} /\ tx'[r].made = {}
      /\ tx'[r].lone => alone
      /\ feature # "duplicates" => tx'[r].loaded = value
  <2>1. value \in Values /\ NothingLoaded \in Values
    BY DEF GroupTypeOK, NothingLoaded, Values
  <2>2. CASE feature = "duplicates"
    BY <1>1, <1>2, <2>1, <2>2 DEF Unused, Transaction
  <2>3. CASE feature # "duplicates"
    BY <1>1, <1>2, <2>1, <2>3 DEF Unused, Transaction
  <2> QED BY <2>2, <2>3
<1>5. ASSUME NEW s \in Rebuild, s # r
      PROVE  /\ tx'[s] \in Transaction
             /\ tx'[s].pc = tx[s].pc /\ tx'[s].loaded = tx[s].loaded
             /\ tx'[s].doomed = tx[s].doomed /\ tx'[s].made = tx[s].made
             /\ tx'[s].steady = tx[s].steady
             /\ s \in Active => ~tx'[s].lone
  <2>1. tx[s] \in Transaction
    BY DEF GroupTypeOK
  <2>2. tx'[s] = [tx[s] EXCEPT !.lone = IF s \in Active THEN FALSE ELSE tx[s].lone]
    BY <1>5, <2>1 DEF Begin
  <2>3. CASE s \in Active
    BY <2>1, <2>2, <2>3 DEF Transaction
  <2>4. CASE s \notin Active
    BY <2>1, <2>2, <2>4 DEF Transaction
  <2> QED BY <2>3, <2>4
<1>6. tx' \in [Rebuild -> Transaction]
  BY <1>4, <1>5 DEF Begin
<1> QED BY <1>3, <1>4, <1>5, <1>6

LEMMA StepAt ==
  ASSUME GroupTypeOK, NEW r \in Rebuild,
         NEW to \in {"emptied", "cleared", "grouped", "filled"},
         NEW doomed \in SUBSET Group, NEW made \in SUBSET Group,
         Step(r, to, doomed, made)
  PROVE  /\ tx' \in [Rebuild -> Transaction]
         /\ tx'[r].pc = to /\ tx'[r].doomed = doomed /\ tx'[r].made = made
         /\ tx'[r].lone = tx[r].lone /\ tx'[r].steady = tx[r].steady
         /\ tx'[r].loaded = tx[r].loaded
         /\ \A s \in Rebuild : s # r => tx'[s] = tx[s]
<1>1. tx[r] \in Transaction
  BY DEF GroupTypeOK
<1>2. tx'[r] = [tx[r] EXCEPT !.pc = to, !.doomed = doomed, !.made = made]
  BY DEF Step, GroupTypeOK
<1>3. \A s \in Rebuild : s # r => tx'[s] = tx[s]
  BY DEF Step, GroupTypeOK
<1>4. /\ tx'[r] \in Transaction
      /\ tx'[r].pc = to /\ tx'[r].doomed = doomed /\ tx'[r].made = made
      /\ tx'[r].lone = tx[r].lone /\ tx'[r].steady = tx[r].steady
      /\ tx'[r].loaded = tx[r].loaded
  BY <1>1, <1>2 DEF Transaction
<1>5. tx' \in [Rebuild -> Transaction]
  BY <1>3, <1>4 DEF Step, GroupTypeOK
<1> QED BY <1>3, <1>4, <1>5

LEMMA EndAt ==
  ASSUME GroupTypeOK, NEW r \in Rebuild, NEW how \in {"done", "failed"}, End(r, how)
  PROVE  /\ tx' \in [Rebuild -> Transaction]
         /\ tx'[r].pc = how /\ tx'[r].doomed = {} /\ tx'[r].made = {}
         /\ \A s \in Rebuild : s # r => tx'[s] = tx[s]
<1>1. tx'[r] = [Unused EXCEPT !.pc = how]
  BY DEF End, GroupTypeOK
<1>2. tx'[r] \in Transaction /\ tx'[r].pc = how /\ tx'[r].doomed = {} /\ tx'[r].made = {}
  BY <1>1, UnusedTx DEF Transaction, Unused
<1>3. \A s \in Rebuild : s # r => tx'[s] = tx[s]
  BY DEF End, GroupTypeOK
<1>4. tx' \in [Rebuild -> Transaction]
  BY <1>2, <1>3 DEF End, GroupTypeOK
<1> QED BY <1>2, <1>3, <1>4

\* What the statements of a rebuild delete and insert.
LEMMA RowsTyped ==
  ASSUME GroupTypeOK, NEW r \in Rebuild
  PROVE  /\ tx[r].doomed \subseteq Group /\ tx[r].made \subseteq Group
         /\ tx[r].loaded \in Values /\ Visible(r) \subseteq Group
  BY DEF GroupTypeOK, Transaction, Visible

LEMMA EmptiedType ==
  ASSUME NEW G \in SUBSET Group
  PROVE  {[g EXCEPT !.members = {}] : g \in G} \subseteq Group
  BY DEF Group

LEMMA ClearAt ==
  ASSUME GroupTypeOK, NEW r \in Rebuild, ClearMembers(r) \/ ClearGroups(r)
  PROVE  /\ tx' \in [Rebuild -> Transaction] /\ tx'[r].pc \in {"emptied", "cleared"}
         /\ tx'[r].doomed = groups /\ tx'[r].made = {}
         /\ tx'[r].lone = tx[r].lone /\ tx'[r].steady = tx[r].steady
         /\ tx'[r].loaded = tx[r].loaded
         /\ \A s \in Rebuild : s # r => tx'[s] = tx[s]
         /\ feature' = feature /\ value' = value /\ groups' = groups
         /\ page' = page /\ changes' = changes
         /\ \A s \in Rival(r) : tx[s].doomed = {}
<1>1. groups \in SUBSET Group /\ {} \in SUBSET Group
  BY DEF GroupTypeOK
<1>2. ClearMembers(r) => Step(r, "emptied", groups, {})
  BY DEF ClearMembers
<1>3. ClearGroups(r) => Step(r, "cleared", groups, {})
  BY DEF ClearGroups
<1>4. /\ tx' \in [Rebuild -> Transaction] /\ tx'[r].pc \in {"emptied", "cleared"}
      /\ tx'[r].doomed = groups /\ tx'[r].made = {}
      /\ tx'[r].lone = tx[r].lone /\ tx'[r].steady = tx[r].steady
      /\ tx'[r].loaded = tx[r].loaded
      /\ \A s \in Rebuild : s # r => tx'[s] = tx[s]
  <2>1. CASE ClearMembers(r)
    BY <1>1, <1>2, <2>1, StepAt
  <2>2. CASE ClearGroups(r)
    BY <1>1, <1>3, <2>2, StepAt
  <2> QED BY <2>1, <2>2
<1> QED BY <1>4 DEF ClearMembers, ClearGroups

LEMMA InsertDuplicateGroupsAt ==
  ASSUME GroupTypeOK, NEW r \in Rebuild, InsertDuplicateGroups(r)
  PROVE  /\ tx' \in [Rebuild -> Transaction] /\ tx'[r].pc = "grouped"
         /\ tx'[r].doomed = tx[r].doomed
         /\ tx'[r].made = {[g EXCEPT !.members = {}] : g \in GroupsOf(r, value)}
         /\ tx'[r].lone = tx[r].lone /\ tx'[r].steady = tx[r].steady
         /\ tx'[r].loaded = tx[r].loaded
         /\ \A s \in Rebuild : s # r => tx'[s] = tx[s]
<1> DEFINE new == {[g EXCEPT !.members = {}] : g \in GroupsOf(r, value)}
<1>1. GroupsOf(r, value) \subseteq Group
  BY GroupsOfType DEF GroupTypeOK
<1>2. new \in SUBSET Group
  BY <1>1, EmptiedType
<1>3. tx[r].doomed \in SUBSET Group /\ Step(r, "grouped", tx[r].doomed, new)
  BY RowsTyped DEF InsertDuplicateGroups
<1> HIDE DEF new
<1>4. /\ tx' \in [Rebuild -> Transaction] /\ tx'[r].pc = "grouped"
      /\ tx'[r].doomed = tx[r].doomed /\ tx'[r].made = new
      /\ tx'[r].lone = tx[r].lone /\ tx'[r].steady = tx[r].steady
      /\ tx'[r].loaded = tx[r].loaded
      /\ \A s \in Rebuild : s # r => tx'[s] = tx[s]
  BY <1>2, <1>3, StepAt
<1> QED BY <1>4 DEF new

\* A group with the photos that have its hash by now.
Filled(g) == [g EXCEPT !.members = @ \cup Alike(value, g.key)]

LEMMA FilledType ==
  ASSUME NEW g \in Group
  PROVE  /\ Filled(g) \in Group
         /\ Filled(g).key = g.key /\ Filled(g).by = g.by /\ Filled(g).count = g.count
         /\ Filled(g).members = g.members \cup Alike(value, g.key)
  BY DEF Filled, Group, Alike

Joined(r) == {g \in Visible(r) : Alike(value, g.key) # {}}

LEMMA InsertDuplicateMembersAt ==
  ASSUME GroupTypeOK, NEW r \in Rebuild, InsertDuplicateMembers(r)
  PROVE  /\ tx' \in [Rebuild -> Transaction] /\ tx'[r].pc = "filled"
         /\ tx'[r].doomed = tx[r].doomed \cup Joined(r)
         /\ tx'[r].made = {Filled(g) : g \in tx[r].made \cup Joined(r)}
         /\ tx'[r].lone = tx[r].lone /\ tx'[r].steady = tx[r].steady
         /\ tx'[r].loaded = tx[r].loaded
         /\ \A s \in Rebuild : s # r => tx'[s] = tx[s]
         /\ \A g \in Joined(r), s \in Rebuild :
              s # r /\ s \in Active => g \notin tx[s].doomed
<1> DEFINE filled == {Filled(g) : g \in tx[r].made \cup Joined(r)}
           gone == tx[r].doomed \cup Joined(r)
<1>1. tx[r].made \cup Joined(r) \subseteq Group
  BY RowsTyped DEF Joined
<1>2. filled \in SUBSET Group
  BY <1>1, FilledType
<1>3. gone \in SUBSET Group
  BY <1>1, RowsTyped
<1>4. Step(r, "filled", gone, filled)
  BY DEF InsertDuplicateMembers, Joined, Filled
<1>5. \A g \in Joined(r), s \in Rebuild : s # r /\ s \in Active => g \notin tx[s].doomed
  BY DEF InsertDuplicateMembers, Joined, Rival
<1> HIDE DEF filled, gone
<1>6. /\ tx' \in [Rebuild -> Transaction] /\ tx'[r].pc = "filled"
      /\ tx'[r].doomed = gone /\ tx'[r].made = filled
      /\ tx'[r].lone = tx[r].lone /\ tx'[r].steady = tx[r].steady
      /\ tx'[r].loaded = tx[r].loaded
      /\ \A s \in Rebuild : s # r => tx'[s] = tx[s]
  BY <1>2, <1>3, <1>4, StepAt
<1> QED BY <1>5, <1>6 DEF filled, gone

LEMMA InsertLoadedAt ==
  ASSUME GroupTypeOK, NEW r \in Rebuild, InsertLoaded(r)
  PROVE  /\ tx' \in [Rebuild -> Transaction] /\ tx'[r].pc = "filled"
         /\ tx'[r].doomed = tx[r].doomed
         /\ tx'[r].made = GroupsOf(r, tx[r].loaded)
         /\ tx'[r].lone = tx[r].lone /\ tx'[r].steady = tx[r].steady
         /\ tx'[r].loaded = tx[r].loaded
         /\ \A s \in Rebuild : s # r => tx'[s] = tx[s]
<1> DEFINE new == GroupsOf(r, tx[r].loaded)
<1>1. new \in SUBSET Group /\ tx[r].doomed \in SUBSET Group
  BY RowsTyped, GroupsOfType
<1>2. Step(r, "filled", tx[r].doomed, new)
  BY DEF InsertLoaded
<1> HIDE DEF new
<1>3. /\ tx' \in [Rebuild -> Transaction] /\ tx'[r].pc = "filled"
      /\ tx'[r].doomed = tx[r].doomed /\ tx'[r].made = new
      /\ tx'[r].lone = tx[r].lone /\ tx'[r].steady = tx[r].steady
      /\ tx'[r].loaded = tx[r].loaded
      /\ \A s \in Rebuild : s # r => tx'[s] = tx[s]
  BY <1>1, <1>2, StepAt
<1> QED BY <1>3 DEF new

LEMMA GroupTypesInit == GroupInit => GroupTypeOK
  BY UnusedTx, RebuildAssumption DEF GroupInit, GroupTypeOK, Values

LEMMA GroupTypesStep == GroupTypeOK /\ [GroupNext]_groupVars => GroupTypeOK'
<1> SUFFICES ASSUME GroupTypeOK, [GroupNext]_groupVars PROVE GroupTypeOK'
  OBVIOUS
<1>0. GroupNext \/ UNCHANGED groupVars
  OBVIOUS
<1>1. ASSUME NEW p \in Picture, NEW v \in Digest \cup {"gone"}, Change(p, v) PROVE GroupTypeOK'
  BY <1>1, ChangeAt DEF Change, GroupTypeOK
<1>2. ASSUME NEW r \in Rebuild, Begin(r) PROVE GroupTypeOK'
  BY <1>2, BeginAt DEF Begin, GroupTypeOK
<1>3. ASSUME NEW r \in Rebuild, ClearMembers(r) \/ ClearGroups(r) PROVE GroupTypeOK'
  BY <1>3, ClearAt DEF GroupTypeOK
<1>5. ASSUME NEW r \in Rebuild, InsertDuplicateGroups(r) PROVE GroupTypeOK'
  <2>1. tx' \in [Rebuild -> Transaction]
    BY <1>5, InsertDuplicateGroupsAt
  <2> QED BY <1>5, <2>1 DEF InsertDuplicateGroups, GroupTypeOK
<1>6. ASSUME NEW r \in Rebuild, InsertDuplicateMembers(r) PROVE GroupTypeOK'
  <2>1. tx' \in [Rebuild -> Transaction]
    BY <1>6, InsertDuplicateMembersAt
  <2> QED BY <1>6, <2>1 DEF InsertDuplicateMembers, GroupTypeOK
<1>7. ASSUME NEW r \in Rebuild, InsertLoaded(r) PROVE GroupTypeOK'
  <2>1. tx' \in [Rebuild -> Transaction]
    BY <1>7, InsertLoadedAt
  <2> QED BY <1>7, <2>1 DEF InsertLoaded, GroupTypeOK
<1>8. ASSUME NEW r \in Rebuild, Commit(r) PROVE GroupTypeOK'
  <2>1. tx' \in [Rebuild -> Transaction]
    BY <1>8, EndAt DEF Commit
  <2>2. groups' \subseteq Group
    BY <1>8, RowsTyped DEF Commit
  <2> QED BY <1>8, <2>1, <2>2 DEF Commit, GroupTypeOK
<1>9. ASSUME NEW r \in Rebuild, RollBack(r) PROVE GroupTypeOK'
  <2>1. tx' \in [Rebuild -> Transaction]
    BY <1>9, EndAt DEF RollBack
  <2> QED BY <1>9, <2>1 DEF RollBack, GroupTypeOK
<1>10. ASSUME ListGroups \/ ListMembers \/ UNCHANGED groupVars PROVE GroupTypeOK'
  BY <1>10 DEF ListGroups, ListMembers, groupVars, GroupTypeOK
<1> HIDE DEF GroupTypeOK
<1>11. ASSUME NEW p \in Picture, Compute(p) \/ Lose(p) PROVE GroupTypeOK'
  BY <1>1, <1>11 DEF Compute, Lose
<1> QED
  BY <1>0, <1>2, <1>3, <1>5, <1>6, <1>7, <1>8, <1>9, <1>10, <1>11 DEF GroupNext

\* Every variable of the rebuilds has its type, whichever statements of theirs
\* (duplicates.go:108-225, similar.go:186-290, clusters.go:61-160) interleave.
THEOREM GroupTypes == GroupSpec => []GroupTypeOK
  BY GroupTypesInit, GroupTypesStep, PTL DEF GroupSpec

-----------------------------------------------------------------------------
(* The row lock.                                                           *)

\* A transaction holds rows only between its statements, and the rows that two
\* of them have deleted and not committed are apart.
LockInv ==
    /\ \A r \in Rebuild :
         /\ tx[r].pc \in {"waiting", "begun", "done", "failed"} => tx[r].doomed = {}
         /\ tx[r].pc \notin {"grouped", "filled"} => tx[r].made = {}
         /\ tx[r].pc = "grouped" => feature = "duplicates"
         /\ tx[r].doomed \subseteq groups
    /\ \A r, s \in Rebuild : r # s => tx[r].doomed \cap tx[s].doomed = {}

LEMMA LockInit == GroupInit => LockInv
  BY DEF GroupInit, LockInv, Unused

\* Whoever holds rows is a rival of whoever else there is.
LEMMA RivalsHold ==
  ASSUME LockInv, NEW r \in Rebuild, \A s \in Rival(r) : tx[s].doomed = {}
  PROVE  \A s \in Rebuild : s # r => tx[s].doomed = {}
  BY DEF LockInv, Rival, Active

LEMMA LockStep == GroupTypeOK /\ LockInv /\ [GroupNext]_groupVars => LockInv'
<1> SUFFICES ASSUME GroupTypeOK, LockInv, [GroupNext]_groupVars PROVE LockInv'
  OBVIOUS
<1>0. GroupNext \/ UNCHANGED groupVars
  OBVIOUS
<1>1. ASSUME NEW p \in Picture, NEW v \in Digest \cup {"gone"}, Change(p, v) PROVE LockInv'
  <2>1. feature' = feature /\ groups' = groups
    BY <1>1 DEF Change
  <2> QED BY <1>1, <2>1, ChangeAt DEF LockInv
<1>2. ASSUME NEW r \in Rebuild, Begin(r) PROVE LockInv'
  <2>1. feature' = feature /\ groups' = groups
    BY <1>2 DEF Begin
  <2> QED BY <1>2, <2>1, BeginAt DEF LockInv
<1>3. ASSUME NEW r \in Rebuild, ClearMembers(r) \/ ClearGroups(r) PROVE LockInv'
  BY <1>3, ClearAt, RivalsHold DEF LockInv
<1>5. ASSUME NEW r \in Rebuild, InsertDuplicateGroups(r) PROVE LockInv'
  <2>1. feature' = feature /\ groups' = groups /\ feature = "duplicates"
    BY <1>5 DEF InsertDuplicateGroups
  <2>2. /\ tx'[r].pc = "grouped" /\ tx'[r].doomed = tx[r].doomed
        /\ \A s \in Rebuild : s # r => tx'[s] = tx[s]
    BY <1>5, InsertDuplicateGroupsAt
  <2> QED BY <2>1, <2>2 DEF LockInv
<1>6. ASSUME NEW r \in Rebuild, InsertDuplicateMembers(r) PROVE LockInv'
  <2>1. feature' = feature /\ groups' = groups
    BY <1>6 DEF InsertDuplicateMembers
  <2>2. /\ tx'[r].pc = "filled" /\ tx'[r].doomed = tx[r].doomed \cup Joined(r)
        /\ \A s \in Rebuild : s # r => tx'[s] = tx[s]
    BY <1>6, InsertDuplicateMembersAt
  <2>3. \A s \in Rebuild : s # r => Joined(r) \cap tx[s].doomed = {}
    BY <1>6, InsertDuplicateMembersAt DEF LockInv, Active
  <2>4. Joined(r) \subseteq groups
    BY DEF Joined, Visible
  <2> QED BY <2>1, <2>2, <2>3, <2>4 DEF LockInv
<1>7. ASSUME NEW r \in Rebuild, InsertLoaded(r) PROVE LockInv'
  <2>1. feature' = feature /\ groups' = groups
    BY <1>7 DEF InsertLoaded
  <2>2. /\ tx'[r].pc = "filled" /\ tx'[r].doomed = tx[r].doomed
        /\ \A s \in Rebuild : s # r => tx'[s] = tx[s]
    BY <1>7, InsertLoadedAt
  <2> QED BY <2>1, <2>2 DEF LockInv
<1>8. ASSUME NEW r \in Rebuild, Commit(r) PROVE LockInv'
  <2>1. feature' = feature /\ groups' = Visible(r) \cup tx[r].made /\ End(r, "done")
    BY <1>8 DEF Commit
  <2>2. /\ tx'[r].pc = "done" /\ tx'[r].doomed = {} /\ tx'[r].made = {}
        /\ \A s \in Rebuild : s # r => tx'[s] = tx[s]
    BY <2>1, EndAt
  <2>3. \A s \in Rebuild : s # r => tx[s].doomed \subseteq groups'
    BY <2>1 DEF LockInv, Visible
  <2> QED BY <2>1, <2>2, <2>3 DEF LockInv
<1>9. ASSUME NEW r \in Rebuild, RollBack(r) PROVE LockInv'
  <2>1. feature' = feature /\ groups' = groups /\ End(r, "failed")
    BY <1>9 DEF RollBack
  <2> QED BY <2>1, EndAt DEF LockInv
<1>10. ASSUME ListGroups \/ ListMembers \/ UNCHANGED groupVars PROVE LockInv'
  BY <1>10 DEF ListGroups, ListMembers, groupVars, LockInv
<1> HIDE DEF LockInv, GroupTypeOK
<1>11. ASSUME NEW p \in Picture, Compute(p) \/ Lose(p) PROVE LockInv'
  BY <1>1, <1>11 DEF Compute, Lose
<1> QED
  BY <1>0, <1>2, <1>3, <1>5, <1>6, <1>7, <1>8, <1>9, <1>10, <1>11 DEF GroupNext

-----------------------------------------------------------------------------
(* The unique index.                                                       *)

\* Two groups that may not be stored beside each other.
Clash(g, h) ==
    IF feature = "duplicates" THEN g.key = h.key ELSE g.members \cap h.members # {}

\* The committed rows are apart, what each rebuild is about to commit is apart,
\* and each of the two is apart from what others are about to.
ClashInv ==
    feature # "similar" =>
      /\ \A g, h \in groups : g # h => ~Clash(g, h)
      /\ \A r \in Rebuild :
           /\ \A g, h \in tx[r].made : g # h => ~Clash(g, h)
           /\ \A g \in tx[r].made, h \in Visible(r) : ~Clash(g, h)
      /\ \A r, s \in Rebuild : r # s =>
           \A g \in tx[r].made, h \in tx[s].made : ~Clash(g, h)

\* The rows, deleted or inserted or there, are what they were.
RowsStay ==
    /\ feature' = feature /\ groups' = groups
    /\ \A r \in Rebuild : tx'[r].doomed = tx[r].doomed /\ tx'[r].made = tx[r].made

\* Photos that change, a rebuild that begins and a listing write no rows.
LEMMA RowsStaySteps ==
  ASSUME GroupTypeOK, LockInv,
         \/ \E p \in Picture, v \in Digest \cup {"gone"} : Change(p, v)
         \/ \E r \in Rebuild : Begin(r)
         \/ ListGroups \/ ListMembers \/ UNCHANGED groupVars
  PROVE  RowsStay
<1>1. ASSUME NEW p \in Picture, NEW v \in Digest \cup {"gone"}, Change(p, v) PROVE RowsStay
  <2>1. feature' = feature /\ groups' = groups
    BY <1>1 DEF Change
  <2> QED BY <1>1, <2>1, ChangeAt DEF RowsStay
<1>2. ASSUME NEW r \in Rebuild, Begin(r) PROVE RowsStay
  <2>1. feature' = feature /\ groups' = groups /\ tx[r].pc = "waiting"
    BY <1>2 DEF Begin
  <2>2. tx[r].doomed = {} /\ tx[r].made = {}
    BY <2>1 DEF LockInv
  <2> QED BY <1>2, <2>1, <2>2, BeginAt DEF RowsStay
<1>3. ASSUME ListGroups \/ ListMembers \/ UNCHANGED groupVars PROVE RowsStay
  BY <1>3 DEF ListGroups, ListMembers, groupVars, RowsStay
<1> QED BY <1>1, <1>2, <1>3

LEMMA ClashInit == GroupInit => ClashInv
  BY DEF GroupInit, ClashInv, Unused

LEMMA GroupsOfAt ==
  ASSUME NEW r, NEW v, NEW g \in GroupsOf(r, v)
  PROVE  /\ g.key \in Digest /\ g.by = r /\ g.members = Alike(v, g.key)
         /\ g = GroupOf(r, v, g.key)
  BY DEF GroupsOf, GroupOf, Keys

\* The groups made of one reading of the photos are apart.
LEMMA MadeApart ==
  ASSUME NEW r, NEW v, NEW g \in GroupsOf(r, v), NEW h \in GroupsOf(r, v), g # h
  PROVE  g.key # h.key /\ g.members \cap h.members = {}
<1>1. g.key # h.key
  BY GroupsOfAt
<1> QED BY <1>1, GroupsOfAt DEF Alike

\* So are they without their members.
LEMMA EmptiedApart ==
  ASSUME GroupTypeOK, NEW r \in Rebuild, NEW new,
         new = {[g EXCEPT !.members = {}] : g \in GroupsOf(r, value)}
  PROVE  /\ \A g, h \in new : g # h => g.key # h.key
         /\ \A g \in new : g.members = {} /\ g.by = r
<1>1. \A g \in GroupsOf(r, value) : g \in Group
  BY GroupsOfType DEF GroupTypeOK
<1>2. \A g \in Group : LET e == [g EXCEPT !.members = {}]
                        IN  e.key = g.key /\ e.by = g.by /\ e.members = {}
  BY DEF Group
<1>3. \A g \in new : \E h \in GroupsOf(r, value) :
        g = [h EXCEPT !.members = {}] /\ g.key = h.key /\ g.by = h.by /\ g.members = {}
  BY <1>1, <1>2
<1>4. \A g, h \in GroupsOf(r, value) : g.key = h.key => g = h
  BY MadeApart
<1>5. \A g \in GroupsOf(r, value) : g.by = r
  BY GroupsOfAt
<1>6. ASSUME NEW g \in new, NEW h \in new, g.key = h.key PROVE g = h
  <2>1. PICK a \in GroupsOf(r, value) : g = [a EXCEPT !.members = {}] /\ g.key = a.key
    BY <1>3
  <2>2. PICK b \in GroupsOf(r, value) : h = [b EXCEPT !.members = {}] /\ h.key = b.key
    BY <1>3
  <2>3. a = b
    BY <1>4, <1>6, <2>1, <2>2
  <2> QED BY <2>1, <2>2, <2>3
<1>7. \A g \in new : g.members = {} /\ g.by = r
  BY <1>3, <1>5
<1> QED BY <1>6, <1>7

\* No step changes what is being rebuilt.
LEMMA FeatureStays == [GroupNext]_groupVars => feature' = feature
<1> SUFFICES ASSUME [GroupNext]_groupVars PROVE feature' = feature
  OBVIOUS
<1>1. ASSUME NEW p \in Picture, Compute(p) \/ Lose(p) PROVE feature' = feature
  BY <1>1 DEF Compute, Lose, Change
<1>2. ASSUME NEW r \in Rebuild,
             Begin(r) \/ ClearMembers(r) \/ ClearGroups(r) \/ Commit(r) \/ RollBack(r)
      PROVE  feature' = feature
  BY <1>2 DEF Begin, ClearMembers, ClearGroups, Commit, RollBack
<1>3. ASSUME NEW r \in Rebuild, InsertDuplicateGroups(r) PROVE feature' = feature
  BY <1>3 DEF InsertDuplicateGroups
<1>4. ASSUME NEW r \in Rebuild, InsertDuplicateMembers(r) \/ InsertLoaded(r) PROVE feature' = feature
  BY <1>4 DEF InsertDuplicateMembers, InsertLoaded
<1>5. ASSUME ListGroups \/ ListMembers \/ UNCHANGED groupVars PROVE feature' = feature
  BY <1>5 DEF ListGroups, ListMembers, groupVars
<1> QED BY <1>1, <1>2, <1>3, <1>4, <1>5 DEF GroupNext

LEMMA ClashStep == GroupTypeOK /\ LockInv /\ ClashInv /\ [GroupNext]_groupVars => ClashInv'
<1> SUFFICES ASSUME GroupTypeOK, LockInv, ClashInv, [GroupNext]_groupVars PROVE ClashInv'
  OBVIOUS
<1> SUFFICES ASSUME feature # "similar" PROVE ClashInv'
  BY FeatureStays DEF ClashInv
<1>0. GroupNext \/ UNCHANGED groupVars
  OBVIOUS
<1>1. ASSUME RowsStay PROVE ClashInv'
  BY <1>1 DEF ClashInv, RowsStay, Visible, Clash
<1>3. ASSUME NEW r \in Rebuild, ClearMembers(r) \/ ClearGroups(r) PROVE ClashInv'
  BY <1>3, ClearAt DEF ClashInv, Visible, Clash
<1>5. ASSUME NEW r \in Rebuild, InsertDuplicateGroups(r) PROVE ClashInv'
  <2> DEFINE new == {[g EXCEPT !.members = {}] : g \in GroupsOf(r, value)}
             taken == {g.key : g \in Visible(r) \cup UNION {tx[s].made : s \in Rival(r)}}
  <2>1. /\ feature' = feature /\ groups' = groups /\ feature = "duplicates"
        /\ {g.key : g \in new} \cap taken = {}
    BY <1>5 DEF InsertDuplicateGroups
  <2>2. /\ tx'[r].doomed = tx[r].doomed /\ tx'[r].made = new
        /\ \A s \in Rebuild : s # r => tx'[s] = tx[s]
    BY <1>5, InsertDuplicateGroupsAt
  <2>3. \A g \in new, h \in Visible(r) : g.key # h.key
    BY <2>1
  <2>4. \A s \in Rebuild : s # r => \A g \in new, h \in tx[s].made : g.key # h.key
    <3>1. \A s \in Rebuild : s # r /\ tx[s].made # {} => s \in Rival(r)
      BY DEF LockInv, Rival, Active
    <3> QED BY <2>1, <3>1
  <2>5. new = {[g EXCEPT !.members = {}] : g \in GroupsOf(r, value)}
    OBVIOUS
  <2> HIDE DEF new, taken
  <2>6. \A g, h \in new : g # h => g.key # h.key
    BY <2>5, EmptiedApart
  <2> QED BY <2>1, <2>2, <2>3, <2>4, <2>6 DEF ClashInv, Visible, Clash
<1>6. ASSUME NEW r \in Rebuild, InsertDuplicateMembers(r) PROVE ClashInv'
  <2>1. feature' = feature /\ groups' = groups /\ feature = "duplicates"
    BY <1>6 DEF InsertDuplicateMembers, LockInv
  <2>2. /\ tx'[r].doomed = tx[r].doomed \cup Joined(r)
        /\ tx'[r].made = {Filled(g) : g \in tx[r].made \cup Joined(r)}
        /\ \A s \in Rebuild : s # r => tx'[s] = tx[s]
        /\ \A g \in Joined(r), s \in Rebuild : s # r /\ s \in Active => g \notin tx[s].doomed
    BY <1>6, InsertDuplicateMembersAt
  <2>3. /\ Joined(r) \subseteq Visible(r) /\ Visible(r) \subseteq groups
        /\ \A s \in Rebuild : s # r /\ tx[s].made # {} => Joined(r) \subseteq Visible(s)
    BY <2>2 DEF Joined, Visible, LockInv, Active
  <2>4. \A g \in tx[r].made \cup Joined(r) : Filled(g).key = g.key
    BY FilledType, RowsTyped DEF Joined
  <2>5. \A g, h \in tx[r].made \cup Joined(r) : g # h => g.key # h.key
    BY <2>1, <2>3 DEF ClashInv, Clash
  <2>6. \A g \in tx[r].made \cup Joined(r), h \in Visible(r) \ Joined(r) : g.key # h.key
    BY <2>1, <2>3 DEF ClashInv, Clash
  <2>7. \A s \in Rebuild : s # r =>
          \A g \in tx[r].made \cup Joined(r), h \in tx[s].made : g.key # h.key
    BY <2>1, <2>3 DEF ClashInv, Clash
  <2>8. Visible(r)' = Visible(r) \ Joined(r)
    BY <2>1, <2>2 DEF Visible
  <2>9. \A g, h \in tx'[r].made : g # h => g.key # h.key
    BY <2>2, <2>4, <2>5
  <2>10. \A g \in tx'[r].made, h \in Visible(r)' : g.key # h.key
    BY <2>2, <2>4, <2>6, <2>8
  <2>11. \A s \in Rebuild : s # r => \A g \in tx'[r].made, h \in tx'[s].made : g.key # h.key
    BY <2>2, <2>4, <2>7
  <2>12. \A s \in Rebuild : s # r => tx'[s] = tx[s]
    BY <2>2
  <2> QED BY <2>1, <2>9, <2>10, <2>11, <2>12 DEF ClashInv, Clash, Visible
<1>7. ASSUME NEW r \in Rebuild, InsertLoaded(r) PROVE ClashInv'
  <2> DEFINE new == GroupsOf(r, tx[r].loaded)
             mine == UNION {g.members : g \in new}
             taken == UNION {g.members : g \in Visible(r) \cup UNION {tx[s].made : s \in Rival(r)}}
  <2>1. /\ feature' = feature /\ groups' = groups /\ feature = "clusters"
        /\ mine \cap taken = {}
    <3>1. feature \in {"duplicates", "similar", "clusters"}
      BY DEF GroupTypeOK
    <3>2. feature # "duplicates" /\ feature' = feature /\ groups' = groups
      BY <1>7 DEF InsertLoaded
    <3>3. feature = "clusters"
      BY <3>1, <3>2
    <3>4. mine \cap taken = {}
      BY <1>7, <3>3 DEF InsertLoaded
    <3> QED BY <3>2, <3>3, <3>4
  <2>2. /\ tx'[r].doomed = tx[r].doomed /\ tx'[r].made = new
        /\ \A s \in Rebuild : s # r => tx'[s] = tx[s]
    BY <1>7, InsertLoadedAt
  <2>3. \A g \in new, h \in Visible(r) : g.members \cap h.members = {}
    <3>1. ASSUME NEW g \in new, NEW h \in Visible(r), NEW p \in g.members, p \in h.members
          PROVE  FALSE
      <4>1. p \in mine
        OBVIOUS
      <4>2. p \in taken
        BY <3>1
      <4> HIDE DEF taken, mine, new
      <4> QED BY <2>1, <4>1, <4>2
    <3> QED BY <3>1
  <2>4. \A s \in Rebuild : s # r => \A g \in new, h \in tx[s].made : g.members \cap h.members = {}
    <3>1. \A s \in Rebuild : s # r /\ tx[s].made # {} => s \in Rival(r)
      BY DEF LockInv, Rival, Active
    <3>2. ASSUME NEW s \in Rebuild, s # r, NEW g \in new, NEW h \in tx[s].made,
                 NEW p \in g.members, p \in h.members
          PROVE  FALSE
      <4>1. p \in mine
        OBVIOUS
      <4>2. h \in UNION {tx[q].made : q \in Rival(r)}
        BY <3>1, <3>2
      <4>3. p \in taken
        BY <3>2, <4>2
      <4> HIDE DEF taken, mine, new
      <4> QED BY <2>1, <4>1, <4>3
    <3> QED BY <3>2
  <2>5. \A g, h \in new : g # h => g.members \cap h.members = {}
    BY MadeApart
  <2> HIDE DEF new, taken
  <2> QED BY <2>1, <2>2, <2>3, <2>4, <2>5 DEF ClashInv, Visible, Clash
<1>8. ASSUME NEW r \in Rebuild, Commit(r) PROVE ClashInv'
  <2>1. feature' = feature /\ groups' = Visible(r) \cup tx[r].made /\ End(r, "done")
    BY <1>8 DEF Commit
  <2>2. /\ tx'[r].doomed = {} /\ tx'[r].made = {}
        /\ \A s \in Rebuild : s # r => tx'[s] = tx[s]
    BY <2>1, EndAt
  <2>3. \A s \in Rebuild : s # r => Visible(s)' \subseteq Visible(s) \cup tx[r].made
    BY <2>1, <2>2 DEF Visible
  <2>4. Visible(r) \subseteq groups
    BY DEF Visible
  <2>5. \A g, h \in groups' : g # h => ~Clash(g, h)
    BY <2>1, <2>4 DEF ClashInv, Clash
  <2>6. \A s \in Rebuild : s # r => \A g \in tx[s].made, h \in Visible(s)' : ~Clash(g, h)
    BY <2>3 DEF ClashInv
  <2> QED BY <2>1, <2>2, <2>5, <2>6 DEF ClashInv, Clash
<1>9. ASSUME NEW r \in Rebuild, RollBack(r) PROVE ClashInv'
  <2>1. feature' = feature /\ groups' = groups /\ End(r, "failed")
    BY <1>9 DEF RollBack
  <2>2. /\ tx'[r].doomed = {} /\ tx'[r].made = {}
        /\ \A s \in Rebuild : s # r => tx'[s] = tx[s]
    BY <2>1, EndAt
  <2> QED BY <2>1, <2>2 DEF ClashInv, Clash, Visible
<1> HIDE DEF LockInv, ClashInv, GroupTypeOK
<1>11. ASSUME \/ \E p \in Picture : Compute(p) \/ Lose(p)
              \/ \E r \in Rebuild : Begin(r)
              \/ ListGroups \/ ListMembers \/ UNCHANGED groupVars
       PROVE  ClashInv'
  BY <1>1, <1>11, RowsStaySteps DEF Compute, Lose
<1> QED
  BY <1>0, <1>3, <1>5, <1>6, <1>7, <1>8, <1>9, <1>11 DEF GroupNext

-----------------------------------------------------------------------------
(* Members and hashes.                                                     *)

\* The groups that are stored or about to be.
Written == groups \cup UNION {tx[r].made : r \in Rebuild}

\* A photo that is a member of a group had the hash of the group, and has had
\* no other since.
HashInv ==
    feature = "duplicates" =>
      \A g \in Written : \A p \in g.members :
        /\ value[p] \in {g.key, "gone"}
        /\ \A h \in Written : p \in h.members => h.key = g.key

LEMMA HashInit == GroupInit => HashInv
  BY DEF GroupInit, HashInv, Unused, Written

LEMMA WrittenTyped == GroupTypeOK => Written \subseteq Group
  BY RowsTyped DEF GroupTypeOK, Written

\* A step that writes no member anew, and no photo, keeps the hashes right.
LEMMA HashKept ==
  ASSUME HashInv, feature' = feature, value' = value, Written' \subseteq Written
  PROVE  HashInv'
  BY DEF HashInv

LEMMA HashStep == GroupTypeOK /\ LockInv /\ HashInv /\ [GroupNext]_groupVars => HashInv'
<1> SUFFICES ASSUME GroupTypeOK, LockInv, HashInv, [GroupNext]_groupVars PROVE HashInv'
  OBVIOUS
<1> SUFFICES ASSUME feature = "duplicates" PROVE HashInv'
  BY FeatureStays DEF HashInv
<1>0. GroupNext \/ UNCHANGED groupVars
  OBVIOUS
<1>1. ASSUME NEW p \in Picture, Compute(p) \/ Lose(p) PROVE HashInv'
  <2>1. \E v \in Digest \cup {"gone"} : Change(p, v) /\ (v = "gone" \/ value[p] = "unset")
    BY <1>1 DEF Compute, Lose
  <2>2. PICK v \in Digest \cup {"gone"} : Change(p, v) /\ (v = "gone" \/ value[p] = "unset")
    BY <2>1
  <2>3. RowsStay
    BY <2>2, RowsStaySteps
  <2>4. Written' = Written /\ feature' = feature
    BY <2>3 DEF RowsStay, Written
  <2>5. \A q \in Picture : value'[q] = value[q] \/ value'[q] = "gone" \/ value[q] = "unset"
    BY <2>2 DEF Change, GroupTypeOK, Values
  <2>6. \A g \in Written : g.key \in Digest /\ g.members \subseteq Picture
    BY WrittenTyped DEF Group
  <2> QED BY <2>4, <2>5, <2>6, RebuildAssumption DEF HashInv
<1>2. ASSUME NEW r \in Rebuild, Begin(r) PROVE HashInv'
  <2>1. value' = value /\ feature' = feature
    BY <1>2 DEF Begin
  <2>2. RowsStay
    BY <1>2, RowsStaySteps
  <2>3. Written' \subseteq Written
    BY <2>2 DEF RowsStay, Written
  <2> QED BY <2>1, <2>3, HashKept
<1>3. ASSUME NEW r \in Rebuild, ClearMembers(r) \/ ClearGroups(r) PROVE HashInv'
  <2>1. Written' \subseteq Written /\ value' = value /\ feature' = feature
    BY <1>3, ClearAt DEF Written
  <2> QED BY <2>1, HashKept
<1>5. ASSUME NEW r \in Rebuild, InsertDuplicateGroups(r) PROVE HashInv'
  <2>1. feature' = feature /\ groups' = groups /\ value' = value
    BY <1>5 DEF InsertDuplicateGroups
  <2> DEFINE new == {[g EXCEPT !.members = {}] : g \in GroupsOf(r, value)}
  <2>2. /\ tx'[r].made = new
        /\ \A s \in Rebuild : s # r => tx'[s] = tx[s]
    BY <1>5, InsertDuplicateGroupsAt
  <2>3. new = {[g EXCEPT !.members = {}] : g \in GroupsOf(r, value)}
    OBVIOUS
  <2> HIDE DEF new
  <2>4. \A g \in new : g.members = {}
    BY <2>3, EmptiedApart
  <2>5. \A g \in Written' : g \in Written \/ g.members = {}
    BY <2>1, <2>2, <2>4 DEF Written
  <2> QED BY <2>1, <2>5 DEF HashInv
<1>6. ASSUME NEW r \in Rebuild, InsertDuplicateMembers(r) PROVE HashInv'
  <2>1. feature' = feature /\ groups' = groups /\ value' = value
    BY <1>6 DEF InsertDuplicateMembers
  <2>2. /\ tx'[r].made = {Filled(g) : g \in tx[r].made \cup Joined(r)}
        /\ \A s \in Rebuild : s # r => tx'[s] = tx[s]
    BY <1>6, InsertDuplicateMembersAt
  <2>3. tx[r].made \cup Joined(r) \subseteq Written
    BY DEF Written, Joined, Visible
  <2>4. \A g \in Written' : \E h \in Written :
          g.key = h.key /\ (g = h \/ g.members = h.members \cup Alike(value, h.key))
    <3>1. \A h \in tx[r].made \cup Joined(r) :
            Filled(h).key = h.key /\ Filled(h).members = h.members \cup Alike(value, h.key)
      BY <2>3, WrittenTyped, FilledType
    <3>2. \A g \in tx'[r].made : \E h \in Written :
            g.key = h.key /\ g.members = h.members \cup Alike(value, h.key)
      BY <2>2, <2>3, <3>1
    <3>3. \A g \in Written' : g \in Written \/ g \in tx'[r].made
      BY <2>1, <2>2 DEF Written
    <3> QED BY <3>2, <3>3
  <2>5. \A h \in Written : h.key \in Digest
    BY WrittenTyped DEF Group
  <2>6. \A g \in Written' : \A p \in g.members : \E h \in Written :
          h.key = g.key /\ (p \in h.members \/ value[p] = h.key)
    BY <2>4 DEF Alike
  <2>7. \A g, h \in Written : \A p :
          /\ p \in g.members => value[p] \in {g.key, "gone"}
          /\ p \in g.members /\ (p \in h.members \/ value[p] = h.key) => h.key = g.key
    BY <2>5, RebuildAssumption DEF HashInv
  <2>8. ASSUME NEW g \in Written', NEW p \in g.members PROVE value[p] \in {g.key, "gone"}
    BY <2>6, <2>7
  <2>9. ASSUME NEW g \in Written', NEW h \in Written', NEW p \in g.members, p \in h.members
        PROVE  g.key = h.key
    <3>1. PICK a \in Written : a.key = g.key /\ (p \in a.members \/ value[p] = a.key)
      BY <2>6
    <3>2. PICK b \in Written : b.key = h.key /\ (p \in b.members \/ value[p] = b.key)
      BY <2>6, <2>9
    <3> QED BY <2>7, <3>1, <3>2
  <2> QED BY <2>1, <2>8, <2>9 DEF HashInv
<1>7. ASSUME NEW r \in Rebuild, InsertLoaded(r) PROVE HashInv'
  BY <1>7 DEF InsertLoaded
<1>8. ASSUME NEW r \in Rebuild, Commit(r) PROVE HashInv'
  <2>1. feature' = feature /\ value' = value /\ groups' = Visible(r) \cup tx[r].made /\ End(r, "done")
    BY <1>8 DEF Commit
  <2>2. tx'[r].made = {} /\ \A s \in Rebuild : s # r => tx'[s] = tx[s]
    BY <2>1, EndAt
  <2>3. Written' \subseteq Written
    BY <2>1, <2>2 DEF Written, Visible
  <2> QED BY <2>1, <2>3, HashKept
<1>9. ASSUME NEW r \in Rebuild, RollBack(r) PROVE HashInv'
  <2>1. feature' = feature /\ value' = value /\ groups' = groups /\ End(r, "failed")
    BY <1>9 DEF RollBack
  <2>2. tx'[r].made = {} /\ \A s \in Rebuild : s # r => tx'[s] = tx[s]
    BY <2>1, EndAt
  <2>3. Written' \subseteq Written
    BY <2>1, <2>2 DEF Written
  <2> QED BY <2>1, <2>3, HashKept
<1>10. ASSUME ListGroups \/ ListMembers \/ UNCHANGED groupVars PROVE HashInv'
  BY <1>10 DEF ListGroups, ListMembers, groupVars, HashInv, Written
<1> HIDE DEF LockInv, HashInv, GroupTypeOK
<1> QED
  BY <1>0, <1>1, <1>2, <1>3, <1>5, <1>6, <1>7, <1>8, <1>9, <1>10 DEF GroupNext

\* The unique index keeps keys apart, and a photo's hash keeps its groups to one key.
LEMMA ApartInv == ClashInv /\ HashInv => OneGroupPerPhoto
<1> SUFFICES ASSUME ClashInv, HashInv, feature # "similar",
                    NEW g \in groups, NEW h \in groups, g # h
             PROVE  /\ g.members \cap h.members = {}
                    /\ feature = "duplicates" => g.key # h.key
  BY DEF OneGroupPerPhoto
<1>1. ~Clash(g, h)
  BY DEF ClashInv
<1>2. CASE feature = "duplicates"
  BY <1>1, <1>2 DEF Clash, HashInv, Written
<1>3. CASE feature # "duplicates"
  BY <1>1, <1>3 DEF Clash
<1> QED BY <1>2, <1>3

\* However rebuilds of duplicates and events overlap, fail and race the stages
\* that write photos (duplicates.go:108-190, clusters.go:61-160), no photo is in
\* two groups and no hash has two.
THEOREM PhotosStayInOneGroup == GroupSpec => []OneGroupPerPhoto
<1>1. GroupInit => GroupTypeOK /\ LockInv /\ ClashInv /\ HashInv
  BY GroupTypesInit, LockInit, ClashInit, HashInit
<1>2. GroupTypeOK /\ LockInv /\ ClashInv /\ HashInv /\ [GroupNext]_groupVars
        => (GroupTypeOK /\ LockInv /\ ClashInv /\ HashInv)'
  BY GroupTypesStep, LockStep, ClashStep, HashStep
<1> QED BY <1>1, <1>2, ApartInv, PTL DEF GroupSpec

-----------------------------------------------------------------------------
(* What a listing has seen.                                                *)

\* A group is known by the rebuild that made it and its key; a rebuild stores
\* its own at its end, and rows of others only as what is left of those.
IdInv ==
    /\ \A g \in groups \cup page : g.by \in Rebuild /\ tx[g.by].pc = "done"
    /\ \A g, h \in groups : Id(g) = Id(h) => g = h
    /\ \A r \in Rebuild :
         /\ \A g, h \in tx[r].made : Id(g) = Id(h) => g = h
         /\ \A g \in tx[r].made :
              g.by = r \/ \E h \in tx[r].doomed : Id(h) = Id(g) /\ h.members \subseteq g.members
         /\ tx[r].pc = "grouped" => \A g \in tx[r].made : g.by = r

\* Every group on the page is still stored with all its members, or is no more.
PageInv ==
    \A g \in page : \/ \E h \in groups : Id(h) = Id(g) /\ g.members \subseteq h.members
                    \/ \A h \in groups : Id(h) # Id(g)

\* A rebuild that is over stays so.
LEMMA DoneStays ==
  ASSUME GroupTypeOK, [GroupNext]_groupVars, NEW r \in Rebuild, tx[r].pc = "done"
  PROVE  tx'[r].pc = "done"
<1>0. GroupNext \/ UNCHANGED groupVars
  OBVIOUS
<1>1. ASSUME NEW p \in Picture, Compute(p) \/ Lose(p) PROVE tx'[r].pc = "done"
  <2>1. \E v \in Digest \cup {"gone"} : Change(p, v)
    BY <1>1 DEF Compute, Lose
  <2> QED BY <2>1, ChangeAt
<1>2. ASSUME NEW s \in Rebuild, Begin(s) PROVE tx'[r].pc = "done"
  <2>1. s # r
    BY <1>2 DEF Begin
  <2> QED BY <1>2, <2>1, BeginAt
<1>3. ASSUME NEW s \in Rebuild, ClearMembers(s) \/ ClearGroups(s) PROVE tx'[r].pc = "done"
  <2>1. s # r
    BY <1>3 DEF ClearMembers, ClearGroups
  <2> QED BY <1>3, <2>1, ClearAt
<1>5. ASSUME NEW s \in Rebuild, InsertDuplicateGroups(s) PROVE tx'[r].pc = "done"
  <2>1. s # r
    BY <1>5 DEF InsertDuplicateGroups
  <2> QED BY <1>5, <2>1, InsertDuplicateGroupsAt
<1>6. ASSUME NEW s \in Rebuild, InsertDuplicateMembers(s) PROVE tx'[r].pc = "done"
  <2>1. s # r
    BY <1>6 DEF InsertDuplicateMembers
  <2> QED BY <1>6, <2>1, InsertDuplicateMembersAt
<1>7. ASSUME NEW s \in Rebuild, InsertLoaded(s) PROVE tx'[r].pc = "done"
  <2>1. s # r
    BY <1>7 DEF InsertLoaded
  <2> QED BY <1>7, <2>1, InsertLoadedAt
<1>8. ASSUME NEW s \in Rebuild, Commit(s) PROVE tx'[r].pc = "done"
  BY <1>8, EndAt DEF Commit
<1>9. ASSUME NEW s \in Rebuild, RollBack(s) PROVE tx'[r].pc = "done"
  <2>1. s # r
    BY <1>9 DEF RollBack, Active
  <2> QED BY <1>9, <2>1, EndAt DEF RollBack
<1>10. ASSUME ListGroups \/ ListMembers \/ UNCHANGED groupVars PROVE tx'[r].pc = "done"
  BY <1>10 DEF ListGroups, ListMembers, groupVars
<1> HIDE DEF GroupTypeOK
<1> QED
  BY <1>0, <1>1, <1>2, <1>3, <1>5, <1>6, <1>7, <1>8, <1>9, <1>10 DEF GroupNext

LEMMA IdInit == GroupInit => IdInv
  BY DEF GroupInit, IdInv, Unused

\* The ids of what a rebuild inserts: nobody has one of its own before its end.
LEMMA FilledIds ==
  ASSUME GroupTypeOK, NEW r \in Rebuild, NEW g \in tx[r].made \cup Joined(r)
  PROVE  /\ Id(Filled(g)) = Id(g) /\ Filled(g).by = g.by
         /\ g.members \subseteq Filled(g).members
<1>1. g \in Group
  BY RowsTyped DEF Joined
<1> QED BY <1>1, FilledType DEF Id

LEMMA IdStep == GroupTypeOK /\ LockInv /\ IdInv /\ [GroupNext]_groupVars => IdInv'
<1> SUFFICES ASSUME GroupTypeOK, LockInv, IdInv, [GroupNext]_groupVars PROVE IdInv'
  OBVIOUS
<1>0. GroupNext \/ UNCHANGED groupVars
  OBVIOUS
<1>a. \A r \in Rebuild : tx[r].pc = "done" => tx'[r].pc = "done"
  BY DoneStays
<1>1. ASSUME NEW p \in Picture, NEW v \in Digest \cup {"gone"}, Change(p, v) PROVE IdInv'
  <2>1. groups' = groups /\ page' = page
    BY <1>1 DEF Change
  <2> QED BY <1>1, <2>1, ChangeAt DEF IdInv, Id
<1>2. ASSUME NEW r \in Rebuild, Begin(r) PROVE IdInv'
  <2>1. groups' = groups /\ page' = page
    BY <1>2 DEF Begin
  <2> QED BY <1>2, <1>a, <2>1, BeginAt DEF IdInv, Id
<1>3. ASSUME NEW r \in Rebuild, ClearMembers(r) \/ ClearGroups(r) PROVE IdInv'
  BY <1>3, <1>a, ClearAt DEF IdInv, Id
<1>5. ASSUME NEW r \in Rebuild, InsertDuplicateGroups(r) PROVE IdInv'
  <2>1. groups' = groups /\ page' = page
    BY <1>5 DEF InsertDuplicateGroups
  <2> DEFINE new == {[g EXCEPT !.members = {}] : g \in GroupsOf(r, value)}
  <2>2. /\ tx'[r].made = new
        /\ \A s \in Rebuild : s # r => tx'[s] = tx[s]
    BY <1>5, InsertDuplicateGroupsAt
  <2>3. new = {[g EXCEPT !.members = {}] : g \in GroupsOf(r, value)}
    OBVIOUS
  <2> HIDE DEF new
  <2>4. \A g, h \in new : g # h => g.key # h.key
    BY <2>3, EmptiedApart
  <2>5. \A g \in new : g.by = r
    BY <2>3, EmptiedApart
  <2> QED BY <1>a, <2>1, <2>2, <2>4, <2>5 DEF IdInv, Id
<1>6. ASSUME NEW r \in Rebuild, InsertDuplicateMembers(r) PROVE IdInv'
  <2>1. groups' = groups /\ page' = page /\ tx[r].pc = "grouped"
    BY <1>6 DEF InsertDuplicateMembers
  <2>2. /\ tx'[r].pc = "filled" /\ tx'[r].doomed = tx[r].doomed \cup Joined(r)
        /\ tx'[r].made = {Filled(g) : g \in tx[r].made \cup Joined(r)}
        /\ \A s \in Rebuild : s # r => tx'[s] = tx[s]
    BY <1>6, InsertDuplicateMembersAt
  <2>3. Joined(r) \subseteq groups
    BY DEF Joined, Visible
  <2>4. \A g \in tx[r].made : g.by = r
    BY <2>1 DEF IdInv
  <2>5. \A g \in Joined(r) : g.by # r
    BY <2>1, <2>3 DEF IdInv
  <2>6. \A g, h \in tx[r].made \cup Joined(r) : Id(g) = Id(h) => g = h
    <3>1. \A g, h : Id(g) = Id(h) => g.by = h.by
      BY DEF Id
    <3>2. \A g, h \in tx[r].made : Id(g) = Id(h) => g = h
      BY DEF IdInv
    <3>3. \A g, h \in Joined(r) : Id(g) = Id(h) => g = h
      BY <2>3 DEF IdInv
    <3> QED BY <2>4, <2>5, <3>1, <3>2, <3>3
  <2>7. \A g, h \in tx'[r].made : Id(g) = Id(h) => g = h
    BY <2>2, <2>6, FilledIds
  <2>8. \A g \in tx'[r].made :
          g.by = r \/ \E h \in tx'[r].doomed : Id(h) = Id(g) /\ h.members \subseteq g.members
    <3>1. ASSUME NEW g \in tx'[r].made
          PROVE  g.by = r \/ \E h \in tx'[r].doomed : Id(h) = Id(g) /\ h.members \subseteq g.members
      <4>1. PICK h \in tx[r].made \cup Joined(r) : g = Filled(h)
        BY <2>2
      <4>2. Id(g) = Id(h) /\ g.by = h.by /\ h.members \subseteq g.members
        BY <4>1, FilledIds
      <4> QED BY <2>2, <2>4, <4>1, <4>2
    <3> QED BY <3>1
  <2>9. \A s \in Rebuild : s # r => tx'[s] = tx[s]
    BY <2>2
  <2>10. tx'[r].pc # "grouped"
    BY <2>2
  <2> HIDE <2>2
  <2> QED BY <1>a, <2>1, <2>7, <2>8, <2>9, <2>10 DEF IdInv, Id
<1>7. ASSUME NEW r \in Rebuild, InsertLoaded(r) PROVE IdInv'
  <2>1. groups' = groups /\ page' = page
    BY <1>7 DEF InsertLoaded
  <2> DEFINE new == GroupsOf(r, tx[r].loaded)
  <2>2. /\ tx'[r].made = new
        /\ \A s \in Rebuild : s # r => tx'[s] = tx[s]
    BY <1>7, InsertLoadedAt
  <2>3. (\A g, h \in new : g # h => g.key # h.key) /\ (\A g \in new : g.by = r)
    BY MadeApart, GroupsOfAt
  <2> HIDE DEF new
  <2> QED BY <1>a, <2>1, <2>2, <2>3 DEF IdInv, Id
<1>8. ASSUME NEW r \in Rebuild, Commit(r) PROVE IdInv'
  <2>1. /\ page' = page /\ groups' = Visible(r) \cup tx[r].made /\ End(r, "done")
        /\ tx[r].pc = "filled"
    BY <1>8 DEF Commit
  <2>2. /\ tx'[r].pc = "done" /\ tx'[r].made = {}
        /\ \A s \in Rebuild : s # r => tx'[s] = tx[s]
    BY <2>1, EndAt
  <2>3. \A g \in tx[r].made : g.by \in Rebuild /\ tx'[g.by].pc = "done"
    <3>1. \A g \in tx[r].made : g.by = r \/ \E h \in groups : Id(h) = Id(g)
      BY DEF IdInv, LockInv
    <3>2. \A g \in tx[r].made : g.by = r \/ \E h \in groups : h.by = g.by
      BY <3>1 DEF Id
    <3> QED BY <1>a, <2>2, <3>2 DEF IdInv
  <2>4. \A g \in Visible(r) : g.by \in Rebuild /\ tx'[g.by].pc = "done" /\ g \in groups
    BY <1>a DEF IdInv, Visible
  <2>5. \A g \in tx[r].made, h \in Visible(r) : Id(g) # Id(h)
    <3>1. ASSUME NEW g \in tx[r].made, NEW h \in Visible(r), Id(g) = Id(h) PROVE FALSE
      <4>1. h \in groups /\ h \notin tx[r].doomed
        BY DEF Visible
      <4>2. g.by = h.by
        BY <3>1 DEF Id
      <4>3. g.by # r
        BY <2>1, <4>1, <4>2 DEF IdInv
      <4>4. PICK f \in tx[r].doomed : Id(f) = Id(g)
        BY <4>3 DEF IdInv
      <4>5. f = h
        BY <3>1, <4>1, <4>4 DEF IdInv, LockInv
      <4> QED BY <4>1, <4>4, <4>5
    <3> QED BY <3>1
  <2>6. \A g, h \in groups' : Id(g) = Id(h) => g = h
    BY <2>1, <2>4, <2>5 DEF IdInv
  <2> QED BY <1>a, <2>1, <2>2, <2>3, <2>4, <2>6 DEF IdInv, Id
<1>9. ASSUME NEW r \in Rebuild, RollBack(r) PROVE IdInv'
  <2>1. page' = page /\ groups' = groups /\ End(r, "failed")
    BY <1>9 DEF RollBack
  <2>2. tx'[r].pc = "failed" /\ tx'[r].made = {} /\ \A s \in Rebuild : s # r => tx'[s] = tx[s]
    BY <2>1, EndAt
  <2> QED BY <1>a, <2>1, <2>2 DEF IdInv, Id
<1>10. ASSUME ListGroups \/ ListMembers \/ UNCHANGED groupVars PROVE IdInv'
  BY <1>10 DEF ListGroups, ListMembers, groupVars, IdInv, Id
<1> HIDE DEF LockInv, IdInv, GroupTypeOK
<1>11. ASSUME NEW p \in Picture, Compute(p) \/ Lose(p) PROVE IdInv'
  BY <1>1, <1>11 DEF Compute, Lose
<1> QED
  BY <1>0, <1>2, <1>3, <1>5, <1>6, <1>7, <1>8, <1>9, <1>10, <1>11 DEF GroupNext

LEMMA PageStep ==
  GroupTypeOK /\ LockInv /\ IdInv /\ PageInv /\ [GroupNext]_groupVars => PageInv'
<1> SUFFICES ASSUME GroupTypeOK, LockInv, IdInv, PageInv, [GroupNext]_groupVars PROVE PageInv'
  OBVIOUS
<1>0. GroupNext \/ UNCHANGED groupVars
  OBVIOUS
<1>1. ASSUME groups' = groups, page' = page PROVE PageInv'
  BY <1>1 DEF PageInv, Id
<1>2. ASSUME ListGroups PROVE PageInv'
  BY <1>2 DEF ListGroups, PageInv, Id
<1>3. ASSUME ListMembers PROVE PageInv'
  BY <1>3 DEF ListMembers, PageInv
<1>8. ASSUME NEW r \in Rebuild, Commit(r) PROVE PageInv'
  <2>1. page' = page /\ groups' = Visible(r) \cup tx[r].made /\ tx[r].pc = "filled"
    BY <1>8 DEF Commit
  <2> SUFFICES ASSUME NEW g \in page
               PROVE  \/ \E h \in groups' : Id(h) = Id(g) /\ g.members \subseteq h.members
                      \/ \A h \in groups' : Id(h) # Id(g)
    BY <2>1 DEF PageInv, Id
  <2>2. \A h \in tx[r].made : Id(h) = Id(g) =>
          \E f \in tx[r].doomed : Id(f) = Id(g) /\ f.members \subseteq h.members
    <3>1. ASSUME NEW h \in tx[r].made, Id(h) = Id(g), h.by = r PROVE FALSE
      <4>1. g.by = r
        BY <3>1 DEF Id
      <4> QED BY <2>1, <4>1 DEF IdInv
    <3> QED BY <3>1 DEF IdInv
  <2>3. CASE \A h \in groups : Id(h) # Id(g)
    BY <2>1, <2>2, <2>3 DEF Visible, LockInv
  <2>4. CASE \E h \in groups : Id(h) = Id(g) /\ g.members \subseteq h.members
    <3>1. PICK h \in groups : Id(h) = Id(g) /\ g.members \subseteq h.members
      BY <2>4
    <3>2. CASE h \notin tx[r].doomed
      BY <2>1, <3>1, <3>2 DEF Visible
    <3>3. CASE h \in tx[r].doomed
      <4>1. \A f \in Visible(r) : Id(f) # Id(g)
        BY <3>1, <3>3 DEF Visible, IdInv
      <4>2. \A f \in tx[r].doomed : Id(f) = Id(g) => f = h
        BY <3>1 DEF IdInv, LockInv
      <4>3. \A f \in tx[r].made : Id(f) = Id(g) => g.members \subseteq f.members
        BY <2>2, <3>1, <4>2
      <4> QED BY <2>1, <4>1, <4>3
    <3> QED BY <3>2, <3>3
  <2> QED BY <2>3, <2>4 DEF PageInv
<1>4. ASSUME NEW p \in Picture, Compute(p) \/ Lose(p) PROVE PageInv'
  BY <1>1, <1>4 DEF Compute, Lose, Change
<1>5. ASSUME NEW r \in Rebuild, Begin(r) \/ RollBack(r) PROVE PageInv'
  BY <1>1, <1>5 DEF Begin, RollBack
<1>6. ASSUME NEW r \in Rebuild, ClearMembers(r) \/ ClearGroups(r) PROVE PageInv'
  BY <1>1, <1>6, ClearAt
<1>7. ASSUME NEW r \in Rebuild,
             InsertDuplicateGroups(r) \/ InsertDuplicateMembers(r) \/ InsertLoaded(r)
      PROVE  PageInv'
  BY <1>1, <1>7 DEF InsertDuplicateGroups, InsertDuplicateMembers, InsertLoaded
<1>9. ASSUME UNCHANGED groupVars PROVE PageInv'
  BY <1>1, <1>9 DEF groupVars
<1> HIDE DEF PageInv
<1> QED
  BY <1>0, <1>2, <1>3, <1>4, <1>5, <1>6, <1>7, <1>8, <1>9 DEF GroupNext

LEMMA ShownWhole == PageInv => ListedWhole
<1> SUFFICES ASSUME PageInv, NEW g \in page
             PROVE  \/ g.members \subseteq Shown(g)
                    \/ Shown(g) = {} /\ Id(g) \notin {Id(h) : h \in groups}
  BY DEF ListedWhole
<1>1. CASE \E h \in groups : Id(h) = Id(g) /\ g.members \subseteq h.members
  BY <1>1 DEF Shown
<1>2. CASE \A h \in groups : Id(h) # Id(g)
  BY <1>2 DEF Shown
<1> QED BY <1>1, <1>2 DEF PageInv

\* ListDuplicateGroups, ListClusters and ListSimilarGroups read groups and
\* members in two statements (duplicates.go:193-303, clusters.go:163-292,
\* similar.go:293-405): whatever commits between them, a group is shown with all
\* the members it had or, when it is no more, with none.
THEOREM GroupsAreListedWhole == GroupSpec => []ListedWhole
<1>1. GroupInit => GroupTypeOK /\ LockInv /\ IdInv /\ PageInv
  BY GroupTypesInit, LockInit, IdInit DEF GroupInit, PageInv
<1>2. GroupTypeOK /\ LockInv /\ IdInv /\ PageInv /\ [GroupNext]_groupVars
        => (GroupTypeOK /\ LockInv /\ IdInv /\ PageInv)'
  BY GroupTypesStep, LockStep, IdStep, PageStep
<1> QED BY <1>1, <1>2, ShownWhole, PTL DEF GroupSpec

-----------------------------------------------------------------------------
(* A rebuild that is alone.                                                *)

\* It has deleted all there is, and holds the groups of the photos as they are
\* while none of them changes.
LoneInv ==
    \A r \in Rebuild :
      /\ r \in Active /\ tx[r].lone => Active = {r}
      /\ r \in Active /\ tx[r].lone /\ tx[r].pc # "begun" => tx[r].doomed = groups
      /\ r \in Active /\ tx[r].steady /\ feature # "duplicates" => tx[r].loaded = value
      /\ tx[r].pc = "grouped" /\ tx[r].steady =>
           tx[r].made = {[g EXCEPT !.members = {}] : g \in GroupsOf(r, value)}
      /\ tx[r].pc = "filled" /\ tx[r].lone /\ tx[r].steady => tx[r].made = GroupsOf(r, value)

LEMMA LoneInit == GroupInit => LoneInv
  BY DEF GroupInit, LoneInv, Active, Unused

\* What the statements write depends on the photos alone.
LEMMA GroupsOfStay == value' = value /\ feature' = feature =>
                        \A r \in Rebuild : GroupsOf(r, value)' = GroupsOf(r, value)
  BY DEF GroupsOf, GroupOf, Keys, Alike, Least

\* A statement of a rebuild leaves who is active as it was.
LEMMA ActiveStays ==
  ASSUME NEW r \in Active, tx'[r].pc \notin {"waiting", "done", "failed"},
         \A s \in Rebuild : s # r => tx'[s] = tx[s]
  PROVE  Active' = Active
  BY DEF Active

\* Filling the emptied groups of the photos as they are gives those groups.
LEMMA RefilledGroups ==
  ASSUME GroupTypeOK, NEW r \in Rebuild
  PROVE  {Filled(g) : g \in {[h EXCEPT !.members = {}] : h \in GroupsOf(r, value)}}
           = GroupsOf(r, value)
<1>1. ASSUME NEW h \in GroupsOf(r, value) PROVE Filled([h EXCEPT !.members = {}]) = h
  <2>1. h \in Group /\ h.members = Alike(value, h.key)
    BY GroupsOfAt, GroupsOfType DEF GroupTypeOK
  <2> DEFINE e == [h EXCEPT !.members = {}]
  <2>2. e \in Group /\ e.key = h.key /\ e.by = h.by /\ e.count = h.count /\ e.members = {}
    BY <2>1 DEF Group
  <2> HIDE DEF e
  <2>3. /\ Filled(e) \in Group /\ Filled(e).key = h.key /\ Filled(e).by = h.by
        /\ Filled(e).count = h.count /\ Filled(e).members = Alike(value, h.key)
    BY <2>2, FilledType
  <2>4. Filled(e) = h
    BY <2>1, <2>3 DEF Group
  <2> QED BY <2>4 DEF e
<1> QED BY <1>1

LEMMA LoneStep == GroupTypeOK /\ LockInv /\ LoneInv /\ [GroupNext]_groupVars => LoneInv'
<1> SUFFICES ASSUME GroupTypeOK, LockInv, LoneInv, [GroupNext]_groupVars PROVE LoneInv'
  OBVIOUS
<1>0. GroupNext \/ UNCHANGED groupVars
  OBVIOUS
<1>1. ASSUME NEW p \in Picture, NEW v \in Digest \cup {"gone"}, Change(p, v) PROVE LoneInv'
  <2>1. groups' = groups
    BY <1>1 DEF Change
  <2>2. /\ \A r \in Rebuild : tx'[r].pc = tx[r].pc
        /\ \A r \in Rebuild : tx'[r].doomed = tx[r].doomed /\ tx'[r].lone = tx[r].lone
        /\ \A r \in Active : ~tx'[r].steady
    BY <1>1, ChangeAt DEF Active
  <2>3. Active' = Active
    BY <2>2 DEF Active
  <2>4. \A r \in Rebuild : tx[r].pc \in {"grouped", "filled"} => r \in Active
    BY DEF Active
  <2> QED BY <2>1, <2>2, <2>3, <2>4 DEF LoneInv
<1>2. ASSUME NEW r \in Rebuild, Begin(r) PROVE LoneInv'
  <2>1. /\ groups' = groups /\ value' = value /\ feature' = feature
        /\ tx[r].pc = "waiting"
    BY <1>2 DEF Begin
  <2>2. /\ tx'[r].pc = "begun" /\ tx'[r].doomed = {} /\ tx'[r].made = {}
        /\ tx'[r].lone => Active = {}
        /\ feature # "duplicates" => tx'[r].loaded = value
        /\ \A s \in Rebuild : s # r =>
              /\ tx'[s].pc = tx[s].pc /\ tx'[s].loaded = tx[s].loaded
              /\ tx'[s].doomed = tx[s].doomed /\ tx'[s].made = tx[s].made
              /\ tx'[s].steady = tx[s].steady
              /\ s \in Active => ~tx'[s].lone
    BY <1>2, BeginAt
  <2>3. Active' = Active \cup {r}
    BY <2>2 DEF Active
  <2>4. \A s \in Rebuild : tx[s].pc \in {"grouped", "filled"} => s \in Active
    BY DEF Active
  <2> QED BY <2>1, <2>2, <2>3, <2>4, GroupsOfStay DEF LoneInv
<1>3. ASSUME NEW r \in Rebuild, ClearMembers(r) \/ ClearGroups(r) PROVE LoneInv'
  <2>1. /\ groups' = groups /\ value' = value /\ feature' = feature
        /\ tx'[r].pc \in {"emptied", "cleared"}
        /\ tx'[r].doomed = groups /\ tx'[r].lone = tx[r].lone /\ tx'[r].steady = tx[r].steady
        /\ tx'[r].loaded = tx[r].loaded
        /\ \A s \in Rebuild : s # r => tx'[s] = tx[s]
    BY <1>3, ClearAt
  <2>2. r \in Active
    BY <1>3 DEF ClearMembers, ClearGroups, Active
  <2>3. Active' = Active
    BY <2>1, <2>2, ActiveStays
  <2> QED BY <2>1, <2>2, <2>3, GroupsOfStay DEF LoneInv
<1>5. ASSUME NEW r \in Rebuild, InsertDuplicateGroups(r) PROVE LoneInv'
  <2> DEFINE new == {[g EXCEPT !.members = {}] : g \in GroupsOf(r, value)}
  <2>1. /\ groups' = groups /\ value' = value /\ feature' = feature
        /\ feature = "duplicates" /\ tx[r].pc = "cleared"
    BY <1>5 DEF InsertDuplicateGroups
  <2>2. /\ tx'[r].pc = "grouped" /\ tx'[r].doomed = tx[r].doomed /\ tx'[r].made = new
        /\ tx'[r].lone = tx[r].lone
        /\ \A s \in Rebuild : s # r => tx'[s] = tx[s]
    BY <1>5, InsertDuplicateGroupsAt
  <2>3. r \in Active
    BY <2>1 DEF Active
  <2>4. Active' = Active
    BY <2>2, <2>3, ActiveStays
  <2>5. new' = new
    BY <2>1, GroupsOfStay
  <2>6. /\ r \in Active' /\ tx'[r].lone => Active' = {r} /\ tx'[r].doomed = groups
        /\ tx'[r].made = new'
    BY <2>1, <2>2, <2>3, <2>4, <2>5 DEF LoneInv
  <2>7. /\ feature = "duplicates" /\ tx'[r].pc = "grouped"
        /\ \A s \in Rebuild : s # r => tx'[s] = tx[s]
    BY <2>1, <2>2
  <2>8. ASSUME NEW s \in Rebuild, s # r
        PROVE  /\ s \in Active' /\ tx'[s].lone => Active' = {s}
               /\ s \in Active' /\ tx'[s].lone /\ tx'[s].pc # "begun" => tx'[s].doomed = groups'
               /\ tx'[s].pc = "grouped" /\ tx'[s].steady =>
                    tx'[s].made = {[g EXCEPT !.members = {}] : g \in GroupsOf(s, value)'}
               /\ tx'[s].pc = "filled" /\ tx'[s].lone /\ tx'[s].steady =>
                    tx'[s].made = GroupsOf(s, value)'
    BY <2>1, <2>4, <2>7, <2>8, GroupsOfStay DEF LoneInv
  <2> QED BY <2>1, <2>6, <2>7, <2>8 DEF LoneInv
<1>6. ASSUME NEW r \in Rebuild, InsertDuplicateMembers(r) PROVE LoneInv'
  <2>1. /\ groups' = groups /\ value' = value /\ feature' = feature
        /\ feature = "duplicates" /\ tx[r].pc = "grouped"
    BY <1>6 DEF InsertDuplicateMembers, LockInv
  <2>2. /\ tx'[r].pc = "filled" /\ tx'[r].doomed = tx[r].doomed \cup Joined(r)
        /\ tx'[r].made = {Filled(g) : g \in tx[r].made \cup Joined(r)}
        /\ tx'[r].lone = tx[r].lone /\ tx'[r].steady = tx[r].steady
        /\ \A s \in Rebuild : s # r => tx'[s] = tx[s]
    BY <1>6, InsertDuplicateMembersAt
  <2>3. r \in Active
    BY <2>1 DEF Active
  <2>4. Active' = Active
    BY <2>2, <2>3, ActiveStays
  <2>5. ASSUME tx[r].lone
        PROVE  tx[r].doomed = groups /\ Joined(r) = {}
    BY <2>1, <2>3, <2>5 DEF LoneInv, Joined, Visible
  <2>6. ASSUME tx[r].lone, tx[r].steady PROVE tx'[r].made = GroupsOf(r, value)
    <3>1. tx[r].made = {[g EXCEPT !.members = {}] : g \in GroupsOf(r, value)}
      BY <2>1, <2>6 DEF LoneInv
    <3>2. tx[r].made \cup Joined(r) = tx[r].made
      BY <2>5, <2>6
    <3>3. {Filled(g) : g \in tx[r].made} = GroupsOf(r, value)
      BY <3>1, RefilledGroups
    <3> QED BY <2>2, <3>2, <3>3
  <2>7. /\ tx'[r].lone => tx'[r].doomed = groups
        /\ tx'[r].lone /\ tx'[r].steady => tx'[r].made = GroupsOf(r, value)
        /\ tx'[r].pc = "filled" /\ tx'[r].lone = tx[r].lone
        /\ \A s \in Rebuild : s # r => tx'[s] = tx[s]
    BY <2>2, <2>5, <2>6
  <2> HIDE <2>2
  <2> QED BY <2>1, <2>3, <2>4, <2>7, GroupsOfStay DEF LoneInv
<1>7. ASSUME NEW r \in Rebuild, InsertLoaded(r) PROVE LoneInv'
  <2>1. /\ groups' = groups /\ value' = value /\ feature' = feature
        /\ feature # "duplicates" /\ tx[r].pc = "cleared"
    BY <1>7 DEF InsertLoaded
  <2>2. /\ tx'[r].pc = "filled" /\ tx'[r].doomed = tx[r].doomed
        /\ tx'[r].made = GroupsOf(r, tx[r].loaded)
        /\ tx'[r].lone = tx[r].lone /\ tx'[r].steady = tx[r].steady
        /\ tx'[r].loaded = tx[r].loaded
        /\ \A s \in Rebuild : s # r => tx'[s] = tx[s]
    BY <1>7, InsertLoadedAt
  <2>3. r \in Active
    BY <2>1 DEF Active
  <2>4. Active' = Active
    BY <2>2, <2>3, ActiveStays
  <2>5. tx[r].steady => tx'[r].made = GroupsOf(r, value)
    BY <2>1, <2>2, <2>3 DEF LoneInv
  <2> QED BY <2>1, <2>2, <2>3, <2>4, <2>5, GroupsOfStay DEF LoneInv
<1>8. ASSUME NEW r \in Rebuild, Commit(r) PROVE LoneInv'
  <2>1. value' = value /\ feature' = feature /\ End(r, "done") /\ tx[r].pc = "filled"
    BY <1>8 DEF Commit
  <2>2. tx'[r].pc = "done" /\ \A s \in Rebuild : s # r => tx'[s] = tx[s]
    BY <2>1, EndAt
  <2>3. r \in Active /\ Active' = Active \ {r}
    BY <2>1, <2>2 DEF Active
  <2>4. \A s \in Active' : ~tx'[s].lone
    BY <2>2, <2>3 DEF LoneInv, Active
  <2>5. \A s \in Rebuild : tx'[s].pc \in {"grouped", "filled"} => s \in Active'
    BY DEF Active
  <2> QED BY <2>1, <2>2, <2>3, <2>4, <2>5, GroupsOfStay DEF LoneInv
<1>9. ASSUME NEW r \in Rebuild, RollBack(r) PROVE LoneInv'
  <2>1. value' = value /\ feature' = feature /\ groups' = groups /\ End(r, "failed") /\ r \in Active
    BY <1>9 DEF RollBack
  <2>2. tx'[r].pc = "failed" /\ \A s \in Rebuild : s # r => tx'[s] = tx[s]
    BY <2>1, EndAt
  <2>3. Active' = Active \ {r}
    BY <2>1, <2>2 DEF Active
  <2>4. \A s \in Active' : ~tx'[s].lone
    BY <2>1, <2>2, <2>3 DEF LoneInv, Active
  <2>5. \A s \in Rebuild : tx'[s].pc \in {"grouped", "filled"} => s \in Active'
    BY DEF Active
  <2> QED BY <2>1, <2>2, <2>3, <2>4, <2>5, GroupsOfStay DEF LoneInv
<1>10. ASSUME ListGroups \/ ListMembers \/ UNCHANGED groupVars PROVE LoneInv'
  <2>1. tx' = tx /\ value' = value /\ feature' = feature /\ groups' = groups
    BY <1>10 DEF ListGroups, ListMembers, groupVars
  <2>2. Active' = Active
    BY <2>1 DEF Active
  <2> QED BY <2>1, <2>2, GroupsOfStay DEF LoneInv
<1> HIDE DEF LockInv, LoneInv, GroupTypeOK
<1>11. ASSUME NEW p \in Picture, Compute(p) \/ Lose(p) PROVE LoneInv'
  BY <1>1, <1>11 DEF Compute, Lose
<1> QED
  BY <1>0, <1>2, <1>3, <1>5, <1>6, <1>7, <1>8, <1>9, <1>10, <1>11 DEF GroupNext

\* Only a commit ends a rebuild well.
LEMMA OnlyCommitEnds ==
  ASSUME GroupTypeOK, [GroupNext]_groupVars, NEW r \in Rebuild,
         tx[r].pc # "done", tx'[r].pc = "done"
  PROVE  Commit(r)
<1>0. GroupNext \/ UNCHANGED groupVars
  OBVIOUS
<1>1. ASSUME NEW p \in Picture, Compute(p) \/ Lose(p) PROVE FALSE
  <2>1. \E v \in Digest \cup {"gone"} : Change(p, v)
    BY <1>1 DEF Compute, Lose
  <2> QED BY <2>1, ChangeAt
<1>2. ASSUME NEW s \in Rebuild, Begin(s) PROVE FALSE
  BY <1>2, BeginAt
<1>3. ASSUME NEW s \in Rebuild, ClearMembers(s) \/ ClearGroups(s) PROVE FALSE
  BY <1>3, ClearAt
<1>5. ASSUME NEW s \in Rebuild, InsertDuplicateGroups(s) PROVE FALSE
  BY <1>5, InsertDuplicateGroupsAt
<1>6. ASSUME NEW s \in Rebuild, InsertDuplicateMembers(s) PROVE FALSE
  BY <1>6, InsertDuplicateMembersAt
<1>7. ASSUME NEW s \in Rebuild, InsertLoaded(s) PROVE FALSE
  BY <1>7, InsertLoadedAt
<1>8. ASSUME NEW s \in Rebuild, Commit(s), s # r PROVE FALSE
  BY <1>8, EndAt DEF Commit
<1>9. ASSUME NEW s \in Rebuild, RollBack(s) PROVE FALSE
  BY <1>9, EndAt DEF RollBack
<1>10. ASSUME ListGroups \/ ListMembers \/ UNCHANGED groupVars PROVE FALSE
  BY <1>10 DEF ListGroups, ListMembers, groupVars
<1> HIDE DEF GroupTypeOK
<1> QED
  BY <1>0, <1>1, <1>2, <1>3, <1>5, <1>6, <1>7, <1>8, <1>9, <1>10 DEF GroupNext

\* A rebuild that no other overlaps, and under which no photo changes, leaves
\* exactly the groups the photos call for (duplicates.go:108-190,
\* similar.go:177-290, clusters.go:61-160).
THEOREM LoneRebuildIsExact == GroupSpec => LoneRebuildExact
<1> DEFINE Exact == \A r \in Rebuild :
                      tx[r].pc # "done" /\ tx'[r].pc = "done" /\ tx[r].lone /\ tx[r].steady
                        => groups' = GroupsOf(r, value)
<1>1. GroupInit => GroupTypeOK /\ LockInv /\ LoneInv
  BY GroupTypesInit, LockInit, LoneInit
<1>2. GroupTypeOK /\ LockInv /\ LoneInv /\ [GroupNext]_groupVars
        => (GroupTypeOK /\ LockInv /\ LoneInv)'
  BY GroupTypesStep, LockStep, LoneStep
<1>3. ASSUME GroupTypeOK, LoneInv, [GroupNext]_groupVars PROVE Exact
  <2> SUFFICES ASSUME NEW r \in Rebuild, tx[r].pc # "done", tx'[r].pc = "done",
                      tx[r].lone, tx[r].steady
               PROVE  groups' = GroupsOf(r, value)
    OBVIOUS
  <2>1. groups' = Visible(r) \cup tx[r].made /\ tx[r].pc = "filled"
    BY <1>3, OnlyCommitEnds DEF Commit
  <2>2. tx[r].doomed = groups /\ tx[r].made = GroupsOf(r, value)
    BY <1>3, <2>1 DEF LoneInv, Active
  <2> QED BY <2>1, <2>2 DEF Visible
<1>4. GroupTypeOK /\ LoneInv /\ [GroupNext]_groupVars => [Exact]_groupVars
  BY <1>3
<1> HIDE DEF Exact
<1>5. GroupSpec => [][Exact]_groupVars
  BY <1>1, <1>2, <1>4, PTL DEF GroupSpec
<1> QED BY <1>5 DEF LoneRebuildExact, Exact

=============================================================================
