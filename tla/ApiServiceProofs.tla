-------------------------- MODULE ApiServiceProofs --------------------------
(***************************************************************************)
(* Proofs about ApiService, for any set of processes, builds, versions and  *)
(* scans, any number of files and any batch size.  The schema part rests on *)
(* LockInv (what a process read under the advisory lock is what the schema  *)
(* has); the scan part on three invariants over a scan's phase: StopInv,    *)
(* RowInv and WalkInv.  A lemma per scan action (ClaimAt, RegisterAt, ...)   *)
(* says what the action does to each scan; the steps cite those.            *)
(***************************************************************************)
EXTENDS ApiService, FiniteSetTheorems, TLAPS

-----------------------------------------------------------------------------
(* Types.                                                                  *)

LEMMA IdleScan == Idle \in ScanState
  BY ApiAssumption DEF Idle, ScanState

LEMMA ScansStep ==
  ASSUME scans \in [Scan -> ScanState], NEW s \in Scan, NEW sc \in ScanState, Becomes(s, sc)
  PROVE  scans' \in [Scan -> ScanState]
  BY DEF Becomes

LEMMA TypesInit == ApiInit => ApiTypeOK
<1> SUFFICES ASSUME ApiInit PROVE ApiTypeOK
  OBVIOUS
<1>1. Nothing \in [Version -> Checksum]
  BY DEF Nothing, Checksum
<1>2. scans \in [Scan -> ScanState]
  BY IdleScan DEF ApiInit
<1>3. loss \in Loss /\ blurred \in BOOLEAN
  BY DEF ApiInit, Loss
<1> QED BY <1>1, <1>2, <1>3 DEF ApiInit, ApiTypeOK

LEMMA TypesStep == ApiTypeOK /\ [ApiNext]_apiVars => ApiTypeOK'
<1> SUFFICES ASSUME ApiTypeOK, [ApiNext]_apiVars PROVE ApiTypeOK'
  OBVIOUS
<1>0. ApiNext \/ UNCHANGED apiVars
  OBVIOUS
<1> USE DEF ApiTypeOK, startup, GoTo
<1>1. ASSUME NEW r \in Replica, Start(r) PROVE ApiTypeOK'
  BY <1>1 DEF Start
<1>2. ASSUME NEW r \in Replica, Connect(r) PROVE ApiTypeOK'
  BY <1>2 DEF Connect
<1>3. ASSUME NEW r \in Replica, LockMigrations(r) PROVE ApiTypeOK'
  BY <1>3 DEF LockMigrations
<1>4. ASSUME NEW r \in Replica, ApplyOne(r) PROVE ApiTypeOK'
  <2>1. PICK v \in Pending(r) :
           /\ applied' = [applied EXCEPT ![v] = build[r][v]]
           /\ seen' = [seen EXCEPT ![r] = [@ EXCEPT ![v] = build[r][v]]]
    BY <1>4 DEF ApplyOne
  <2>2. v \in Version BY DEF Pending, Embedded
  <2>3. build[r][v] \in Checksum
    BY <2>2 DEF Checksum, Nothing
  <2> QED BY <1>4, <2>1, <2>2, <2>3 DEF ApplyOne
<1>5. ASSUME NEW r \in Replica, Migrated(r) PROVE ApiTypeOK'
  <2>1. Nothing \in [Version -> Checksum]
    BY DEF Nothing, Checksum
  <2> QED BY <1>5, <2>1 DEF Migrated
<1>6. ASSUME NEW r \in Replica, Reconcile(r) PROVE ApiTypeOK'
  <2>1. loss' \in Loss /\ blurred' \in BOOLEAN
    BY <1>6 DEF Reconcile, Blur, Loss
  <2> QED BY <1>6, <2>1 DEF Reconcile
<1>7. ASSUME NEW r \in Replica, Signal(r) PROVE ApiTypeOK'
  BY <1>7 DEF Signal
<1>8. ASSUME NEW r \in Replica, StopScans(r) PROVE ApiTypeOK'
  <2>1. \A s \in Scan : [scans[s] EXCEPT !.cancelled = TRUE] \in ScanState
    BY ZenonT(40) DEF ScanState
  <2>2. scans' \in [Scan -> ScanState]
    BY <1>8, <2>1 DEF StopScans
  <2> QED BY <1>8, <2>2 DEF StopScans
<1>9. ASSUME NEW r \in Replica, Stopped(r) PROVE ApiTypeOK'
  BY <1>9 DEF Stopped
<1>10. ASSUME NEW r \in Replica, Die(r) PROVE ApiTypeOK'
  <2>1. scans' \in [Scan -> ScanState]
    BY <1>10, IdleScan DEF Die
  <2>2. Nothing \in [Version -> Checksum]
    BY DEF Nothing, Checksum
  <2>3. seen' \in [Replica -> [Version -> Checksum]]
    BY <1>10, <2>2 DEF Die
  <2>4. loss' \in Loss /\ blurred' \in BOOLEAN
    BY <1>10 DEF Die, Blur, Loss
  <2> QED BY <1>10, <2>1, <2>3, <2>4 DEF Die
<1>11. ASSUME NEW r \in Replica, NEW s \in Scan, NEW force \in Forcing, Request(r, s, force)
     PROVE  ApiTypeOK'
  <2>1. force \in BOOLEAN
    BY ApiAssumption
  <2>2. [Idle EXCEPT !.pc = "checked", !.owner = r, !.force = force] \in ScanState
    BY <2>1, IdleScan DEF ScanState
  <2>3. scans' \in [Scan -> ScanState]
    BY <1>11, <2>2, ScansStep DEF Request
  <2> QED BY <1>11, <2>3 DEF Request
<1>12. ASSUME NEW s \in Scan, Claim(s) PROVE ApiTypeOK'
  <2>1. [scans[s] EXCEPT !.pc = "claimed", !.force = FALSE] \in ScanState
    BY <1>12, ZenonT(40) DEF ScanState
  <2>2. scans' \in [Scan -> ScanState]
    BY <1>12, <2>1, ScansStep DEF Claim
  <2>3. loss' \in Loss /\ blurred' \in BOOLEAN
    BY <1>12 DEF Claim, Blur, Loss
  <2> QED BY <1>12, <2>2, <2>3 DEF Claim
<1>23. ASSUME NEW s \in Scan, ClaimUnheard(s) PROVE ApiTypeOK'
  <2>1. scans' \in [Scan -> ScanState]
    BY <1>23, IdleScan, ScansStep DEF ClaimUnheard
  <2> QED BY <1>23, <2>1 DEF ClaimUnheard, Loss
<1>13. ASSUME NEW s \in Scan, Refuse(s) PROVE ApiTypeOK'
  BY <1>13, IdleScan, ScansStep DEF Refuse
<1>14. ASSUME NEW s \in Scan, Register(s) PROVE ApiTypeOK'
  <2>1. [scans[s] EXCEPT !.pc = "walking"] \in ScanState
    BY <1>14, ZenonT(40) DEF ScanState
  <2>2. scans' \in [Scan -> ScanState]
    BY <1>14, <2>1, ScansStep DEF Register
  <2>3. running' \in [Replica -> Scan \cup {NoScan}]
    BY <1>14 DEF Register
  <2> QED BY <1>14, <2>2, <2>3 DEF Register
<1>15. ASSUME NEW s \in Scan, Discover(s) PROVE ApiTypeOK'
  <2> DEFINE full == scans[s].batch \cup {scans[s].next}
  <2>1. full \subseteq File /\ scans[s].next + 1 \in 1..(FileCount + 1)
    <3>1. scans[s].next \in 1..FileCount /\ FileCount \in Nat /\ scans[s].batch \subseteq File
      BY <1>15, ApiAssumption DEF Discover, ScanState, File
    <3> QED BY <3>1 DEF File
  <2>2. [scans[s] EXCEPT !.next = @ + 1, !.batch = full] \in ScanState
    BY <2>1, ZenonT(40) DEF ScanState
  <2>3. [scans[s] EXCEPT !.next = @ + 1, !.batch = {}] \in ScanState
    BY <2>1, ZenonT(40) DEF ScanState
  <2>4. [scans[s] EXCEPT !.batch = full, !.pc = "tail", !.failed = TRUE] \in ScanState
    BY <2>1, ZenonT(40) DEF ScanState
  <2>5. scans' \in [Scan -> ScanState]
    BY <1>15, <2>2, <2>3, <2>4, ScansStep DEF Discover
  <2>6. photos' \subseteq File
    BY <1>15, <2>1 DEF Discover
  <2> QED BY <1>15, <2>5, <2>6 DEF Discover
<1>16. ASSUME NEW s \in Scan, WalkEnds(s) PROVE ApiTypeOK'
  <2> DEFINE bad == scans[s].next \in File
  <2>1. bad \in BOOLEAN OBVIOUS
  <2>2. Becomes(s, [scans[s] EXCEPT !.pc = "tail", !.failed = bad])
    BY <1>16 DEF WalkEnds
  <2> HIDE DEF bad
  <2>3. [scans[s] EXCEPT !.pc = "tail", !.failed = bad] \in ScanState
    BY <2>1, ZenonT(40) DEF ScanState
  <2>4. scans' \in [Scan -> ScanState]
    BY <2>2, <2>3, ScansStep
  <2> QED BY <1>16, <2>4 DEF WalkEnds
<1>17. ASSUME NEW s \in Scan, FlushTail(s) PROVE ApiTypeOK'
  <2>1. PICK ok \in {TRUE, FALSE} :
           /\ photos' \in {photos, photos \cup scans[s].batch}
           /\ Becomes(s, [scans[s] EXCEPT !.pc = "closing", !.batch = {}, !.next = 1,
                                          !.failed = @ \/ ~ok])
    BY <1>17 DEF FlushTail
  <2> DEFINE bad == scans[s].failed \/ ~ok
  <2>5. bad \in BOOLEAN /\ 1 \in 1..(FileCount + 1)
    BY ApiAssumption
  <2> HIDE DEF bad
  <2>2. [scans[s] EXCEPT !.pc = "closing", !.batch = {}, !.next = 1,
                         !.failed = bad] \in ScanState
    BY <2>5, ZenonT(40) DEF ScanState
  <2>3. scans' \in [Scan -> ScanState]
    BY <2>1, <2>2, ScansStep DEF bad
  <2>4. photos' \subseteq File
    BY <2>1 DEF ScanState
  <2> QED BY <1>17, <2>3, <2>4 DEF FlushTail
<1>18. ASSUME NEW s \in Scan, Finish(s) PROVE ApiTypeOK'
  <2>1. [scans[s] EXCEPT !.pc = "leaving"] \in ScanState
    BY <1>18, ZenonT(40) DEF ScanState
  <2>2. scans' \in [Scan -> ScanState]
    BY <1>18, <2>1, ScansStep DEF Finish
  <2>3. loss' \in Loss /\ blurred' \in BOOLEAN
    BY <1>18 DEF Finish, Blur, Loss
  <2> QED BY <1>18, <2>2, <2>3 DEF Finish
<1>19. ASSUME NEW s \in Scan, Leave(s) PROVE ApiTypeOK'
  <2>1. scans' \in [Scan -> ScanState]
    BY <1>19, IdleScan, ScansStep DEF Leave
  <2>2. running' \in [Replica -> Scan \cup {NoScan}]
    BY <1>19 DEF Leave
  <2>3. blurred' \in BOOLEAN
    BY <1>19 DEF Leave, Blur
  <2> QED BY <1>19, <2>1, <2>2, <2>3 DEF Leave
<1>20. CASE UNCHANGED apiVars
  BY <1>20 DEF apiVars
<1> HIDE DEF ApiTypeOK, startup, GoTo
<1>21. CASE \E r \in Replica :
         \/ Start(r) \/ Connect(r) \/ LockMigrations(r) \/ ApplyOne(r) \/ Migrated(r)
         \/ Reconcile(r) \/ Signal(r) \/ StopScans(r) \/ Stopped(r) \/ Die(r)
         \/ \E s \in Scan, force \in Forcing : Request(r, s, force)
  BY <1>21, <1>1, <1>2, <1>3, <1>4, <1>5, <1>6, <1>7, <1>8, <1>9, <1>10, <1>11
<1>22. CASE \E s \in Scan : ScanStep(s)
  BY <1>22, <1>12, <1>13, <1>14, <1>15, <1>16, <1>17, <1>18, <1>19, <1>23 DEF ScanStep
<1> QED
  BY <1>0, <1>20, <1>21, <1>22 DEF ApiNext


-----------------------------------------------------------------------------
(* Migrations.                                                             *)

\* Who migrates holds the lock and has read what the schema has.
LockInv ==
    \A r \in Replica : pc[r] = "migrating" => holder = r /\ seen[r] = applied

MigrationInv == LockInv /\ ServesMigrated

LEMMA ScanFrame ==
  ASSUME NEW s \in Scan, ScanStep(s)
  PROVE  UNCHANGED <<pc, build, seen, holder, applied>>
  BY DEF ScanStep, Claim, ClaimUnheard, Refuse, Register, Discover, WalkEnds, FlushTail,
         Finish, Leave, startup

LEMMA MigrationInit == ApiInit => MigrationInv
  BY DEF ApiInit, MigrationInv, LockInv, ServesMigrated

LEMMA MigrationStep ==
  ApiTypeOK /\ MigrationInv /\ [ApiNext]_apiVars => MigrationInv'
<1> SUFFICES ASSUME ApiTypeOK, MigrationInv, [ApiNext]_apiVars PROVE MigrationInv'
  OBVIOUS
<1>0. ApiNext \/ UNCHANGED apiVars
  OBVIOUS
<1> USE ApiAssumption
        DEF ApiTypeOK, MigrationInv, LockInv, ServesMigrated, Embedded, startup, GoTo
<1>1. ASSUME NEW r \in Replica, Start(r) PROVE MigrationInv'
  BY <1>1 DEF Start
<1>2. ASSUME NEW r \in Replica, Connect(r) PROVE MigrationInv'
  BY <1>2 DEF Connect
<1>3. ASSUME NEW r \in Replica, LockMigrations(r) PROVE MigrationInv'
  BY <1>3 DEF LockMigrations
<1>4. ASSUME NEW r \in Replica, ApplyOne(r) PROVE MigrationInv'
  <2>1. PICK v \in Pending(r) :
           /\ applied' = [applied EXCEPT ![v] = build[r][v]]
           /\ seen' = [seen EXCEPT ![r] = [@ EXCEPT ![v] = build[r][v]]]
    BY <1>4 DEF ApplyOne
  <2>2. pc[r] = "migrating" /\ holder = r /\ seen[r] = applied
    BY <1>4 DEF ApplyOne
  <2>3. v \in Version /\ applied[v] = Absent
    BY <2>2 DEF Pending
  <2>4. LockInv'
    BY <1>4, <2>1, <2>2 DEF ApplyOne
  <2>5. ASSUME NEW q \in Replica,
               pc'[q] \in {"reconciling", "serving", "draining", "stopping"},
               NEW w \in Embedded(q)'
        PROVE  applied'[w] = build'[q][w]
    <3>1. w \in Version /\ build[q][w] # Absent /\ applied[w] = build[q][w]
      BY <1>4, <2>5 DEF ApplyOne
    <3>2. w # v
      BY <3>1, <2>3
    <3> QED BY <1>4, <2>1, <3>1, <3>2 DEF ApplyOne
  <2> QED BY <2>4, <2>5
<1>5. ASSUME NEW r \in Replica, Migrated(r) PROVE MigrationInv'
  <2>1. pc[r] = "migrating" /\ holder = r /\ seen[r] = applied
    BY <1>5 DEF Migrated
  <2>2. \A v \in Embedded(r) : applied[v] = build[r][v]
    BY <1>5, <2>1 DEF Migrated, Pending, Edited
  <2>3. LockInv'
    BY <1>5, <2>1 DEF Migrated
  <2>4. ServesMigrated'
    BY <1>5, <2>2 DEF Migrated
  <2> QED BY <2>3, <2>4
<1>6. ASSUME NEW r \in Replica, Reconcile(r) PROVE MigrationInv'
  BY <1>6 DEF Reconcile
<1>7. ASSUME NEW r \in Replica, Signal(r) PROVE MigrationInv'
  BY <1>7 DEF Signal
<1>8. ASSUME NEW r \in Replica, StopScans(r) PROVE MigrationInv'
  BY <1>8 DEF StopScans
<1>9. ASSUME NEW r \in Replica, Stopped(r) PROVE MigrationInv'
  BY <1>9 DEF Stopped
<1>10. ASSUME NEW r \in Replica, Die(r) PROVE MigrationInv'
  BY <1>10 DEF Die
<1>11. ASSUME NEW r \in Replica, NEW s \in Scan, NEW force \in Forcing, Request(r, s, force)
       PROVE  MigrationInv'
  BY <1>11 DEF Request
<1>12. ASSUME NEW s \in Scan, ScanStep(s) PROVE MigrationInv'
  BY <1>12, ScanFrame
<1>20. CASE UNCHANGED apiVars
  BY <1>20 DEF apiVars
<1> HIDE DEF MigrationInv
<1> QED
  BY <1>0, <1>1, <1>2, <1>3, <1>4, <1>5, <1>6, <1>7, <1>8, <1>9, <1>10, <1>11,
     <1>12, <1>20 DEF ApiNext

\* In every reachable state the variables have the types ApiTypeOK names:
\* main.run and ScanSync keep each process and each scan in one of their phases.
THEOREM ApiTypes == ApiSpec => []ApiTypeOK
<1> QED BY TypesInit, TypesStep, PTL DEF ApiSpec

LEMMA MigrationAlways == ApiSpec => []MigrationInv
<1> QED BY MigrationInit, MigrationStep, ApiTypes, PTL DEF ApiSpec

\* migrate.go:59-65: for any number of processes and builds, dying and starting
\* at any point, the advisory lock and the versions read under it keep every
\* process from applying a migration the schema already has.
THEOREM MigrationsApplyOnce == ApiSpec => []MigratesOnce
<1>1. MigrationInv => MigratesOnce
  BY DEF MigrationInv, LockInv, MigratesOnce, Pending
<1> QED BY <1>1, MigrationAlways, PTL

\* migrate.go:41-43, 101-110: a process serves only on a schema that has each of its
\* migrations with the checksum it embeds, whatever the other builds did.
THEOREM ServingOnMigrated == ApiSpec => []ServesMigrated
<1>1. MigrationInv => ServesMigrated
  BY DEF MigrationInv
<1> QED BY <1>1, MigrationAlways, PTL

-----------------------------------------------------------------------------
(* Scans.                                                                  *)

Startup(r) ==
    Start(r) \/ Connect(r) \/ LockMigrations(r) \/ ApplyOne(r) \/ Migrated(r)

LEMMA StartupFrame ==
  ASSUME NEW r \in Replica, Startup(r), ApiTypeOK
  PROVE  /\ UNCHANGED <<row, photos, running, scans, loss, blurred>>
         /\ pc'[r] \notin {"stopping"}
         /\ \A q \in Replica \ {r} : pc'[q] = pc[q]
  BY DEF Startup, Start, Connect, LockMigrations, ApplyOne, Migrated, GoTo, ApiTypeOK

LEMMA BecomesAt ==
  ASSUME scans \in [Scan -> ScanState], NEW s \in Scan, NEW sc, Becomes(s, sc)
  PROVE  /\ scans'[s] = sc
         /\ \A t \in Scan : t # s => scans'[t] = scans[t]
  BY DEF Becomes

\* The step is of scan s, and leaves its owner and its context alone.
Keeps(s) ==
    /\ scans'[s].owner = scans[s].owner
    /\ scans'[s].cancelled = scans[s].cancelled
    /\ \A t \in Scan : t # s => scans'[t] = scans[t]

\* The walk's own data are as they were.
SameWalk(s) ==
    /\ scans'[s].next = scans[s].next
    /\ scans'[s].batch = scans[s].batch
    /\ scans'[s].failed = scans[s].failed

LEMMA RequestAt ==
  ASSUME ApiTypeOK, NEW r \in Replica, NEW s \in Scan, NEW force \in Forcing, Request(r, s, force)
  PROVE  /\ scans[s].pc = "unused" /\ scans'[s].pc = "checked"
         /\ scans'[s].owner = r /\ scans'[s].next = 1
         /\ \A t \in Scan : t # s => scans'[t] = scans[t]
         /\ pc[r] # "stopping" /\ UNCHANGED <<pc, row, photos, running, loss, blurred>>
<1>1. /\ scans'[s] = [Idle EXCEPT !.pc = "checked", !.owner = r, !.force = force]
      /\ \A t \in Scan : t # s => scans'[t] = scans[t]
  BY DEF ApiTypeOK, Request, Becomes
<1>2. scans[s] \in ScanState
  BY DEF ApiTypeOK
<1> QED BY <1>1, <1>2 DEF Request, startup, ScanState, Idle

LEMMA ClaimAt ==
  ASSUME ApiTypeOK, NEW s \in Scan, Claim(s)
  PROVE  /\ scans[s].pc = "checked" /\ scans'[s].pc = "claimed"
         /\ Keeps(s) /\ SameWalk(s)
         /\ UNCHANGED <<pc, photos, running>>
<1>1. /\ scans'[s] = [scans[s] EXCEPT !.pc = "claimed", !.force = FALSE]
      /\ \A t \in Scan : t # s => scans'[t] = scans[t]
  BY DEF ApiTypeOK, Claim, Becomes
<1>2. scans[s] \in ScanState
  BY DEF ApiTypeOK
<1> QED BY <1>1, <1>2 DEF Claim, startup, ScanState, Keeps, SameWalk

\* What becomes of the row aside, the slot is given back as it is on a refusal.
LEMMA ClaimUnheardAt ==
  ASSUME ApiTypeOK, NEW s \in Scan, ClaimUnheard(s)
  PROVE  /\ scans[s].pc = "checked" /\ scans'[s].pc = "unused"
         /\ \A t \in Scan : t # s => scans'[t] = scans[t]
         /\ row' = "scanning" /\ loss' = "unheard"
         /\ UNCHANGED <<pc, photos, running, blurred>>
<1>1. /\ scans'[s] = Idle
      /\ \A t \in Scan : t # s => scans'[t] = scans[t]
  BY DEF ApiTypeOK, ClaimUnheard, Becomes
<1> QED BY <1>1 DEF ClaimUnheard, startup, Idle

LEMMA RefuseAt ==
  ASSUME ApiTypeOK, NEW s \in Scan, Refuse(s)
  PROVE  /\ scans[s].pc = "checked" /\ scans'[s].pc = "unused"
         /\ \A t \in Scan : t # s => scans'[t] = scans[t]
         /\ UNCHANGED <<pc, row, photos, running, loss, blurred>>
<1>1. /\ scans'[s] = Idle
      /\ \A t \in Scan : t # s => scans'[t] = scans[t]
  BY DEF ApiTypeOK, Refuse, Becomes
<1>2. scans[s] \in ScanState
  BY DEF ApiTypeOK
<1> QED BY <1>1, <1>2 DEF Refuse, startup, ScanState, Idle

LEMMA LeaveAt ==
  ASSUME ApiTypeOK, NEW s \in Scan, Leave(s)
  PROVE  /\ scans[s].pc = "leaving" /\ scans'[s].pc = "unused"
         /\ \A t \in Scan : t # s => scans'[t] = scans[t]
         /\ running' = [running EXCEPT ![scans[s].owner] = NoScan]
         /\ UNCHANGED <<pc, row, photos, loss>>
<1>1. /\ scans'[s] = Idle
      /\ \A t \in Scan : t # s => scans'[t] = scans[t]
  BY DEF ApiTypeOK, Leave, Becomes
<1>2. scans[s] \in ScanState
  BY DEF ApiTypeOK
<1> QED BY <1>1, <1>2 DEF Leave, startup, ScanState, Idle

LEMMA RegisterAt ==
  ASSUME ApiTypeOK, NEW s \in Scan, Register(s)
  PROVE  /\ scans[s].pc = "claimed" /\ scans'[s].pc = "walking"
         /\ Keeps(s) /\ SameWalk(s)
         /\ running' = [running EXCEPT ![scans[s].owner] = s]
         /\ UNCHANGED <<pc, row, photos, loss, blurred>>
<1>1. /\ scans'[s] = [scans[s] EXCEPT !.pc = "walking"]
      /\ \A t \in Scan : t # s => scans'[t] = scans[t]
  BY DEF ApiTypeOK, Register, Becomes
<1>2. scans[s] \in ScanState
  BY DEF ApiTypeOK
<1> QED BY <1>1, <1>2 DEF Register, startup, ScanState, Keeps, SameWalk

LEMMA DiscoverAt ==
  ASSUME ApiTypeOK, NEW s \in Scan, Discover(s)
  PROVE  /\ scans[s].pc = "walking" /\ scans'[s].pc \in {"walking", "tail"}
         /\ Keeps(s)
         /\ scans'[s].pc = "tail" => scans'[s].failed
         /\ scans'[s].pc = "walking" =>
              /\ scans'[s].next = scans[s].next + 1
              /\ scans'[s].batch \cup photos' = scans[s].batch \cup photos \cup {scans[s].next}
         /\ UNCHANGED <<pc, row, running, loss, blurred>> /\ photos \subseteq photos'
<1> DEFINE full == scans[s].batch \cup {scans[s].next}
           Now(rec) == /\ scans'[s] = rec
                       /\ \A t \in Scan : t # s => scans'[t] = scans[t]
<1>1. \/ Now([scans[s] EXCEPT !.next = @ + 1, !.batch = full]) /\ photos' = photos
      \/ Now([scans[s] EXCEPT !.next = @ + 1, !.batch = {}]) /\ photos' = photos \cup full
      \/ Now([scans[s] EXCEPT !.batch = full, !.pc = "tail", !.failed = TRUE])
  BY DEF ApiTypeOK, Discover, Becomes
<1>2. scans[s] \in ScanState
  BY DEF ApiTypeOK
<1>3. CASE Now([scans[s] EXCEPT !.next = @ + 1, !.batch = full]) /\ photos' = photos
  BY <1>2, <1>3 DEF Discover, ScanState, Keeps
<1>4. CASE Now([scans[s] EXCEPT !.next = @ + 1, !.batch = {}]) /\ photos' = photos \cup full
  BY <1>2, <1>4 DEF Discover, ScanState, Keeps
<1>5. CASE Now([scans[s] EXCEPT !.batch = full, !.pc = "tail", !.failed = TRUE])
  BY <1>2, <1>5 DEF Discover, ScanState, Keeps
<1>6. UNCHANGED <<pc, row, running, loss, blurred>> /\ photos \subseteq photos'
  BY DEF Discover, startup
<1> QED BY <1>1, <1>3, <1>4, <1>5, <1>6

LEMMA WalkEndsAt ==
  ASSUME ApiTypeOK, NEW s \in Scan, WalkEnds(s)
  PROVE  /\ scans[s].pc = "walking" /\ scans'[s].pc = "tail"
         /\ Keeps(s) /\ scans'[s].batch = scans[s].batch
         /\ scans[s].next \in File => scans'[s].failed
         /\ UNCHANGED <<pc, row, photos, running, loss, blurred>>
<1> DEFINE bad == scans[s].next \in File
<1>1. /\ scans'[s] = [scans[s] EXCEPT !.pc = "tail", !.failed = bad]
      /\ \A t \in Scan : t # s => scans'[t] = scans[t]
  BY DEF ApiTypeOK, WalkEnds, Becomes
<1>2. scans[s] \in ScanState /\ bad \in BOOLEAN /\ scans[s].pc = "walking"
  BY DEF ApiTypeOK, WalkEnds
<1> HIDE DEF bad
<1>3. /\ scans'[s].pc = "tail" /\ scans'[s].failed = bad
      /\ Keeps(s) /\ scans'[s].batch = scans[s].batch
  BY <1>1, <1>2 DEF ScanState, Keeps
<1>4. UNCHANGED <<pc, row, photos, running, loss, blurred>>
  BY DEF WalkEnds, startup
<1> QED BY <1>2, <1>3, <1>4 DEF bad

LEMMA FlushTailAt ==
  ASSUME ApiTypeOK, NEW s \in Scan, FlushTail(s)
  PROVE  /\ scans[s].pc = "tail" /\ scans'[s].pc = "closing"
         /\ Keeps(s)
         /\ \/ scans'[s].failed
            \/ ~scans[s].failed /\ photos' = photos \cup scans[s].batch
         /\ UNCHANGED <<pc, row, running, loss, blurred>> /\ photos \subseteq photos'
<1>1. PICK ok \in {TRUE, FALSE} :
         /\ photos' \in {photos, photos \cup scans[s].batch}
         /\ ok => photos' = photos \cup scans[s].batch
         /\ Becomes(s, [scans[s] EXCEPT !.pc = "closing", !.batch = {}, !.next = 1,
                                        !.failed = @ \/ ~ok])
  BY DEF FlushTail
<1> DEFINE bad == scans[s].failed \/ ~ok
<1>2. /\ scans'[s] = [scans[s] EXCEPT !.pc = "closing", !.batch = {}, !.next = 1,
                                      !.failed = bad]
      /\ \A t \in Scan : t # s => scans'[t] = scans[t]
  BY <1>1 DEF ApiTypeOK, Becomes
<1>3. scans[s] \in ScanState /\ bad \in BOOLEAN /\ scans[s].pc = "tail"
  BY DEF ApiTypeOK, FlushTail
<1> HIDE DEF bad
<1>4. scans'[s].pc = "closing" /\ scans'[s].failed = bad /\ Keeps(s)
  BY <1>2, <1>3 DEF ScanState, Keeps
<1>5. bad \/ (~scans[s].failed /\ photos' = photos \cup scans[s].batch)
  BY <1>1 DEF bad
<1>6. UNCHANGED <<pc, row, running, loss, blurred>> /\ photos \subseteq photos'
  BY DEF FlushTail, startup
<1> QED BY <1>3, <1>4, <1>5, <1>6

LEMMA FinishAt ==
  ASSUME ApiTypeOK, NEW s \in Scan, Finish(s)
  PROVE  /\ scans[s].pc = "closing" /\ scans'[s].pc = "leaving"
         /\ Keeps(s) /\ SameWalk(s)
         /\ UNCHANGED <<pc, photos, running>>
<1>1. /\ scans'[s] = [scans[s] EXCEPT !.pc = "leaving"]
      /\ \A t \in Scan : t # s => scans'[t] = scans[t]
  BY DEF ApiTypeOK, Finish, Becomes
<1>2. scans[s] \in ScanState
  BY DEF ApiTypeOK
<1> QED BY <1>1, <1>2 DEF Finish, startup, ScanState, Keeps, SameWalk

LEMMA StopScansAt ==
  ASSUME ApiTypeOK, NEW r \in Replica, StopScans(r)
  PROVE  /\ pc' = [pc EXCEPT ![r] = "stopping"]
         /\ UNCHANGED <<row, photos, running, loss, blurred>>
         /\ \A s \in Scan :
              /\ scans[s].owner = r => scans[s].pc \notin {"checked", "claimed"}
              /\ scans'[s].pc = scans[s].pc /\ scans'[s].owner = scans[s].owner
              /\ scans[s].cancelled \/ running[r] = s => scans'[s].cancelled
              /\ SameWalk(s)
<1>1. ASSUME NEW s \in Scan
      PROVE  /\ scans'[s].pc = scans[s].pc /\ scans'[s].owner = scans[s].owner
             /\ scans[s].cancelled \/ running[r] = s => scans'[s].cancelled
             /\ SameWalk(s)
  <2>1. scans[s] \in ScanState
    BY DEF ApiTypeOK
  <2>2. CASE running[r] = s
    <3>1. scans'[s] = [scans[s] EXCEPT !.cancelled = TRUE]
      BY <2>2 DEF StopScans
    <3> QED BY <2>1, <2>2, <3>1 DEF ScanState, SameWalk
  <2>3. CASE running[r] # s
    <3>1. scans'[s] = scans[s]
      BY <2>3 DEF StopScans
    <3> QED BY <2>1, <2>3, <3>1 DEF ScanState, SameWalk
  <2> QED BY <2>2, <2>3
<1>2. \A s \in Scan : scans[s].owner = r => scans[s].pc \notin {"checked", "claimed"}
  BY DEF StopScans, Handling
<1> QED BY <1>1, <1>2 DEF StopScans, GoTo, startup

LEMMA DieAt ==
  ASSUME ApiTypeOK, NEW r \in Replica, Die(r)
  PROVE  /\ pc' = [pc EXCEPT ![r] = "down"]
         /\ running' = [running EXCEPT ![r] = NoScan]
         /\ UNCHANGED <<row, photos>>
         /\ \A s \in Scan : \/ scans[s].owner = r /\ scans'[s].pc = "unused"
                            \/ scans[s].owner # r /\ scans'[s] = scans[s]
  BY DEF Die, GoTo, Idle

\* The map lists a goroutine of its own process that is still there, and a
\* process that stops has no handler left to list another.
StopInv ==
    \A r \in Replica :
      /\ running[r] \in Scan =>
           /\ scans[running[r]].owner = r
           /\ scans[running[r]].pc \in {"walking", "tail", "closing", "leaving"}
           /\ pc[r] = "stopping" => scans[running[r]].cancelled
      /\ pc[r] = "stopping" =>
           \A s \in Scan : scans[s].owner = r => scans[s].pc \notin {"checked", "claimed"}

LEMMA StopInit == ApiInit => StopInv
  BY ApiAssumption DEF ApiInit, StopInv, Idle

LEMMA StopStep == ApiTypeOK /\ StopInv /\ [ApiNext]_apiVars => StopInv'
<1> SUFFICES ASSUME ApiTypeOK, StopInv, [ApiNext]_apiVars PROVE StopInv'
  OBVIOUS
<1>0. ApiNext \/ UNCHANGED apiVars
  OBVIOUS
<1>types. /\ pc \in [Replica -> {"down", "connecting", "locking", "migrating",
                             "reconciling", "serving", "draining", "stopping"}]
          /\ running \in [Replica -> Scan \cup {NoScan}]
  BY DEF ApiTypeOK
<1> USE <1>types, ApiAssumption DEF StopInv
<1>1. ASSUME NEW r \in Replica, Startup(r) PROVE StopInv'
  BY <1>1, StartupFrame
<1>2. ASSUME NEW r \in Replica, Reconcile(r) PROVE StopInv'
  BY <1>2 DEF Reconcile, GoTo, startup
<1>3. ASSUME NEW r \in Replica, Signal(r) PROVE StopInv'
  BY <1>3 DEF Signal, GoTo, startup
<1>4. ASSUME NEW r \in Replica, StopScans(r) PROVE StopInv'
  BY <1>4, StopScansAt
<1>5. ASSUME NEW r \in Replica, Stopped(r) PROVE StopInv'
  BY <1>5 DEF Stopped, GoTo, startup
<1>6. ASSUME NEW r \in Replica, Die(r) PROVE StopInv'
  BY <1>6, DieAt
<1>7. ASSUME NEW r \in Replica, NEW s \in Scan, NEW force \in Forcing,
              Request(r, s, force)
       PROVE  StopInv'
  BY <1>7, RequestAt
<1>8. ASSUME NEW s \in Scan, Claim(s) PROVE StopInv'
  BY <1>8, ClaimAt DEF Keeps
<1>17. ASSUME NEW s \in Scan, ClaimUnheard(s) PROVE StopInv'
  BY <1>17, ClaimUnheardAt
<1>9. ASSUME NEW s \in Scan, Refuse(s) PROVE StopInv'
  BY <1>9, RefuseAt
<1>10. ASSUME NEW s \in Scan, Register(s) PROVE StopInv'
  BY <1>10, RegisterAt DEF Keeps
<1>11. ASSUME NEW s \in Scan, Discover(s) PROVE StopInv'
  BY <1>11, DiscoverAt DEF Keeps
<1>12. ASSUME NEW s \in Scan, WalkEnds(s) PROVE StopInv'
  BY <1>12, WalkEndsAt DEF Keeps
<1>13. ASSUME NEW s \in Scan, FlushTail(s) PROVE StopInv'
  BY <1>13, FlushTailAt DEF Keeps
<1>14. ASSUME NEW s \in Scan, Finish(s) PROVE StopInv'
  BY <1>14, FinishAt DEF Keeps
<1>15. ASSUME NEW s \in Scan, Leave(s) PROVE StopInv'
  BY <1>15, LeaveAt
<1>16. CASE UNCHANGED apiVars
  BY <1>16 DEF apiVars
<1> HIDE DEF StopInv
<1> QED
  BY <1>0, <1>1, <1>2, <1>3, <1>4, <1>5, <1>6, <1>7, <1>8, <1>9, <1>10,
     <1>11, <1>12, <1>13, <1>14, <1>15, <1>16, <1>17 DEF ApiNext, ScanStep, Startup

\* A scan whose row is still its own to close.
IsLive(s) == scans[s].pc \in {"claimed", "walking", "tail", "closing"}

RowHasScan == row = "scanning" => loss # "none" \/ \E s \in Scan : IsLive(s)

\* A scan that nothing overtook is alone, and has the row.
AloneInv ==
    ~blurred => \A s \in Scan : IsLive(s) =>
        /\ row = "scanning"
        /\ \A t \in Scan : IsLive(t) => s = t

RowInv == RowHasScan /\ AloneInv

\* blurred is raised by its cause, and is only forgotten with the last scan.
LEMMA BlurAt ==
  ASSUME NEW cause, Blur(cause)
  PROVE  ~blurred' => \/ ~blurred /\ ~cause
                      \/ \A s \in Scan : ~IsLive(s)'
  BY DEF Blur, Busy, Live, IsLive

LEMMA RowInit == ApiInit => RowInv
  BY DEF ApiInit, RowInv, RowHasScan, AloneInv, IsLive, Idle

LEMMA RowStep == ApiTypeOK /\ RowInv /\ [ApiNext]_apiVars => RowInv'
<1> SUFFICES ASSUME ApiTypeOK, RowInv, [ApiNext]_apiVars PROVE RowInv'
  OBVIOUS
<1>0. ApiNext \/ UNCHANGED apiVars
  OBVIOUS
<1>types. scans \in [Scan -> ScanState]
  BY DEF ApiTypeOK
<1> USE <1>types, ApiAssumption DEF RowInv, RowHasScan, AloneInv, IsLive
<1>1. ASSUME NEW r \in Replica, Startup(r) PROVE RowInv'
  BY <1>1, StartupFrame
<1>2. ASSUME NEW r \in Replica, Reconcile(r) PROVE RowInv'
  <2>1. /\ Blur(row = "scanning" /\ Busy(scans) # {})
        /\ row' = IF row = "scanning" THEN "complete" ELSE row
        /\ scans' = scans
    BY <1>2 DEF Reconcile
  <2>2. ~blurred' => \/ ~blurred /\ (row # "scanning" \/ Busy(scans) = {})
                     \/ \A t \in Scan : ~IsLive(t)'
    BY <2>1, BlurAt
  <2>3. ~blurred' => \A t \in Scan : ~IsLive(t)
    BY <2>1, <2>2 DEF Busy, Live
  <2> QED BY <2>1, <2>3
<1>3. ASSUME NEW r \in Replica, Signal(r) PROVE RowInv'
  BY <1>3 DEF Signal, GoTo, startup
<1>4. ASSUME NEW r \in Replica, StopScans(r) PROVE RowInv'
  BY <1>4, StopScansAt
<1>5. ASSUME NEW r \in Replica, Stopped(r) PROVE RowInv'
  BY <1>5 DEF Stopped, GoTo, startup
<1>6. ASSUME NEW r \in Replica, Die(r) PROVE RowInv'
  <2>1. /\ Blur(FALSE)
        /\ \/ loss # "none"
           \/ row = "scanning" /\ \E s \in Scan : IsLive(s) /\ scans[s].owner = r
           => loss' # "none"
    BY <1>6 DEF Die, Live
  <2>2. ~blurred' => ~blurred \/ \A t \in Scan : ~IsLive(t)'
    BY <2>1, BlurAt
  <2>3. RowHasScan'
    BY <1>6, <2>1, DieAt
  <2>4. AloneInv'
    BY <1>6, <2>2, DieAt
  <2> QED BY <2>3, <2>4
<1>7. ASSUME NEW r \in Replica, NEW s \in Scan, NEW force \in Forcing,
              Request(r, s, force)
       PROVE  RowInv'
  BY <1>7, RequestAt
<1>8. ASSUME NEW s \in Scan, Claim(s) PROVE RowInv'
  <2>1. row' = "scanning" /\ Blur(scans[s].force /\ Busy(scans) # {})
    BY <1>8 DEF Claim
  <2>2. scans[s].force \/ row # "scanning"
    BY <1>8 DEF Claim, MayClaim
  <2>3. ~blurred' => /\ ~blurred
                     /\ row # "scanning" \/ Busy(scans) = {}
    BY <1>8, <2>1, <2>2, BlurAt, ClaimAt
  <2>4. ~blurred' => \A t \in Scan : ~IsLive(t)
    BY <2>3 DEF Busy, Live
  <2> QED BY <1>8, <2>1, <2>3, <2>4, ClaimAt DEF Keeps
<1>17. ASSUME NEW s \in Scan, ClaimUnheard(s) PROVE RowInv'
  BY <1>17, ClaimUnheardAt
<1>9. ASSUME NEW s \in Scan, Refuse(s) PROVE RowInv'
  BY <1>9, RefuseAt
<1>10. ASSUME NEW s \in Scan, Register(s) PROVE RowInv'
  BY <1>10, RegisterAt DEF Keeps
<1>11. ASSUME NEW s \in Scan, Discover(s) PROVE RowInv'
  BY <1>11, DiscoverAt DEF Keeps
<1>12. ASSUME NEW s \in Scan, WalkEnds(s) PROVE RowInv'
  BY <1>12, WalkEndsAt DEF Keeps
<1>13. ASSUME NEW s \in Scan, FlushTail(s) PROVE RowInv'
  BY <1>13, FlushTailAt DEF Keeps
<1>14. ASSUME NEW s \in Scan, Finish(s) PROVE RowInv'
  <2>0. Blur(FALSE)
    BY <1>14 DEF Finish
  <2>1. row' = "complete" \/ (row' = row /\ (row = "scanning" => loss' # "none"))
    <3>1. CASE row' = "complete"
      BY <3>1
    <3>2. CASE row' = row /\ loss' = IF row = "scanning" THEN "unfinished" ELSE loss
      BY <3>2
    <3> QED BY <1>14, <3>1, <3>2, Zenon DEF Finish
  <2>2. ~blurred' => ~blurred \/ \A t \in Scan : ~IsLive(t)'
    BY <2>0, BlurAt
  <2>3. RowHasScan'
    BY <1>14, <2>1, FinishAt DEF Keeps
  <2>4. AloneInv'
    BY <1>14, <2>2, FinishAt DEF Keeps
  <2> QED BY <2>3, <2>4
<1>15. ASSUME NEW s \in Scan, Leave(s) PROVE RowInv'
  <2>1. Blur(FALSE)
    BY <1>15 DEF Leave
  <2>2. ~blurred' => ~blurred \/ \A t \in Scan : ~IsLive(t)'
    BY <2>1, BlurAt
  <2> QED BY <1>15, <2>2, LeaveAt
<1>16. CASE UNCHANGED apiVars
  BY <1>16 DEF apiVars
<1> HIDE DEF RowInv, RowHasScan, AloneInv, IsLive
<1> QED
  BY <1>0, <1>1, <1>2, <1>3, <1>4, <1>5, <1>6, <1>7, <1>8, <1>9, <1>10,
     <1>11, <1>12, <1>13, <1>14, <1>15, <1>16, <1>17 DEF ApiNext, ScanStep, Startup

\* What a scan has passed is in the table or in its batch, unless it failed.
WalkInv ==
    \A s \in Scan :
      /\ scans[s].pc \in {"checked", "claimed"} => scans[s].next = 1
      /\ scans[s].pc = "walking" => 1..(scans[s].next - 1) \subseteq photos \cup scans[s].batch
      /\ scans[s].pc = "tail" /\ ~scans[s].failed => File \subseteq photos \cup scans[s].batch
      /\ scans[s].pc \in {"closing", "leaving"} /\ ~scans[s].failed => File \subseteq photos

LEMMA WalkInit == ApiInit => WalkInv
  BY DEF ApiInit, WalkInv, Idle

LEMMA WalkStep == ApiTypeOK /\ WalkInv /\ [ApiNext]_apiVars => WalkInv'
<1> SUFFICES ASSUME ApiTypeOK, WalkInv, [ApiNext]_apiVars PROVE WalkInv'
  OBVIOUS
<1>0. ApiNext \/ UNCHANGED apiVars
  OBVIOUS
<1>types. scans \in [Scan -> ScanState]
  BY DEF ApiTypeOK
<1> USE <1>types, ApiAssumption DEF WalkInv, File
<1>1. ASSUME NEW r \in Replica, Startup(r) PROVE WalkInv'
  BY <1>1, StartupFrame
<1>2. ASSUME NEW r \in Replica, Reconcile(r) PROVE WalkInv'
  BY <1>2 DEF Reconcile, GoTo, startup, SameWalk
<1>3. ASSUME NEW r \in Replica, Signal(r) PROVE WalkInv'
  BY <1>3 DEF Signal, GoTo, startup, SameWalk
<1>4. ASSUME NEW r \in Replica, StopScans(r) PROVE WalkInv'
  BY <1>4, StopScansAt DEF SameWalk
<1>5. ASSUME NEW r \in Replica, Stopped(r) PROVE WalkInv'
  BY <1>5 DEF Stopped, GoTo, startup, SameWalk
<1>6. ASSUME NEW r \in Replica, Die(r) PROVE WalkInv'
  BY <1>6, DieAt DEF SameWalk
<1>7. ASSUME NEW r \in Replica, NEW s \in Scan, NEW force \in Forcing,
              Request(r, s, force)
       PROVE  WalkInv'
  BY <1>7, RequestAt
<1>8. ASSUME NEW s \in Scan, Claim(s) PROVE WalkInv'
  BY <1>8, ClaimAt DEF Keeps, SameWalk
<1>17. ASSUME NEW s \in Scan, ClaimUnheard(s) PROVE WalkInv'
  BY <1>17, ClaimUnheardAt DEF SameWalk
<1>9. ASSUME NEW s \in Scan, Refuse(s) PROVE WalkInv'
  BY <1>9, RefuseAt DEF SameWalk
<1>10. ASSUME NEW s \in Scan, Register(s) PROVE WalkInv'
  BY <1>10, RegisterAt DEF Keeps, SameWalk
<1>11. ASSUME NEW s \in Scan, Discover(s) PROVE WalkInv'
  <2>1. scans[s].next \in 1..(FileCount + 1)
    BY DEF ScanState
  <2>2. 1..scans[s].next = 1..(scans[s].next - 1) \cup {scans[s].next}
    BY <2>1
  <2>3. scans'[s].pc = "walking" =>
          1..(scans'[s].next - 1) \subseteq photos' \cup scans'[s].batch
    <3> SUFFICES ASSUME scans'[s].pc = "walking"
                 PROVE  1..(scans'[s].next - 1) \subseteq photos' \cup scans'[s].batch
      OBVIOUS
    <3>1. scans'[s].next - 1 = scans[s].next
      BY <1>11, <2>1, DiscoverAt
    <3>2. 1..scans[s].next \subseteq photos' \cup scans'[s].batch
      BY <1>11, <2>2, DiscoverAt
    <3> QED BY <3>1, <3>2
  <2> QED BY <1>11, <2>3, DiscoverAt DEF Keeps
<1>12. ASSUME NEW s \in Scan, WalkEnds(s) PROVE WalkInv'
  <2>1. scans[s].next \in 1..(FileCount + 1)
    BY DEF ScanState
  <2>2. scans[s].next \notin 1..FileCount => 1..(scans[s].next - 1) = 1..FileCount
    BY <2>1
  <2>3. ~scans'[s].failed => 1..FileCount \subseteq photos' \cup scans'[s].batch
    BY <1>12, <2>2, WalkEndsAt DEF Keeps
  <2> QED BY <1>12, <2>3, WalkEndsAt DEF Keeps
<1>13. ASSUME NEW s \in Scan, FlushTail(s) PROVE WalkInv'
  BY <1>13, FlushTailAt DEF Keeps, SameWalk
<1>14. ASSUME NEW s \in Scan, Finish(s) PROVE WalkInv'
  BY <1>14, FinishAt DEF Keeps, SameWalk
<1>15. ASSUME NEW s \in Scan, Leave(s) PROVE WalkInv'
  BY <1>15, LeaveAt DEF SameWalk
<1>16. CASE UNCHANGED apiVars
  BY <1>16 DEF apiVars, SameWalk
<1> HIDE DEF WalkInv, File
<1> QED
  BY <1>0, <1>1, <1>2, <1>3, <1>4, <1>5, <1>6, <1>7, <1>8, <1>9, <1>10,
     <1>11, <1>12, <1>13, <1>14, <1>15, <1>16, <1>17 DEF ApiNext, ScanStep, Startup

LEMMA StopAlways == ApiSpec => []StopInv
<1> QED BY StopInit, StopStep, ApiTypes, PTL DEF ApiSpec

\* main.go:116-119, scanner.go:211-216: from the moment Scanner.Shutdown has cancelled what
\* the map lists, no request of that process can begin a scan any more.
THEOREM StoppingIsFinal == ApiSpec => []StopIsFinal
<1>1. StopInv => StopIsFinal
  BY DEF StopInv, StopIsFinal, Handling, Live
<1> QED BY <1>1, StopAlways, PTL

LEMMA RowAlways == ApiSpec => []RowInv
<1> QED BY RowInit, RowStep, ApiTypes, PTL DEF ApiSpec

\* scanner.go:140-146, 171-178, libraries.go:116-120: a row that says "scanning"
\* has a scan that will close it, or the one that opened it last lost it in one of
\* three ways: with its process, with its last statement, or with the reply to
\* its first.
THEOREM OpenRowHasAScan == ApiSpec => []OpenRowExplained
<1>1. RowInv => OpenRowExplained
  BY DEF RowInv, RowHasScan, IsLive, OpenRowExplained, Live
<1> QED BY <1>1, RowAlways, PTL

\* libraries.go:90-98: the guard of MarkScanStarted alone keeps scans of all
\* processes apart, as long as none is forced and none starts up in between.
THEOREM ScansAlone == ApiSpec => []OneScan
<1>1. RowInv => OneScan
  <2> SUFFICES ASSUME RowInv, ~blurred PROVE Cardinality(Live(scans)) <= 1
    BY DEF OneScan
  <2>1. CASE Live(scans) = {}
    BY <2>1, FS_EmptySet
  <2>2. CASE Live(scans) # {}
    <3>1. PICK s \in Live(scans) : Live(scans) = {s}
      BY <2>2 DEF RowInv, AloneInv, IsLive, Live
    <3>2. Cardinality(Live(scans)) = 1
      BY <3>1, FS_Singleton
    <3> QED BY <3>2
  <2> QED BY <2>1, <2>2
<1> QED BY <1>1, RowAlways, PTL

LEMMA WalkAlways == ApiSpec => []WalkInv
<1> QED BY WalkInit, WalkStep, ApiTypes, PTL DEF ApiSpec

\* scanner.go:75-101: for any number of files and any batch size, a scan that ends
\* without a failure has left a row for every file.
THEOREM ScansAreComplete == ApiSpec => []CompleteMeansAll
<1>1. WalkInv => CompleteMeansAll
  BY DEF WalkInv, CompleteMeansAll
<1> QED BY <1>1, WalkAlways, PTL
=============================================================================
