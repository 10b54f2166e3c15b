----------------------------- MODULE ApiService -----------------------------
(***************************************************************************)
(* The life of the API process (cmd/api/main.go): connect, migrate the     *)
(* schema under an advisory lock, reconcile interrupted scans, serve scan   *)
(* requests, and shut down in order - with several processes on one         *)
(* database, each of which may die at any point and be started again, of    *)
(* the same build or of another.  One library is modelled: scans of         *)
(* different libraries share nothing but the start-up and shutdown steps.   *)
(*                                                                         *)
(* A request that starts a scan and the goroutine it leaves behind are one  *)
(* scan slot; the slots bound how many exist at once, never how many run    *)
(* one after another.                                                       *)
(***************************************************************************)
EXTENDS Integers, FiniteSets

CONSTANTS Replica,    \* API processes that may run at once
          Build,      \* what a binary embeds: Version -> checksum, or Absent
          Version,    \* migration numbers
          Absent,     \* no such migration in the build, or not applied yet
          Scan,       \* slots for scans that exist at once
          Forcing,      \* the values of ?force= that requests carry
          FileCount,  \* supported files under the library root, in walk order
          BatchSize,  \* ingest.batchSize
          NoScan, NoReplica

ASSUME ApiAssumption ==
    /\ Version \subseteq Nat /\ IsFiniteSet(Version)
    /\ FileCount \in Nat /\ BatchSize \in Nat \ {0}
    /\ Forcing \subseteq BOOLEAN
    /\ NoScan \notin Scan /\ NoReplica \notin Replica

VARIABLES
    pc,         \* pc[r]: where main.run of r is
    build,      \* build[r]: the binary r was started from
    seen,       \* seen[r]: schema_migrations as r read it under the lock
    holder,     \* the session that holds the advisory lock
    applied,    \* schema_migrations
    row,        \* what last_scan_started_at/finished_at say of the library
    photos,     \* files that have a photo row
    running,    \* running[r]: Scanner.running of r, for this library
    scans,      \* scans[s]: a request and its goroutine
    loss,       \* history: how the row lost the scan that was to close it, or "none"
    blurred     \* history: a forced scan or a reconcile overtook a scan that runs

apiVars == <<pc, build, seen, holder, applied, row, photos, running, scans,
          loss, blurred>>

startup == <<build, seen, holder, applied>>

File == 1..FileCount

Nothing == [v \in Version |-> Absent]

Idle == [pc |-> "unused", owner |-> NoReplica, force |-> FALSE,
         cancelled |-> FALSE, next |-> 1, batch |-> {}, failed |-> FALSE]

\* The scans whose row is still theirs to close, and those still in the process.
Live(sc) == {s \in Scan : sc[s].pc \in {"claimed", "walking", "tail", "closing"}}
Busy(sc) == Live(sc) \cup {s \in Scan : sc[s].pc = "leaving"}

\* The handlers of r that http.Server.Shutdown waits for.
Handling(r) == {s \in Scan : scans[s].owner = r /\ scans[s].pc \in {"checked", "claimed"}}

Blur(cause) == blurred' = ((blurred \/ cause) /\ Busy(scans') # {})

\* The migrations load finds in the binary.
Embedded(r) == {v \in Version : build[r][v] # Absent}

Pending(r) == {v \in Embedded(r) : seen[r][v] = Absent}

\* mutant: checksums are not compared
Edited_Unchecked(r) == {}

Edited(r) == {v \in Embedded(r) : seen[r][v] \notin {Absent, build[r][v]}}

ApiInit ==
    /\ pc = [r \in Replica |-> "down"]
    /\ build = [r \in Replica |-> Nothing]
    /\ seen = [r \in Replica |-> Nothing]
    /\ applied = Nothing
    /\ holder = NoReplica
    /\ row = "never"
    /\ photos = {}
    /\ running = [r \in Replica |-> NoScan]
    /\ scans = [s \in Scan |-> Idle]
    /\ loss = "none" /\ blurred = FALSE

-----------------------------------------------------------------------------
(* Start-up.                                                               *)

GoTo(r, step) == pc' = [pc EXCEPT ![r] = step]

\* The container starts a process: the same build as before, or an upgrade.
Start(r) ==
    /\ pc[r] = "down"
    /\ GoTo(r, "connecting")
    /\ \E b \in Build : build' = [build EXCEPT ![r] = b]
    /\ UNCHANGED <<seen, holder, applied, row, photos, running, scans, loss, blurred>>

\* Connect answered a ping; the attempts before it change nothing.
Connect(r) ==
    /\ pc[r] = "connecting"
    /\ GoTo(r, "locking")
    /\ UNCHANGED <<startup, row, photos, running, scans, loss, blurred>>

\* mutant: no advisory lock
LockMigrations_Unlocked(r) ==
    /\ pc[r] = "locking"
    /\ holder' = r
    /\ seen' = [seen EXCEPT ![r] = applied]
    /\ GoTo(r, "migrating")
    /\ UNCHANGED <<build, applied, row, photos, running, scans, loss, blurred>>

\* pg_advisory_lock returns, then the applied versions are read.
LockMigrations(r) ==
    /\ pc[r] = "locking" /\ holder = NoReplica
    /\ holder' = r
    /\ seen' = [seen EXCEPT ![r] = applied]
    /\ GoTo(r, "migrating")
    /\ UNCHANGED <<build, applied, row, photos, running, scans, loss, blurred>>

\* The first of the pending migrations, in a transaction of its own.  An edited
\* one below it ends the run before it is reached.
ApplyOne(r) ==
    /\ pc[r] = "migrating"
    /\ \E v \in Pending(r) :
         /\ \A w \in Pending(r) \cup Edited(r) : v <= w
         /\ applied' = [applied EXCEPT ![v] = build[r][v]]
         /\ seen' = [seen EXCEPT ![r] = [@ EXCEPT ![v] = build[r][v]]]
    /\ UNCHANGED <<pc, build, holder, row, photos, running, scans, loss, blurred>>

\* Nothing left to apply and nothing edited: the lock is released.
Migrated(r) ==
    /\ pc[r] = "migrating" /\ Pending(r) = {} /\ Edited(r) = {}
    /\ holder' = NoReplica
    /\ seen' = [seen EXCEPT ![r] = Nothing]
    /\ GoTo(r, "reconciling")
    /\ UNCHANGED <<build, applied, row, photos, running, scans, loss, blurred>>

\* ReconcileInterruptedScans closes every open row, then the server listens.
Reconcile(r) ==
    /\ pc[r] = "reconciling"
    /\ row' = IF row = "scanning" THEN "complete" ELSE row
    /\ loss' = "none"
    /\ GoTo(r, "serving")
    /\ UNCHANGED <<startup, photos, running, scans>>
    /\ Blur(row = "scanning" /\ Busy(scans) # {})

-----------------------------------------------------------------------------
(* A scan: StartAsync in the handler, ScanSync in its goroutine.           *)

Becomes(s, sc) == scans' = [scans EXCEPT ![s] = sc]

\* StartAsync looks at the map, under the mutex it then gives up.  A handler
\* that was in flight at SIGTERM gets there while the server drains.
Request(r, s, force) ==
    /\ pc[r] \in {"serving", "draining"} /\ scans[s].pc = "unused"
    /\ running[r] = NoScan \/ force
    /\ Becomes(s, [Idle EXCEPT !.pc = "checked", !.owner = r, !.force = force])
    /\ UNCHANGED <<pc, startup, row, photos, running, loss, blurred>>

\* mutant: the UPDATE has no guard
MayClaim_Always(s) == s \in Scan

\* MarkScanStarted: the guard is in the WHERE clause.
MayClaim(s) == scans[s].force \/ row # "scanning"

\* From now on the row is this scan's to close, whoever left it open before.
Claim(s) ==
    /\ scans[s].pc = "checked" /\ MayClaim(s)
    /\ row' = "scanning" /\ loss' = "none"
    /\ Becomes(s, [scans[s] EXCEPT !.pc = "claimed", !.force = FALSE])
    /\ UNCHANGED <<pc, startup, photos, running>>
    /\ Blur(scans[s].force /\ Busy(scans) # {})

\* The UPDATE commits and Exec returns an error all the same: the client has
\* gone and the request's context with it, or the connection broke.  The handler
\* answers with the error, and nobody has the row to close.
ClaimUnheard(s) ==
    /\ scans[s].pc = "checked" /\ MayClaim(s)
    /\ row' = "scanning" /\ loss' = "unheard"
    /\ Becomes(s, Idle)
    /\ UNCHANGED <<pc, startup, photos, running, blurred>>

\* The UPDATE matched no row, or failed before it committed: the handler answers
\* with the error.
Refuse(s) ==
    /\ scans[s].pc = "checked"
    /\ Becomes(s, Idle)
    /\ UNCHANGED <<pc, startup, row, photos, running, loss, blurred>>

\* The cancel function goes into the map, the goroutine starts, the handler
\* returns.
Register(s) ==
    /\ scans[s].pc = "claimed"
    /\ running' = [running EXCEPT ![scans[s].owner] = s]
    /\ Becomes(s, [scans[s] EXCEPT !.pc = "walking"])
    /\ UNCHANGED <<pc, startup, row, photos, loss, blurred>>

\* mutant: one file past the end
Discover_PastEnd(s) ==
    LET full == scans[s].batch \cup {scans[s].next} IN
    /\ scans[s].pc = "walking" /\ ~scans[s].cancelled /\ scans[s].next <= FileCount + 1
    /\ Becomes(s, [scans[s] EXCEPT !.next = @ + 1, !.batch =
                                 IF Cardinality(full) < BatchSize THEN full ELSE {}])
    /\ photos' = IF Cardinality(full) < BatchSize THEN photos ELSE photos \cup full
    /\ UNCHANGED <<pc, startup, row, running, loss, blurred>>

\* The walk reaches the next file and appends it; a full batch is inserted
\* there and then, ON CONFLICT DO NOTHING.  An insert that fails may have committed.
Discover(s) ==
    LET full == scans[s].batch \cup {scans[s].next} IN
    /\ scans[s].pc = "walking" /\ ~scans[s].cancelled /\ scans[s].next \in File
    /\ \/ /\ Cardinality(full) < BatchSize
          /\ Becomes(s, [scans[s] EXCEPT !.next = @ + 1, !.batch = full])
          /\ UNCHANGED photos
       \/ /\ Cardinality(full) >= BatchSize
          /\ Becomes(s, [scans[s] EXCEPT !.next = @ + 1, !.batch = {}])
          /\ photos' = photos \cup full
       \/ /\ Cardinality(full) >= BatchSize
          /\ Becomes(s, [scans[s] EXCEPT !.batch = full, !.pc = "tail", !.failed = TRUE])
          /\ photos' \in {photos, photos \cup full}
    /\ UNCHANGED <<pc, startup, row, running, loss, blurred>>

\* The walk is over, or sees that its context is cancelled.
WalkEnds(s) ==
    /\ scans[s].pc = "walking"
    /\ scans[s].next \notin File \/ scans[s].cancelled
    /\ Becomes(s, [scans[s] EXCEPT !.pc = "tail", !.failed = scans[s].next \in File])
    /\ UNCHANGED <<pc, startup, row, photos, running, loss, blurred>>

\* mutant: the partial batch is dropped
FlushTail_Drops(s) ==
    /\ scans[s].pc = "tail"
    /\ Becomes(s, [scans[s] EXCEPT !.pc = "closing", !.batch = {}, !.next = 1])
    /\ UNCHANGED <<pc, startup, row, photos, running, loss, blurred>>

\* What the walk left in the batch is inserted, after a failed walk too.  Under
\* a cancelled context the statement does not run, and any error counts, that
\* of an insert which committed included.
FlushTail(s) ==
    /\ scans[s].pc = "tail"
    /\ \E ok \in {TRUE, FALSE} :
         /\ ~ok => scans[s].batch # {}
         /\ \/ /\ ~scans[s].cancelled \/ scans[s].batch = {}
               /\ photos' = photos \cup scans[s].batch
            \/ ~ok /\ photos' = photos
         /\ Becomes(s, [scans[s] EXCEPT !.pc = "closing", !.batch = {}, !.next = 1,
                                        !.failed = @ \/ ~ok])
    /\ UNCHANGED <<pc, startup, row, running, loss, blurred>>

\* mutant: the row is closed under the scan's own context
Finish_OwnContext(s) ==
    /\ scans[s].pc = "closing"
    /\ Becomes(s, [scans[s] EXCEPT !.pc = "leaving"])
    /\ IF scans[s].cancelled THEN UNCHANGED <<row, loss>>
                             ELSE row' = "complete" /\ loss' = "none"
    /\ UNCHANGED <<pc, startup, photos, running>>
    /\ Blur(FALSE)

\* mutant: a scan that failed returns before it closes the row
Finish_OnSuccess(s) ==
    /\ scans[s].pc = "closing"
    /\ Becomes(s, [scans[s] EXCEPT !.pc = "leaving"])
    /\ IF scans[s].failed THEN UNCHANGED <<row, loss>>
                          ELSE row' = "complete" /\ loss' = "none"
    /\ UNCHANGED <<pc, startup, photos, running>>
    /\ Blur(FALSE)

\* MarkScanFinished, under a context of its own; it may time out.
Finish(s) ==
    /\ scans[s].pc = "closing"
    /\ Becomes(s, [scans[s] EXCEPT !.pc = "leaving"])
    /\ \/ row' = "complete" /\ loss' = "none"
       \/ row' = row /\ loss' = IF row = "scanning" THEN "unfinished" ELSE loss
    /\ UNCHANGED <<pc, startup, photos, running>>
    /\ Blur(FALSE)

\* The deferred delete takes whatever entry the map has for the library.
Leave(s) ==
    /\ scans[s].pc = "leaving"
    /\ running' = [running EXCEPT ![scans[s].owner] = NoScan]
    /\ Becomes(s, Idle)
    /\ UNCHANGED <<pc, startup, row, photos, loss>>
    /\ Blur(FALSE)

-----------------------------------------------------------------------------
(* Shutdown, and death.                                                    *)

\* SIGTERM: the listener closes, requests in flight go on.
Signal(r) ==
    /\ pc[r] = "serving"
    /\ GoTo(r, "draining")
    /\ UNCHANGED <<startup, row, photos, running, scans, loss, blurred>>

\* mutant: the scans are stopped before the server is drained
StopScans_First(r) ==
    /\ pc[r] = "draining"
    /\ GoTo(r, "stopping")
    /\ scans' = [s \in Scan |-> IF running[r] = s
                                  THEN [scans[s] EXCEPT !.cancelled = TRUE] ELSE scans[s]]
    /\ UNCHANGED <<startup, row, photos, running, loss, blurred>>

\* srv.Shutdown returned: Scanner.Shutdown cancels what the map holds.
StopScans(r) ==
    /\ pc[r] = "draining" /\ Handling(r) = {}
    /\ GoTo(r, "stopping")
    /\ scans' = [s \in Scan |-> IF running[r] = s
                                  THEN [scans[s] EXCEPT !.cancelled = TRUE] ELSE scans[s]]
    /\ UNCHANGED <<startup, row, photos, running, loss, blurred>>

\* The wait group reached zero.
Stopped(r) ==
    /\ pc[r] = "stopping" /\ \A s \in Scan : scans[s].owner # r
    /\ GoTo(r, "down")
    /\ build' = [build EXCEPT ![r] = Nothing]
    /\ UNCHANGED <<seen, holder, applied, row, photos, running, scans, loss, blurred>>

\* Every other way out takes the goroutines and the session along: a crash, a
\* failed start-up, a grace period that ran out, a listener that failed.
Die(r) ==
    /\ pc[r] # "down"
    /\ GoTo(r, "down")
    /\ build' = [build EXCEPT ![r] = Nothing]
    /\ seen' = [seen EXCEPT ![r] = Nothing]
    /\ holder' = IF holder = r THEN NoReplica ELSE holder
    /\ running' = [running EXCEPT ![r] = NoScan]
    /\ scans' = [s \in Scan |-> IF scans[s].owner = r THEN Idle ELSE scans[s]]
    /\ loss' = IF row = "scanning" /\ \E s \in Live(scans) : scans[s].owner = r
                 THEN "died" ELSE loss
    /\ UNCHANGED <<applied, row, photos>>
    /\ Blur(FALSE)

ScanStep(s) ==
    \/ Claim(s) \/ ClaimUnheard(s) \/ Refuse(s) \/ Register(s)
    \/ Discover(s) \/ WalkEnds(s) \/ FlushTail(s) \/ Finish(s) \/ Leave(s)

ApiNext ==
    \/ \E r \in Replica :
         \/ Start(r) \/ Connect(r) \/ LockMigrations(r) \/ ApplyOne(r) \/ Migrated(r)
         \/ Reconcile(r) \/ Signal(r) \/ StopScans(r) \/ Stopped(r) \/ Die(r)
         \/ \E s \in Scan, force \in Forcing : Request(r, s, force)
    \/ \E s \in Scan : ScanStep(s)

ApiSpec == ApiInit /\ [][ApiNext]_apiVars /\ \A s \in Scan : WF_apiVars(ScanStep(s))

-----------------------------------------------------------------------------
(* Properties.                                                             *)

Checksum == {Absent} \cup UNION {{b[v] : v \in Version} : b \in Build}

Loss == {"none", "died", "unfinished", "unheard"}

ScanState ==
    [pc : {"unused", "checked", "claimed", "walking", "tail", "closing", "leaving"},
     owner : Replica \cup {NoReplica}, force : BOOLEAN, cancelled : BOOLEAN,
     next : 1..(FileCount + 1), batch : SUBSET File, failed : BOOLEAN]

ApiTypeOK ==
    /\ pc \in [Replica -> {"down", "connecting", "locking", "migrating",
                           "reconciling", "serving", "draining", "stopping"}]
    /\ build \in [Replica -> Build \cup {Nothing}]
    /\ seen \in [Replica -> [Version -> Checksum]] /\ applied \in [Version -> Checksum]
    /\ holder \in Replica \cup {NoReplica}
    /\ row \in {"never", "scanning", "complete"}
    /\ photos \subseteq File
    /\ running \in [Replica -> Scan \cup {NoScan}]
    /\ scans \in [Scan -> ScanState]
    /\ loss \in Loss /\ blurred \in BOOLEAN

\* main.go:50-52, migrate.go:59-65: processes of different builds start, die
\* half way through the migrations and start again, and none of them applies a
\* migration to a schema that already has it.
MigratesOnce ==
    \A r \in Replica : pc[r] = "migrating" =>
        \A v \in Pending(r) : applied[v] = Absent

\* migrate.go:41-43, 101-110: no process gets to its scans on a schema that lacks
\* one of its migrations or was built from an edited one, whatever other
\* processes and builds did to the schema before it and do after.
ServesMigrated ==
    \A r \in Replica : pc[r] \in {"reconciling", "serving", "draining", "stopping"} =>
        \A v \in Embedded(r) : applied[v] = build[r][v]

\* libraries.go:90-98: unless a scan was forced over it or a start-up closed
\* its row while it ran, a scan is alone on its library, whichever processes
\* the requests reach.
OneScan == ~blurred => Cardinality(Live(scans)) <= 1

\* scanner.go:140-146, 171-178, libraries.go:116-120: a library says "scanning"
\* only while some scan of it is still going to close it, or because one of three
\* things happened to the scan that opened it: it died with its process, its
\* last statement failed, or the reply to its first was lost.  A cancelled scan,
\* a failed one, a refused one and one that was overtaken all leave it closed.
OpenRowExplained == row = "scanning" => loss # "none" \/ Live(scans) # {}

\* libraries.go:97-98 says that force is "for recovering a library left marked
\* "scanning" by a process that died", and main.go:59-63 that only a restart can
\* tell such a library from one that is scanned.  A lost reply or a failed last
\* statement leaves one behind in a process that lives, which refuses every
\* unforced scan of it from then on.
OnlyDeathStrands == row = "scanning" /\ Live(scans) = {} => loss = "died"

\* scanner.go:41-42 says of the guard that it "would cover multiple API replicas":
\* with no scan forced, a library has one scan at a time.
OneScanUnforced == Cardinality(Live(scans)) <= 1

\* main.go:116-119, scanner.go:211-216: once the requests are drained no scan of
\* the process can begin any more, and each one the map lists has been told to
\* stop.
StopIsFinal ==
    \A r \in Replica : pc[r] = "stopping" =>
        /\ Handling(r) = {}
        /\ running[r] \in Live(scans) => scans[running[r]].cancelled

\* scanner.go:206-210 says that Shutdown "cancels in-flight scans and waits for
\* them to wind down": every scan of a stopping process has been told to stop.
\* The map it reads has one entry for the library, and a scan that is over
\* deletes the entry of the one that began meanwhile.
ShutdownCancels ==
    \A r \in Replica, s \in Live(scans) :
        pc[r] = "stopping" /\ scans[s].owner = r => scans[s].cancelled

\* scanner.go:75-101: a scan that reports neither a failure nor an interruption
\* has left a row for every file it walked over, those of the last, partial
\* batch included.
CompleteMeansAll ==
    \A s \in Scan : scans[s].pc \in {"closing", "leaving"} /\ ~scans[s].failed =>
        File \subseteq photos

\* Every scan that opened the row comes to close it, or loses it in one of the
\* three ways of OpenRowExplained: cancellation, failed inserts and rivals do
\* not keep it from its last statement.
ScanMarkEnds == row = "scanning" ~> row # "scanning" \/ loss # "none"
=============================================================================
