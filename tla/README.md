# A verification development for photodumpy

photodumpy indexes photo libraries: an API process scans folders and queues jobs
in Postgres, worker processes claim the jobs, and aggregate jobs derive duplicate
groups, similar groups and event clusters. There is no broker and no leader: the
`jobs` table is the only point of coordination, and whatever goes wrong between
two SQL statements must come right through it. That queue is the core of the
system, `JobQueue`; what a library goes through on top of it is `Pipeline`. The
API processes that migrate the schema and scan folders are `ApiService`, and what
is derived from a scanned library is in one module per part.

## 1. Inventory

| Component | State | Operations | Interacts with |
|---|---|---|---|
| Job queue (`internal/store/jobs.go`, `internal/jobs`, migrations 0004, 0005) | rows of `jobs` (status, attempts, lease, due time, last error) and `job_executions` (the audit trail) | enqueue, claim, complete, fail, defer, renew, release, reap, record start and end | called by workers, by the scanner and by handlers |
| Worker process (`internal/worker/worker.go`, `internal/store/workers.go`) | free slots, one goroutine for each claimed job, the `stopClaiming` latch, a row of `workers` | claim, heartbeat, renewal and reaper loops; `execute`; graceful shutdown | the queue, through SQL only; other workers, never |
| Per-photo handlers (`internal/worker/handlers.go`, `internal/ingest`) | columns of `photos`: state, metadata, hashes, scores, thumbnails | one idempotent stage for one photo | run by `execute`, and in process by `runPass` |
| Aggregate stages (`handlers.go`, `scanner.EnqueuePhotoJobs`) | what of the outstanding jobs is prerequisite to what | check prerequisites, defer or rebuild | read the queue and rebuild groups |
| Group rebuilds (`internal/store/duplicates.go`, `similar.go`, `clusters.go`) | groups and members of a library | delete and derive again in one transaction | may run twice at once |
| Scan lifecycle (`internal/ingest/scanner.go`, `internal/store/libraries.go`) | `last_scan_started_at` and `last_scan_finished_at`, the map of running scans | start, walk and insert, finish, shut down, reconcile at startup | API handlers and API restarts |
| Pass runner (`internal/ingest/pass.go`, `hashing.go`, `phash.go`, `metadata.go`, `quality.go`) | a semaphore, a batch, a result | fetch, process, await, group | store and handlers |
| Near-duplicate grouping (`internal/duplicates`) | none: pure | pairs within a distance, union-find, ranking, keeper | called by the similar rebuild |
| Event clustering (`internal/clustering`) | none: pure | greedy segmentation by gap and radius | called by the cluster rebuild |
| Thumbnail files (`internal/thumbnail`) | files below the thumbnail directory | write to a temporary file, sync, rename | per-photo handler, media API |
| Migrations (`internal/database`) | the schema version table | lock, apply in order | every process at startup |
| Image analysis (`internal/metadata`, `internal/quality`, `internal/hashing`) | none: pure | read EXIF, measure, digest | per-photo handlers |
| HTTP API (`internal/api`, `internal/store/photoview.go`) | none of its own | start scans, passes and jobs; list photos, groups and thumbnails | the store and the scanner |
| Paths, command line client, benchmark, configuration, web interface | little or none | | |

What is hard in it, each entry at its line under "hazards" in `PROJECT.json`:

- *interleaving*: every worker runs five kinds of loops and goroutines against
  the same rows, and they meet only in `WHERE` clauses;
- *stale executions*: a goroutine outlives its lease; its reports come late, to
  a row that was reaped, leased to another worker, leased to its own worker
  again, or finished;
- *lost replies*: a statement commits and the caller sees an error;
- *crashes and shutdowns* at any point, and shutdowns that run out of grace;
- *two clocks*: leases and heartbeats expire on separate schedules;
- *bounds*: slots, attempts, and attempts that a deferral gives back;
- *several API processes*: each reconciles, migrates and scans as if it were
  alone, and the map of running scans is of one process only;
- *READ COMMITTED*: each statement of a rebuild or a listing has a snapshot of
  its own;
- *files and rows*: a thumbnail is renamed into place before its row says so;
- *progress*: every enqueued job must end, without a coordinator.

What makes each component correct:

- queue: a row has at most one holder, the latest claimant; a live lease is
  taken from its holder by nobody; final states are final; a job dies only for
  cause; the audit trail does not lie; every job ends; and together:
  *at least one run, exactly one outcome* (`QueueContract`);
- worker: never more goroutines than slots; a lost worker is noticed and its
  jobs are reclaimed; shutdown strands nothing;
- aggregates: a finished aggregate reflects every finished prerequisite, or
  another one is still to run;
- rebuilds: the groups stored are those of one state of the photos;
- scans: one at a time for a library, every file in the table at the end, the
  row closed again whatever happened;
- migrations: each is applied once, and nobody serves on a schema without them;
- passes: within the concurrency, no item worked on twice at once, an end;
- thumbnails: never half a file, never older than the row says;
- pure algorithms: their reference definitions.

## 2. Modules

| Module | Content |
|---|---|
| `QueueContract` | abstract specification: jobs are submitted, taken, finished, and succeed once; no leases, attempts, clocks or processes |
| `JobQueue` | the queue and the worker processes, one action per SQL statement or per decision of a goroutine; the properties; the refinement mapping; fairness |
| `MCJobQueue` | extends `JobQueue` for TLC; holds the two documented behaviours the code does not have |
| `JobQueueProofs` | the TLAPS proofs of the invariants and action properties of `JobQueue`, and that it implements `QueueContract` |
| `Pipeline` | one library: calls of `POST /process`, the handlers and the aggregates, over the queue taken by its contract |
| `MCPipeline` | extends `Pipeline` for TLC |
| `PipelineProofs` | the TLAPS proofs of the four invariants of `Pipeline` |
| `ApiService` | the API processes on one database: start-up, migrations, reconciliation, scans, shutdown, death |
| `MCService` | two builds for `ApiService` under TLC |
| `ApiServiceProofs` | the TLAPS proofs of the invariants of `ApiService` |
| `LibraryPass` | the in-process pass with its goroutines and its kinds of caller |
| `GroupRebuild` | the three rebuilds and the listing, statement by statement, several at once |
| `GroupRebuildProofs` | the TLAPS proofs of the invariants and the action property of `GroupRebuild` |
| `ThumbnailFile` | `WriteAtomic`, the row and the reader, with crashes and losses of power |
| `SimilarGrouping`, `EventClustering`, `PhotoListing`, `ImageUpright`, `QualityScore` | pure algorithms beside what they promise |
| `MCDerived` | composes `LibraryPass`, `GroupRebuild`, `ThumbnailFile` and the five pure modules for TLC, and names the inputs of the pure ones |
| `EventProofs` | the TLAPS proofs of what `EventClustering` returns, for any points |
| `SimilarProofs` | the same of `SimilarGrouping`, for any photos |
| `PictureProofs` | the same of `ImageUpright` and `QualityScore`, for pictures of any size |
| `DerivedProofs` | the TLAPS proofs of the invariants of `ThumbnailFile` and `LibraryPass` and of what `PhotoListing` returns; that the parts of `MCDerived` behave as their own specifications; and its invariants |

How `JobQueue` corresponds to the code:

- `status`, `attempts`, `leasedBy`, `lastError` are the columns. `lease` and
  `due` are what the code reads off `now()`: a lease is `none`, `live` or
  `lapsed`, a row is due or not, and the steps `LeaseExpires` and
  `BackoffElapses` turn them over. `lastError` keeps which statement wrote the
  text, not the text.
- `claims[j]` numbers the claims of a row. `runner[j][n]`, `pc[j][n]` and
  `audit[j][n]` are the worker, the goroutine and the audit row of claim `n`.
  The code has no claim number; that its guards do without one is what
  `OneRecordedSuccess` and `ImplementsContract` are about.
- `pc` is a position in `Worker.execute`: about to record the start, in the
  handler, holding a result not yet reported, holding an outcome not yet
  written to the audit row, done. A handler is one step with any result.
- `proc[w]` is the process: `up`; `halted`, once `stopClaiming` is closed;
  `draining` from SIGTERM until leases are released; `released` until the
  process ends; `exited`; `crashed`. `row[w]` is its row in `workers`, `stale`
  once the threshold has passed since the last heartbeat.
- A SQL statement is one step. Each can fail before it commits, and where the
  code tells the two apart, after it (`delivered` in `ClaimJobs`, the label
  `done` in `CompleteJob` and `FailJob`). Failures that change nothing are
  stuttering.
- `RenewLeases` is one step, although `renewLoop` counts what is in flight before
  it sends the `UPDATE`; no property depends on what happens in between.
- `FOR UPDATE SKIP LOCKED` lets a statement pass over rows that others have
  locked, so a claim or a reap takes any subset of the eligible rows; the order
  by priority is only a preference and is left open.
- `EnqueueJobs` inserts rows. A job whose dedupe key is outstanding is skipped
  by `ON CONFLICT DO NOTHING` and is not in the inserted set; a rescan inserts
  a new row, another element of `Job`.
- Claim and SIGTERM, or claim and halt, commute, so a claim that commits just
  after the context was cancelled is the same claim just before. The one
  exception is not modelled: a claim the server commits although its client has
  given up, after the release of that worker's leases.

How `Pipeline` corresponds to the code:

- `column[s][p]` is what stage `s` left in the row of `p`: `unset` while its
  `..._at` marker is NULL, `value` with a result, `none` with the marker and no
  result. `state` is `photos.state`, of which the code writes four values.
  `disk[p]` is the file: an image, bytes that are no image, or gone. A file whose
  header is good and whose pixels are not is not in the model.
- Jobs are known by their dedupe key, `status[k]` is that of the newest row of
  `k`. Older rows of a key are succeeded or dead and are read by nothing here.
- The queue is what `QueueContract` promises: `owner[k]` holds the row, the
  reports of the owner count, those of an earlier run of the same row may count
  (`takers`), those of runs of older rows never do. A row that is not reported
  is reaped. Clocks, workers, slots and backoff are in `JobQueue`, and the
  implementation proof is what lets `Pipeline` do without them.
- `Run` numbers the goroutines that may run one key at once, and `pc` is where
  each is: claimed, having read the file, between the two statements that record
  a deleted file (`half`), counting, past its count (`checked`), past its load,
  holding a result.
- `EnqueuePhotoJobs` is one step per statement: a listing, the enqueue of what
  it found, the aggregates. A listing is one page. A call may be cut short
  between any two.
- A rebuild is the step that stores its result; `view[a]` is what that result
  was built from. The duplicate rebuild derives its groups inside its
  transaction (`Rebuild`); the similar and the cluster rebuild load first, in a
  statement of their own (`Load`, `Store`).
- `waits` is a history variable: for each aggregate the per-photo jobs that were
  outstanding when it was queued and have not ended since.
- Not in it: the passes the API can run in process (`LibraryPass`), the
  thumbnail file (`ThumbnailFile`), the statements inside a rebuild
  (`GroupRebuild`), the deletion of libraries, several libraries (no statement
  crosses two).

How `ApiService` corresponds to the code:

- `pc[r]` is the position in `main.run`: connecting, waiting for the advisory
  lock, migrating, reconciling, serving, draining requests, stopping scans. A
  process that is `down` may be started again from any of the `Build`s; a build
  is what the binary embeds, version by version, as a checksum.
- `seen[r]` is what the process read of `schema_migrations` under the lock, and
  `applied` the table. A version is one transaction (`ApplyOne`); an edited
  version ends the run.
- `scans[s]` is a request and the goroutine it leaves behind: checked against
  the map, row claimed (`MarkScanStarted`), walking, flushing the tail, closing
  the row (`MarkScanFinished`, which may time out), leaving. `running[r]` is the
  entry of `Scanner.running` for the library; it holds one scan, is overwritten
  by a forced one, and is deleted by whichever scan ends first.
- `row` is `last_scan_started_at` and `last_scan_finished_at` read together:
  never scanned, scanning, complete. `photos` is the set of files with a row.
- `MarkScanStarted` runs under the context of the request and has three outcomes:
  the row is claimed (`Claim`), it is not, for any reason (`Refuse`), or it is
  and the caller sees an error (`ClaimUnheard`): the client is gone or the
  connection is lost, `StartAsync` returns, and nobody scans. A handler that is
  in flight may get to the map while its process drains. A batch insert that
  fails may have committed.
- `Die` is every way out other than an orderly stop. `loss` and `blurred` are
  history. `loss` says what became of the scan that opened the row, where it can
  not close it: it `died` with its process, its `MarkScanFinished` failed
  (`unfinished`), or the reply to its `MarkScanStarted` was lost (`unheard`).
  `blurred` says that a forced scan or another process's reconciliation
  overtook a scan that still runs.
- `ReconcileInterruptedScans` closes every open row, that of a scan running in
  another process too. So `OneScan` is stated for histories where that did not
  happen.

How the other modules correspond to the code:

- `LibraryPass`: `stage` is the position in `runPass`; `marked` are the photos
  the fetch no longer returns; `broken` those whose processing fails without a
  marker, each time. `taken` counts the slots of the semaphore: taken before a
  goroutine is spawned, given back as it leaves. `built` holds what the caller
  published afterwards.
- `GroupRebuild`: `groups` are the committed rows; `tx[r]` is a rebuild with the
  rows it deleted and inserted and, for similar groups and clusters, what it
  loaded before its transaction. Row locks and unique keys make a statement
  wait. One digest stands for what makes two pictures belong together. A `DELETE`
  that waited takes a fresh snapshot (`ClearMembers`), where Postgres keeps the
  one from before the wait and checks only the rows it waited for again; that
  differs only where three similar rebuilds overlap, of which nothing is claimed.
- `ThumbnailFile`: an attempt renders, writes a temporary file, flushes, syncs,
  renames and records. `target` is the directory entry, `settled` what a loss of
  power falls back to, since the directory is not synced; each rename has a
  number, the rename a row was written after is its tag.
- `SimilarGrouping`: candidates (one per distinct file), the union-find over all
  pairs, the ranking. A hash is a set of bits. `Walk` is the loop of `find`,
  `Halve` one turn of it; `Joined` is the union-find after so many pairs,
  `RankedUpTo` a ranking after so many members. The ranking is an insertion sort,
  which `sort.Slice` is below 12 elements; the order that it gives a larger group,
  under a comparison that is not transitive, is not modelled.
- `EventClustering`: the greedy segmentation, on places along a line. `Passed` is
  the body of the loop, `Pass` the events after so many points.
- `PhotoListing`: filter, order with NULLs last, page.
- `ImageUpright`: dates, place and orientation from EXIF, the size and the
  coordinates of the thumbnail.
- `QualityScore`: the grid, the blur, the Laplacian (`Response` over `Inner`),
  histogram, variances (`Spread`) and flags, in integers.

Loops of the pure parts are functions of the number of turns taken, so that a
proof can speak of what holds after each.

## 3. What the runs check

In the runs of the queue and the pipeline deadlock is not checked, because a
queue with nothing to do stops, and so do behaviours at the bounds `MaxClaims`
and `MaxDefers`. In `derived` it is not, because a pure part stops after its one
input, and neither is it in `rebuild_doubled`, where the rebuilds come to an end.
In the runs of `ApiService` it is.

| Run | Instance | Shows |
|---|---|---|
| `queue_safety` | 2 workers, 1 job, 2 attempts, 3 claims, 1 deferral, 2 slots; w1 may crash or stop, w2 stays | the invariants and action properties, and that `JobQueue` implements `QueueContract` |
| `queue_liveness` | 2 workers, 1 job, 1 attempt, 3 claims; w1 stays, w2 may crash, stop or go stale | every job ends, orphans are reclaimed, a crash is noticed |
| `queue_shared` | 1 worker with 1 slot, 2 jobs, 2 attempts, 2 claims | every job ends, although renewals for one job extend the lease of another |
| `queue_outage` (violation) | 1 worker that may go stale | a worker declared dead never claims again |
| `pipeline_groups` | 1 photo, hash and duplicates, 2 calls that wait for each other, 2 goroutines per job, leases lapse in live runs, 2 attempts | no finished photo is left out of the groups |
| `pipeline_waits` | 1 photo, no image and deleted at any time, metadata, perceptual hash and similar, 2 overlapping calls, 1 attempt | aggregates wait for what was outstanding before them, and end; stages leave their marks |
| `pipeline_rerun` (violation) | as `pipeline_groups`, with overlapping calls and no stalling | the second call's photos are in no rebuild |
| `pipeline_stale` (violation) | as `pipeline_groups`, for the similar rebuild | a rebuild that lost its lease stores over a later one |
| `service` | 2 API processes, 2 builds that disagree on 2 migrations, 2 scans at once, forced or not, 3 files, batches of 2; any process dies at any point and starts again as either build | migrations, scans and shutdown; every scan that opened the row closes it |
| `service_shutdown` (violation) | 1 process, 2 scans, none forced | a scan that is over takes the map's entry of the next one with it, and `Shutdown` does not cancel that one |
| `derived` | passes over 4 photos, 2 slots, fetches of 3; 3 rebuilds of 2 photos with 2 digests, one change meanwhile; 2 thumbnail attempts, 2 renames; thousands of inputs for each pure part | what is derived from a scanned library |
| `rebuild_doubled` (violation) | 2 similar rebuilds of 2 photos | two that overlap put each photo in two groups |

The safety properties:

- `LeaseNamesLatestClaimant`: a running row is leased to the worker that claimed
  it last; no other row is leased.
- `WithinConcurrency`: a worker has no more goroutines than slots, those whose
  row was taken away included.
- `AttemptsBounded`: attempts exceed `max_attempts` by at most one for every
  graceful shutdown. `ReleaseWorkerLeases` does not look at the attempts, so the
  plain bound `attempts <= MaxAttempts` does not hold.
- `DeadIsEarned`, `OneRecordedSuccess`, `TerminalIsFinal`,
  `LiveLeaseIsExclusive`: as their comments say.
- `ImplementsContract`: succeeded only by a run its present owner finished.
- `RebuildWaits`: no rebuild starts while a prerequisite that was outstanding
  when the aggregate was queued is so still. The count is taken type by type,
  each in a statement of its own, and jobs go back and forth between pending and
  running meanwhile.
- `SucceededIsMarked`: what succeeded is not listed again. A deleted file is
  recorded by two statements, the first of which marks metadata extraction and
  not the stage itself.
- `GroupsComplete`: once nothing is outstanding, the groups were built from every
  photo that finished. It holds when each call awaits the aggregates of the
  one before it (`Patient`) and the rebuild derives inside its transaction. The
  two violations are what happens otherwise: the aggregate of an overlapping
  call is dropped as a duplicate of the one that is past its count, and a stale
  run stores what it loaded before a later run.

- `MigratesOnce`, `ServesMigrated`: what a process decided from what it read
  under the lock is still right when it acts on it; and it serves only on a
  schema that has all it embeds, whatever other builds do before and after.
- `OneScan`: two unforced scans of one library never overlap, across processes:
  the map is of one process, the guard in the `UPDATE` of all. It exempts a scan
  whose row another process closed as it started (`blurred`).
- `OpenRowExplained`, `ScanMarkEnds`: a row that says "scanning" has a scan that
  will close it, and one that does is closed in the end. The exceptions are in
  `loss`: the process died, `MarkScanFinished` itself failed, or the reply to
  `MarkScanStarted` was lost. Such a row refuses every unforced scan until an
  API process starts. Neither property is about the map of running scans; a
  deleted entry is for `ShutdownCancels`.
- `StopIsFinal`: once requests are drained, nothing begins behind
  `Scanner.Shutdown`'s back. `ShutdownCancels`, which its comment promises, is
  more and does not hold.
- `CompleteMeansAll`: no failure reported means a row for every file, the last,
  partial batch included.
- `PoolBounds`, `GroupsFromWholeLibrary`, `PassProgress`: a pass keeps to its
  slots, works on no photo twice at once, publishes no groups when interrupted,
  and reaches every photo that can be processed, as long as fewer photos fail
  without a marker than one fetch returns: such a photo is fetched again for
  ever, and a batch of them starves the rest. `HashLibrary` also rebuilds after a
  fetch that failed, which it does not tell from the end; `unread` exempts that.
- `OneGroupPerPhoto`, `LoneRebuildExact`, `ListedWhole`: however rebuilds overlap,
  no photo is in two duplicate groups or two events; the next rebuild that runs
  alone puts everything right; a listing that straddles a rebuild shows a group
  whole or, when it was replaced in between, empty. Similar groups may be doubled
  (`rebuild_doubled`).
- `SentWhole`, `TagNeverAhead`: what a reader is sent is a whole file, and not
  older than the row it was found by. A tag may cover a newer file; after a loss
  of power it may cover an older one, since the directory is not synced.
- `SimilarGroupsExact`, `EventsExact`, `PagesExact`, `PicturesUpright`,
  `ScoresFair`: each pure part against what it promises: connected components by
  reachability, the segmentation's partition and its bounds, pages that show
  each match once, pictures that are upright, scores that do not depend on how a
  picture is turned.

Bounds. Three claims of one row give the case that matters most: a stale
goroutine of the first claim, another worker's claim in between, and a claim by
the first worker again. Two attempts let a row be retried and die. Two slots let
a worker hold a stale and a live goroutine of one row. A second job adds nothing
to the safety of the first, since statements touch rows independently, except
through the slots and the renewals: `queue_shared` has two jobs for that, and
the proofs have any number. `Steady` and `Lapsing` name which processes may be
killed and which heartbeat rows may go stale; they keep the state spaces small
and the fairness honest. Workers are not symmetric under them, so no symmetry
is used.

For `Pipeline`, one photo is enough to be late, retried, deleted or left out;
what two photos could add is a count that mixes them, and a count only asks
whether any is outstanding (the proofs have any number). Two calls give a second
listing and a second aggregate. Two goroutines per job give a stale run beside
the current one. `MaxAttempts` is 2 where a job must be retried, and 1 where a
deferral must not need a second attempt. `Stalling` names the keys whose lease
may lapse in a live run, `Fleeting` the files that may be deleted, `Garbage`
those that are no image.

For `ApiService`, two processes are what it takes for one to reconcile, migrate
or scan beside another; two builds disagree on one version each way (edited,
missing), and an older build after a newer one that it is compatible with is left
to the proofs, which have any builds; two slots give an overtaken scan, and a
slot is used again and again.
Three files in batches of two give a full batch and a partial one. For
`GroupRebuild`, three rebuilds give two that overlap and one after them; two
photos are the least that make a group. `MaxChanges` is how often photos change
in a behaviour, `MaxRenames` how often a thumbnail is replaced, in which time
both attempts can be one behind the other. The inputs of the pure parts are in
`MCDerived`, chosen around their thresholds.

Fairness (`Fairness` in `JobQueue`). The loops are tickers in goroutines the
scheduler runs, so each enabled loop is taken up in the end; the specification
asks less, that some enabled loop of each kind is. A handler returns. Time
passes: a backoff ends, the lease of a row lapses while nobody renews it (its
holder is gone, or has nothing in flight, when `renewLoop` skips its turn), a
heartbeat row goes stale when its process is gone. Nothing is assumed of
enqueues, signals, crashes and failing statements. `EveryJobEnds` needs one
worker that stays and whose heartbeat row does not go stale; `queue_outage`
shows what happens otherwise. It is about finitely many jobs: a load that never
leaves a worker idle, and so keeps renewing the lease of a row it does not run,
is a hazard of its own that no run has.

In `Pipeline`, `Fairness` asks what `JobQueue` shows of its part: pending rows
are claimed, rows whose run is gone are reaped, and in addition that handlers
go on and report. Nothing is asked of calls, of scans or of the folder, and
`Fail`, `Crash` and `CutShort` may always come first.
`AggregatesEnd` needs that a deferral is not the only way out of counting:
what it waits for succeeds or dies, and the next claim finds it so.

In `ApiService` a scan's next step is taken in the end: its goroutine and its
handler run on, a statement returns or fails, and dying is a step of its own
that nothing prevents. Start-up and shutdown are not assumed to go on.
In `LibraryPass` (`PassFairness`) the pass goes on, and a photo that can be
processed and is worked on again and again succeeds in the end: strong fairness
of `ItemMarked`, needed only because failing is a step that may be chosen
instead.

With `MaxClaims` claims at most, a row that could be claimed again at the bound
would look stuck. In the liveness runs the bound is out of reach or high
enough: with one attempt, one graceful shutdown and one deferral a row is
claimed three times at most, and in `queue_shared` twice.

## 4. What is proved

Every invariant and every action property of a passing run is a theorem, and so is
the refinement. What is left to TLC is liveness.

`JobQueueProofs` proves, for all finite sets of workers and jobs and all values of
the other constants (assumptions: `NoWorkerAssumption`, `FinitenessAssumption`,
`MaxAttemptsAssumption`, `ConcurrencyAssumption`, `BoundsAssumption`):

| Theorem | Property | Argument |
|---|---|---|
| `TypeCorrect` | `TypeOK` | inductive by itself |
| `LeaseSafety` | `LeaseNamesLatestClaimant` | inductive with the types: a claim makes the claimant the latest and the holder at once, everything else clears the lease or keeps it |
| `FinalStatesAreFinal` | `TerminalIsFinal` | every statement that writes `status` requires `pending` or `running` |
| `DeathIsEarned` | `DeadIsEarned` | a dead row's attempts and last error are written no more |
| `AuditIsTruthful` | `OneRecordedSuccess` | needs that final rows have no holder: a second success would need one |
| `AttemptsAreBounded` | `AttemptsBounded` | strengthened to `AttemptsLeft`: a pending row has an attempt left, or a shutdown paid for it; so a claim cannot go over the bound |
| `ConcurrencyIsBounded` | `WithinConcurrency` | cardinalities: a claim adds at most as many goroutines as slots were free, everything else only ends some |
| `LeaseProtectsHolder` | `LiveLeaseIsExclusive` | from `LeaseNamesLatestClaimant` |
| `QueueImplementsContract` | `ImplementsContract` | each step is a contract step of one job or a stutter. Needs `ClaimSlots` (a claim not made yet has no goroutine, one made has a worker), so that claiming adds a taker and nothing else does, and `LeaseNamesLatestClaimant`, so that the owner whose result `CompleteJob` writes is a taker that finished |

`PipelineProofs` proves, for any photos, calls and goroutines, any choice of
stages and aggregates, and any `Garbage`, `Fleeting`, `Stalling` and `Patient`
(assumptions: `InstanceAssumption`, `AttemptsAssumption`):

| Theorem | Property | Argument |
|---|---|---|
| `PipelineTypes` | `TypeOK` | inductive with `TodoLeft` (an aggregate that counts has something left to count) and `Listed` (a call that holds ids is at a stage) |
| `MarksAreLeft` | `SucceededIsMarked` | strengthened to `Marked`: a goroutine that is about to report success is past its write, and columns never become unset again; so whichever run reports, the mark is there |
| `RebuildsWait` | `RebuildWaits` | strengthened by `WaitsOpen` (every job in `waits` is outstanding, and none is ever added but when the aggregate is queued) and `Uncounted` (a run of the newest row that has not counted a prerequisite yet still has it in `todo`; one it has counted is out of `waits` for good). So a count, once passed, stays passed, although the jobs counted may be queued again |
| `GroupsAreComplete` | `GroupsComplete` | under `Orderly`, see below |

`GroupsAreComplete` assumes `Orderly`: a call awaits the aggregates of the one
before it, and the aggregates that load before they store do not lose their lease
while they run. Neither is what the code enforces, and neither can be dropped:
`pipeline_rerun` and `pipeline_stale` drop one each and TLC refutes the property.
What the theorem says is that nothing else is needed: deletions, images that are
none, retries, crashes, cut calls, and goroutines of duplicate rebuilds that
outlive their lease leave no finished photo out. The inductive invariant is
`GroupsInv`, and each part of it is needed by the next:

- `HandlerReads`, `Columns`, `States`: what a goroutine has read and what the row of
  a photo says is still true of its file, or the file was deleted meanwhile. With
  `Marked` this makes a column of a finished photo a function of its file, so a
  late write repeats what is there;
- `Recorded`: only photos a scan has inserted are queued, so what finished is seen;
- `Solo`: a row that is not reaped under its run has one run, so nobody stores what
  he loaded before another;
- `CallsAlone`: a call that runs is alone and finds no aggregate outstanding, so
  the aggregates it queues are inserted and not dropped as duplicates;
- `Awaited`: between calls each aggregate waits for every job there is, in the sense
  of `waits`; with `Uncounted` a run past its count has seen all of them end;
- `WholeViews`: so what it loads, stores and reports is complete, and stays so.

`ApiServiceProofs` proves, for any processes, builds, versions and scans, any
number of files and any batch size (assumption: `ApiAssumption`):

| Theorem | Property | Argument |
|---|---|---|
| `ApiTypes` | `ApiTypeOK` | inductive by itself |
| `MigrationsApplyOnce` | `MigratesOnce` | `LockInv`: who migrates holds the lock, and `seen` is `applied`; nobody else can change `applied` meanwhile |
| `ServingOnMigrated` | `ServesMigrated` | inductive with `LockInv`: later processes write only versions that are absent |
| `StoppingIsFinal` | `StopIsFinal` | `StopInv`: the map's entry is a goroutine of its own process that is past its handler, and a stopping process has no handler left to add one |
| `OpenRowHasAScan` | `OpenRowExplained` | inductive: what takes the last scan away closes the row or sets `loss`, and so does a claim that nobody hears of |
| `ScansAlone` | `OneScan` | `AloneInv`: a live scan that nothing overtook has the row, so the guard refuses the next |
| `ScansAreComplete` | `CompleteMeansAll` | `WalkInv`: what the walk has passed is in the table or in the batch, unless the scan failed |

`GroupRebuildProofs` proves, for any photos, digests and rebuilds, each rebuild
between any statements of the others (assumption: `RebuildAssumption`):

| Theorem | Property | Argument |
|---|---|---|
| `GroupTypes` | `GroupTypeOK` | inductive by itself |
| `PhotosStayInOneGroup` | `OneGroupPerPhoto` | `LockInv`: two open transactions have deleted different rows, so a row is not replaced twice. `ClashInv`: no two rows that are stored, or visible to one transaction, or inserted by two, share a key, which the unique index gives where a statement waits for another's insert. `HashInv`: a member of a group has, or had last, the hash of the group, so a photo that changes while rebuilds run cannot join a second one |
| `GroupsAreListedWhole` | `ListedWhole` | `IdInv`: a group is known by the rebuild that made it and its key, and what is inserted again under that name only has more members. `PageInv`: so a group on the page is there with all its members, or is no more |
| `LoneRebuildIsExact` | `LoneRebuildExact` | `LoneInv`: a rebuild that nothing overlaps has deleted all there was and holds the groups of the photos as they are |

The pure parts are proved for every input, and not only for those TLC reads. Their
loops need inductions, and the induction rules of the library take a predicate,
which no installed prover instantiates. So the inductions are over sets: `UpTo`
says that a set of naturals that has 0 and is closed under the successor has
every number up to a bound, from the least number it lacks (`LeastNatural`), and
`BySubsets` that a set of subsets that has the empty one and is closed under
adding an element has every subset of a finite set. What holds after `k` turns
is put as the set of the `k` for which it holds.

`EventProofs`, for any points and thresholds:

| Theorem | Argument |
|---|---|
| `SegmentPartitions` | `PassInv` after each point: the events so far cut the timeline into consecutive slices (`Cuts`); flattened they are the timeline (`FlattenCuts`), which exists and lists each dated photo once (`SortExists`, `TimelineListsDated`) |
| `SegmentBounds` | in `PassInv` each event is `Sound` - its anchor is the place of one of its photos, none of its photos is farther from there than the radius, no silence in it is longer than the gap - and between two events is a break. Two photos of an event are then at most twice the radius apart (`ApartTriangle`) |

`SimilarProofs`, for any photos and threshold:

| Theorem | Argument |
|---|---|
| `GroupsConnected` | `find` returns the root: ranks grow along a path, so no photo is on it twice, and `Walk` cannot be under way after as many turns as there are photos (`FindRoot`); halving paths changes nobody's root (`HalveKeeps`). Each tree is given its root as a label; a union gives two labels one and leaves the others (`UnionMerges`). `JoinInv` after each pair: what was linked has one label, and a set that no link leaves is left by no label. So after all pairs (`PairsCovered`) the labels are the classes of the links, which the reference gets as a closure (`ReachCloses`) |
| `ChainsMarked` | the largest distance within a group is over the threshold exactly when two members are not linked |
| `RanksHold` | an insertion stops at a photo the new one does not beat and has passed only ones it beats, and of two photos only one beats the other (`BetterOneWay`); so each ranked photo is not beaten by the next, with no transitivity (`InsertKeepsRank`, `RankedLists`) |

`PictureProofs`, for pictures of any size:

| Theorem | Argument |
|---|---|
| `OrientedUpright` | for each of the eight orientations, the map from drawn to stored coordinates is onto, and its two zero sides are those of the standard |
| `ThumbnailsAgree` | the scaled edge is a quotient that its two bounds bound (`QuotientBounds`), for any size and any bound |
| `CapturesTrusted` | the preferred tag is the least usable place (`LeastNatural`); a degree within its range has a bounded square |
| `ScoresCompare` | the community modules add up a function in an order they do not say. `SumLaw`: any order gives the same, since the element taken last can be taken first. So a sum over a picture does not change when its pixels are renamed (`SumRenamed`), which is what turning it does (`FromRenames`). That settles brightness and contrast. The blur takes two passes, one along the rows and one along the columns, and a turned picture has them the other way round; `SmoothConvolves` shows that together they are nine weighted neighbours, edges clamped, and a turn permutes the nine and keeps their weights (`NearTurned`). The four neighbours of the Laplacian likewise (`LaplacianTurned`). The grid of a picture `k` times the size is a quotient with both sides multiplied (`ScaledQuotient`) |
| `FlagsAndScores` | a plane of one value blurs into one value, whose response is 0 everywhere and whose variance is 0 (`FlatIsBlurred`); the penalties of the exposure score are never negative, and positive exactly where a flag or a clipped pixel says so (`ExposureScore`) |

`DerivedProofs` proves of `ThumbnailFile`, for any attempts and any number of renames (assumption:
`ThumbnailAssumption`):

| Theorem | Property | Argument |
|---|---|---|
| `ThumbnailTypes` | `ThumbTypeOK` | inductive by itself |
| `ReadersSeeWholeFiles` | `SentWhole` | `WholeInv`: what is renamed was synced, and what the directory falls back to was once renamed |
| `TagsFollowFiles` | `TagNeverAhead` | `TagInv`: while no power is lost the target is that of the last rename, and no row, attempt or viewer knows of a later one |

It proves of `LibraryPass`, for any library, number of slots and batch size
(assumption: `PassAssumption`):

| Theorem | Property | Argument |
|---|---|---|
| `PassTypes` | `PassTypeOK` | needs `PoolInv`: that a slot is given back only when one is taken is not in the types |
| `PoolIsBounded` | `PoolBounds` | `PoolInv`: the slots taken are as many as the photos worked on, each of them by one goroutine, and none of those is in the batch still to spawn |
| `GroupsCoverLibrary` | `GroupsFromWholeLibrary` | `CoverInv`: grouping is reached with nothing unmarked, or over a fetch that failed |

`DerivedProofs` then proves, of the listing for any table and query, and of the
composed run:

| Theorem | Property | Argument |
|---|---|---|
| `PartsRun`, `DerivedTypes` | `DerivedTypeOK` | a step of the composed run is one of each part or leaves it alone, so the theorems of the parts hold in it |
| `PagesAreWhole` | | no two rows tie, since the order ends with the id; so two orders of one table cannot first differ anywhere (`OneOrder`), and pages asked for in separate statements are cut from one sequence; that lists every match once (a pigeonhole, `OrderListsAll`), and quotient and remainder find the one page and place |
| `FiltersSplit` | | the filters differ in one conjunct; a NULL before a value would be out of order |
| `EventsAreExact` | `EventsExact` | `SegmentPartitions` and `SegmentBounds`, of whatever the run has read (`InputInv`) |
| `SimilarGroupsAreExact` | `SimilarGroupsExact` | `GroupsConnected`, `ChainsMarked` and `RanksHold`, likewise |
| `PicturesAreUpright` | `PicturesUpright` | `OrientedUpright`, `ThumbnailsAgree` and `CapturesTrusted`, likewise |
| `ScoresAreFair` | `ScoresFair` | `ScoresCompare` and `FlagsAndScores`, likewise |
| `PagesAreExact` | `PagesExact` | `PagesAreWhole` and `FiltersSplit`, likewise |

Left to TLC: liveness (`EveryJobEnds`, `OrphansAreReclaimed`, `CrashIsNoticed`,
`AggregatesEnd`, `ScanMarkEnds`, `PassProgress`), because the prover does not handle
fairness and `ENABLED`.

## 5. What the code does not do as it says

Five runs end in a violation, each of one sentence of the repository's own.
`PROJECT.json` quotes them under "findings".

- `queue_outage`: a comment on a worker that was declared dead.
- `pipeline_rerun`, `pipeline_stale`: what is said of aggregates and rebuilds.
- `service_shutdown`: the comment on `Scanner.Shutdown`.
- `rebuild_doubled`: the comment on `RebuildSimilarGroups`, which is to be safe
  under delivery at least once. Two that overlap on a library without similar
  groups both insert theirs, and each photo is in two groups until the next
  rebuild. No unique index prevents it, as one does for duplicates and events.

Five more sentences are stated in the modules, and TLC refutes each of them in a
small instance. They are in no run, since what they show is an
exception that the properties above name, or follows from one:

| Definition | Says | What happens |
|---|---|---|
| `LostLeaseIsAbandoned` (`MCJobQueue`) | a worker abandons the jobs a renewal did not extend | `renewLoop` logs the short count, the handler runs on |
| `OnlyDeathStrands` (`ApiService`) | only a process that died leaves a library "scanning" | so do a failed `MarkScanFinished` and a lost reply of `MarkScanStarted` |
| `OneScanUnforced` (`ApiService`) | the guard covers several API processes | one that starts closes the row of another's scan, and a second scan begins beside it |
| `CountsMembers` (`GroupRebuild`) | the counts of a duplicate group cannot drift | a photo that changes between the insert of the group and that of its members is counted and no member, until the next rebuild |
| `GroupsOnlyWhole` (`LibraryPass`) | no groups are published from a library half hashed | they are, after a fetch that failed |

Met while modelling and stated as exceptions of the properties above, or here:

- A scan that was cancelled inserts nothing of its last batch: the flush runs
  under the context that is cancelled.
- `GET .../photos` reports the limit that was asked for, not the one it used.
- The ranking of similar photos is not transitive: each member beats or equals
  the next, but a keeper may lose against a photo further down.

## 6. What is not modelled

Not modelled: path resolution (string handling without state), the command line
client, the benchmark and the fixtures (not part of the running system), the
configuration (read once), the web interface (a client). Partly modelled: the
worker process (`PurgeOldWorkers`, which nothing calls, and the registration of
an id that is registered already are left out), image analysis (digests, the
difference hash, resampling kernels and the roots and weights of the overall
score are real arithmetic on pixels), the HTTP API (originals, health, counts,
formats). Distances on the sphere are places along a line.

What could follow:

1. The stability of what liveness rests on, as action properties: an orphaned
   lease stays eligible until it is reaped, a pending row until it is claimed.
2. A refinement of `LibraryPass`: a pass implements the per-photo stages of
   `Pipeline`, one photo at a time.
3. The order of a larger similar group, which is that of Go's
   pattern-defeating quicksort under a comparison that is not transitive.
