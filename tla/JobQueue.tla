------------------------------ MODULE JobQueue ------------------------------
(***************************************************************************)
(* The Postgres job queue of internal/store/jobs.go and workers.go, and    *)
(* the worker processes of internal/worker/worker.go that consume it.      *)
(*                                                                         *)
(* Every SQL statement is one atomic step.  Everything between two         *)
(* statements is interleaving: a worker is a claim loop, a heartbeat, a    *)
(* renewal and a reaper loop, and one goroutine for each claimed job.      *)
(*                                                                         *)
(* There is no clock.  What the code reads off now() is a condition that a *)
(* step of its own turns over: a lease is "live" until LeaseExpires makes  *)
(* it "lapsed", a retry is not due until BackoffElapses, a heartbeat row   *)
(* is "active" until HeartbeatLapses makes it "stale".                     *)
(***************************************************************************)
EXTENDS Integers, FiniteSets

CONSTANTS
    Worker,       \* worker processes; New gives each process a fresh id
    NoWorker,     \* leased_by IS NULL
    Job,          \* rows of the jobs table
    MaxAttempts,  \* max_attempts of every row
    Concurrency,  \* slots of every worker
    MaxClaims,    \* bound: how often a row is claimed
    MaxDefers,    \* bound: how many claims of a row end in a deferral
    Steady,       \* workers that are neither killed nor told to stop
    Lapsing       \* bound: workers whose heartbeat row may go stale

ASSUME NoWorkerAssumption    == NoWorker \notin Worker
ASSUME FinitenessAssumption  == IsFiniteSet(Worker) /\ IsFiniteSet(Job)
ASSUME MaxAttemptsAssumption == MaxAttempts \in Nat \ {0}
ASSUME ConcurrencyAssumption == Concurrency \in Nat \ {0}
ASSUME BoundsAssumption      == MaxClaims \in Nat /\ MaxDefers \in Nat

VARIABLES
    status,     \* jobs.status; "absent" before the row is inserted
    attempts,   \* jobs.attempt_count
    leasedBy,   \* jobs.leased_by
    lease,      \* jobs.lease_expires_at against now()
    due,        \* jobs.next_attempt_at <= now()
    lastError,  \* jobs.last_error, by the statement that wrote it
    claims,     \* how often the row has been claimed
    runner,     \* runner[j][n]: the worker that made claim n of row j
    pc,         \* pc[j][n]: where the goroutine executing that claim stands
    audit,      \* audit[j][n]: its row in job_executions
    proc,       \* the worker process
    row         \* its row in the workers table

jobVars  == <<status, attempts, leasedBy, lease, due, lastError>>
execVars == <<claims, runner, pc, audit>>
vars     == <<jobVars, execVars, proc, row>>

-----------------------------------------------------------------------------
(* Vocabulary *)

Claim == 1..MaxClaims

Terminal  == {"succeeded", "dead"}
JobStatus == {"absent", "pending", "running"} \cup Terminal

\* What a handler can return.
Result == {"ok", "error", "permanent", "defer"}

\* The outcome about to be written to the audit row. "lost" is written as
\* abandoned too, but with the worker's own context.
Verdict == {"succeeded", "failed", "abandoned", "lost", "deferred"}
Alive   == {"starting", "handling"} \cup Result \cup Verdict
Outcome == Verdict \ {"lost"}

ProcState == {"off", "up", "halted", "draining", "released", "exited", "crashed"}
Running   == {"up", "halted"}                \* ctx is not cancelled

TypeOK ==
    /\ status \in [Job -> JobStatus]
    /\ attempts \in [Job -> Nat]
    /\ leasedBy \in [Job -> Worker \cup {NoWorker}]
    /\ lease \in [Job -> {"none", "live", "lapsed"}]
    /\ due \in [Job -> BOOLEAN]
    /\ lastError \in [Job -> {"none", "error", "permanent", "deferred", "expired"}]
    /\ claims \in [Job -> 0..MaxClaims]
    /\ runner \in [Job -> [Claim -> Worker \cup {NoWorker}]]
    /\ pc \in [Job -> [Claim -> Alive \cup {"none", "done"}]]
    /\ audit \in [Job -> [Claim -> Outcome \cup {"none", "open"}]]
    /\ proc \in [Worker -> ProcState]
    /\ row \in [Worker -> {"absent", "active", "stale", "dead", "stopped"}]

Init ==
    /\ status = [j \in Job |-> "absent"]
    /\ attempts = [j \in Job |-> 0]
    /\ leasedBy = [j \in Job |-> NoWorker]
    /\ lease = [j \in Job |-> "none"]
    /\ due = [j \in Job |-> TRUE]
    /\ lastError = [j \in Job |-> "none"]
    /\ claims = [j \in Job |-> 0]
    /\ runner = [j \in Job |-> [n \in Claim |-> NoWorker]]
    /\ pc = [j \in Job |-> [n \in Claim |-> "none"]]
    /\ audit = [j \in Job |-> [n \in Claim |-> "none"]]
    /\ proc = [w \in Worker |-> "off"]
    /\ row = [w \in Worker |-> "absent"]

\* The goroutines of worker w, counted by addInFlight.
InFlight(w) == {x \in Job \X Claim : runner[x[1]][x[2]] = w /\ pc[x[1]][x[2]] \in Alive}

FreeSlots_Unmetered(w) == Concurrency   \* mutant: free slots are not counted

FreeSlots(w) == Concurrency - Cardinality(InFlight(w))

\* WHERE leased_by = w AND status = 'running'.
HeldBy(w) == {j \in Job : leasedBy[j] = w /\ status[j] = "running"}

\* WHERE id = j AND leased_by = (the worker of claim n) AND status = 'running'.
Owns_ById(j, n)   == TRUE                    \* mutant: WHERE id = j
Owns_Running(j, n) == status[j] = "running"  \* mutant: no leased_by guard

Owns(j, n) == j \in HeldBy(runner[j][n])

\* attempt_count >= max_attempts.
Spent_Late(j)  == attempts[j] > MaxAttempts        \* mutant
Spent_Early(j) == attempts[j] + 1 >= MaxAttempts   \* mutant

Spent(j) == attempts[j] >= MaxAttempts

\* ctx.Err() of a worker.
Cancelled(w) == proc[w] \notin Running

-----------------------------------------------------------------------------
(* The jobs table *)

\* Rows that EnqueueJobs inserts. A job whose dedupe key is outstanding is
\* skipped by ON CONFLICT DO NOTHING and is simply not in J.
EnqueueJobs(J) ==
    /\ J # {}
    /\ \A j \in J : status[j] = "absent"
    /\ status' = [j \in Job |-> IF j \in J THEN "pending" ELSE status[j]]
    /\ UNCHANGED <<attempts, leasedBy, lease, due, lastError, execVars, proc, row>>

\* mutant: rows whose attempts are spent are not claimed
Claimable_NotSpent == {j \in Job : status[j] = "pending" /\ due[j] /\ ~Spent(j)}

Claimable == {j \in Job : status[j] = "pending" /\ due[j]}

\* One turn of claimLoop. Any claimable rows up to the number of free slots:
\* SKIP LOCKED may pass over any row, so the order by priority is only a
\* preference. When the reply is not delivered the rows are leased and no
\* goroutine exists for them.
ClaimJobs(w, J, delivered) ==
    /\ proc[w] = "up"
    /\ J # {}
    /\ J \subseteq Claimable
    /\ Cardinality(J) <= FreeSlots(w)
    /\ \A j \in J : claims[j] < MaxClaims
    /\ status' = [j \in Job |-> IF j \in J THEN "running" ELSE status[j]]
    /\ leasedBy' = [j \in Job |-> IF j \in J THEN w ELSE leasedBy[j]]
    /\ lease' = [j \in Job |-> IF j \in J THEN "live" ELSE lease[j]]
    /\ attempts' = [j \in Job |-> IF j \in J THEN attempts[j] + 1 ELSE attempts[j]]
    /\ claims' = [j \in Job |-> IF j \in J THEN claims[j] + 1 ELSE claims[j]]
    /\ runner' = [j \in Job |-> IF j \in J
                    THEN [runner[j] EXCEPT ![claims[j] + 1] = w] ELSE runner[j]]
    /\ pc' = [j \in Job |-> IF j \in J
                    THEN [pc[j] EXCEPT ![claims[j] + 1] =
                            IF delivered THEN "starting" ELSE "done"]
                    ELSE pc[j]]
    /\ UNCHANGED <<due, lastError, audit, proc, row>>

\* The row leaves "running": the lease is cleared in the same statement.
Unlease_KeepsHolder(j) ==                    \* mutant: leased_by is not cleared
    /\ UNCHANGED leasedBy
    /\ lease' = [lease EXCEPT ![j] = "none"]

Unlease(j) ==
    /\ leasedBy' = [leasedBy EXCEPT ![j] = NoWorker]
    /\ lease' = [lease EXCEPT ![j] = "none"]

\* Back to pending behind a backoff.
Retry_Failed(j) ==                           \* mutant: a fifth state
    /\ status' = [status EXCEPT ![j] = "failed"]
    /\ due' = [due EXCEPT ![j] = FALSE]

Retry(j) ==
    /\ status' = [status EXCEPT ![j] = "pending"]
    /\ due' = [due EXCEPT ![j] = FALSE]

-----------------------------------------------------------------------------
(* One goroutine: Worker.execute for claim n of row j *)

Goto(j, n, label) == pc' = [pc EXCEPT ![j][n] = label]

\* RecordExecutionStart. Its error is logged and the work goes on with execID
\* 0; with a cancelled context it cannot succeed.
RecordExecutionStart(j, n) ==
    /\ pc[j][n] = "starting"
    /\ Goto(j, n, "handling")
    /\ \/ /\ ~Cancelled(runner[j][n])
          /\ audit' = [audit EXCEPT ![j][n] = "open"]
       \/ UNCHANGED audit
    /\ UNCHANGED <<jobVars, claims, runner, proc, row>>

\* The handler returns. A missing handler is a permanent failure; a handler
\* interrupted by shutdown leaves the row leased and only closes its audit row.
HandlerReturns(j, n) ==
    /\ pc[j][n] = "handling"
    /\ \/ \E r \in Result :
            /\ r = "defer" => claims[j] - attempts[j] < MaxDefers
            /\ Goto(j, n, r)
       \/ /\ Cancelled(runner[j][n])
          /\ Goto(j, n, "abandoned")
    /\ UNCHANGED <<jobVars, claims, runner, audit, proc, row>>

\* CompleteJob applied: the row is succeeded. The reply may still be lost, and
\* then execute returns without closing the audit row.
CompleteJob(j, n) ==
    /\ pc[j][n] = "ok"
    /\ ~Cancelled(runner[j][n])
    /\ Owns(j, n)
    /\ status' = [status EXCEPT ![j] = "succeeded"]
    /\ Unlease(j)
    /\ lastError' = [lastError EXCEPT ![j] = "none"]
    /\ \E label \in {"succeeded", "done"} : Goto(j, n, label)
    /\ UNCHANGED <<attempts, due, claims, runner, audit, proc, row>>

\* CompleteJob matched no row: the lease was taken away meanwhile.
CompleteJobLost(j, n) ==
    /\ pc[j][n] = "ok"
    /\ ~Cancelled(runner[j][n])
    /\ ~Owns(j, n)
    /\ Goto(j, n, "lost")
    /\ UNCHANGED <<jobVars, claims, runner, audit, proc, row>>

\* CompleteJob returned an error, as it always does once the worker's context
\* is cancelled: execute gives up, and the row keeps its lease.
CompleteJobError(j, n) ==
    /\ pc[j][n] = "ok"
    /\ Goto(j, n, "done")
    /\ UNCHANGED <<jobVars, claims, runner, audit, proc, row>>

\* FailJob applied: dead when the failure is permanent or no attempt is left,
\* otherwise pending again. The reply may be lost, as for CompleteJob.
FailJob(j, n) ==
    /\ pc[j][n] \in {"error", "permanent"}
    /\ Owns(j, n)
    /\ IF pc[j][n] = "permanent" \/ Spent(j)
         THEN /\ status' = [status EXCEPT ![j] = "dead"]
              /\ UNCHANGED due
         ELSE Retry(j)
    /\ Unlease(j)
    /\ lastError' = [lastError EXCEPT ![j] = pc[j][n]]
    /\ \E label \in {"failed", "done"} : Goto(j, n, label)
    /\ UNCHANGED <<attempts, claims, runner, audit, proc, row>>

\* FailJob matched no row, and the audit row is closed as failed all the same;
\* or it returned an error, and finishFailed gives up.
FailJobNotApplied(j, n) ==
    /\ pc[j][n] \in {"error", "permanent"}
    /\ \/ /\ ~Owns(j, n)
          /\ Goto(j, n, "failed")
       \/ Goto(j, n, "done")
    /\ UNCHANGED <<jobVars, claims, runner, audit, proc, row>>

\* DeferJob applied: the attempt that the claim counted is given back.
DeferJob(j, n) ==
    /\ pc[j][n] = "defer"
    /\ Owns(j, n)
    /\ Retry(j)
    /\ Unlease(j)
    /\ attempts' = [attempts EXCEPT ![j] = IF @ > 0 THEN @ - 1 ELSE 0]
    /\ lastError' = [lastError EXCEPT ![j] = "deferred"]
    /\ Goto(j, n, "deferred")
    /\ UNCHANGED <<claims, runner, audit, proc, row>>

\* DeferJob matched no row, or failed. Either way the audit row says deferred.
DeferJobNotApplied(j, n) ==
    /\ pc[j][n] = "defer"
    /\ Goto(j, n, "deferred")
    /\ UNCHANGED <<jobVars, claims, runner, audit, proc, row>>

\* RecordExecutionEnd overwrites the audit row by its id, whatever it says;
\* without an id there is nothing to write, and its error is ignored. After a
\* success it is called with the worker's context, which may be cancelled.
RecordExecutionEnd(j, n) ==
    /\ pc[j][n] \in Verdict
    /\ \/ /\ audit[j][n] # "none"
          /\ pc[j][n] \in {"succeeded", "lost"} => ~Cancelled(runner[j][n])
          /\ audit' = [audit EXCEPT ![j][n] =
                          IF pc[j][n] = "lost" THEN "abandoned" ELSE pc[j][n]]
       \/ UNCHANGED audit
    /\ Goto(j, n, "done")
    /\ UNCHANGED <<jobVars, claims, runner, proc, row>>

Execute(j, n) ==
    \/ RecordExecutionStart(j, n)
    \/ HandlerReturns(j, n)
    \/ CompleteJob(j, n)
    \/ CompleteJobLost(j, n)
    \/ CompleteJobError(j, n)
    \/ FailJob(j, n)
    \/ FailJobNotApplied(j, n)
    \/ DeferJob(j, n)
    \/ DeferJobNotApplied(j, n)
    \/ RecordExecutionEnd(j, n)

-----------------------------------------------------------------------------
(* The background loops of a worker *)

\* renewLoop skips its turn when nothing is in flight, and renews every row
\* that names the worker, lapsed ones included. A short count is only logged. The
\* count of what is in flight and the UPDATE after it are one step here.
RenewLeases_Idle(w) ==                       \* mutant: idle workers renew too
    /\ proc[w] \in Running
    /\ HeldBy(w) # {}
    /\ lease' = [j \in Job |-> IF j \in HeldBy(w) THEN "live" ELSE lease[j]]
    /\ UNCHANGED <<status, attempts, leasedBy, due, lastError, execVars, proc, row>>

RenewLeases(w) ==
    /\ proc[w] \in Running
    /\ InFlight(w) # {}
    /\ HeldBy(w) # {}
    /\ lease' = [j \in Job |-> IF j \in HeldBy(w) THEN "live" ELSE lease[j]]
    /\ UNCHANGED <<status, attempts, leasedBy, due, lastError, execVars, proc, row>>

Expired_Running == {j \in Job : status[j] = "running"}   \* mutant: no expiry check
\* mutant: only leases of workers known to be dead are reaped
Expired_OfDead == {j \in Job : /\ status[j] = "running"
                               /\ lease[j] = "lapsed"
                               /\ row[leasedBy[j]] = "dead"}

Expired == {j \in Job : status[j] = "running" /\ lease[j] = "lapsed"}

\* reaperLoop, first statement: ReapExpiredLeases takes lapsed rows (SKIP
\* LOCKED may pass over some) and closes their open audit rows.
ReapExpiredLeases(w, J) ==
    /\ proc[w] \in Running
    /\ J # {}
    /\ J \subseteq Expired
    /\ status' = [j \in Job |-> IF j \notin J THEN status[j]
                                ELSE IF Spent(j) THEN "dead" ELSE "pending"]
    /\ due' = [j \in Job |-> IF j \in J /\ ~Spent(j) THEN FALSE ELSE due[j]]
    /\ leasedBy' = [j \in Job |-> IF j \in J THEN NoWorker ELSE leasedBy[j]]
    /\ lease' = [j \in Job |-> IF j \in J THEN "none" ELSE lease[j]]
    /\ lastError' = [j \in Job |-> IF j \in J THEN "expired" ELSE lastError[j]]
    /\ audit' = [j \in Job |-> [n \in Claim |->
                    IF j \in J /\ audit[j][n] = "open" THEN "abandoned" ELSE audit[j][n]]]
    /\ UNCHANGED <<attempts, claims, runner, pc, proc, row>>

\* reaperLoop, second statement. It leaves the jobs alone, and it may mark the
\* very worker that runs it.
ReapDeadWorkers_Self(w) ==                   \* mutant: a worker only judges itself
    /\ proc[w] \in Running
    /\ row[w] = "stale"
    /\ row' = [row EXCEPT ![w] = "dead"]
    /\ UNCHANGED <<jobVars, execVars, proc>>

ReapDeadWorkers(w) ==
    /\ proc[w] \in Running
    /\ \E v \in Worker : row[v] = "stale"
    /\ row' = [v \in Worker |-> IF row[v] = "stale" THEN "dead" ELSE row[v]]
    /\ UNCHANGED <<jobVars, execVars, proc>>

\* heartbeatLoop: a worker whose row is no longer active stops claiming, for
\* good, and keeps all its loops running.
Heartbeat(w) ==
    /\ proc[w] \in Running
    /\ \/ /\ row[w] \in {"active", "stale"}
          /\ row' = [row EXCEPT ![w] = "active"]
          /\ UNCHANGED proc
       \/ /\ row[w] = "dead"
          /\ proc' = [proc EXCEPT ![w] = "halted"]
          /\ UNCHANGED row
    /\ UNCHANGED <<jobVars, execVars>>

-----------------------------------------------------------------------------
(* The life of a worker process *)

RegisterWorker(w) ==
    /\ proc[w] = "off"
    /\ proc' = [proc EXCEPT ![w] = "up"]
    /\ row' = [row EXCEPT ![w] = "active"]
    /\ UNCHANGED <<jobVars, execVars>>

\* SIGTERM cancels the worker's context; the claim loop and the background
\* loops return.
Sigterm(w) ==
    /\ w \notin Steady
    /\ proc[w] \in Running
    /\ proc' = [proc EXCEPT ![w] = "draining"]
    /\ UNCHANGED <<jobVars, execVars, row>>

\* Once the goroutines are done or ShutdownGrace has passed, whichever is
\* first, ReleaseWorkerLeases. Its error is logged and shutdown goes on.
ReleaseWorkerLeases(w) ==
    /\ proc[w] = "draining"
    /\ proc' = [proc EXCEPT ![w] = "released"]
    /\ \/ /\ status' = [j \in Job |-> IF j \in HeldBy(w) THEN "pending" ELSE status[j]]
          /\ due' = [j \in Job |-> IF j \in HeldBy(w) THEN TRUE ELSE due[j]]
          /\ leasedBy' = [j \in Job |-> IF j \in HeldBy(w) THEN NoWorker ELSE leasedBy[j]]
          /\ lease' = [j \in Job |-> IF j \in HeldBy(w) THEN "none" ELSE lease[j]]
       \/ UNCHANGED <<status, due, leasedBy, lease>>
    /\ UNCHANGED <<attempts, lastError, execVars, row>>

\* Goroutines end with their process.
KillGoroutines(w) ==
    pc' = [j \in Job |-> [n \in Claim |->
              IF <<j, n>> \in InFlight(w) THEN "done" ELSE pc[j][n]]]

\* UnregisterWorker writes "stopped" over any state of the row, or fails; then
\* Run returns and the process ends.
UnregisterWorker(w) ==
    /\ proc[w] = "released"
    /\ proc' = [proc EXCEPT ![w] = "exited"]
    /\ \/ row' = [row EXCEPT ![w] = "stopped"]
       \/ UNCHANGED row
    /\ KillGoroutines(w)
    /\ UNCHANGED <<jobVars, claims, runner, audit>>

\* SIGKILL, a panic, a lost machine.
Crash(w) ==
    /\ w \notin Steady
    /\ proc[w] \in Running \cup {"draining"}
    /\ proc' = [proc EXCEPT ![w] = "crashed"]
    /\ KillGoroutines(w)
    /\ UNCHANGED <<jobVars, claims, runner, audit, row>>

-----------------------------------------------------------------------------
(* The passage of time *)

LeaseExpires(j) ==
    /\ lease[j] = "live"
    /\ lease' = [lease EXCEPT ![j] = "lapsed"]
    /\ UNCHANGED <<status, attempts, leasedBy, due, lastError, execVars, proc, row>>

BackoffElapses(j) ==
    /\ ~due[j]
    /\ due' = [due EXCEPT ![j] = TRUE]
    /\ UNCHANGED <<status, attempts, leasedBy, lease, lastError, execVars, proc, row>>

\* DeadWorkerThreshold passes without a heartbeat: the process is gone or
\* stopping, or it cannot reach the database.
HeartbeatLapses(w) ==
    /\ row[w] = "active"
    /\ w \in Lapsing
    /\ row' = [row EXCEPT ![w] = "stale"]
    /\ UNCHANGED <<jobVars, execVars, proc>>

-----------------------------------------------------------------------------
Next ==
    \/ \E J \in SUBSET Job : EnqueueJobs(J)
    \/ \E w \in Worker : 
         \/ \E J \in SUBSET Job, delivered \in BOOLEAN : ClaimJobs(w, J, delivered)
         \/ RenewLeases(w)
         \/ \E J \in SUBSET Job : ReapExpiredLeases(w, J)
         \/ ReapDeadWorkers(w)
         \/ Heartbeat(w)
         \/ RegisterWorker(w)
         \/ Sigterm(w)
         \/ ReleaseWorkerLeases(w)
         \/ UnregisterWorker(w)
         \/ Crash(w)
         \/ HeartbeatLapses(w)
    \/ \E j \in Job :
         \/ \E n \in Claim : Execute(j, n)
         \/ LeaseExpires(j)
         \/ BackoffElapses(j)

Spec == Init /\ [][Next]_vars

-----------------------------------------------------------------------------
(* Safety *)

\* A leased row names the worker that claimed it last, and an unleased row
\* names nobody (the CHECK jobs_lease_pairing, and the leased_by guards of
\* CompleteJob, FailJob and DeferJob rest on it): no late report, renewal,
\* release or reap ever leaves a row leased to an earlier claimant.
LeaseNamesLatestClaimant ==
    \A j \in Job :
        IF status[j] = "running"
          THEN claims[j] > 0 /\ leasedBy[j] = runner[j][claims[j]] /\ lease[j] # "none"
          ELSE leasedBy[j] = NoWorker /\ lease[j] = "none"

\* A worker never has more goroutines than slots. Goroutines outlive the lease
\* of their row, so the rows leased to a worker do not bound them; the counter
\* kept by addInFlight does.
WithinConcurrency == \A w \in Worker : Cardinality(InFlight(w)) <= Concurrency

Released == {w \in Worker : proc[w] \in {"released", "exited"}}

\* What max_attempts really bounds. ReleaseWorkerLeases puts a row back without
\* looking at attempt_count, so each graceful shutdown may add one attempt to
\* it; nothing else does: not crashes, lost replies, reaps or deferrals.
AttemptsBounded == \A j \in Job : attempts[j] <= MaxAttempts + Cardinality(Released)

\* A job dies for a reason: it failed permanently or its attempts are spent.
DeadIsEarned ==
    \A j \in Job : status[j] = "dead" =>
        lastError[j] = "permanent" \/ attempts[j] >= MaxAttempts

\* The audit trail never shows two successes of one job, nor a success of a job
\* that has not succeeded, whatever stale goroutines write late.
Succeeding(j) == {n \in Claim : pc[j][n] = "succeeded" \/ audit[j][n] = "succeeded"}
OneRecordedSuccess ==
    \A j \in Job :
        /\ \A m, n \in Succeeding(j) : m = n
        /\ Succeeding(j) # {} => status[j] = "succeeded"

\* Succeeded and dead are final: no stale goroutine, reaper or shutdown brings
\* a finished job back.
TerminalIsFinal ==
    [][\A j \in Job : status[j] \in Terminal => status'[j] = status[j]]_vars

\* While its lease is live a job is taken from its holder by nobody else: it
\* leaves "running" only by a report of one of the holder's own goroutines or
\* by the holder's own shutdown.
LiveLeaseIsExclusive ==
    [][\A j \in Job : lease[j] = "live" /\ status'[j] # "running" =>
          \/ \E n \in Claim : runner[j][n] = leasedBy[j] /\ pc[j][n] # pc'[j][n]
          \/ proc[leasedBy[j]] = "draining"]_vars

-----------------------------------------------------------------------------
(* Refinement *)

\* The workers that ever claimed a row, and those with a run of it that ended
\* well and is not reported yet.
Takers == [j \in Job |-> {runner[j][n] : n \in 1..claims[j]}]
Ready  == [j \in Job |-> {runner[j][n] : n \in {m \in Claim : pc[j][m] = "ok"}}]

Contract == INSTANCE QueueContract WITH
    state  <- status,
    owner  <- leasedBy,
    takers <- Takers,
    ready  <- Ready

\* The queue and its workers keep the contract of QueueContract: a job may run
\* many times, but it succeeds once, by a run that its present holder finished.
ImplementsContract == Contract!Spec

-----------------------------------------------------------------------------
(* Liveness *)

\* The loops keep turning, handlers return and time passes. This asks less than
\* the code gives: each loop of each process is scheduled, and here it is enough
\* that some enabled loop of the kind takes its turn. A lease is bound to lapse
\* only while its holder does not renew it, a heartbeat only when its process
\* sends no more. Nothing is assumed of enqueues, signals, crashes and database
\* errors, and of registration only that the steady workers start.
Renewed(j) == proc[leasedBy[j]] \in Running /\ InFlight(leasedBy[j]) # {}

Fairness ==
    /\ \A w \in Steady : WF_vars(RegisterWorker(w))
    /\ WF_vars(\E w \in Worker, J \in SUBSET Job, delivered \in BOOLEAN :
                  ClaimJobs(w, J, delivered))
    /\ WF_vars(\E j \in Job, n \in Claim : Execute(j, n))
    /\ WF_vars(\E w \in Worker, J \in SUBSET Job : ReapExpiredLeases(w, J))
    /\ WF_vars(\E w \in Worker : ReapDeadWorkers(w) \/ Heartbeat(w))
    /\ WF_vars(\E w \in Worker : ReleaseWorkerLeases(w) \/ UnregisterWorker(w))
    /\ WF_vars(\E w \in Worker : proc[w] \notin Running /\ HeartbeatLapses(w))
    /\ WF_vars(\E j \in Job : leasedBy[j] # NoWorker /\ ~Renewed(j) /\ LeaseExpires(j))
    /\ WF_vars(\E j \in Job : BackoffElapses(j))

FairSpec == Spec /\ Fairness

\* No job is lost: every job that is enqueued succeeds or dies, however its
\* workers crash, stop, stall or lose replies, if one worker stays.
EveryJobEnds == \A j \in Job : status[j] \in {"pending", "running"} ~> status[j] \in Terminal

\* Crash recovery: the rows leased to a process that is gone are reclaimed.
OrphansAreReclaimed ==
    \A j \in Job, w \in Worker \ Steady :
        leasedBy[j] = w /\ proc[w] \in {"crashed", "exited"} ~> leasedBy[j] # w

\* A worker that dies without a goodbye is noticed: its row becomes dead.
CrashIsNoticed == \A w \in Worker \ Steady : proc[w] = "crashed" ~> row[w] = "dead"
=============================================================================
