--------------------------- MODULE JobQueueProofs ---------------------------
(***************************************************************************)
(* Proofs about JobQueue, for every set of workers and jobs and every      *)
(* bound, and the proof that JobQueue implements QueueContract: every step  *)
(* of the queue, its workers and time is a step of the contract or changes  *)
(* nothing the contract talks about.                                       *)
(***************************************************************************)
EXTENDS JobQueue, FiniteSetTheorems, TLAPS

-----------------------------------------------------------------------------
(* Type correctness *)

\* The types of the jobs table, of the goroutines and of the processes.
JobTypes ==
    /\ status \in [Job -> JobStatus]
    /\ attempts \in [Job -> Nat]
    /\ leasedBy \in [Job -> Worker \cup {NoWorker}]
    /\ lease \in [Job -> {"none", "live", "lapsed"}]
    /\ due \in [Job -> BOOLEAN]
    /\ lastError \in [Job -> {"none", "error", "permanent", "deferred", "expired"}]

ExecTypes ==
    /\ claims \in [Job -> 0..MaxClaims]
    /\ runner \in [Job -> [Claim -> Worker \cup {NoWorker}]]
    /\ pc \in [Job -> [Claim -> Alive \cup {"none", "done"}]]
    /\ audit \in [Job -> [Claim -> Outcome \cup {"none", "open"}]]

ProcTypes ==
    /\ proc \in [Worker -> ProcState]
    /\ row \in [Worker -> {"absent", "active", "stale", "dead", "stopped"}]

LEMMA TypeParts == TypeOK <=> JobTypes /\ ExecTypes /\ ProcTypes
  BY DEF TypeOK, JobTypes, ExecTypes, ProcTypes

\* A step of a goroutine keeps the types: it moves its own pc to a label of the
\* model, its audit row to an outcome, and its row of the jobs table.
LEMMA ExecuteTypes ==
    ASSUME TypeOK, NEW j \in Job, NEW n \in Claim, Execute(j, n)
    PROVE  TypeOK'
<1>1. JobTypes /\ ExecTypes /\ ProcTypes
  BY TypeParts
<1>2. ProcTypes'
  BY <1>1 DEF Execute, RecordExecutionStart, HandlerReturns, CompleteJob, CompleteJobLost,
     CompleteJobError, FailJob, FailJobNotApplied, DeferJob, DeferJobNotApplied,
     RecordExecutionEnd, ProcTypes
<1>3. ExecTypes'
  <2>1. UNCHANGED <<claims, runner>>
    BY DEF Execute, RecordExecutionStart, HandlerReturns, CompleteJob, CompleteJobLost,
       CompleteJobError, FailJob, FailJobNotApplied, DeferJob, DeferJobNotApplied,
       RecordExecutionEnd
  <2>2. PICK label \in Alive \cup {"done"} : Goto(j, n, label)
    BY DEF Execute, RecordExecutionStart, HandlerReturns, CompleteJob, CompleteJobLost,
       CompleteJobError, FailJob, FailJobNotApplied, DeferJob, DeferJobNotApplied,
       RecordExecutionEnd, Alive, Result, Verdict
  <2>3. pc' \in [Job -> [Claim -> Alive \cup {"none", "done"}]]
    BY <1>1, <2>2 DEF Goto, ExecTypes
  <2>4. \/ UNCHANGED audit
        \/ \E o \in Outcome \cup {"open"} : audit' = [audit EXCEPT ![j][n] = o]
    <3>1. CASE RecordExecutionStart(j, n) BY <3>1 DEF RecordExecutionStart
    <3>2. CASE RecordExecutionEnd(j, n)
      BY <3>2 DEF RecordExecutionEnd, Outcome, Verdict
    <3> QED
      BY <3>1, <3>2 DEF Execute, HandlerReturns, CompleteJob, CompleteJobLost,
         CompleteJobError, FailJob, FailJobNotApplied, DeferJob, DeferJobNotApplied
  <2>5. audit' \in [Job -> [Claim -> Outcome \cup {"none", "open"}]]
    <3>1. CASE UNCHANGED audit
      BY <1>1, <3>1 DEF ExecTypes
    <3>2. ASSUME NEW o \in Outcome \cup {"open"}, audit' = [audit EXCEPT ![j][n] = o]
          PROVE audit' \in [Job -> [Claim -> Outcome \cup {"none", "open"}]]
      BY <1>1, <3>2 DEF ExecTypes
    <3> QED
      BY <2>4, <3>1, <3>2
  <2> QED
    BY <1>1, <2>1, <2>3, <2>5 DEF ExecTypes
<1>4. JobTypes'
  <2>1. CASE CompleteJob(j, n)
    BY <1>1, <2>1 DEF CompleteJob, Unlease, JobTypes, JobStatus, Terminal
  <2>2. CASE FailJob(j, n)
    <3>1. pc[j][n] \in {"error", "permanent"}
      BY <2>2 DEF FailJob
    <3>2. status' \in [Job -> JobStatus] /\ due' \in [Job -> BOOLEAN]
      BY <1>1, <2>2 DEF FailJob, Retry, JobTypes, JobStatus, Terminal
    <3> QED
      BY <1>1, <2>2, <3>1, <3>2 DEF FailJob, Unlease, JobTypes
  <2>3. CASE DeferJob(j, n)
    BY <1>1, <2>3 DEF DeferJob, Unlease, Retry, JobTypes, JobStatus, Terminal
  <2>4. CASE UNCHANGED jobVars
    BY <1>1, <2>4 DEF jobVars, JobTypes
  <2> QED
    BY <2>1, <2>2, <2>3, <2>4 DEF Execute, RecordExecutionStart, HandlerReturns,
       CompleteJobLost, CompleteJobError, FailJobNotApplied, DeferJobNotApplied,
       RecordExecutionEnd
<1> QED
  BY <1>2, <1>3, <1>4, TypeParts DEF JobTypes, ExecTypes, ProcTypes, TypeOK

\* Type correctness: every column, goroutine and process of the model keeps its
\* type under every statement and loop of the queue.
THEOREM TypeCorrect == Spec => []TypeOK
<1>1. Init => TypeOK
  BY MaxAttemptsAssumption, BoundsAssumption
     DEF Init, TypeOK, JobStatus, Terminal, ProcState, Alive, Outcome, Verdict, Result
<1>2. TypeOK /\ [Next]_vars => TypeOK'
  <2> SUFFICES ASSUME TypeOK, [Next]_vars PROVE TypeOK'
    OBVIOUS
  <2>0. JobTypes /\ ExecTypes /\ ProcTypes
    BY TypeParts
  <2>1. ASSUME NEW J \in SUBSET Job, EnqueueJobs(J) PROVE TypeOK'
    BY <2>0, <2>1 DEF EnqueueJobs, execVars, TypeOK, JobTypes, ExecTypes, ProcTypes, JobStatus
  <2>2. ASSUME NEW w \in Worker, NEW J \in SUBSET Job, NEW d \in BOOLEAN,
               ClaimJobs(w, J, d) PROVE TypeOK'
    <3>1. JobTypes'
      BY <2>0, <2>2 DEF ClaimJobs, JobTypes, JobStatus
    <3>2. claims' \in [Job -> 0..MaxClaims]
      BY <2>0, <2>2, BoundsAssumption DEF ClaimJobs, ExecTypes
    <3>3. runner' \in [Job -> [Claim -> Worker \cup {NoWorker}]]
      BY <2>0, <2>2 DEF ClaimJobs, ExecTypes
    <3>4. pc' \in [Job -> [Claim -> Alive \cup {"none", "done"}]]
      <4>1. "starting" \in Alive
        BY DEF Alive
      <4> QED
        BY <2>0, <2>2, <4>1 DEF ClaimJobs, ExecTypes
    <3> QED
      BY <2>0, <2>2, <3>1, <3>2, <3>3, <3>4
         DEF ClaimJobs, TypeOK, JobTypes, ExecTypes, ProcTypes
  <2>3. ASSUME NEW w \in Worker, RenewLeases(w) PROVE TypeOK'
    BY <2>0, <2>3 DEF RenewLeases, execVars, TypeOK, JobTypes, ExecTypes, ProcTypes
  <2>4. ASSUME NEW w \in Worker, NEW J \in SUBSET Job, ReapExpiredLeases(w, J)
        PROVE TypeOK'
    <3>1. JobTypes'
      BY <2>0, <2>4 DEF ReapExpiredLeases, JobTypes, JobStatus, Terminal
    <3>2. audit' \in [Job -> [Claim -> Outcome \cup {"none", "open"}]]
      <4>1. "abandoned" \in Outcome
        BY DEF Outcome, Verdict
      <4> QED
        BY <2>0, <2>4, <4>1 DEF ReapExpiredLeases, ExecTypes
    <3> QED
      BY <2>0, <2>4, <3>1, <3>2
         DEF ReapExpiredLeases, TypeOK, JobTypes, ExecTypes, ProcTypes
  <2>5. ASSUME NEW w \in Worker,
               \/ ReapDeadWorkers(w) \/ Heartbeat(w) \/ RegisterWorker(w)
               \/ Sigterm(w) \/ HeartbeatLapses(w)
        PROVE TypeOK'
    <3>1. ProcTypes'
      BY <2>0, <2>5 DEF ReapDeadWorkers, Heartbeat, RegisterWorker, Sigterm,
         HeartbeatLapses, ProcTypes, ProcState
    <3>2. UNCHANGED <<jobVars, execVars>>
      BY <2>5 DEF ReapDeadWorkers, Heartbeat, RegisterWorker, Sigterm, HeartbeatLapses
    <3> QED
      BY <2>0, <3>1, <3>2 DEF jobVars, execVars, TypeOK, JobTypes, ExecTypes, ProcTypes
  <2>6. ASSUME NEW w \in Worker, ReleaseWorkerLeases(w) PROVE TypeOK'
    <3>1. ProcTypes'
      BY <2>0, <2>6 DEF ReleaseWorkerLeases, ProcTypes, ProcState
    <3>2. JobTypes'
      BY <2>0, <2>6 DEF ReleaseWorkerLeases, JobTypes, JobStatus
    <3> QED
      BY <2>0, <2>6, <3>1, <3>2
         DEF ReleaseWorkerLeases, execVars, TypeOK, JobTypes, ExecTypes, ProcTypes
  <2>7. ASSUME NEW w \in Worker, UnregisterWorker(w) \/ Crash(w) PROVE TypeOK'
    <3>1. ProcTypes'
      BY <2>0, <2>7 DEF UnregisterWorker, Crash, ProcTypes, ProcState
    <3>2. pc' \in [Job -> [Claim -> Alive \cup {"none", "done"}]]
      <4>1. KillGoroutines(w)
        BY <2>7 DEF UnregisterWorker, Crash
      <4>2. pc \in [Job -> [Claim -> Alive \cup {"none", "done"}]]
        BY <2>0 DEF ExecTypes
      <4> QED
        BY <4>1, <4>2 DEF KillGoroutines
    <3>3. UNCHANGED <<jobVars, claims, runner, audit>>
      BY <2>7 DEF UnregisterWorker, Crash
    <3> QED
      BY <2>0, <3>1, <3>2, <3>3 DEF jobVars, TypeOK, JobTypes, ExecTypes, ProcTypes
  <2>8. ASSUME NEW j \in Job, LeaseExpires(j) \/ BackoffElapses(j) PROVE TypeOK'
    BY <2>0, <2>8 DEF LeaseExpires, BackoffElapses, execVars,
       TypeOK, JobTypes, ExecTypes, ProcTypes
  <2>9. ASSUME NEW j \in Job, NEW n \in Claim, Execute(j, n) PROVE TypeOK'
    BY <2>9, ExecuteTypes
  <2>10. CASE UNCHANGED vars
    BY <2>10 DEF vars, jobVars, execVars, TypeOK
  <2> QED
    BY <2>1, <2>2, <2>3, <2>4, <2>5, <2>6, <2>7, <2>8, <2>9, <2>10 DEF Next
<1> QED
  BY <1>1, <1>2, PTL DEF Spec

-----------------------------------------------------------------------------
(* Leases and final states *)

\* The columns that say who holds a row, and since which claim, do not change.
Holding == <<status, leasedBy, lease, claims, runner>>

\* What a goroutine can do to them: nothing, or end the lease of a row that its
\* worker holds.
LEMMA ExecuteHolding ==
    ASSUME NEW j \in Job, NEW n \in Claim, Execute(j, n)
    PROVE  /\ UNCHANGED <<claims, runner>>
           /\ \/ UNCHANGED jobVars
              \/ /\ Owns(j, n)
                 /\ Unlease(j)
                 /\ \E s \in {"pending", "succeeded", "dead"} :
                       status' = [status EXCEPT ![j] = s]
  BY DEF Execute, RecordExecutionStart, HandlerReturns, CompleteJob, CompleteJobLost,
     CompleteJobError, FailJob, FailJobNotApplied, DeferJob, DeferJobNotApplied,
     RecordExecutionEnd, Retry

LEMMA LeaseStep ==
    ASSUME TypeOK, LeaseNamesLatestClaimant, [Next]_vars
    PROVE  LeaseNamesLatestClaimant'
<1>0. JobTypes /\ ExecTypes
  BY TypeParts
<1>1. CASE UNCHANGED Holding
  BY <1>1 DEF Holding, LeaseNamesLatestClaimant
<1>2. ASSUME NEW J \in SUBSET Job, EnqueueJobs(J) PROVE LeaseNamesLatestClaimant'
  BY <1>0, <1>2 DEF EnqueueJobs, execVars, LeaseNamesLatestClaimant, JobTypes
<1>3. ASSUME NEW w \in Worker, NEW J \in SUBSET Job, NEW d \in BOOLEAN, ClaimJobs(w, J, d)
      PROVE LeaseNamesLatestClaimant'
  <2> SUFFICES ASSUME NEW j \in Job
               PROVE IF status'[j] = "running"
                       THEN /\ claims'[j] > 0
                            /\ leasedBy'[j] = runner'[j][claims'[j]]
                            /\ lease'[j] # "none"
                       ELSE leasedBy'[j] = NoWorker /\ lease'[j] = "none"
    BY DEF LeaseNamesLatestClaimant
  <2>1. CASE j \in J
    <3>1. claims[j] + 1 \in Claim
      BY <1>0, <1>3, <2>1, BoundsAssumption DEF ClaimJobs, ExecTypes, Claim
    <3>2. claims'[j] = claims[j] + 1 /\ claims'[j] > 0
      BY <1>0, <1>3, <2>1 DEF ClaimJobs, ExecTypes
    <3>3. runner'[j][claims'[j]] = w
      BY <1>0, <1>3, <2>1, <3>1, <3>2 DEF ClaimJobs, ExecTypes
    <3> QED
      BY <1>3, <2>1, <3>2, <3>3 DEF ClaimJobs
  <2>2. CASE j \notin J
    BY <1>3, <2>2 DEF ClaimJobs, LeaseNamesLatestClaimant
  <2> QED
    BY <2>1, <2>2
<1>4. ASSUME NEW w \in Worker, RenewLeases(w) PROVE LeaseNamesLatestClaimant'
  BY <1>0, <1>4 DEF RenewLeases, HeldBy, execVars, LeaseNamesLatestClaimant, JobTypes
<1>5. ASSUME NEW w \in Worker, NEW J \in SUBSET Job, ReapExpiredLeases(w, J)
      PROVE LeaseNamesLatestClaimant'
  BY <1>0, <1>5 DEF ReapExpiredLeases, Expired, LeaseNamesLatestClaimant, JobTypes
<1>6. ASSUME NEW w \in Worker, ReleaseWorkerLeases(w) PROVE LeaseNamesLatestClaimant'
  <2>1. CASE UNCHANGED <<status, leasedBy, lease>>
    BY <1>1, <1>6, <2>1 DEF ReleaseWorkerLeases, execVars, Holding
  <2>2. CASE ~ UNCHANGED <<status, leasedBy, lease>>
    <3>1. \A j \in Job :
            IF j \in HeldBy(w)
              THEN status'[j] = "pending" /\ leasedBy'[j] = NoWorker /\ lease'[j] = "none"
              ELSE status'[j] = status[j] /\ leasedBy'[j] = leasedBy[j] /\ lease'[j] = lease[j]
      BY <1>6, <2>2 DEF ReleaseWorkerLeases
    <3>2. UNCHANGED <<claims, runner>>
      BY <1>6 DEF ReleaseWorkerLeases, execVars
    <3> QED
      BY <3>1, <3>2 DEF LeaseNamesLatestClaimant
  <2> QED
    BY <2>1, <2>2
<1>7. ASSUME NEW j \in Job, LeaseExpires(j) PROVE LeaseNamesLatestClaimant'
  BY <1>0, <1>7 DEF LeaseExpires, execVars, LeaseNamesLatestClaimant, JobTypes
<1>8. ASSUME NEW j \in Job, NEW n \in Claim, Execute(j, n) PROVE LeaseNamesLatestClaimant'
  <2>1. CASE UNCHANGED jobVars
    BY <1>1, <1>8, <2>1, ExecuteHolding DEF jobVars, Holding
  <2>2. CASE ~ UNCHANGED jobVars
    BY <1>0, <1>8, <2>2, ExecuteHolding DEF Unlease, LeaseNamesLatestClaimant, JobTypes
  <2> QED
    BY <2>1, <2>2
<1> QED
  BY <1>1, <1>2, <1>3, <1>4, <1>5, <1>6, <1>7, <1>8
     DEF Next, vars, jobVars, execVars, Holding, ReapDeadWorkers, Heartbeat, RegisterWorker,
         Sigterm, UnregisterWorker, Crash, HeartbeatLapses, BackoffElapses

\* A leased row names its latest claimant, an unleased one nobody: the guards
\* on leased_by in CompleteJob, FailJob and DeferJob compare with the right id.
THEOREM LeaseSafety == Spec => []LeaseNamesLatestClaimant
<1>1. Init => LeaseNamesLatestClaimant
  BY DEF Init, LeaseNamesLatestClaimant
<1>2. TypeOK /\ LeaseNamesLatestClaimant /\ [Next]_vars => LeaseNamesLatestClaimant'
  BY LeaseStep
<1> QED
  BY <1>1, <1>2, TypeCorrect, PTL DEF Spec

\* What a step can do to the status of a row that is neither absent nor
\* pending: nothing, unless it is running.
LEMMA FinalStep ==
    ASSUME TypeOK, LeaseNamesLatestClaimant, [Next]_vars,
           NEW j \in Job, status[j] \in Terminal
    PROVE  status'[j] = status[j]
<1>0. JobTypes /\ ExecTypes
  BY TypeParts
<1>1. CASE UNCHANGED jobVars
  BY <1>1 DEF jobVars
<1>2. ASSUME NEW J \in SUBSET Job, EnqueueJobs(J) PROVE status'[j] = status[j]
  BY <1>2 DEF EnqueueJobs, Terminal
<1>3. ASSUME NEW w \in Worker, NEW J \in SUBSET Job, NEW d \in BOOLEAN, ClaimJobs(w, J, d)
      PROVE status'[j] = status[j]
  BY <1>3 DEF ClaimJobs, Claimable, Terminal
<1>4. ASSUME NEW w \in Worker, NEW J \in SUBSET Job, ReapExpiredLeases(w, J)
      PROVE status'[j] = status[j]
  BY <1>4 DEF ReapExpiredLeases, Expired, Terminal
<1>5. ASSUME NEW w \in Worker, ReleaseWorkerLeases(w) PROVE status'[j] = status[j]
  BY <1>5 DEF ReleaseWorkerLeases, HeldBy, Terminal
<1>6. ASSUME NEW k \in Job, NEW n \in Claim, Execute(k, n) PROVE status'[j] = status[j]
  BY <1>0, <1>6, ExecuteHolding DEF jobVars, Owns, HeldBy, Terminal, JobTypes
<1> QED
  BY <1>1, <1>2, <1>3, <1>4, <1>5, <1>6
     DEF Next, vars, jobVars, ReapDeadWorkers, Heartbeat, RegisterWorker, Sigterm,
         UnregisterWorker, Crash, HeartbeatLapses, BackoffElapses, LeaseExpires, RenewLeases

\* No goroutine, reaper or shutdown ever changes a succeeded or dead row.
THEOREM FinalStatesAreFinal == Spec => TerminalIsFinal
<1>1. TypeOK /\ LeaseNamesLatestClaimant /\ [Next]_vars
      => [\A j \in Job : status[j] \in Terminal => status'[j] = status[j]]_vars
  BY FinalStep
<1> QED
  BY <1>1, TypeCorrect, LeaseSafety, PTL DEF Spec, TerminalIsFinal

-----------------------------------------------------------------------------
(* Why a job is dead *)

LEMMA DeadStep ==
    ASSUME TypeOK, LeaseNamesLatestClaimant, DeadIsEarned, [Next]_vars
    PROVE  DeadIsEarned'
<1>0. JobTypes /\ ExecTypes
  BY TypeParts
<1> SUFFICES ASSUME NEW j \in Job, status'[j] = "dead"
             PROVE  lastError'[j] = "permanent" \/ attempts'[j] >= MaxAttempts
  BY DEF DeadIsEarned
<1>1. CASE status[j] = "dead" /\ UNCHANGED <<lastError, attempts>>
  BY <1>1 DEF DeadIsEarned
<1>2. ASSUME NEW J \in SUBSET Job, EnqueueJobs(J)
      PROVE  status[j] = "dead" /\ UNCHANGED <<lastError, attempts>>
  BY <1>2 DEF EnqueueJobs
<1>3. ASSUME NEW w \in Worker, NEW J \in SUBSET Job, NEW d \in BOOLEAN, ClaimJobs(w, J, d)
      PROVE  lastError'[j] = "permanent" \/ attempts'[j] >= MaxAttempts
  <2>1. j \notin J /\ status[j] = "dead"
    BY <1>3 DEF ClaimJobs
  <2>2. attempts'[j] = attempts[j] /\ lastError'[j] = lastError[j]
    BY <1>3, <2>1 DEF ClaimJobs
  <2> QED
    BY <2>1, <2>2 DEF DeadIsEarned
<1>4. ASSUME NEW w \in Worker, NEW J \in SUBSET Job, ReapExpiredLeases(w, J)
      PROVE  lastError'[j] = "permanent" \/ attempts'[j] >= MaxAttempts
  <2>1. attempts' = attempts
    BY <1>4 DEF ReapExpiredLeases
  <2>2. CASE j \in J
    BY <1>4, <2>1, <2>2 DEF ReapExpiredLeases, Spent
  <2>3. CASE j \notin J
    BY <1>4, <2>1, <2>3 DEF ReapExpiredLeases, DeadIsEarned
  <2> QED
    BY <2>2, <2>3
<1>5. ASSUME NEW w \in Worker, ReleaseWorkerLeases(w)
      PROVE  status[j] = "dead" /\ UNCHANGED <<lastError, attempts>>
  BY <1>5 DEF ReleaseWorkerLeases
<1>6. ASSUME NEW k \in Job, NEW n \in Claim, Execute(k, n)
      PROVE  lastError'[j] = "permanent" \/ attempts'[j] >= MaxAttempts
  <2>1. CASE UNCHANGED jobVars
    BY <1>1, <2>1 DEF jobVars
  <2>2. CASE CompleteJob(k, n)
    BY <1>0, <2>2 DEF CompleteJob, DeadIsEarned, JobTypes
  <2>3. CASE FailJob(k, n)
    BY <1>0, <2>3 DEF FailJob, Spent, Retry, DeadIsEarned, JobTypes
  <2>4. CASE DeferJob(k, n)
    BY <1>0, <2>4 DEF DeferJob, Retry, DeadIsEarned, JobTypes
  <2> QED
    BY <1>6, <2>1, <2>2, <2>3, <2>4 DEF Execute, RecordExecutionStart, HandlerReturns,
       CompleteJobLost, CompleteJobError, FailJobNotApplied, DeferJobNotApplied,
       RecordExecutionEnd
<1>7. CASE UNCHANGED <<status, attempts, lastError>>
  BY <1>1, <1>7
<1> QED
  BY <1>1, <1>2, <1>3, <1>4, <1>5, <1>6, <1>7
     DEF Next, vars, jobVars, ReapDeadWorkers, Heartbeat, RegisterWorker, Sigterm,
         UnregisterWorker, Crash, HeartbeatLapses, BackoffElapses, LeaseExpires, RenewLeases

\* A job dies only of a permanent failure or with its attempts spent.
THEOREM DeathIsEarned == Spec => []DeadIsEarned
<1>1. Init => DeadIsEarned
  BY DEF Init, DeadIsEarned
<1>2. TypeOK /\ LeaseNamesLatestClaimant /\ DeadIsEarned /\ [Next]_vars => DeadIsEarned'
  BY DeadStep
<1> QED
  BY <1>1, <1>2, TypeCorrect, LeaseSafety, PTL DEF Spec

-----------------------------------------------------------------------------
(* The audit trail *)

\* Only an applied CompleteJob makes an execution successful.
LEMMA SucceedingStep ==
    ASSUME TypeOK, [Next]_vars, NEW k \in Job, NEW m \in Claim,
           pc'[k][m] = "succeeded" \/ audit'[k][m] = "succeeded"
    PROVE  \/ pc[k][m] = "succeeded" \/ audit[k][m] = "succeeded"
           \/ CompleteJob(k, m)
<1>0. ExecTypes
  BY TypeParts
<1>1. CASE UNCHANGED <<pc, audit>>
  BY <1>1
<1>2. ASSUME NEW w \in Worker, NEW J \in SUBSET Job, NEW d \in BOOLEAN, ClaimJobs(w, J, d)
      PROVE  pc[k][m] = "succeeded" \/ audit[k][m] = "succeeded"
  BY <1>0, <1>2 DEF ClaimJobs, ExecTypes
<1>3. ASSUME NEW w \in Worker, NEW J \in SUBSET Job, ReapExpiredLeases(w, J)
      PROVE  pc[k][m] = "succeeded" \/ audit[k][m] = "succeeded"
  BY <1>3 DEF ReapExpiredLeases
<1>4. ASSUME NEW w \in Worker, UnregisterWorker(w) \/ Crash(w)
      PROVE  pc[k][m] = "succeeded" \/ audit[k][m] = "succeeded"
  <2>1. KillGoroutines(w) /\ UNCHANGED audit
    BY <1>4 DEF UnregisterWorker, Crash
  <2> QED
    BY <2>1 DEF KillGoroutines
<1>5. ASSUME NEW j \in Job, NEW n \in Claim, Execute(j, n)
      PROVE  pc[k][m] = "succeeded" \/ audit[k][m] = "succeeded" \/ CompleteJob(k, m)
  <2>1. CASE CompleteJob(j, n)
    <3>1. PICK label \in {"succeeded", "done"} : Goto(j, n, label)
      BY <2>1 DEF CompleteJob
    <3>2. UNCHANGED audit
      BY <2>1 DEF CompleteJob
    <3>3. CASE j = k /\ n = m
      BY <2>1, <3>3
    <3>4. CASE ~(j = k /\ n = m)
      BY <1>0, <3>1, <3>2, <3>4 DEF Goto, ExecTypes
    <3> QED
      BY <3>3, <3>4
  <2>2. CASE RecordExecutionStart(j, n)
    BY <1>0, <2>2 DEF RecordExecutionStart, Goto, ExecTypes
  <2>3. CASE HandlerReturns(j, n)
    BY <1>0, <2>3, SMTT(30) DEF HandlerReturns, Goto, ExecTypes, Result
  <2>4. CASE FailJob(j, n) \/ FailJobNotApplied(j, n) \/ DeferJob(j, n)
             \/ DeferJobNotApplied(j, n) \/ CompleteJobLost(j, n) \/ CompleteJobError(j, n)
    <3>1. CASE FailJob(j, n)
      BY <1>0, <3>1 DEF FailJob, Goto, ExecTypes
    <3>4. CASE FailJobNotApplied(j, n)
      BY <1>0, <3>4, SMTT(30) DEF FailJobNotApplied, Goto, ExecTypes
    <3>2. CASE DeferJob(j, n) \/ DeferJobNotApplied(j, n)
      BY <1>0, <3>2 DEF DeferJob, DeferJobNotApplied, Goto, ExecTypes
    <3>3. CASE CompleteJobLost(j, n) \/ CompleteJobError(j, n)
      BY <1>0, <3>3 DEF CompleteJobLost, CompleteJobError, Goto, ExecTypes
    <3> QED BY <2>4, <3>1, <3>2, <3>3, <3>4
  <2>5. CASE RecordExecutionEnd(j, n)
    BY <1>0, <2>5 DEF RecordExecutionEnd, Goto, ExecTypes, Verdict
  <2> QED
    BY <1>5, <2>1, <2>2, <2>3, <2>4, <2>5 DEF Execute
<1> QED
  BY <1>1, <1>2, <1>3, <1>4, <1>5
     DEF Next, vars, execVars, EnqueueJobs, RenewLeases, ReapDeadWorkers, Heartbeat,
         RegisterWorker, Sigterm, ReleaseWorkerLeases, HeartbeatLapses, LeaseExpires,
         BackoffElapses

LEMMA SuccessStep ==
    ASSUME TypeOK, LeaseNamesLatestClaimant, OneRecordedSuccess, [Next]_vars
    PROVE  OneRecordedSuccess'
<1> SUFFICES ASSUME NEW k \in Job
             PROVE  /\ \A m, n \in Succeeding(k)' : m = n
                    /\ Succeeding(k)' # {} => status'[k] = "succeeded"
  BY DEF OneRecordedSuccess
<1>1. ASSUME NEW m \in Succeeding(k)'
      PROVE  m \in Succeeding(k) \/ CompleteJob(k, m)
  BY <1>1, SucceedingStep DEF Succeeding
<1>2. CASE \E m \in Claim : CompleteJob(k, m)
  <2> PICK m \in Claim : CompleteJob(k, m)
    BY <1>2
  <2>1. status[k] = "running" /\ pc[k][m] = "ok"
    BY DEF CompleteJob, Owns, HeldBy
  <2>2. Succeeding(k) = {}
    BY <2>1 DEF OneRecordedSuccess
  <2>3. status'[k] = "succeeded"
    BY TypeParts DEF CompleteJob, JobTypes
  <2>4. ASSUME NEW n \in Claim, CompleteJob(k, n) PROVE n = m
    <3>1. pc'[k][m] # "ok"
      BY TypeParts DEF CompleteJob, Goto, ExecTypes
    <3>2. CASE n # m
      <4>1. pc'[k][m] = pc[k][m]
        BY <2>4, <3>2, TypeParts DEF CompleteJob, Goto, ExecTypes
      <4> QED
        BY <2>1, <3>1, <4>1
    <3> QED
      BY <3>2
  <2>5. \A n \in Succeeding(k)' : n = m
    BY <1>1, <2>2, <2>4 DEF Succeeding
  <2> QED
    BY <2>3, <2>5
<1>3. CASE ~ \E m \in Claim : CompleteJob(k, m)
  <2>1. Succeeding(k)' \subseteq Succeeding(k)
    BY <1>1, <1>3 DEF Succeeding
  <2>2. status[k] = "succeeded" => status'[k] = "succeeded"
    BY FinalStep DEF Terminal
  <2> QED
    BY <2>1, <2>2 DEF OneRecordedSuccess
<1> QED
  BY <1>2, <1>3

\* The audit trail shows at most one success of a job, and only of a job that
\* has succeeded.
THEOREM AuditIsTruthful == Spec => []OneRecordedSuccess
<1>1. Init => OneRecordedSuccess
  BY DEF Init, OneRecordedSuccess, Succeeding
<1>2. TypeOK /\ LeaseNamesLatestClaimant /\ OneRecordedSuccess /\ [Next]_vars
      => OneRecordedSuccess'
  BY SuccessStep
<1> QED
  BY <1>1, <1>2, TypeCorrect, LeaseSafety, PTL DEF Spec

-----------------------------------------------------------------------------
(* The number of attempts *)

\* The strengthening that makes AttemptsBounded inductive: a row that waits to
\* be claimed has an attempt to spare.
AttemptsLeft ==
    \A j \in Job :
        /\ attempts[j] <= MaxAttempts + Cardinality(Released)
        /\ status[j] \in {"absent", "pending"} =>
              attempts[j] < MaxAttempts + Cardinality(Released)

LEMMA ReleasedIsFinite == IsFiniteSet(Released) /\ Cardinality(Released) \in Nat
<1>1. Released \in SUBSET Worker
  BY DEF Released
<1> QED
  BY <1>1, FS_Subset, FS_CardinalityType, FinitenessAssumption

\* A worker enters Released once, by ReleaseWorkerLeases.
LEMMA ReleasedStep ==
    ASSUME TypeOK, [Next]_vars
    PROVE  \/ Released' = Released
           \/ \E w \in Worker : ReleaseWorkerLeases(w)
<1>1. ASSUME UNCHANGED proc PROVE Released' = Released
  BY <1>1 DEF Released
<1>2. ASSUME NEW w \in Worker, proc[w] \notin {"released", "exited"},
             NEW p \in {"up", "halted", "draining", "crashed"}, proc' = [proc EXCEPT ![w] = p]
      PROVE  Released' = Released
  BY <1>2, TypeParts DEF Released, ProcTypes
<1>3. ASSUME NEW w \in Worker, UnregisterWorker(w) PROVE Released' = Released
  BY <1>3, TypeParts DEF UnregisterWorker, Released, ProcTypes
<1>4. ASSUME NEW w \in Worker, Heartbeat(w) \/ RegisterWorker(w) \/ Sigterm(w) \/ Crash(w)
      PROVE  Released' = Released
  <2>1. CASE Heartbeat(w)
    <3>1. proc[w] \notin {"released", "exited"}
      BY <2>1 DEF Heartbeat, Running
    <3>2. UNCHANGED proc \/ proc' = [proc EXCEPT ![w] = "halted"]
      BY <2>1 DEF Heartbeat
    <3>3. CASE proc' = [proc EXCEPT ![w] = "halted"]
      BY <3>1, <3>3, TypeParts DEF Released, ProcTypes
    <3> QED
      BY <1>1, <3>2, <3>3
  <2>2. CASE RegisterWorker(w)
    BY <1>2, <2>2 DEF RegisterWorker
  <2>3. CASE Sigterm(w)
    BY <1>2, <2>3 DEF Sigterm, Running
  <2>4. CASE Crash(w)
    BY <1>2, <2>4 DEF Crash, Running
  <2> QED
    BY <1>4, <2>1, <2>2, <2>3, <2>4
<1>5. ASSUME NEW j \in Job, NEW n \in Claim, Execute(j, n) PROVE UNCHANGED proc
  BY <1>5 DEF Execute, RecordExecutionStart, HandlerReturns, CompleteJob, CompleteJobLost,
     CompleteJobError, FailJob, FailJobNotApplied, DeferJob, DeferJobNotApplied,
     RecordExecutionEnd
<1> QED
  BY <1>1, <1>3, <1>4, <1>5 DEF Next, vars, EnqueueJobs, ClaimJobs, RenewLeases,
     ReapExpiredLeases, ReapDeadWorkers, HeartbeatLapses, LeaseExpires, BackoffElapses

LEMMA ReleaseCounts ==
    ASSUME TypeOK, NEW w \in Worker, ReleaseWorkerLeases(w)
    PROVE  Cardinality(Released') = Cardinality(Released) + 1
<1>1. Released' = Released \cup {w} /\ w \notin Released
  BY TypeParts DEF ReleaseWorkerLeases, Released, ProcTypes
<1> QED
  BY <1>1, ReleasedIsFinite, FS_AddElement

LEMMA AttemptsStep ==
    ASSUME TypeOK, AttemptsLeft, [Next]_vars
    PROVE  AttemptsLeft'
<1>0. JobTypes /\ Cardinality(Released) \in Nat /\ MaxAttempts \in Nat
  BY TypeParts, ReleasedIsFinite, MaxAttemptsAssumption
<1> DEFINE Bound == MaxAttempts + Cardinality(Released)
<1>1. ASSUME NEW w \in Worker, ReleaseWorkerLeases(w) PROVE AttemptsLeft'
  <2>1. attempts' = attempts
    BY <1>1 DEF ReleaseWorkerLeases
  <2>2. Cardinality(Released)' = Cardinality(Released) + 1
    BY <1>1, ReleaseCounts
  <2>3. \A j \in Job : attempts[j] \in Nat /\ attempts[j] <= Bound
    BY <1>0 DEF AttemptsLeft, JobTypes
  <2> QED
    BY <1>0, <2>1, <2>2, <2>3 DEF AttemptsLeft
<1>2. CASE Released' = Released
  <2>0. Cardinality(Released)' = Cardinality(Released)
    BY <1>2
  <2> SUFFICES ASSUME NEW j \in Job
               PROVE  /\ attempts'[j] <= Bound
                      /\ status'[j] \in {"absent", "pending"} => attempts'[j] < Bound
    BY <2>0 DEF AttemptsLeft
  <2>1. attempts[j] \in Nat /\ attempts[j] <= Bound /\ MaxAttempts <= Bound /\ Bound \in Nat
    BY <1>0 DEF AttemptsLeft, JobTypes
  <2>2. status[j] \in {"absent", "pending"} => attempts[j] < Bound
    BY DEF AttemptsLeft
  <2>3. ASSUME NEW J \in SUBSET Job, EnqueueJobs(J)
        PROVE  attempts'[j] = attempts[j] /\
               (status'[j] \in {"absent", "pending"} => status[j] \in {"absent", "pending"})
    BY <2>3 DEF EnqueueJobs
  <2>4. ASSUME NEW w \in Worker, NEW J \in SUBSET Job, NEW d \in BOOLEAN, ClaimJobs(w, J, d)
        PROVE  /\ attempts'[j] <= Bound
               /\ status'[j] \in {"absent", "pending"} => attempts'[j] < Bound
    <3>1. CASE j \in J
      <4>1. status[j] = "pending" /\ status'[j] = "running" /\ attempts'[j] = attempts[j] + 1
        BY <2>4, <3>1 DEF ClaimJobs, Claimable
      <4> QED
        BY <2>1, <2>2, <4>1
    <3>2. CASE j \notin J
      <4>1. status'[j] = status[j] /\ attempts'[j] = attempts[j]
        BY <2>4, <3>2 DEF ClaimJobs
      <4> QED
        BY <2>1, <2>2, <4>1
    <3> QED
      BY <3>1, <3>2
  <2>5. ASSUME NEW w \in Worker, NEW J \in SUBSET Job, ReapExpiredLeases(w, J)
        PROVE  /\ attempts'[j] <= Bound
               /\ status'[j] \in {"absent", "pending"} => attempts'[j] < Bound
    <3>1. attempts'[j] = attempts[j]
      BY <2>5 DEF ReapExpiredLeases
    <3>2. status'[j] \in {"absent", "pending"} =>
              status[j] \in {"absent", "pending"} \/ ~(attempts[j] >= MaxAttempts)
      BY <2>5 DEF ReapExpiredLeases, Spent
    <3> QED
      BY <1>0, <2>1, <2>2, <3>1, <3>2
  <2>6. ASSUME NEW k \in Job, NEW n \in Claim, Execute(k, n)
        PROVE  /\ attempts'[j] <= Bound
               /\ status'[j] \in {"absent", "pending"} => attempts'[j] < Bound
    <3>1. CASE UNCHANGED jobVars
      BY <2>1, <2>2, <3>1 DEF jobVars
    <3>2. CASE CompleteJob(k, n)
      <4>1. attempts' = attempts /\ status'[j] \in {status[j], "succeeded"}
        BY <1>0, <3>2 DEF CompleteJob, JobTypes
      <4> QED
        BY <2>1, <2>2, <4>1
    <3>3. CASE FailJob(k, n)
      <4>1. attempts' = attempts
        BY <3>3 DEF FailJob
      <4>2. status'[j] \in {"absent", "pending"} =>
                status[j] \in {"absent", "pending"} \/ ~(attempts[j] >= MaxAttempts)
        BY <1>0, <3>3 DEF FailJob, Spent, Retry, JobTypes
      <4> QED
        BY <1>0, <2>1, <2>2, <4>1, <4>2
    <3>4. CASE DeferJob(k, n)
      <4>1. attempts' = [attempts EXCEPT ![k] = IF @ > 0 THEN @ - 1 ELSE 0]
            /\ status' = [status EXCEPT ![k] = "pending"]
        BY <3>4 DEF DeferJob, Retry
      <4>2. CASE j = k
        <5>1. attempts'[j] = IF attempts[j] > 0 THEN attempts[j] - 1 ELSE 0
          BY <1>0, <4>1, <4>2 DEF JobTypes
        <5>2. Bound > 0
          BY <1>0, MaxAttemptsAssumption
        <5> QED
          BY <2>1, <5>1, <5>2
      <4>3. CASE j # k
        BY <1>0, <2>1, <2>2, <4>1, <4>3 DEF JobTypes
      <4> QED
        BY <4>2, <4>3
    <3> QED
      BY <2>6, <3>1, <3>2, <3>3, <3>4 DEF Execute, RecordExecutionStart, HandlerReturns,
         CompleteJobLost, CompleteJobError, FailJobNotApplied, DeferJobNotApplied,
         RecordExecutionEnd
  <2>7. CASE UNCHANGED <<status, attempts>>
    BY <2>1, <2>2, <2>7
  <2>8. CASE \E w \in Worker : ReleaseWorkerLeases(w)
    BY <1>1, <2>0, <2>8 DEF AttemptsLeft
  <2> QED
    BY <2>1, <2>2, <2>3, <2>4, <2>5, <2>6, <2>7, <2>8
       DEF Next, vars, jobVars, ReapDeadWorkers, Heartbeat, RegisterWorker, Sigterm,
           UnregisterWorker, Crash, HeartbeatLapses, BackoffElapses, LeaseExpires, RenewLeases
<1> QED
  BY <1>1, <1>2, ReleasedStep

\* attempt_count exceeds max_attempts by no more than the number of workers
\* that were shut down: only ReleaseWorkerLeases hands out an extra attempt.
THEOREM AttemptsAreBounded == Spec => []AttemptsBounded
<1>1. Init => AttemptsLeft
  BY ReleasedIsFinite, MaxAttemptsAssumption DEF Init, AttemptsLeft
<1>2. TypeOK /\ AttemptsLeft /\ [Next]_vars => AttemptsLeft'
  BY AttemptsStep
<1>3. AttemptsLeft => AttemptsBounded
  BY DEF AttemptsLeft, AttemptsBounded
<1> QED
  BY <1>1, <1>2, <1>3, TypeCorrect, PTL DEF Spec

-----------------------------------------------------------------------------
(* The slots of a worker *)

LEMMA InFlightIsFinite ==
    ASSUME NEW w \in Worker
    PROVE  IsFiniteSet(InFlight(w)) /\ Cardinality(InFlight(w)) \in Nat
<1>1. IsFiniteSet(Claim)
  BY FS_Interval, BoundsAssumption DEF Claim
<1>2. IsFiniteSet(Job \X Claim)
  BY <1>1, FS_Product, FinitenessAssumption
<1>3. InFlight(w) \in SUBSET (Job \X Claim)
  BY DEF InFlight
<1> QED
  BY <1>2, <1>3, FS_Subset, FS_CardinalityType

\* Only a claim starts goroutines, one for each row that it takes.
LEMMA InFlightStep ==
    ASSUME TypeOK, [Next]_vars, NEW w \in Worker
    PROVE  \/ InFlight(w)' \subseteq InFlight(w)
           \/ \E J \in SUBSET Job, d \in BOOLEAN :
                 /\ ClaimJobs(w, J, d)
                 /\ InFlight(w)' \subseteq InFlight(w) \cup {<<j, claims[j] + 1>> : j \in J}
<1>0. ExecTypes
  BY TypeParts
<1>1. CASE UNCHANGED <<runner, pc>>
  BY <1>1 DEF InFlight
<1>2. ASSUME NEW v \in Worker, NEW J \in SUBSET Job, NEW d \in BOOLEAN, ClaimJobs(v, J, d)
      PROVE  \/ InFlight(w)' \subseteq InFlight(w)
             \/ /\ v = w
                /\ InFlight(w)' \subseteq InFlight(w) \cup {<<j, claims[j] + 1>> : j \in J}
  <2>1. ASSUME NEW x \in InFlight(w)'
        PROVE  x \in InFlight(w) \/ (v = w /\ x \in {<<j, claims[j] + 1>> : j \in J})
    <3>1. PICK j \in Job, n \in Claim : x = <<j, n>>
      BY <2>1 DEF InFlight
    <3>2. runner'[j][n] = w /\ pc'[j][n] \in Alive
      BY <2>1, <3>1 DEF InFlight
    <3>3. CASE j \in J /\ n = claims[j] + 1
      <4>1. runner'[j][n] = v
        BY <1>0, <1>2, <3>3 DEF ClaimJobs, ExecTypes
      <4> QED
        BY <3>1, <3>2, <3>3, <4>1
    <3>4. CASE ~(j \in J /\ n = claims[j] + 1)
      <4>1. runner'[j][n] = runner[j][n] /\ pc'[j][n] = pc[j][n]
        BY <1>0, <1>2, <3>4 DEF ClaimJobs, ExecTypes
      <4> QED
        BY <3>1, <3>2, <4>1 DEF InFlight
    <3> QED
      BY <3>3, <3>4
  <2> QED
    BY <2>1
<1>3. ASSUME NEW v \in Worker, UnregisterWorker(v) \/ Crash(v)
      PROVE  InFlight(w)' \subseteq InFlight(w)
  <2>1. KillGoroutines(v) /\ UNCHANGED runner
    BY <1>3 DEF UnregisterWorker, Crash
  <2>2. "done" \notin Alive
    BY DEF Alive, Result, Verdict
  <2>3. ASSUME NEW j \in Job, NEW n \in Claim, pc'[j][n] \in Alive
        PROVE  pc[j][n] \in Alive
    BY <2>1, <2>2, <2>3 DEF KillGoroutines
  <2> QED
    BY <2>1, <2>3 DEF InFlight
<1>4. ASSUME NEW j \in Job, NEW n \in Claim, Execute(j, n)
      PROVE  InFlight(w)' \subseteq InFlight(w)
  <2>1. pc[j][n] \in Alive /\ UNCHANGED runner /\ \E label \in Alive \cup {"done"} : Goto(j, n, label)
    BY <1>4 DEF Execute, RecordExecutionStart, HandlerReturns, CompleteJob, CompleteJobLost,
       CompleteJobError, FailJob, FailJobNotApplied, DeferJob, DeferJobNotApplied,
       RecordExecutionEnd, Alive, Result, Verdict
  <2>2. ASSUME NEW k \in Job, NEW m \in Claim, pc'[k][m] \in Alive
        PROVE  pc[k][m] \in Alive
    BY <1>0, <2>1, <2>2 DEF Goto, ExecTypes
  <2> QED
    BY <2>1, <2>2 DEF InFlight
<1> QED
  BY <1>1, <1>2, <1>3, <1>4 DEF Next, vars, execVars, EnqueueJobs, RenewLeases,
     ReapExpiredLeases, ReapDeadWorkers, Heartbeat, RegisterWorker, Sigterm,
     ReleaseWorkerLeases, HeartbeatLapses, LeaseExpires, BackoffElapses

LEMMA ConcurrencyStep ==
    ASSUME TypeOK, WithinConcurrency, [Next]_vars
    PROVE  WithinConcurrency'
<1> SUFFICES ASSUME NEW w \in Worker
             PROVE  Cardinality(InFlight(w)') <= Concurrency
  BY DEF WithinConcurrency
<1>0. /\ IsFiniteSet(InFlight(w))
      /\ Cardinality(InFlight(w)) \in Nat
      /\ Cardinality(InFlight(w)) <= Concurrency
      /\ Concurrency \in Nat
  BY InFlightIsFinite, ConcurrencyAssumption DEF WithinConcurrency
<1>1. CASE InFlight(w)' \subseteq InFlight(w)
  <2>1. IsFiniteSet(InFlight(w)') /\ Cardinality(InFlight(w)') <= Cardinality(InFlight(w))
    BY <1>0, <1>1, FS_Subset
  <2>2. Cardinality(InFlight(w)') \in Nat
    BY <2>1, FS_CardinalityType
  <2> QED
    BY <1>0, <2>1, <2>2
<1>2. ASSUME NEW J \in SUBSET Job, NEW d \in BOOLEAN, ClaimJobs(w, J, d),
             InFlight(w)' \subseteq InFlight(w) \cup {<<j, claims[j] + 1>> : j \in J}
      PROVE  Cardinality(InFlight(w)') <= Concurrency
  <2> DEFINE started == {<<j, claims[j] + 1>> : j \in J}
             start   == [j \in J |-> <<j, claims[j] + 1>>]
  <2>1. IsFiniteSet(J) /\ Cardinality(J) \in Nat
    BY FinitenessAssumption, FS_Subset, FS_CardinalityType
  <2>2. start \in Surjection(J, started)
    BY DEF Surjection
  <2>3. IsFiniteSet(started) /\ Cardinality(started) <= Cardinality(J)
    <3> HIDE DEF started, start
    <3> QED
      BY <2>1, <2>2, FS_Surjection
  <2>4. Cardinality(started) \in Nat
    <3> HIDE DEF started
    <3> QED
      BY <2>3, FS_CardinalityType
  <2>5. Cardinality(J) <= Concurrency - Cardinality(InFlight(w))
    BY <1>2 DEF ClaimJobs, FreeSlots
  <2> HIDE DEF started
  <2>6. IsFiniteSet(InFlight(w) \cup started)
        /\ Cardinality(InFlight(w) \cup started) =
             Cardinality(InFlight(w)) + Cardinality(started)
               - Cardinality(InFlight(w) \cap started)
    BY <1>0, <2>3, FS_Union
  <2>7. Cardinality(InFlight(w) \cap started) \in Nat
    BY <1>0, FS_Subset, FS_CardinalityType
  <2>8. InFlight(w)' \in SUBSET (InFlight(w) \cup started)
    BY <1>2 DEF started
  <2>9. IsFiniteSet(InFlight(w)')
        /\ Cardinality(InFlight(w)') <= Cardinality(InFlight(w) \cup started)
    BY <2>6, <2>8, FS_Subset
  <2>10. Cardinality(InFlight(w)') \in Nat
    BY <2>9, FS_CardinalityType
  <2> QED
    BY <1>0, <2>1, <2>3, <2>4, <2>5, <2>6, <2>7, <2>9, <2>10
<1> QED
  BY <1>1, <1>2, InFlightStep

\* No worker ever runs more goroutines than it has slots, however claims, late
\* goroutines of rows it lost, and deaths interleave.
THEOREM ConcurrencyIsBounded == Spec => []WithinConcurrency
<1>1. Init => WithinConcurrency
  <2> SUFFICES ASSUME Init, NEW w \in Worker PROVE Cardinality(InFlight(w)) <= Concurrency
    BY DEF WithinConcurrency
  <2>1. InFlight(w) = {}
    BY DEF Init, InFlight, Alive, Result, Verdict
  <2> QED
    BY <2>1, FS_EmptySet, ConcurrencyAssumption
<1>2. TypeOK /\ WithinConcurrency /\ [Next]_vars => WithinConcurrency'
  BY ConcurrencyStep
<1> QED
  BY <1>1, <1>2, TypeCorrect, PTL DEF Spec

-----------------------------------------------------------------------------
(* The lease protects the holder *)

LEMMA ExclusiveStep ==
    ASSUME TypeOK, LeaseNamesLatestClaimant, [Next]_vars,
           NEW j \in Job, lease[j] = "live", status'[j] # "running"
    PROVE  \/ \E n \in Claim : runner[j][n] = leasedBy[j] /\ pc[j][n] # pc'[j][n]
           \/ proc[leasedBy[j]] = "draining"
<1>0. JobTypes /\ ExecTypes
  BY TypeParts
<1>1. status[j] = "running"
  BY DEF LeaseNamesLatestClaimant
<1>2. ASSUME NEW J \in SUBSET Job, EnqueueJobs(J) PROVE FALSE
  BY <1>1, <1>2 DEF EnqueueJobs
<1>3. ASSUME NEW w \in Worker, NEW J \in SUBSET Job, NEW d \in BOOLEAN, ClaimJobs(w, J, d)
      PROVE FALSE
  BY <1>1, <1>3 DEF ClaimJobs
<1>4. ASSUME NEW w \in Worker, NEW J \in SUBSET Job, ReapExpiredLeases(w, J) PROVE FALSE
  <2>1. j \notin J
    BY <1>4 DEF ReapExpiredLeases, Expired
  <2> QED
    BY <1>1, <1>4, <2>1 DEF ReapExpiredLeases
<1>5. ASSUME NEW w \in Worker, ReleaseWorkerLeases(w) PROVE proc[leasedBy[j]] = "draining"
  <2>1. j \in HeldBy(w)
    BY <1>1, <1>5 DEF ReleaseWorkerLeases
  <2> QED
    BY <1>5, <2>1 DEF ReleaseWorkerLeases, HeldBy
<1>6. ASSUME NEW k \in Job, NEW n \in Claim, Execute(k, n)
      PROVE  \E m \in Claim : runner[j][m] = leasedBy[j] /\ pc[j][m] # pc'[j][m]
  <2>1. ~ UNCHANGED jobVars
    BY <1>1 DEF jobVars
  <2>2. Owns(k, n) /\ \E s \in {"pending", "succeeded", "dead"} :
                          status' = [status EXCEPT ![k] = s]
    BY <1>6, <2>1, ExecuteHolding
  <2>3. k = j
    BY <1>0, <1>1, <2>2 DEF JobTypes
  <2>4. runner[j][n] = leasedBy[j]
    BY <2>2, <2>3 DEF Owns, HeldBy
  <2>5. \E label \in Alive \cup {"done"} : Goto(k, n, label) /\ label # pc[k][n]
    BY <1>6 DEF Execute, RecordExecutionStart, HandlerReturns, CompleteJob, CompleteJobLost,
       CompleteJobError, FailJob, FailJobNotApplied, DeferJob, DeferJobNotApplied,
       RecordExecutionEnd, Alive, Result, Verdict
  <2>6. pc'[j][n] # pc[j][n]
    BY <1>0, <2>3, <2>5 DEF Goto, ExecTypes
  <2> QED
    BY <2>4, <2>6
<1>7. CASE UNCHANGED status
  BY <1>1, <1>7
<1> QED
  BY <1>2, <1>3, <1>4, <1>5, <1>6, <1>7
     DEF Next, vars, jobVars, ReapDeadWorkers, Heartbeat, RegisterWorker, Sigterm,
         UnregisterWorker, Crash, HeartbeatLapses, BackoffElapses, LeaseExpires, RenewLeases

\* A row with a live lease is given up by its holder alone: no other worker, no
\* reaper and no other worker's shutdown takes it away.
THEOREM LeaseProtectsHolder == Spec => LiveLeaseIsExclusive
<1>1. TypeOK /\ LeaseNamesLatestClaimant /\ [Next]_vars
      => [\A j \in Job : lease[j] = "live" /\ status'[j] # "running" =>
            \/ \E n \in Claim : runner[j][n] = leasedBy[j] /\ pc[j][n] # pc'[j][n]
            \/ proc[leasedBy[j]] = "draining"]_vars
  BY ExclusiveStep
<1> QED
  BY <1>1, TypeCorrect, LeaseSafety, PTL DEF Spec, LiveLeaseIsExclusive


-----------------------------------------------------------------------------
(* Which claims exist *)

\* A claim that was not made yet has no goroutine, and one that was made has a
\* worker.
ClaimSlots ==
    \A j \in Job, n \in Claim :
        IF n <= claims[j] THEN runner[j][n] \in Worker ELSE pc[j][n] = "none"

\* A goroutine keeps to its claim: it moves its own pc, from a label of a
\* claim that was made.
LEMMA ExecuteMoves ==
    ASSUME NEW j \in Job, NEW n \in Claim, Execute(j, n)
    PROVE  /\ pc[j][n] # "none"
           /\ \E label : Goto(j, n, label)
           /\ UNCHANGED <<claims, runner>>
<1>1. pc[j][n] \in {"starting", "handling"} \cup Result \cup Verdict
  BY DEF Execute, RecordExecutionStart, HandlerReturns, CompleteJob, CompleteJobLost,
     CompleteJobError, FailJob, FailJobNotApplied, DeferJob, DeferJobNotApplied,
     RecordExecutionEnd, Result
<1>2. \E label : Goto(j, n, label)
  BY DEF Execute, RecordExecutionStart, HandlerReturns, CompleteJob, CompleteJobLost,
     CompleteJobError, FailJob, FailJobNotApplied, DeferJob, DeferJobNotApplied,
     RecordExecutionEnd
<1> QED
  BY <1>1, <1>2, ExecuteHolding DEF Result, Verdict

LEMMA ClaimSlotsStep ==
    ASSUME TypeOK, ClaimSlots, [Next]_vars
    PROVE  ClaimSlots'
<1>0. ExecTypes
  BY TypeParts
<1>1. CASE UNCHANGED <<claims, runner, pc>>
  BY <1>1 DEF ClaimSlots
<1>2. ASSUME NEW w \in Worker, NEW J \in SUBSET Job, NEW d \in BOOLEAN, ClaimJobs(w, J, d)
      PROVE ClaimSlots'
  <2> SUFFICES ASSUME NEW j \in Job, NEW n \in Claim
               PROVE IF n <= claims'[j] THEN runner'[j][n] \in Worker ELSE pc'[j][n] = "none"
    BY DEF ClaimSlots
  <2>0. claims[j] \in Int /\ n \in Int
    BY <1>0, BoundsAssumption DEF ExecTypes, Claim
  <2>1. CASE j \in J
    <3>1. claims'[j] = claims[j] + 1
      BY <1>2, <2>1 DEF ClaimJobs
    <3>2. CASE n = claims[j] + 1
      <4>1. runner'[j][n] = w
        BY <1>0, <1>2, <2>1, <3>2 DEF ClaimJobs, ExecTypes
      <4> QED
        BY <2>0, <3>1, <3>2, <4>1
    <3>3. CASE n # claims[j] + 1
      <4>1. runner'[j][n] = runner[j][n] /\ pc'[j][n] = pc[j][n]
        BY <1>0, <1>2, <2>1, <3>3 DEF ClaimJobs, ExecTypes
      <4> QED
        BY <2>0, <3>1, <3>3, <4>1 DEF ClaimSlots
    <3> QED
      BY <3>2, <3>3
  <2>2. CASE j \notin J
    BY <1>2, <2>2 DEF ClaimJobs, ClaimSlots
  <2> QED
    BY <2>1, <2>2
<1>3. ASSUME NEW j \in Job, NEW n \in Claim, Execute(j, n) PROVE ClaimSlots'
  <2>1. PICK label : Goto(j, n, label)
    BY <1>3, ExecuteMoves
  <2>2. \A k \in Job, m \in Claim : (k # j \/ m # n) => pc'[k][m] = pc[k][m]
    BY <1>0, <2>1 DEF Goto, ExecTypes
  <2>3. claims[j] \in Int
    BY <1>0, BoundsAssumption DEF ExecTypes
  <2>4. n <= claims[j]
    BY <1>3, ExecuteMoves DEF ClaimSlots
  <2> QED
    BY <1>3, <2>2, <2>4, ExecuteMoves DEF ClaimSlots
<1>4. ASSUME NEW w \in Worker, KillGoroutines(w), UNCHANGED <<claims, runner>>
      PROVE ClaimSlots'
  <2>1. \A j \in Job, n \in Claim : pc[j][n] = "none" => pc'[j][n] = "none"
    BY <1>4 DEF KillGoroutines, InFlight, Alive, Result, Verdict
  <2> QED
    BY <1>4, <2>1 DEF ClaimSlots
<1> QED
  BY <1>1, <1>2, <1>3, <1>4
     DEF Next, vars, jobVars, execVars, EnqueueJobs, RenewLeases, ReapExpiredLeases,
         ReapDeadWorkers, Heartbeat, RegisterWorker, Sigterm, ReleaseWorkerLeases,
         UnregisterWorker, Crash, HeartbeatLapses, BackoffElapses, LeaseExpires

LEMMA ClaimSlotsAlways == Spec => []ClaimSlots
<1>1. Init => ClaimSlots
  BY BoundsAssumption DEF Init, ClaimSlots, Claim
<1>2. TypeOK /\ ClaimSlots /\ [Next]_vars => ClaimSlots'
  BY ClaimSlotsStep
<1> QED
  BY <1>1, <1>2, TypeCorrect, PTL DEF Spec

-----------------------------------------------------------------------------
(* What the mapping sees of a step *)

LEMMA TakersStay ==
    ASSUME UNCHANGED <<claims, runner>> PROVE Takers' = Takers
  BY DEF Takers

\* Steps that neither finish a run nor lose a finished one.
LEMMA ReadyStays ==
    ASSUME UNCHANGED runner,
           \A j \in Job, n \in Claim : (pc'[j][n] = "ok") <=> (pc[j][n] = "ok")
    PROVE  Ready' = Ready
<1>1. \A j \in Job : {m \in Claim : pc'[j][m] = "ok"} = {m \in Claim : pc[j][m] = "ok"}
  OBVIOUS
<1> QED
  BY <1>1 DEF Ready

\* Steps that finish no run.
LEMMA ReadyShrinks ==
    ASSUME TypeOK, ClaimSlots, UNCHANGED runner,
           \A j \in Job, n \in Claim : pc'[j][n] = "ok" => pc[j][n] = "ok"
    PROVE  /\ Ready' \in [Job -> SUBSET Worker]
           /\ \A j \in Job : Ready'[j] \subseteq Ready[j]
<1>0. ExecTypes
  BY TypeParts
<1>1. \A j \in Job, n \in Claim : pc'[j][n] = "ok" => runner[j][n] \in Worker
  <2> SUFFICES ASSUME NEW j \in Job, NEW n \in Claim, pc'[j][n] = "ok"
               PROVE  runner[j][n] \in Worker
    OBVIOUS
  <2>1. pc[j][n] # "none"
    OBVIOUS
  <2> QED
    BY <2>1 DEF ClaimSlots
<1>2. \A j \in Job : Ready'[j] \in SUBSET Worker
  BY <1>1 DEF Ready
<1>3. \A j \in Job : Ready'[j] \subseteq Ready[j]
  BY DEF Ready
<1> QED
  BY <1>2, <1>3 DEF Ready

\* One goroutine moves; the others stay where they are.
LEMMA OneMoves ==
    ASSUME TypeOK, NEW j \in Job, NEW n \in Claim, NEW label, Goto(j, n, label)
    PROVE  /\ pc'[j][n] = label
           /\ \A k \in Job, m \in Claim : (k # j \/ m # n) => pc'[k][m] = pc[k][m]
<1>0. ExecTypes
  BY TypeParts
<1> QED
  BY <1>0 DEF Goto, ExecTypes

-----------------------------------------------------------------------------
(* Every step is a step of the contract *)

\* Running rows that end without success, by whatever statement.
LEMMA GiveUpStep ==
    ASSUME TypeOK, TypeOK', NEW J \in SUBSET Job,
           \A j \in J : status[j] = "running" /\ status'[j] \in {"pending", "dead"},
           \A j \in Job \ J : status'[j] = status[j],
           leasedBy' = [j \in Job |-> IF j \in J THEN NoWorker ELSE leasedBy[j]],
           UNCHANGED <<Takers, Ready>>
    PROVE  Contract!GiveUp(J)
<1>1. status' \in [Job -> {"absent", "pending", "running", "succeeded", "dead"}]
  BY DEF TypeOK, JobStatus, Terminal
<1> QED
  BY <1>1 DEF Contract!GiveUp

\* A goroutine's report makes its row succeed, gives it up or leaves it alone.
LEMMA ExecuteContract ==
    ASSUME TypeOK, TypeOK', LeaseNamesLatestClaimant, ClaimSlots,
           NEW j \in Job, NEW n \in Claim, Execute(j, n)
    PROVE  Contract!Next \/ UNCHANGED Contract!vars
<1>0. JobTypes /\ ExecTypes
  BY TypeParts
<1>1. UNCHANGED <<claims, runner>> /\ UNCHANGED Takers
  BY ExecuteMoves, TakersStay
<1>2. runner[j][n] \in Worker /\ n \in 1..claims[j]
  <2>1. pc[j][n] # "none"
    BY ExecuteMoves
  <2>2. n <= claims[j] /\ runner[j][n] \in Worker
    BY <2>1 DEF ClaimSlots
  <2> QED
    BY <1>0, <2>2 DEF ExecTypes, Claim
<1>3. PICK label : Goto(j, n, label)
  BY ExecuteMoves
<1>4. /\ pc'[j][n] = label
      /\ \A k \in Job, m \in Claim : (k # j \/ m # n) => pc'[k][m] = pc[k][m]
  BY <1>3, OneMoves
<1>5. CASE UNCHANGED <<status, leasedBy>> /\ label # "ok"
  <2>1. Contract!Forget
    <3>1. Ready' \in [Job -> SUBSET Worker] /\ \A k \in Job : Ready'[k] \subseteq Ready[k]
      BY <1>1, <1>4, <1>5, ReadyShrinks
    <3> QED
      BY <1>1, <1>5, <3>1 DEF Contract!Forget, Contract!Shrinks
  <2> QED
    BY <2>1 DEF Contract!Next
<1>6. CASE HandlerReturns(j, n) /\ label = "ok"
  <2>1. runner[j][n] \in Takers[j]
    BY <1>2 DEF Takers
  <2>2. UNCHANGED <<status, leasedBy>>
    BY <1>6 DEF HandlerReturns, jobVars
  <2>3. \A k \in Job : k # j => Ready'[k] = Ready[k]
    BY <1>1, <1>4 DEF Ready
  <2>4. Ready'[j] = Ready[j] \cup {runner[j][n]}
    <3>1. {m \in Claim : pc'[j][m] = "ok"} = {m \in Claim : pc[j][m] = "ok"} \cup {n}
      BY <1>4, <1>6
    <3> QED
      BY <1>1, <3>1 DEF Ready
  <2>5. Ready' = [Ready EXCEPT ![j] = @ \cup {runner[j][n]}]
    BY <2>3, <2>4 DEF Ready
  <2>6. Contract!Finish(j, runner[j][n])
    BY <1>1, <2>1, <2>2, <2>5 DEF Contract!Finish
  <2> QED
    BY <1>2, <2>6 DEF Contract!Next
<1>7. CASE CompleteJob(j, n)
  <2>1. label # "ok"
    BY <1>0, <1>4, <1>7 DEF CompleteJob, Goto, ExecTypes
  <2>2. Ready' \in [Job -> SUBSET Worker] /\ \A k \in Job : Ready'[k] \subseteq Ready[k]
    BY <1>1, <1>4, <2>1, ReadyShrinks
  <2>3. leasedBy[j] \in Ready[j] /\ status[j] = "running"
    BY <1>7 DEF CompleteJob, Owns, HeldBy, Ready
  <2>4. /\ status' = [status EXCEPT ![j] = "succeeded"]
        /\ leasedBy' = [leasedBy EXCEPT ![j] = NoWorker]
    BY <1>7 DEF CompleteJob, Unlease
  <2>5. Contract!Succeed(j)
    BY <1>1, <2>2, <2>3, <2>4 DEF Contract!Succeed, Contract!Shrinks
  <2> QED
    BY <2>5 DEF Contract!Next
<1>8. CASE FailJob(j, n) \/ DeferJob(j, n)
  <2>1. UNCHANGED Ready
    <3>1. pc[j][n] # "ok" /\ label # "ok"
      BY <1>0, <1>4, <1>8 DEF FailJob, DeferJob, Goto, ExecTypes
    <3> QED
      BY <1>1, <1>4, <3>1, ReadyStays
  <2>2. status[j] = "running" /\ status'[j] \in {"pending", "dead"}
    BY <1>0, <1>8 DEF FailJob, DeferJob, Owns, HeldBy, Retry, JobTypes
  <2>3. \A k \in Job \ {j} : status'[k] = status[k]
    BY <1>0, <1>8 DEF FailJob, DeferJob, Retry, JobTypes
  <2>4. leasedBy' = [k \in Job |-> IF k \in {j} THEN NoWorker ELSE leasedBy[k]]
    BY <1>0, <1>8 DEF FailJob, DeferJob, Unlease, JobTypes
  <2>5. Contract!GiveUp({j})
    BY <1>1, <2>1, <2>2, <2>3, <2>4, GiveUpStep
  <2> QED
    BY <2>5 DEF Contract!Next
<1>9. CASE ~(CompleteJob(j, n) \/ FailJob(j, n) \/ DeferJob(j, n))
  <2>1. UNCHANGED <<status, leasedBy>>
    BY <1>9 DEF Execute, RecordExecutionStart, HandlerReturns, CompleteJobLost,
       CompleteJobError, FailJobNotApplied, DeferJobNotApplied, RecordExecutionEnd, jobVars
  <2>2. label # "ok" \/ HandlerReturns(j, n)
    BY <1>0, <1>4, <1>9 DEF Execute, RecordExecutionStart, CompleteJobLost,
       CompleteJobError, FailJobNotApplied, DeferJobNotApplied, RecordExecutionEnd,
       Goto, ExecTypes
  <2> QED
    BY <1>5, <1>6, <2>1, <2>2
<1> QED
  BY <1>7, <1>8, <1>9

\* A step of the queue is a step of the contract, or the contract does not see it.
LEMMA ContractStep ==
    ASSUME TypeOK, TypeOK', LeaseNamesLatestClaimant, ClaimSlots, [Next]_vars
    PROVE  Contract!Next \/ UNCHANGED Contract!vars
<1>0. JobTypes /\ ExecTypes
  BY TypeParts
<1>1. CASE UNCHANGED <<status, leasedBy, claims, runner, pc>>
  BY <1>1, TakersStay, ReadyStays DEF Contract!vars
<1>2. ASSUME NEW J \in SUBSET Job, EnqueueJobs(J) PROVE Contract!Next
  <2>1. UNCHANGED <<leasedBy, Takers, Ready>>
    BY <1>2, TakersStay, ReadyStays DEF EnqueueJobs, execVars
  <2>2. Contract!Submit(J)
    BY <1>2, <2>1 DEF EnqueueJobs, Contract!Submit
  <2> QED
    BY <2>2 DEF Contract!Next
<1>3. ASSUME NEW w \in Worker, NEW J \in SUBSET Job, NEW d \in BOOLEAN, ClaimJobs(w, J, d)
      PROVE Contract!Next
  <2>1. \A j \in J : /\ claims[j] \in Nat
                     /\ claims[j] + 1 \in Claim
                     /\ claims'[j] = claims[j] + 1
                     /\ runner'[j][claims[j] + 1] = w
                     /\ pc'[j][claims[j] + 1] # "ok"
                     /\ \A n \in Claim : n # claims[j] + 1 =>
                           runner'[j][n] = runner[j][n] /\ pc'[j][n] = pc[j][n]
    <3> SUFFICES ASSUME NEW j \in J
                 PROVE  /\ claims[j] \in Nat
                        /\ claims[j] + 1 \in Claim
                        /\ claims'[j] = claims[j] + 1
                        /\ runner'[j][claims[j] + 1] = w
                        /\ pc'[j][claims[j] + 1] # "ok"
                        /\ \A n \in Claim : n # claims[j] + 1 =>
                              runner'[j][n] = runner[j][n] /\ pc'[j][n] = pc[j][n]
      OBVIOUS
    <3>1. claims[j] \in Nat /\ claims[j] + 1 \in Claim
      BY <1>0, <1>3, BoundsAssumption DEF ClaimJobs, ExecTypes, Claim
    <3> QED
      BY <1>0, <1>3, <3>1 DEF ClaimJobs, ExecTypes
  <2>2. \A j \in Job \ J : /\ claims'[j] = claims[j]
                           /\ runner'[j] = runner[j]
                           /\ pc'[j] = pc[j]
    BY <1>3 DEF ClaimJobs
  <2>3. Takers' = [j \in Job |-> IF j \in J THEN Takers[j] \cup {w} ELSE Takers[j]]
    <3>1. ASSUME NEW j \in J PROVE Takers'[j] = Takers[j] \cup {w}
      <4>1. 1..claims'[j] = (1..claims[j]) \cup {claims[j] + 1}
        BY <2>1
      <4>2. 1..claims[j] \subseteq Claim /\ \A n \in 1..claims[j] : n # claims[j] + 1
        BY <2>1, BoundsAssumption DEF Claim
      <4>3. \A n \in 1..claims[j] : runner'[j][n] = runner[j][n]
        BY <2>1, <4>2
      <4> QED
        BY <2>1, <4>1, <4>3 DEF Takers
    <3>2. \A j \in Job \ J : Takers'[j] = Takers[j]
      BY <2>2 DEF Takers
    <3> QED
      BY <3>1, <3>2 DEF Takers
  <2>4. UNCHANGED Ready
    <3>1. ASSUME NEW j \in J PROVE Ready'[j] = Ready[j]
      <4>1. pc[j][claims[j] + 1] # "ok"
        BY <2>1 DEF ClaimSlots
      <4>2. {m \in Claim : pc'[j][m] = "ok"} = {m \in Claim : pc[j][m] = "ok"}
        BY <2>1, <4>1
      <4>3. \A m \in {k \in Claim : pc[j][k] = "ok"} : runner'[j][m] = runner[j][m]
        BY <2>1, <4>1
      <4> QED
        BY <4>2, <4>3, ZenonT(40) DEF Ready
    <3>2. \A j \in Job \ J : Ready'[j] = Ready[j]
      BY <2>2 DEF Ready
    <3> QED
      BY <3>1, <3>2 DEF Ready
  <2>5. Contract!Take(w, J)
    BY <1>3, <2>3, <2>4 DEF ClaimJobs, Claimable, Contract!Take
  <2> QED
    BY <2>5 DEF Contract!Next
<1>4. ASSUME NEW w \in Worker, NEW J \in SUBSET Job, ReapExpiredLeases(w, J)
      PROVE Contract!Next
  <2>1. UNCHANGED <<Takers, Ready>>
    BY <1>4, TakersStay, ReadyStays DEF ReapExpiredLeases
  <2>2. Contract!GiveUp(J)
    BY <1>4, <2>1, GiveUpStep DEF ReapExpiredLeases, Expired
  <2> QED
    BY <2>2 DEF Contract!Next
<1>5. ASSUME NEW w \in Worker, ReleaseWorkerLeases(w)
      PROVE Contract!Next \/ UNCHANGED Contract!vars
  <2>1. UNCHANGED <<claims, runner, pc>>
    BY <1>5 DEF ReleaseWorkerLeases, execVars
  <2>2. CASE UNCHANGED <<status, leasedBy>>
    BY <1>1, <2>1, <2>2
  <2>3. CASE ~ UNCHANGED <<status, leasedBy>>
    <3>1. UNCHANGED <<Takers, Ready>>
      BY <2>1, TakersStay, ReadyStays
    <3>2. HeldBy(w) \in SUBSET Job /\ \A j \in HeldBy(w) : status[j] = "running"
      BY DEF HeldBy
    <3>3. /\ status' = [j \in Job |-> IF j \in HeldBy(w) THEN "pending" ELSE status[j]]
          /\ leasedBy' = [j \in Job |-> IF j \in HeldBy(w) THEN NoWorker ELSE leasedBy[j]]
      BY <1>5, <2>3 DEF ReleaseWorkerLeases
    <3>4. Contract!GiveUp(HeldBy(w))
      BY <3>1, <3>2, <3>3, GiveUpStep
    <3> QED
      BY <3>2, <3>4 DEF Contract!Next
  <2> QED
    BY <2>2, <2>3
<1>6. ASSUME NEW w \in Worker, UnregisterWorker(w) \/ Crash(w) PROVE Contract!Next
  <2>1. KillGoroutines(w) /\ UNCHANGED <<status, leasedBy, claims, runner>>
    BY <1>6 DEF UnregisterWorker, Crash, jobVars
  <2>2. \A j \in Job, n \in Claim : pc'[j][n] = "ok" => pc[j][n] = "ok"
    BY <2>1 DEF KillGoroutines
  <2>3. Contract!Forget
    BY <2>1, <2>2, TakersStay, ReadyShrinks DEF Contract!Forget, Contract!Shrinks
  <2> QED
    BY <2>3 DEF Contract!Next
<1>7. ASSUME NEW j \in Job, NEW n \in Claim, Execute(j, n)
      PROVE Contract!Next \/ UNCHANGED Contract!vars
  BY <1>7, ExecuteContract
<1> QED
  BY <1>1, <1>2, <1>3, <1>4, <1>5, <1>6, <1>7
     DEF Next, vars, jobVars, execVars, RenewLeases, ReapDeadWorkers, Heartbeat,
         RegisterWorker, Sigterm, HeartbeatLapses, BackoffElapses, LeaseExpires

\* The queue keeps its contract: a job may be run many times and by several
\* workers at once, but it succeeds once, by a run that its present holder
\* finished, and no late report, reap or shutdown changes an outcome.
THEOREM QueueImplementsContract == Spec => ImplementsContract
<1>1. Init => Contract!Init
  BY BoundsAssumption DEF Init, Contract!Init, Takers, Ready
<1>2. TypeOK /\ TypeOK' /\ LeaseNamesLatestClaimant /\ ClaimSlots /\ [Next]_vars
      => [Contract!Next]_(Contract!vars)
  BY ContractStep
<1> QED
  BY <1>1, <1>2, TypeCorrect, LeaseSafety, ClaimSlotsAlways, PTL
     DEF Spec, ImplementsContract, Contract!Spec
=============================================================================
