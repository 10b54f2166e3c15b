----------------------------- MODULE MCJobQueue -----------------------------
(***************************************************************************)
(* Instances of JobQueue for TLC, given by the configurations queue_*.cfg, *)
(* and what the documents say of the queue that the code does not do.      *)
(***************************************************************************)
EXTENDS JobQueue

\* ARCHITECTURE.md, "Postgres restarts": workers stop claiming and resume. So a
\* pending job of a library with a live worker is claimed in the end, even when
\* an outage made the worker's heartbeat row go stale. (Worker.heartbeatLoop
\* closes stopClaiming for good, and Run then waits for a signal.)
OutageIsRiddenOut == \A j \in Job : status[j] = "pending" ~> status[j] # "pending"

\* store.RenewLeases and ARCHITECTURE.md, "Job exceeds its lease": a renewal
\* that comes up short makes the worker abandon what it lost. (Worker.renewLoop
\* only logs the short count, and the handler runs on.)
LostLeaseIsAbandoned ==
    [][\A w \in Worker, j \in Job, n \in Claim :
          RenewLeases(w) /\ runner[j][n] = w /\ pc[j][n] = "handling" /\ ~Owns(j, n)
             => pc'[j][n] # "handling"]_vars
=============================================================================
