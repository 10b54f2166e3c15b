---------------------------- MODULE QueueContract ----------------------------
(***************************************************************************)
(* What the job queue promises to those who enqueue and to those who       *)
(* handle jobs, with no word of leases, clocks, attempts or processes:     *)
(*                                                                         *)
(*   at least one run, exactly one outcome.                                *)
(*                                                                         *)
(* A job has at most one owner at a time. Any worker that ever owned it    *)
(* may still be running its handler, so a job may be run many times and by *)
(* several workers at once; but only a run that its present owner finished *)
(* makes the job succeed, and succeeded and dead are final.                *)
(***************************************************************************)
CONSTANTS Job, Worker, NoWorker

VARIABLES
    state,   \* state[j]: absent, pending, running, succeeded or dead
    owner,   \* owner[j]: the worker that holds j, or NoWorker
    takers,  \* takers[j]: the workers that ever held j
    ready    \* ready[j]: those with a finished, unreported run of j

vars == <<state, owner, takers, ready>>

Init ==
    /\ state = [j \in Job |-> "absent"]
    /\ owner = [j \in Job |-> NoWorker]
    /\ takers = [j \in Job |-> {}]
    /\ ready = [j \in Job |-> {}]

Submit(J) ==
    /\ \A j \in J : state[j] = "absent"
    /\ state' = [j \in Job |-> IF j \in J THEN "pending" ELSE state[j]]
    /\ UNCHANGED <<owner, takers, ready>>

Take(w, J) ==
    /\ \A j \in J : state[j] = "pending"
    /\ state' = [j \in Job |-> IF j \in J THEN "running" ELSE state[j]]
    /\ owner' = [j \in Job |-> IF j \in J THEN w ELSE owner[j]]
    /\ takers' = [j \in Job |-> IF j \in J THEN takers[j] \cup {w} ELSE takers[j]]
    /\ UNCHANGED ready

\* A handler run ends well, at the owner or at an earlier taker.
Finish(j, w) ==
    /\ w \in takers[j]
    /\ ready' = [ready EXCEPT ![j] = @ \cup {w}]
    /\ UNCHANGED <<state, owner, takers>>

Shrinks(r) == \A j \in Job : r[j] \subseteq ready[j]

\* Results are lost: refused, never reported, or gone with their process.
Forget ==
    /\ ready' \in [Job -> SUBSET Worker]
    /\ Shrinks(ready')
    /\ UNCHANGED <<state, owner, takers>>

\* The one way to succeed: the owner reports a run that it finished.
Succeed(j) ==
    /\ state[j] = "running"
    /\ owner[j] \in ready[j]
    /\ state' = [state EXCEPT ![j] = "succeeded"]
    /\ owner' = [owner EXCEPT ![j] = NoWorker]
    /\ ready' \in [Job -> SUBSET Worker]
    /\ Shrinks(ready')
    /\ UNCHANGED takers

\* Running jobs end without success: some are queued again, others are dead.
GiveUp(J) ==
    /\ \A j \in J : state[j] = "running"
    /\ state' \in [Job -> {"absent", "pending", "running", "succeeded", "dead"}]
    /\ \A j \in Job : IF j \in J THEN state'[j] \in {"pending", "dead"}
                                 ELSE state'[j] = state[j]
    /\ owner' = [j \in Job |-> IF j \in J THEN NoWorker ELSE owner[j]]
    /\ UNCHANGED <<takers, ready>>

Next ==
    \/ \E J \in SUBSET Job : Submit(J) \/ GiveUp(J)
    \/ \E w \in Worker, J \in SUBSET Job : Take(w, J)
    \/ \E j \in Job : Succeed(j) \/ \E w \in Worker : Finish(j, w)
    \/ Forget

Spec == Init /\ [][Next]_vars
=============================================================================
