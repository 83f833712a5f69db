------------------------------ MODULE JobQueue ------------------------------
(* The queue of model-written plans (plan_jobs.py) and its worker            *)
(* (plan_worker.py). Nothing is queued any more and the worker turns every   *)
(* job down, so what remains are the jobs an older release left: as long as  *)
(* one is queued or running, the money reserved for it is missing in every   *)
(* budget (active_reservations_eur).                                         *)
EXTENDS Integers

CONSTANTS
  Jobs,         \* the jobs left in the table
  MaxAttempts   \* MAX_ATTEMPTS

ASSUME JobQueueAssumption == MaxAttempts \in Nat \ {0}

VARIABLES
  job,      \* table plan_jobs
  working   \* the job the worker has claimed, a set of at most one

queueVars == <<job, working>>

\* "mine" are the jobs of the worker that runs now: a restart renames it.
Job == [state : {"queued", "running", "ready", "failed"}, attempts : 0..MaxAttempts,
        dispatched : BOOLEAN, owner : {"none", "mine", "dead"}, leased : BOOLEAN]

(* What an older release may have left behind, its worker gone.              *)
Left ==
  {j \in Job : /\ j.state \in {"queued", "running"}
               /\ j.state = "queued"  => /\ j.attempts < MaxAttempts /\ ~j.dispatched
                                         /\ j.owner = "none" /\ ~j.leased
               /\ j.state = "running" => j.attempts > 0 /\ j.owner = "dead"}

Active == {j \in Jobs : job[j].state \in {"queued", "running"}}
Ends(row, state) == [row EXCEPT !.state = state, !.owner = "none", !.leased = FALSE]

\* Mutant of Recovered: what was tried often enough is only queued again.
RecoveredUncounted(row) ==
  IF row.state # "running" \/ row.leased THEN row
  ELSE Ends(row, IF row.dispatched THEN "failed" ELSE "queued")

(* _recover_expired_leases: a lost job is queued again until its attempts    *)
(* are spent; one that was sent to the model is not sent twice.              *)
Recovered(row) ==
  LET lost == row.state = "running" /\ ~row.leased
      tried(r) == IF r.state = "queued" /\ ~r.dispatched /\ r.attempts >= MaxAttempts
                  THEN Ends(r, "failed") ELSE r
  IN tried(IF ~lost THEN row ELSE Ends(row, IF row.dispatched THEN "failed" ELSE "queued"))

Leased(row) ==
  [row EXCEPT !.state = "running", !.attempts = @ + 1, !.owner = "mine", !.leased = TRUE]

(* claim_next: one transaction; a lease that runs keeps everyone out.        *)
ClaimNext ==
  LET after == [j \in Jobs |-> Recovered(job[j])]
      free  == {j \in Jobs : after[j].state = "queued" /\ after[j].attempts < MaxAttempts}
      busy  == \E j \in Jobs : after[j].state = "running" /\ after[j].leased
  IN /\ working = {}
     /\ IF busy \/ free = {} THEN job' = after /\ UNCHANGED working
        ELSE \E j \in free :
               /\ working' = {j}
               /\ job' = [after EXCEPT ![j] = Leased(@)]

(* _require_legacy_recipe_engine raises EngineReplaced, which is not tried   *)
(* again: mark_failed, if the lease is still the worker's.                   *)
TurnDown ==
  \E j \in working :
    /\ working' = {}
    /\ job' = IF job[j].state = "running" /\ job[j].owner = "mine" /\ job[j].leased
              THEN [job EXCEPT ![j] = Ends(@, "failed")] ELSE job

(* Killed with a job in hand; the worker that systemd starts has a new name. *)
WorkerDies ==
  /\ working # {} /\ working' = {}
  /\ job' = [j \in Jobs |-> IF job[j].owner = "mine" THEN [job[j] EXCEPT !.owner = "dead"] ELSE job[j]]

(* LEASE_SECONDS are over; a job is turned down without a heartbeat.         *)
JobLeaseEnds(j) ==
  /\ job[j].state = "running" /\ job[j].leased
  /\ job' = [job EXCEPT ![j].leased = FALSE] /\ UNCHANGED working

QueueInit == job \in [Jobs -> Left] /\ working = {}
QueueNext == ClaimNext \/ TurnDown \/ WorkerDies \/ \E j \in Jobs : JobLeaseEnds(j)

(* systemd keeps the worker running, it polls every second, leases end.      *)
Polls == WF_queueVars(ClaimNext) /\ WF_queueVars(TurnDown)
         /\ \A j \in Jobs : WF_queueVars(JobLeaseEnds(j))
QueueSpec == QueueInit /\ [][QueueNext]_queueVars /\ Polls

----------------------------------------------------------------------------
QueueTypeOK == job \in [Jobs -> Job] /\ working \subseteq Jobs

(* The money reserved for the jobs of an older release is set free, however  *)
(* often the worker dies over one of them.                                   *)
BacklogEnds == <>[](Active = {})
=============================================================================
