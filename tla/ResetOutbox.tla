---------------------------- MODULE ResetOutbox ----------------------------
(* The outbox that mails password resets, beside the accounts. A request for *)
(* a reset stores a job with the credential it is for; one background task   *)
(* of the server claims it, derives the token from the job, mails it and     *)
(* finishes the job. A handle in memory wakes the task.                      *)
EXTENDS Accounts

CONSTANTS
  MaxAttempts,    \* PASSWORD_RESET_OUTBOX_MAX_ATTEMPTS
  Lease,          \* PASSWORD_RESET_OUTBOX_LEASE_SECONDS
  RetryBase, RetryMax,   \* ..._RETRY_BASE_SECONDS, ..._RETRY_MAX_SECONDS
  ProviderRetry,  \* AUTH_OUTBOX_PROVIDER_RETRY_SECONDS
  Keys,           \* values RESEND_API_KEY may have
  MaxFaults       \* bound: restarts, lost databases and changes of the key

ASSUME ResetAssumption ==
  /\ MaxAttempts \in Nat \ {0} /\ Lease \in Nat \ {0} /\ MaxFaults \in Nat
  /\ RetryBase \in Nat /\ RetryMax \in Nat /\ ProviderRetry \in Nat
  /\ None \notin Keys
(* Powers of two are not in the provers' arithmetic.                         *)
ASSUME PowersAssumption == \A n \in 0..MaxAttempts : 2 ^ n \in Nat

VARIABLES
  job,      \* table auth_password_reset_outbox; a job's id is its token's id
  task,     \* the background task of the event loop
  wake,     \* time until the wake handle fires, or None
  apiKey,   \* RESEND_API_KEY, or None
  faults    \* restarts, lost databases and changes of the key so far

outbox == <<job, task, wake, apiKey, faults>>
resetVars == <<accountVars, outbox>>

----------------------------------------------------------------------------
(* "made" is the key under which the token of a delivery was derived; due    *)
(* and lease count down to next_attempt_at and lease_expires_at.             *)
Job == [mail : Mails, changed : Nat \cup {None},
        state : {"queued", "running", "sent", "skipped", "failed"},
        attempts : 0..MaxAttempts, due : Nat, lease : Nat, made : Keys \cup {None}]
ASSUME NoJobAssumption == None \notin Job
Task == [at : {"idle", "lost", "claim", "send", "finish", "after", "down"},
         job : Ids \cup {None}, keyless : BOOLEAN, accepted : BOOLEAN]
Rest == [at |-> "idle", job |-> None, keyless |-> FALSE, accepted |-> FALSE]
TaskAt(place) == task' = [Rest EXCEPT !.at = place]

Jobs == {j \in Ids : job[j] # None}
Pending(j) == j \in Jobs /\ job[j].state \in {"queued", "running"}

(* A task that was lost is done as well, but nobody looked at the outbox.    *)
(* A task that is not done will look at the outbox again before it ends.     *)
Started == [task EXCEPT !.at = IF @ \in {"idle", "lost"} THEN "claim" ELSE @]

(* enqueue_password_reset_delivery: an address without a password gets a job *)
(* of the same shape.                                                        *)
Enqueue(m) ==
  /\ task.at # "down" /\ minted < MaxTokens
  /\ minted' = minted + 1
  /\ \E v \in IF \E u \in At(m) : credential[u] # None
              THEN {credential[u].changed : u \in At(m)} ELSE {None} :
       job' = [job EXCEPT ![minted + 1] =
         [mail |-> m, changed |-> v, state |-> "queued", attempts |-> 0, due |-> 0,
          lease |-> 0, made |-> None]]
  /\ task' = Started
  /\ UNCHANGED <<routes, identity, doors, token, spent, belated, reserved, blocked, flight,
                 wake, apiKey, faults>>

----------------------------------------------------------------------------
(* The task                                                                  *)

(* _recover_password_reset_leases: a lease that expired queues the job again *)
(* or, after the last attempt, fails it and takes its token back.            *)
Over(j) == job[j] # None /\ job[j].state = "running" /\ job[j].lease = 0
LastOver(j) == Over(j) /\ job[j].attempts = MaxAttempts
Recovered(j) ==
  IF ~Over(j) THEN job[j]
  ELSE IF job[j].attempts < MaxAttempts
  THEN [job[j] EXCEPT !.state = "queued", !.due = 0]
  ELSE [job[j] EXCEPT !.state = "failed", !.made = None]
Recover == [j \in Ids |-> Recovered(j)]

Due(j) == /\ Recover[j] # None /\ Recover[j].state = "queued"
          /\ Recover[j].attempts < MaxAttempts /\ Recover[j].due = 0
Oldest(j) == Due(j) /\ \A k \in Ids : Due(k) => j <= k

\* Mutant of StillFor: the address has a password, whichever.
StillForAny(j) == job[j].changed # None /\ \E u \in At(job[j].mail) : credential[u] # None

(* The job is for the credential the address has.                            *)
StillFor(j) ==
  /\ job[j].changed # None
  /\ \E u \in At(job[j].mail) :
       credential[u] # None /\ credential[u].changed = job[j].changed

ResetToken(j) == [kind |-> "reset", of |-> job[j].mail, changed |-> job[j].changed, word |-> None]

(* claim_password_reset_job: one transaction. A token derived under another  *)
(* key fails the job; one that is not stored any more is stored again.       *)
Claim ==
  /\ task.at = "claim"
  /\ LET back == {j \in Ids : LastOver(j) /\ job[j].made # None}
         kept == [i \in Ids |-> IF i \in back THEN None ELSE token[i]]
     IN
     \/ /\ apiKey = None \/ \A j \in Ids : ~Due(j)
        /\ job' = Recover /\ token' = kept
        /\ task' = [Rest EXCEPT !.at = "after", !.keyless = apiKey = None]
     \/ \E j \in Ids :
        /\ apiKey # None /\ Oldest(j)
        /\ LET taken == [Recover[j] EXCEPT !.attempts = @ + 1]
               other == taken.made \notin {None, apiKey}
           IN IF ~StillFor(j) \/ other
              THEN /\ job' = [Recover EXCEPT ![j] = [taken EXCEPT
                       !.state = IF StillFor(j) THEN "failed" ELSE "skipped", !.lease = 0]]
                   /\ token' = kept
                   /\ TaskAt("after")
              ELSE /\ job' = [Recover EXCEPT ![j] =
                       [taken EXCEPT !.state = "running", !.lease = Lease, !.made = apiKey]]
                   /\ token' = IF token[j] = None THEN [kept EXCEPT ![j] = ResetToken(j)]
                               ELSE kept
                   /\ task' = [Rest EXCEPT !.at = "send", !.job = j]
  /\ UNCHANGED <<routes, identity, doors, minted, spent, belated, reserved, blocked, flight,
                 wake, apiKey, faults>>

(* The mail is accepted, refused, or accepted without an answer.             *)
SendMail ==
  /\ task.at = "send"
  /\ \E accepted \in BOOLEAN : task' = [task EXCEPT !.at = "finish", !.accepted = accepted]
  /\ UNCHANGED <<accountVars, job, wake, apiKey, faults>>

RetryIn(n) == LET delay == RetryBase * 2 ^ (n - 1) IN IF delay < RetryMax THEN delay ELSE RetryMax

(* finish_password_reset_job: by the worker's name and the token, no attempt. *)
Finish ==
  /\ task.at = "finish"
  /\ LET j == task.job
         done == job[j] # None /\ job[j].state = "running" /\ job[j].made # None
     IN IF ~done THEN UNCHANGED <<job, token>>
        ELSE IF task.accepted
        THEN job' = [job EXCEPT ![j].state = "sent", ![j].lease = 0] /\ UNCHANGED token
        ELSE IF job[j].attempts < MaxAttempts
        THEN /\ job' = [job EXCEPT ![j].state = "queued", ![j].lease = 0,
                                   ![j].due = RetryIn(job[j].attempts)]
             /\ UNCHANGED token
        ELSE /\ job' = [job EXCEPT ![j].state = "failed", ![j].lease = 0, ![j].made = None]
             /\ token' = [token EXCEPT ![j] = None]
  /\ TaskAt("after")
  /\ UNCHANGED <<routes, identity, doors, minted, spent, belated, reserved, blocked, flight,
                 wake, apiKey, faults>>

(* password_reset_outbox_next_wake                                           *)
WakeTimes ==
  {job[j].due : j \in {k \in Jobs : job[k].state = "queued" /\ job[k].attempts < MaxAttempts}}
    \cup {job[j].lease : j \in {k \in Jobs : job[k].state = "running"}}
Soonest(times, t) == t \in times /\ \A s \in times : t <= s
Sets(t) == wake' = IF wake = None \/ t < wake THEN t ELSE wake

\* Mutant of After: a task that found no key waits for the next request.
AfterWithKey ==
  /\ task.at = "after"
  /\ IF WakeTimes = {} \/ task.keyless THEN TaskAt("idle") /\ UNCHANGED wake
     ELSE \E t \in WakeTimes :
       /\ Soonest(WakeTimes, t)
       /\ IF t = 0 THEN TaskAt("claim") /\ UNCHANGED wake
          ELSE TaskAt("idle") /\ Sets(t)
  /\ UNCHANGED <<accountVars, job, apiKey, faults>>

(* discard_outcome: the end of a task arranges for what is left. Without a   *)
(* key it always comes back.                                                 *)
After ==
  /\ task.at = "after"
  /\ IF task.keyless
     THEN /\ \E t \in {s \in WakeTimes : s > 0} \cup {ProviderRetry} :
               Soonest({s \in WakeTimes : s > 0} \cup {ProviderRetry}, t) /\ Sets(t)
          /\ TaskAt("idle")
     ELSE IF WakeTimes = {} THEN TaskAt("idle") /\ UNCHANGED wake
     ELSE \E t \in WakeTimes :
       /\ Soonest(WakeTimes, t)
       /\ IF t = 0 THEN TaskAt("claim") /\ UNCHANGED wake
          ELSE TaskAt("idle") /\ Sets(t)
  /\ UNCHANGED <<accountVars, job, apiKey, faults>>

Fires ==
  /\ wake = 0
  /\ wake' = None
  /\ task' = Started
  /\ UNCHANGED <<accountVars, job, apiKey, faults>>

----------------------------------------------------------------------------
(* Faults                                                                    *)

Faults(n) == faults < MaxFaults /\ faults' = faults + 1 /\ n

(* The database fails in the task or in its callback: nothing is arranged.   *)
Fails ==
  /\ Faults(task.at \in {"claim", "finish", "after"})
  /\ TaskAt("lost")
  /\ UNCHANGED <<accountVars, job, wake, apiKey>>

(* A restart keeps the tables. Starting clears up and starts the task.       *)
Stops ==
  /\ Faults(task.at # "down")
  /\ TaskAt("down") /\ wake' = None
  /\ flight' = [c \in Requests |-> NoFlight]
  /\ UNCHANGED <<routes, identity, doors, tokens, reserved, blocked, job, apiKey>>
Starts ==
  /\ task.at = "down"
  /\ TaskAt("claim")
  /\ \E gone \in {{}, {j \in Jobs : ~Pending(j)}} :
       job' = [j \in Ids |-> IF j \in gone THEN None ELSE job[j]]
  /\ UNCHANGED <<accountVars, wake, apiKey, faults>>

NewKey ==
  /\ \E k \in Keys \cup {None} : Faults(k # apiKey) /\ apiKey' = k
  /\ UNCHANGED <<accountVars, job, task, wake>>

(* Everything that waits comes nearer; nobody waits past the next event.     *)
Timers == {job[j].due : j \in Jobs} \cup {job[j].lease : j \in Jobs}
            \cup (IF wake = None THEN {} ELSE {wake})
Less(t) == IF t > 0 THEN t - 1 ELSE 0
Tick ==
  /\ \E t \in Timers : t > 0
  /\ job' = [j \in Ids |-> IF job[j] = None THEN None
                           ELSE [job[j] EXCEPT !.due = Less(@), !.lease = Less(@)]]
  /\ wake' = IF wake = None THEN None ELSE Less(wake)
  /\ UNCHANGED <<accountVars, task, apiKey, faults>>

----------------------------------------------------------------------------
ResetInit ==
  /\ AccountsInit
  /\ job = [j \in Ids |-> None]
  /\ task = Rest /\ wake = None /\ apiKey \in Keys \cup {None} /\ faults = 0

(* An erasure deletes the jobs of the address with everything else.          *)
Forgets ==
  [j \in Ids |-> IF job[j] # None /\ (\E u \in Users : Open(u) /\ account'[u] = "erased"
                                                      /\ Mail[u] = job[j].mail)
                 THEN None ELSE job[j]]

OutboxStep ==
  \/ \E m \in Mails : Serves("forgot") /\ Enqueue(m)
  \/ Claim \/ SendMail \/ Finish \/ After \/ Fires
  \/ Fails \/ Stops \/ Starts \/ NewKey \/ Tick

ResetNext ==
  \/ OutboxStep
  \/ task.at # "down" /\ AccountsNext /\ job' = Forgets /\ UNCHANGED <<task, wake, apiKey, faults>>

Steady == Claim \/ SendMail \/ Finish \/ After \/ Fires \/ Starts \/ Tick

(* The event loop runs its callbacks, time passes, a dead process is started *)
(* again by systemd.                                                         *)
ResetSpec == ResetInit /\ [][ResetNext]_resetVars /\ WF_resetVars(Steady)

----------------------------------------------------------------------------
ResetTypeOK ==
  /\ AccountsTypeOK
  /\ job \in [Ids -> Job \cup {None}] /\ task \in Task
  /\ wake \in Nat \cup {None} /\ apiKey \in Keys \cup {None} /\ faults \in 0..MaxFaults

(* Every request for a reset comes to an end, across refusals, restarts and  *)
(* keys, unless the database failed under the task and left nobody to wake.  *)
ResetSettles == \A j \in Ids : Pending(j) ~> (~Pending(j) \/ apiKey = None \/ task.at = "lost")
=============================================================================
