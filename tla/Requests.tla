------------------------------ MODULE Requests ------------------------------
(* Withdrawals and complaints of customers, and the outbox that confirms     *)
(* them by mail. A route stores the request and tries to send its own        *)
(* confirmation; a single background worker sends what is due; an alarm in   *)
(* memory starts the worker. Rows survive a crash, threads and the alarm do  *)
(* not.                                                                      *)
EXTENDS Integers

CONSTANTS
  MaxRequests,           \* bound: rows in consumer_requests
  Purchases, Kinds,      \* what can be paid, and the kinds of request:
  Withdrawal,            \* a withdrawal, and complaints by their remedy_type
  Annual,                \* purchases that are invoices of a subscription
  OrderOf,               \* a purchase's order; a subscription's invoices share one
  Routes,                \* request threads of the web server
  Worker,                \* the background task
  None,
  MaxAttempts,           \* CONFIRMATION_MAX_ATTEMPTS
  Lease,                 \* CONFIRMATION_LEASE_SECONDS
  RetryBase, RetryMax,   \* CONFIRMATION_RETRY_BASE_SECONDS, ..._MAX_SECONDS
  InternalRetry,         \* CONSUMER_REQUEST_OUTBOX_INTERNAL_RETRY_SECONDS
  MaxFaults              \* bound: database faults and restarts

Ids == 1..MaxRequests
Threads == Routes \cup {Worker}

ASSUME RequestsAssumption ==
  /\ MaxRequests \in Nat /\ MaxAttempts \in Nat \ {0}
  /\ Lease \in Nat \ {0} /\ RetryBase \in Nat /\ RetryMax \in Nat
  /\ InternalRetry \in Nat /\ MaxFaults \in Nat
  /\ Withdrawal \in Kinds /\ Annual \subseteq Purchases
  /\ Worker \notin Routes

(* A fact of arithmetic, for the delays between attempts.                    *)
ASSUME PowersAssumption == \A n \in 0..MaxAttempts : 2 ^ n \in Nat

VARIABLES
  rows,      \* table consumer_requests: rows[r] is None until r is filed
  thread,    \* what each thread is doing, in memory
  alarm,     \* time until the wake handle fires, or None
  accepted,  \* idempotency keys the mail provider has accepted
  mailbox,   \* mailbox[r]: confirmations of r the customer received
  faults     \* database faults and restarts so far

provider == <<accepted, mailbox>>
vars == <<rows, thread, alarm, provider, faults>>

----------------------------------------------------------------------------
(* Rows                                                                      *)

OpenStatuses == {"received", "processing", "requires_review"}
Statuses == OpenStatuses \cup {"refunded"}

(* "due" is the time until confirmation_next_attempt_at, "lease" the time    *)
(* until confirmation_lease_expires_at; both are 0 once that time has come.  *)
Row == [purchase : Purchases, kind : Kinds, status : Statuses,
        state : {"pending", "sending", "sent", "failed"},
        attempts : 0..MaxAttempts, due : Nat, lease : Nat]

(* None is not one of the values it stands beside.                           *)
ASSUME NoneAssumption == None \notin Int /\ None \notin Row

Filed == {r \in Ids : rows[r] # None}
Open(r) == rows[r].status \in OpenStatuses
Type(k) == IF k = Withdrawal THEN "withdrawal" ELSE "complaint"
Settled(r) == rows[r].state \in {"sent", "failed"}

(* A thread keeps its delivery: the request, the attempt it claimed, what is *)
(* left of the lease it was given, and whether the provider accepted.        *)
Thread == [at : {"idle", "claim", "send", "finish", "wake", "down"},
           request : Ids \cup {None}, attempt : 0..MaxAttempts,
           lease : Nat, sent : BOOLEAN]
Idle == [at |-> "idle", request |-> None, attempt |-> 0, lease |-> 0, sent |-> FALSE]
Goes(t, place) == thread' = [thread EXCEPT ![t] = [Idle EXCEPT !.at = place]]

\* Mutant of Key: every attempt has a key of its own.
KeyOfAttempt(r, attempt) == <<r, attempt>>

(* The provider's idempotency key is chosen when the row is inserted.        *)
Key(r, attempt) == <<r, 0>>
Keys == Ids \X (0..MaxAttempts)

(* lifespan starts the worker before the first route runs.                   *)
Started == [t \in Threads |-> IF t = Worker THEN [Idle EXCEPT !.at = "claim"] ELSE Idle]

Init ==
  /\ rows = [r \in Ids |-> None]
  /\ thread = Started
  /\ alarm = None
  /\ accepted = {}
  /\ mailbox = [r \in Ids |-> 0]
  /\ faults = 0

----------------------------------------------------------------------------
(* Filing                                                                    *)

\* Mutant of Existing: a closed request may always be repeated.
ExistingOpen(p, k) ==
  {r \in Filed : rows[r].purchase = p /\ rows[r].kind = k /\ Open(r)}

(* Requests a new one of kind k about purchase p would repeat: of an annual  *)
(* invoice any of that kind, of a one-time purchase a withdrawal or an open  *)
(* complaint.                                                                *)
Existing(p, k) ==
  {r \in Filed : /\ rows[r].purchase = p
                 /\ IF p \in Annual THEN rows[r].kind = k
                    ELSE Type(rows[r].kind) = Type(k) /\ (k = Withdrawal \/ Open(r))}

NewRow(p, k, status) ==
  [purchase |-> p, kind |-> k, status |-> status,
   state |-> "pending", attempts |-> 0, due |-> 0, lease |-> 0]

(* Annual requests always wait for a review; of the others a withdrawal does *)
(* after its fourteen days.                                                  *)
FirstStatuses(p, k) ==
  IF p \in Annual THEN {"requires_review"}
  ELSE IF k = Withdrawal THEN {"received", "requires_review"} ELSE {"received"}

Latest(S, r) == r \in S /\ \A q \in S : q <= r
Earliest(S, r) == r \in S /\ \A q \in S : r <= q

Confirm(t, r) == thread' = [thread EXCEPT ![t] = [Idle EXCEPT !.at = "claim", !.request = r]]

(* The latest request it repeats is answered in place of a new one.          *)
Repeat(t, p, k) ==
  /\ \E r \in Ids : Latest(Existing(p, k), r) /\ Confirm(t, r)
  /\ UNCHANGED rows

Insert(t, p, k) ==
  /\ Existing(p, k) = {}
  /\ \E r \in Ids, status \in FirstStatuses(p, k) :
       /\ Earliest(Ids \ Filed, r)
       /\ rows' = [rows EXCEPT ![r] = NewRow(p, k, status)]
       /\ Confirm(t, r)

File(t, p, k) ==
  /\ thread[t].at = "idle"
  /\ Repeat(t, p, k) \/ Insert(t, p, k)
  /\ UNCHANGED <<alarm, provider, faults>>

(* The schema is migrated when a process starts. The migration creates the   *)
(* index consumer_requests_one_open_idx before it drops it again, so it      *)
(* fails while two open requests of one type share an order.                 *)
Migrates ==
  \A r, q \in Filed :
    Open(r) /\ Open(q) /\ Type(rows[r].kind) = Type(rows[q].kind)
    /\ OrderOf[rows[r].purchase] = OrderOf[rows[q].purchase] => r = q

(* The operator takes a request in hand, by a tool that migrates first.      *)
MarkProcessing(r) ==
  /\ Migrates
  /\ rows[r].status \in {"received", "requires_review"}
  /\ rows' = [rows EXCEPT ![r].status = "processing"]
  /\ UNCHANGED <<thread, alarm, provider, faults>>

(* A full refund of an order closes its withdrawals, however often it is     *)
(* reported: by a webhook or, after a migration, by the reconciliation.      *)
Up == thread[Worker].at # "down"

CloseForRefund(o) ==
  /\ Up \/ Migrates
  /\ rows' = [r \in Ids |->
       IF r \in Filed /\ OrderOf[rows[r].purchase] = o /\ rows[r].kind = Withdrawal /\ Open(r)
       THEN [rows[r] EXCEPT !.status = "refunded"] ELSE rows[r]]
  /\ UNCHANGED <<thread, alarm, provider, faults>>

----------------------------------------------------------------------------
(* The outbox                                                                *)

\* Mutant of Recovered: every lease is given back, expired or not.
RecoveredEarly(row) ==
  IF row.state = "sending"
  THEN [row EXCEPT !.state = IF row.attempts < MaxAttempts THEN "pending" ELSE "failed",
                   !.due = 0]
  ELSE row

(* An expired lease is given back, or is the last one the request had.       *)
Recovered(row) ==
  IF row.state = "sending" /\ row.lease = 0
  THEN [row EXCEPT !.state = IF row.attempts < MaxAttempts THEN "pending" ELSE "failed",
                   !.due = 0]
  ELSE row
Recover == [r \in Ids |-> IF rows[r] = None THEN None ELSE Recovered(rows[r])]

\* Mutant of Due: a request that was given up is tried again.
DueUnlessSent(row) == row.state \in {"pending", "failed"} /\ row.due = 0

Due(row) == row.state = "pending" /\ row.attempts < MaxAttempts /\ row.due = 0

Leased(row) == [row EXCEPT !.state = "sending", !.attempts = @ + 1, !.lease = Lease]

(* The worker takes the oldest request that is due, a route only its own.    *)
Claimable(t) ==
  {r \in Filed : /\ Due(Recover[r])
                 /\ t # Worker => r = thread[t].request}

Claim(t) ==
  /\ thread[t].at = "claim"
  /\ IF Claimable(t) = {}
     THEN rows' = Recover /\ Goes(t, "wake")
     ELSE \E r \in Ids :
          /\ Earliest(Claimable(t), r)
          /\ rows' = [Recover EXCEPT ![r] = Leased(Recover[r])]
          /\ thread' = [thread EXCEPT ![t] =
               [at |-> "send", request |-> r, attempt |-> rows[r].attempts + 1,
                lease |-> Lease, sent |-> FALSE]]
  /\ UNCHANGED <<alarm, provider, faults>>

(* The provider delivers one message per key. The answer may be lost, and    *)
(* may come after the lease has expired: nothing stops a sender that is slow. *)
Deliver(r, key) ==
  /\ accepted' = accepted \cup {key}
  /\ mailbox' = IF key \in accepted THEN mailbox ELSE [mailbox EXCEPT ![r] = @ + 1]

Answered(t, sent) == thread' = [thread EXCEPT ![t].at = "finish", ![t].sent = sent]

Send(t) ==
  /\ thread[t].at = "send"
  /\ \/ /\ Deliver(thread[t].request, Key(thread[t].request, thread[t].attempt))
        /\ \E sent \in BOOLEAN : Answered(t, sent)
     \/ Answered(t, FALSE) /\ UNCHANGED provider
  /\ UNCHANGED <<rows, alarm, faults>>

\* Mutant of CanFinish: the attempt alone decides.
CanFinishByAttempt(t) == rows[thread[t].request].attempts = thread[t].attempt

(* A delivery is finished by the attempt that claimed it. All threads of a   *)
(* process have one owner name, so the attempt is what tells them apart.     *)
CanFinish(t) ==
  LET row == rows[thread[t].request] IN
  row.state = "sending" /\ row.attempts = thread[t].attempt

RetryDelay(n) == LET delay == RetryBase * 2 ^ (n - 1)
                 IN IF delay < RetryMax THEN delay ELSE RetryMax

Finished(row, sent) ==
  IF sent THEN [row EXCEPT !.state = "sent", !.due = 0, !.lease = 0]
  ELSE IF row.attempts < MaxAttempts
  THEN [row EXCEPT !.state = "pending", !.due = RetryDelay(row.attempts), !.lease = 0]
  ELSE [row EXCEPT !.state = "failed", !.due = 0, !.lease = 0]

(* A batch is one delivery, so the thread is done with the queue.            *)
Finish(t) ==
  /\ thread[t].at = "finish"
  /\ rows' = IF CanFinish(t)
             THEN [rows EXCEPT ![thread[t].request] = Finished(@, thread[t].sent)]
             ELSE rows
  /\ Goes(t, "wake")
  /\ UNCHANGED <<alarm, provider, faults>>

----------------------------------------------------------------------------
(* Waking the worker                                                         *)

\* Mutant of WakeTimes: only retries count.
RetryTimes ==
  {rows[r].due : r \in {q \in Filed : rows[q].state = "pending"
                                        /\ rows[q].attempts < MaxAttempts}}

(* When something can next be done: a retry, or the end of a lease.          *)
WakeTimes ==
  {rows[r].due : r \in {q \in Filed : rows[q].state = "pending"
                                        /\ rows[q].attempts < MaxAttempts}}
    \cup {rows[r].lease : r \in {q \in Filed : rows[q].state = "sending"}}

(* An alarm that is set already stays when it is the earlier one.            *)
SetAlarm(w) == alarm' = IF alarm = None \/ w < alarm THEN w ELSE alarm

(* A thread that leaves the queue arranges for what is left in it. The       *)
(* worker goes on at once when something is due.                             *)
Arrange(t) ==
  /\ thread[t].at = "wake"
  /\ IF WakeTimes = {} THEN Goes(t, "idle") /\ UNCHANGED alarm
     ELSE \E w \in WakeTimes :
          /\ Earliest(WakeTimes, w)
          /\ IF t = Worker /\ w = 0 THEN Goes(t, "claim") /\ UNCHANGED alarm
             ELSE Goes(t, "idle") /\ SetAlarm(w)
  /\ UNCHANGED <<rows, provider, faults>>

(* The database fails: the transaction is rolled back, and the thread asks   *)
(* to be followed up. A route counts from the time it was called.            *)
FallbackTimes(t) == IF t = Worker THEN {InternalRetry} ELSE 0..InternalRetry

Fault(t) ==
  /\ faults < MaxFaults
  /\ faults' = faults + 1
  /\ thread[t].at \in {"claim", "finish", "wake"}
  /\ \E w \in FallbackTimes(t) : SetAlarm(w)
  /\ Goes(t, "idle")
  /\ UNCHANGED <<rows, provider>>

(* A worker that is already running will arrange for what it leaves.         *)
Wake ==
  /\ alarm = 0
  /\ alarm' = None
  /\ thread' = IF thread[Worker].at = "idle"
               THEN [thread EXCEPT ![Worker] = [Idle EXCEPT !.at = "claim"]] ELSE thread
  /\ UNCHANGED <<rows, provider, faults>>

(* A process that cannot migrate does not start, however often it is tried.  *)
Restart ==
  /\ faults < MaxFaults
  /\ faults' = faults + 1
  /\ thread' = IF Migrates THEN Started ELSE [t \in Threads |-> [Idle EXCEPT !.at = "down"]]
  /\ alarm' = None
  /\ UNCHANGED <<rows, provider>>

----------------------------------------------------------------------------
Less(n) == IF n = 0 THEN 0 ELSE n - 1

Tick ==
  /\ rows' = [r \in Ids |-> IF rows[r] = None THEN None
       ELSE [rows[r] EXCEPT !.due = Less(@), !.lease = Less(@)]]
  /\ thread' = [t \in Threads |-> [thread[t] EXCEPT !.lease = Less(@)]]
  /\ alarm' = IF alarm = None THEN None ELSE Less(alarm)
  /\ UNCHANGED <<provider, faults>>

Step(t) == Claim(t) \/ Send(t) \/ Finish(t) \/ Arrange(t)

Next ==
  \/ \E t \in Routes, p \in Purchases, k \in Kinds : File(t, p, k)
  \/ \E t \in Threads : Step(t) \/ Fault(t)
  \/ \E r \in Filed : MarkProcessing(r)
  \/ \E p \in Purchases : CloseForRefund(OrderOf[p])
  \/ Wake \/ Restart \/ Tick

Spec == Init /\ [][Next]_vars

(* Threads run, the mail call has a timeout, timers fire and time passes.    *)
FairSpec ==
  /\ Spec
  /\ \A t \in Threads : WF_vars(Step(t))
  /\ WF_vars(Wake) /\ WF_vars(Tick)

----------------------------------------------------------------------------
(* Properties                                                                *)

TypeOK ==
  /\ rows \in [Ids -> Row \cup {None}]
  /\ thread \in [Threads -> Thread]
  /\ alarm \in Nat \cup {None}
  /\ accepted \subseteq Keys /\ mailbox \in [Ids -> Nat]
  /\ faults \in 0..MaxFaults

(* claim_confirmation_delivery: "at most one worker can own it". Two threads *)
(* whose leases both run never send for the same request, although a slow    *)
(* sender may go on after it has lost its lease.                             *)
Holds(t, r) == thread[t].request = r /\ thread[t].lease > 0
OneOwner ==
  \A r \in Ids : \A t, u \in Threads : Holds(t, r) /\ Holds(u, r) => t = u

(* The index consumer_requests_one_annual_idx and the lookups of _create: a  *)
(* one-time purchase has one withdrawal ever and one open complaint, and an  *)
(* annual invoice one request of a kind ever, whatever was refunded between. *)
OneRequestEach ==
  \A r, q \in Filed :
    r # q /\ rows[r].purchase = rows[q].purchase =>
      IF rows[r].purchase \in Annual THEN rows[r].kind # rows[q].kind
      ELSE Type(rows[r].kind) = Type(rows[q].kind) =>
             rows[r].kind # Withdrawal /\ ~(Open(r) /\ Open(q))

(* A confirmation is given up only after every attempt it is allowed.        *)
GivenUpLast ==
  \A r \in Filed : rows[r].state = "failed" => rows[r].attempts = MaxAttempts

(* The outbox implements what the customer is promised: one mail per request *)
(* however often it is tried, "sent" only when it was received, and no       *)
(* outcome that a late answer changes.                                       *)
Stage(r) ==
  IF rows[r] = None THEN "unfiled"
  ELSE IF rows[r].state = "sent" THEN "kept"
  ELSE IF rows[r].state = "failed" THEN "broken" ELSE "owed"
Kept == INSTANCE Promise WITH stage <- [r \in Ids |-> Stage(r)], mails <- mailbox
Implements == Kept!Spec

(* Every request that is filed is in the end confirmed or given up, unless   *)
(* the server cannot start: whoever leaves the queue, and however, an alarm  *)
(* or the worker remains. (What is settled stays settled, so this is each    *)
(* request's own leads-to.)                                                  *)
Settles == []<>(Up => \A r \in Filed : Settled(r))

(* migruj_schemu is documented as idempotent ("Celá schéma a všetky          *)
(* migrácie. Idempotentné"): whatever customers have filed, the server can   *)
(* be started again.                                                         *)
Restartable == Up
=============================================================================
