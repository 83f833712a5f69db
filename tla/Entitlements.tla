---------------------------- MODULE Entitlements ----------------------------
(* The one-time founder membership: orders paid once at the provider, the    *)
(* entitlements they grant, refunds that end them, the owner's manual grants, *)
(* webhooks that are put aside, and the hourly job that replays those bodies  *)
(* and compares the provider's orders with the table.                        *)
EXTENDS Integers, Sequences, FiniteSets

CONSTANTS
  Orders, Users,
  Testers,     \* users the owner grants an entitlement without a payment
  Deals,       \* how the orders may be bought, see Deal
  Capacity,    \* KAPACITA_ZAKLADAJUCICH, places for payers
  MaxQueue,    \* MAX_ODLOZENYCH, bodies that may wait
  MaxThreads,  \* threads that may be putting a body aside at a time
  MaxEvents    \* bound: what happens from outside, crashes and expiries included

(* A deal says who buys each order, through which checkout attempt (named by *)
(* the first order it was made for), which orders the provider's API returns *)
(* with their account and attempt, whether LEMON_VARIANT_ID is set, so that  *)
(* an order has to consume its attempt, and whether payments are on at first. *)
Deal == [buyer : [Orders -> Users], attempt : [Orders -> Orders],
         traceable : SUBSET Orders, audited : BOOLEAN, on : BOOLEAN]

ASSUME EntitlementsAssumption ==
  /\ IsFiniteSet(Orders) /\ Orders \cap Users = {}
  /\ Testers \subseteq Users /\ Deals \subseteq Deal
  /\ Capacity \in Nat /\ MaxQueue \in Nat /\ MaxThreads \in Nat \ {0} /\ MaxEvents \in Nat

VARIABLES
  deal,      \* rigid
  status,    \* external: the provider's status of each order
  sent,      \* external: webhook bodies that exist
  rows,      \* table naroky, by order, and by user for a manual entitlement
  paying,    \* pouzivatelia.platiaci = 1
  pending,   \* table checkout_attempts: attempts that may still be used
  recent,    \* event keys and body hashes on record, younger than 180 days,
  old,       \* ... and older
  queue,     \* table platobne_odlozene, bodies that wait, by id
  cases,     \* table payment_cases
  storing,   \* webhook threads that put a body aside, in memory
  after,     \* cases a webhook thread has still to open, in memory
  job,       \* the hourly job, in memory
  on,        \* PLATBY_ZAPNUTE
  events     \* how much has happened from outside

provider == <<status, sent>>
domain == <<rows, paying, pending, recent>>
threads == <<storing, after>>
vars == <<deal, provider, domain, old, queue, cases, threads, job, on, events>>

----------------------------------------------------------------------------
(* Rows                                                                      *)

Entries == Orders \cup Users
RowStates == {"none", "aktivny", "nad_kapacitu", "duplicitny", "vrateny", "zruseny"}

Holder(e) == IF e \in Users THEN e ELSE deal.buyer[e]
Active == {e \in Entries : rows[e] = "aktivny"}

\* Mutant of HasEntitlement: only payments count.
HasPaidEntitlement(u) == \E e \in Active \ Users : Holder(e) = u

HasEntitlement(u) == \E e \in Active : Holder(e) = u

PaidPlaces == Active \cap Orders

\* Mutant of SoldOut: one place too many.
SoldOutLate == Cardinality(PaidPlaces) > Capacity

SoldOut == Cardinality(PaidPlaces) >= Capacity

(* Bodies of webhooks. A partial and a full refund are the same event.       *)
Bodies == [kind : {"created", "partial", "full"}, order : Orders]
Body(kind, o) == [kind |-> kind, order |-> o]
EventTypes == {"order_created", "order_refunded"}
Marks == (EventTypes \cup {"created", "partial", "full"}) \X Orders

(* The idempotency key, the same for a webhook and for an order of the API,  *)
(* and the hash under which a body is put aside.                             *)
Key(b) == <<IF b.kind = "created" THEN "order_created" ELSE "order_refunded", b.order>>
Hash(b) == <<b.kind, b.order>>
OnRecord(m) == m \in recent \cup old

CaseKinds == {"nad_kapacitu", "duplicita", "ignorovane", "nepouzitelna", "bez_uctu"}
Cases == CaseKinds \X Orders

(* A thread reads how full the queue is, then inserts.                       *)
Storing == [why : {"platby_vypnute", "nepouzitelna"}, at : {"count", "insert"}, body : Bodies]
Thread(why, b) == [why |-> why, at |-> "count", body |-> b]

(* The job: what is left of the bodies it read and of the order list it      *)
(* downloaded, and the cases it opens next and at the end.                   *)
Statuses == {"none", "paid", "partial", "refunded"}
Job == [at : {"idle", "replay", "orders"}, bodies : Seq(Bodies),
        list : [Orders -> Statuses], opens : SUBSET Cases, unserved : SUBSET Cases]
IdleJob == [at |-> "idle", bodies |-> <<>>, list |-> [o \in Orders |-> "none"],
            opens |-> {}, unserved |-> {}]
Left == {o \in Orders : job.list[o] # "none"}

Init ==
  /\ deal \in Deals
  /\ status = [o \in Orders |-> "none"]
  /\ sent = {}
  /\ rows = [e \in Entries |-> "none"]
  /\ paying = {}
  /\ pending = IF deal.audited THEN {deal.attempt[o] : o \in Orders} ELSE {}
  /\ recent = {} /\ old = {}
  /\ queue = <<>>
  /\ cases = [c \in Cases |-> "none"]
  /\ storing = {} /\ after = {}
  /\ job = IdleJob
  /\ on = deal.on
  /\ events = 0

----------------------------------------------------------------------------
(* The provider                                                              *)

Happens == events < MaxEvents /\ events' = events + 1

ProviderOnly == Happens /\ UNCHANGED <<deal, domain, old, queue, cases, threads, job, on>>

Pay(o) ==
  /\ status[o] = "none"
  /\ status' = [status EXCEPT ![o] = "paid"]
  /\ sent' = sent \cup {Body("created", o)}
  /\ ProviderOnly

RefundPart(o) ==
  /\ status[o] = "paid"
  /\ status' = [status EXCEPT ![o] = "partial"]
  /\ sent' = sent \cup {Body("partial", o)}
  /\ ProviderOnly

Refund(o) ==
  /\ status[o] \in {"paid", "partial"}
  /\ status' = [status EXCEPT ![o] = "refunded"]
  /\ sent' = sent \cup {Body("full", o)}
  /\ ProviderOnly

----------------------------------------------------------------------------
(* One event, one transaction                                                *)

\* Mutant of Attested: a used attempt is good enough.
AttestedAgain(o) == TRUE

(* With a variant configured, the order's attempt must be the buyer's and    *)
(* still waiting.                                                            *)
Attested(o) ==
  deal.audited => /\ deal.attempt[o] \in pending
                  /\ deal.buyer[deal.attempt[o]] = deal.buyer[o]

\* Mutant of Held: only a running entitlement is a row.
HeldActive(o) == rows[o] = "aktivny"

Held(o) == rows[o] # "none"

(* Entries a refund of o may end: its own, else what the payer bought.       *)
Takeable(o) ==
  IF rows[o] = "aktivny" THEN {o} ELSE {e \in PaidPlaces : Holder(e) = Holder(o)}

(* What comes of an event. "unusable" rolls everything back.                 *)
Outcome(b) ==
  LET o == b.order IN
  CASE OnRecord(Key(b)) -> "already"
    [] ~OnRecord(Key(b)) /\ b.kind = "created" ->
         IF Held(o) THEN "held"
         ELSE IF ~Attested(o) THEN "unusable"
         ELSE IF HasEntitlement(Holder(o)) THEN "duplicate"
         ELSE IF SoldOut THEN "over" ELSE "granted"
    [] ~OnRecord(Key(b)) /\ b.kind = "partial" -> "unusable"
    [] ~OnRecord(Key(b)) /\ b.kind = "full" ->
         IF Takeable(o) = {} THEN "ignored" ELSE "returned"

\* Mutant of NewState: the kind of the case is stored as the state.
NewStateKind == [granted |-> "aktivny", over |-> "nad_kapacitu", duplicate |-> "duplicita"]

NewState == [granted |-> "aktivny", over |-> "nad_kapacitu", duplicate |-> "duplicitny"]

(* platiaci once e has ended.                                                *)
Leaves(e) == IF \E other \in Active \ {e} : Holder(other) = Holder(e)
             THEN paying ELSE paying \ {Holder(e)}

Closed(o) == [c \in Cases |-> IF c[2] = o /\ cases[c] = "open" THEN "resolved" ELSE cases[c]]

(* The transaction of an event, with what else is put on record.             *)
Record(b, x, marks) ==
  recent' = recent \cup marks \cup (IF x \in {"already", "unusable"} THEN {} ELSE {Key(b)})

Grant(b, x) ==
  /\ x \in DOMAIN NewState
  /\ rows' = [rows EXCEPT ![b.order] = NewState[x]]
  /\ paying' = IF x = "granted" THEN paying \cup {Holder(b.order)} ELSE paying
  /\ pending' = IF deal.audited THEN pending \ {deal.attempt[b.order]} ELSE pending
  /\ UNCHANGED cases

Return(b, x) ==
  /\ x = "returned"
  /\ \E e \in Takeable(b.order) :
       /\ rows' = [rows EXCEPT ![e] = "vrateny"]
       /\ paying' = Leaves(e)
  /\ cases' = Closed(b.order)
  /\ UNCHANGED pending

Nothing(x) ==
  /\ x \in {"already", "held", "ignored", "unusable"}
  /\ UNCHANGED <<rows, paying, pending, cases>>

Process(b, marks) ==
  LET x == Outcome(b) IN
  /\ Record(b, x, marks)
  /\ Grant(b, x) \/ Return(b, x) \/ Nothing(x)

(* A case is inserted or, if there is one of its kind, left as it is.        *)
Opened(c) == [cases EXCEPT ![c] = IF @ = "none" THEN "open" ELSE @]

(* Cases an event that was processed asks for.                               *)
CasesOf(x, o) ==
  CASE x = "over" -> {<<"nad_kapacitu", o>>}
    [] x = "duplicate" -> {<<"duplicita", o>>}
    [] x = "ignored" -> {<<"ignorovane", o>>}
    [] OTHER -> {}

Unusable(o) == {<<"nepouzitelna", o>>}

----------------------------------------------------------------------------
(* The webhook route                                                         *)

FreeThread == Cardinality(storing) < MaxThreads

(* Payments are on: process, then open the case; or roll back, put aside     *)
(* what is unusable, and then open its case.                                 *)
Receive(b) ==
  LET x == Outcome(b) IN
  /\ on /\ b \in sent
  /\ Process(b, {})
  /\ IF x = "unusable"
     THEN FreeThread /\ storing' = storing \cup {Thread("nepouzitelna", b)} /\ UNCHANGED after
     ELSE after' = after \cup CasesOf(x, b.order) /\ UNCHANGED storing
  /\ Happens
  /\ UNCHANGED <<deal, provider, old, queue, job, on>>

(* Payments are off: the body is put aside unread.                           *)
Defer(b) ==
  /\ ~on /\ b \in sent /\ FreeThread
  /\ storing' = storing \cup {Thread("platby_vypnute", b)}
  /\ Happens
  /\ UNCHANGED <<deal, provider, domain, old, queue, cases, after, job, on>>

Complaint(t) == IF t.why = "nepouzitelna" THEN Unusable(t.body.order) ELSE {}

Room == Len(queue) < MaxQueue

(* A full queue drops the body: the provider is told to come again (503), or *)
(* the case is what is left of it.                                           *)
Count(t) ==
  /\ t \in storing /\ t.at = "count"
  /\ IF Room THEN storing' = (storing \ {t}) \cup {[t EXCEPT !.at = "insert"]} /\ UNCHANGED after
             ELSE storing' = storing \ {t} /\ after' = after \cup Complaint(t)
  /\ UNCHANGED <<deal, provider, domain, old, queue, cases, job, on, events>>

Inserting == {t \in storing : t.at = "insert"}

Waiting(b) == \E i \in 1..Len(queue) : queue[i] = b

Insert(t) ==
  /\ t \in storing /\ t.at = "insert"
  /\ queue' = IF Waiting(t.body) \/ OnRecord(Hash(t.body)) THEN queue ELSE Append(queue, t.body)
  /\ storing' = storing \ {t} /\ after' = after \cup Complaint(t)
  /\ UNCHANGED <<deal, provider, domain, old, cases, job, on, events>>

FollowUp(c) ==
  /\ c \in after
  /\ cases' = Opened(c)
  /\ after' = after \ {c}
  /\ UNCHANGED <<deal, provider, domain, old, queue, storing, job, on, events>>

----------------------------------------------------------------------------
(* The hourly job                                                            *)

Start ==
  /\ job.at = "idle"
  /\ job' = [IdleJob EXCEPT !.at = "replay", !.bodies = queue]
  /\ UNCHANGED <<deal, provider, domain, old, queue, cases, threads, on, events>>

(* The queue without its i-th body.                                          *)
Without(i) == [j \in 1..Len(queue) - 1 |-> IF j < i THEN queue[j] ELSE queue[j + 1]]

(* A body that is done leaves the queue; its hash stays on record.           *)
Replay ==
  LET b == Head(job.bodies)
      done == Outcome(b) # "unusable"
  IN
  /\ job.at = "replay" /\ job.bodies # <<>>
  /\ Process(b, IF done THEN {Hash(b)} ELSE {})
  /\ IF done THEN \E i \in 1..Len(queue) : queue[i] = b /\ queue' = Without(i)
             ELSE UNCHANGED queue
  /\ job' = [job EXCEPT !.bodies = Tail(@)]
  /\ UNCHANGED <<deal, provider, old, threads, on, events>>

Fetch ==
  /\ job.at = "replay" /\ job.bodies = <<>>
  /\ job' = [job EXCEPT !.at = "orders", !.list = status]
  /\ UNCHANGED <<deal, provider, domain, old, queue, cases, threads, on, events>>

(* rekonciluj: a paid order whose account is known goes the way of a         *)
(* webhook; duplicates and orders over capacity are reported at the end.     *)
ApplyPaid(o) ==
  LET b == Body("created", o)
      x == Outcome(b)
  IN
  /\ job.list[o] = "paid" /\ o \in deal.traceable
  /\ x # "unusable"
  /\ Process(b, {})
  /\ job' = [job EXCEPT !.list[o] = "none", !.unserved = @ \cup CasesOf(x, o)]

(* Cases are opened after the transaction of an event, before the next order. *)
ApplyUnusable(o) ==
  /\ \/ job.list[o] = "paid" /\ o \in deal.traceable
        /\ Outcome(Body("created", o)) = "unusable"
     \/ job.list[o] = "partial"
  /\ job' = [job EXCEPT !.list[o] = "none", !.opens = Unusable(o)]
  /\ UNCHANGED <<domain, cases>>

\* Mutant of Unknown: an unknown account is passed over.
UnknownSkipped(o) == {}

(* A payment whose account is not known is a case unless it has a row.       *)
Unknown(o) == IF Held(o) THEN {} ELSE {<<"bez_uctu", o>>}

ApplyUnknown(o) ==
  /\ job.list[o] = "paid" /\ o \notin deal.traceable
  /\ job' = [job EXCEPT !.list[o] = "none", !.opens = Unknown(o)]
  /\ UNCHANGED <<domain, cases>>

(* _vrat: a refund closes the cases of an order with a row and, if its own   *)
(* entitlement runs, goes the way of a webhook.                              *)
ApplyRefund(o) ==
  LET b == Body("full", o) IN
  /\ job.list[o] = "refunded"
  /\ job' = [job EXCEPT !.list[o] = "none"]
  /\ IF Held(o) THEN cases' = Closed(o) ELSE UNCHANGED cases
  /\ IF rows[o] = "aktivny" /\ ~OnRecord(Key(b))
     THEN /\ rows' = [rows EXCEPT ![o] = "vrateny"]
          /\ paying' = Leaves(o)
          /\ Record(b, "returned", {})
          /\ UNCHANGED pending
     ELSE UNCHANGED domain

Apply(o) ==
  /\ job.at = "orders" /\ job.opens = {} /\ o \in Left
  /\ ApplyPaid(o) \/ ApplyUnusable(o) \/ ApplyUnknown(o) \/ ApplyRefund(o)
  /\ UNCHANGED <<deal, provider, old, queue, threads, on, events>>

Report(c) ==
  /\ job.at = "orders"
  /\ \/ c \in job.opens /\ job' = [job EXCEPT !.opens = @ \ {c}]
     \/ job.opens = {} /\ Left = {} /\ c \in job.unserved
        /\ job' = [job EXCEPT !.unserved = @ \ {c}]
  /\ cases' = Opened(c)
  /\ UNCHANGED <<deal, provider, domain, old, queue, threads, on, events>>

\* Mutant of Forgotten: keys are kept for ever.
ForgottenNever == {}

(* uprac_udalosti: what is older than 180 days.                              *)
Forgotten == old

Finish ==
  /\ job.at = "orders" /\ Left = {} /\ job.opens = {} /\ job.unserved = {}
  /\ old' = old \ Forgotten
  /\ job' = IdleJob
  /\ UNCHANGED <<deal, provider, domain, queue, cases, threads, on, events>>

----------------------------------------------------------------------------
(* The owner's tool, time and faults                                         *)

(* premium_cli.py: a grant without a payment needs a free place, and takes   *)
(* none.                                                                     *)
GrantManually(u) ==
  /\ u \in Testers /\ ~HasEntitlement(u) /\ ~SoldOut
  /\ rows' = [rows EXCEPT ![u] = "aktivny"]
  /\ paying' = paying \cup {u}
  /\ Happens
  /\ UNCHANGED <<deal, provider, pending, recent, old, queue, cases, threads, job, on>>

WithdrawManually(u) ==
  /\ rows[u] = "aktivny"
  /\ rows' = [rows EXCEPT ![u] = "zruseny"]
  /\ paying' = Leaves(u)
  /\ Happens
  /\ UNCHANGED <<deal, provider, pending, recent, old, queue, cases, threads, job, on>>

(* An attempt's hour is over.                                                *)
Expire(o) ==
  /\ o \in pending
  /\ pending' = pending \ {o}
  /\ Happens
  /\ UNCHANGED <<deal, provider, rows, paying, recent, old, queue, cases, threads, job, on>>

(* 180 days pass for all that is on record; no thread and no job is as slow. *)
Age ==
  /\ recent # {} /\ storing = {} /\ after = {} /\ job.at = "idle"
  /\ old' = old \cup recent /\ recent' = {}
  /\ UNCHANGED <<deal, provider, rows, paying, pending, queue, cases, threads, job, on, events>>

(* The web process dies between a commit and what follows it; the job dies,  *)
(* or the provider's API does not answer it.                                 *)
Crash ==
  /\ storing # {} \/ after # {}
  /\ storing' = {} /\ after' = {}
  /\ Happens
  /\ UNCHANGED <<deal, provider, domain, old, queue, cases, job, on>>

Abandon ==
  /\ job.at # "idle"
  /\ job' = IdleJob
  /\ Happens
  /\ UNCHANGED <<deal, provider, domain, old, queue, cases, threads, on>>

Switch ==
  /\ on' = ~on
  /\ Happens
  /\ UNCHANGED <<deal, provider, domain, old, queue, cases, threads, job>>

----------------------------------------------------------------------------
(* Specification                                                             *)

RouteStep ==
  \/ \E t \in storing : Count(t) \/ Insert(t)
  \/ \E c \in after : FollowUp(c)

JobStep ==
  \/ Start \/ Replay \/ Fetch \/ Finish
  \/ \E o \in Left : Apply(o)
  \/ \E c \in job.opens \cup job.unserved : Report(c)

Next ==
  \/ \E o \in Orders : Pay(o) \/ RefundPart(o) \/ Refund(o) \/ Expire(o)
  \/ \E b \in Bodies : Receive(b) \/ Defer(b)
  \/ RouteStep
  \/ JobStep
  \/ \E u \in Users : GrantManually(u) \/ WithdrawManually(u)
  \/ Age \/ Crash \/ Abandon \/ Switch

Spec == Init /\ [][Next]_vars

(* The timer starts the job every hour and a run has finitely many steps;    *)
(* threads are scheduled; time passes between the runs. Nothing else is      *)
(* fair: every webhook may be lost.                                          *)
FairSpec == Spec /\ WF_job(JobStep) /\ WF_threads(RouteStep) /\ SF_recent(Age)

----------------------------------------------------------------------------
(* Properties                                                                *)

(* Values have the types of their columns.                                   *)
TypeOK ==
  /\ deal \in Deals
  /\ status \in [Orders -> Statuses]
  /\ sent \subseteq Bodies
  /\ rows \in [Entries -> RowStates]
  /\ paying \subseteq Users
  /\ pending \subseteq Orders
  /\ recent \subseteq Marks /\ old \subseteq Marks
  /\ queue \in Seq(Bodies)
  /\ cases \in [Cases -> {"none", "open", "resolved"}]
  /\ storing \subseteq Storing /\ after \subseteq Cases
  /\ job \in Job
  /\ on \in BOOLEAN /\ events \in 0..MaxEvents

(* Room is read before the insert and not with it: threads that read it      *)
(* together may pass the limit, by one body each and never by more.          *)
QueueHeld == Len(queue) + Cardinality(Inserting) < MaxQueue + MaxThreads

(* No more places are paid for than there are, whatever the order of        *)
(* webhooks, replays, the reconciliation and manual grants.                  *)
CapacityHeld == Cardinality(PaidPlaces) <= Capacity

(* A user has one running entitlement, paid or manual: the unique index      *)
(* naroky_jeden_aktivny_idx never refuses an insert or an update.            *)
OneEntitlement == \A d, e \in Active : Holder(d) = Holder(e) => d = e

(* platiaci = 1 says exactly that an entitlement runs.                       *)
FlagMatches == paying = {Holder(e) : e \in Active}

(* A checkout attempt with its consent pays for one order.                   *)
AttemptBuysOnce ==
  deal.audited =>
    \A o, p \in Orders : Held(o) /\ Held(p) /\ deal.attempt[o] = deal.attempt[p] => o = p

(* An order is granted once: a row that was refunded, or gave nothing, stays *)
(* what it is, also after its event key was forgotten.                       *)
GrantedOnce ==
  [][\A o \in Orders : rows[o] \notin {"none", "aktivny"} => rows'[o] = rows[o]]_vars

(* An order that was paid has a row, an open case, or is refunded, even if   *)
(* every webhook was lost.                                                   *)
PaidIsAnswered ==
  \A o \in Orders :
    status[o] # "none" ~> Held(o) \/ status[o] = "refunded"
                          \/ \E k \in CaseKinds : cases[<<k, o>>] = "open"

(* An entitlement does not outlive the refund of its order for ever.         *)
ReturnedEnds ==
  \A o \in Orders : <>[](status[o] = "refunded" => rows[o] # "aktivny")

(* _odober must not take an entitlement that has nothing to do with the      *)
(* payment: what was bought ends only when its own order is refunded.        *)
OnlyOwnRefundEnds ==
  [][\A o \in Orders : rows[o] = "aktivny" /\ rows'[o] # "aktivny" => status[o] = "refunded"]_vars
=============================================================================
