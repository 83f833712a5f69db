---------------------------- MODULE Subscription ----------------------------
(***************************************************************************)
(* The annual subscription as Uvar.si keeps it: one verified local         *)
(* snapshot per provider subscription (app/predplatne.py), fed by webhook  *)
(* deliveries that may be lost, repeated and reordered, and by the hourly  *)
(* reconciliation (app/rekonciliacia.py), which reads the provider's API   *)
(* and pushes every row through the same transition engine.                *)
(*                                                                         *)
(* The payment provider (Lemon Squeezy) is external: its actions produce   *)
(* the resources and webhooks that the code in src/ relies on.             *)
(*                                                                         *)
(* Abstractions.  A provider subscription, its original order and its      *)
(* customer are one value of Subs: the code compares the three ids, and    *)
(* genuine resources always agree.  Deliveries are authentic and carry the *)
(* approved store, variant, currency, mode and price.  updated_at is the   *)
(* number of the provider operation that touched the resource.  Amounts    *)
(* are "partial" or "full".                                                *)
(***************************************************************************)
EXTENDS Naturals, FiniteSets

CONSTANTS
    Subs,          \* provider subscriptions (and their original orders)
    Attempts,      \* checkout attempts, already created by platby.py
    Users,
    AttemptOf,     \* the attempt named in the custom_data of a subscription
    Owner,         \* the user who made an attempt
    LatePairs,     \* <<s, a>>: s was bought after a's payment window closed
    Year, Grace,   \* billing period and PAST_DUE_GRACE_SECONDS, in clock units
    MaxTime,       \* bound: the clock stops here
    MaxOps,        \* bound: operations of the provider
    MaxInvoices,   \* bound: invoices of one subscription
    MaxRuns,       \* bound: runs of the reconciliation, None for no bound
    MaxDelay,      \* bound: operations after which a body is no longer delivered,
                   \* None for no bound
    CatchAll,      \* the provider sends subscription_updated beside other events
    None

AccessStatuses    == {"active", "past_due"}
SuspendedStatuses == {"unpaid", "expired"}
Statuses          == AccessStatuses \cup SuspendedStatuses \cup {"cancelled"}
InvoiceIds        == 1 .. MaxInvoices
OptTime           == Nat \cup {None}
OwnerOf(s)        == Owner[AttemptOf[s]]

ASSUME SubscriptionAssumption ==
    /\ AttemptOf \in [Subs -> Attempts]
    /\ Owner \in [Attempts -> Users]
    /\ LatePairs \subseteq Subs \X Attempts
    /\ Year \in Nat \ {0} /\ Grace \in Nat
    /\ MaxTime \in Nat /\ MaxOps \in Nat /\ MaxInvoices \in Nat \ {0}
    /\ MaxRuns \in Nat \cup {None} /\ MaxDelay \in Nat \cup {None}
    /\ CatchAll \in BOOLEAN
    /\ None \notin Subs \cup Nat \cup Attempts

VARIABLES
    now,         \* the clock
    prov,        \* provider: subscription resources
    bill,        \* provider: invoice resources of each subscription
    rev,         \* provider: number of the last operation
    events,      \* webhooks sent so far; each may arrive any number of times
    snap,        \* table subscriptions: snapshot or None
    latest,      \* per user, the row of subscriptions with the newest updated_at
    invoices,    \* table subscription_invoices
    attempts,    \* table checkout_attempts: status and provider_order_id
    processed,   \* table subscription_events: keys with status processed; a key
                 \* that requires a review is tried again like a new one
    batch,       \* the reconciliation run in progress
    runs,        \* runs started, counted where MaxRuns bounds them
    followUp,    \* memory of a request: full refunds whose renewal must be stopped
    cases        \* table payment cases: DRUH_ZRUSIT_PREDPLATNE

provider == <<prov, bill, rev, events>>
local    == <<snap, latest, invoices, attempts, processed, followUp>>
vars     == <<now, provider, local, batch, runs, cases>>

-----------------------------------------------------------------------------
(* Types.                                                                  *)

Snapshot ==
    [status: Statuses, start: Nat, end: Nat, renews: OptTime, ends: OptTime,
     paidThrough: Nat, rev: Nat]

InvoiceStatuses == {"paid", "partial_refund", "refunded"}

Invoice == [status: InvoiceStatuses, start: Nat, end: Nat]

Attempt == [status: {"none", "pending", "paid", "expired"}, order: Subs \cup {None}]

ProviderSub ==
    [status: Statuses \cup {"none"}, created: Nat, renews: Nat, ends: OptTime,
     rev: Nat]

ProviderInvoice ==
    [status: InvoiceStatuses \cup {"none", "pending"}, rev: Nat]

TransitionEvents ==
    {"subscription_updated", "subscription_cancelled", "subscription_resumed",
     "subscription_expired"}

RefundEvents == {"subscription_payment_refunded", "order_refunded"}

PaymentEvents ==
    RefundEvents \cup {"subscription_payment_success", "subscription_payment_failed",
                       "subscription_payment_recovered"}

EventNames ==
    TransitionEvents \cup PaymentEvents \cup {"order_created", "subscription_created"}

EventStatuses == Statuses \cup InvoiceStatuses \cup {"pending", "failed"}

(* A webhook body: what the provider's resource said when it was sent.     *)
Event ==
    [name: EventNames, sub: Subs, inv: InvoiceIds \cup {0}, status: EventStatuses,
     start: OptTime, end: OptTime, renews: OptTime, ends: OptTime, rev: Nat]

(* A delivery as the domain handlers read it: the body, completed from the *)
(* provider's API and the local state, and the time the request took.      *)
Delivery ==
    [name: EventNames, sub: Subs, inv: InvoiceIds \cup {0},
     status: EventStatuses \cup {"none"}, subStatus: Statuses \cup {"none"},
     attempt: Attempts \cup {None}, priced: BOOLEAN, start: OptTime, end: OptTime,
     renews: OptTime, ends: OptTime, rev: Nat, at: Nat]

(* The reconciliation run: what it fetched, the rows it has still to apply *)
(* in this phase, whether a row asked for a review.                        *)
Batch ==
    [phase: {"idle", "fetched", "activations", "invoices", "subscriptions"}, at: Nat,
     subs: [Subs -> ProviderSub] \cup {None},
     bills: [Subs -> [InvoiceIds -> ProviderInvoice]] \cup {None},
     todo: SUBSET (Subs \X (InvoiceIds \cup {0})), drift: BOOLEAN]

(* None is a value of its own. *)
ASSUME NoneAssumption ==
    /\ None \notin Snapshot /\ None \notin Invoice
    /\ None \notin [Subs -> ProviderSub]
    /\ None \notin [Subs -> [InvoiceIds -> ProviderInvoice]]

NoInvoice  == [k \in InvoiceIds |-> None]
UnusedSub  == [status |-> "none", created |-> 0, renews |-> 0, ends |-> None, rev |-> 0]
UnusedBill == [k \in InvoiceIds |-> [status |-> "none", rev |-> 0]]
NoBatch    == [phase |-> "idle", at |-> 0, subs |-> None, bills |-> None, todo |-> {},
               drift |-> FALSE]

Init ==
    /\ now = 0
    /\ prov = [s \in Subs |-> UnusedSub]
    /\ bill = [s \in Subs |-> UnusedBill]
    /\ rev = 0
    /\ events = {}
    /\ snap = [s \in Subs |-> None]
    /\ latest = [u \in Users |-> None]
    /\ invoices = [s \in Subs |-> NoInvoice]
    /\ attempts = [a \in Attempts |-> [status |-> "none", order |-> None]]
    /\ processed = {}
    /\ batch = NoBatch
    /\ runs = 0
    /\ followUp = {}
    /\ cases = {}

-----------------------------------------------------------------------------
(* Access: predplatne.subscription_access.                                 *)

HasAccess(sn) ==
    /\ sn # None
    /\ \/ sn.status = "active"
       \/ sn.status = "past_due" /\ now < sn.paidThrough + Grace
       \/ sn.status = "cancelled" /\ sn.ends # None /\ now < sn.ends

HasEnded(sn, t) ==
    \/ sn.status = "expired"
    \/ sn.status = "cancelled" /\ sn.ends # None /\ sn.ends <= t

(* The row subscription_for_user returns: a live one, else the newest.     *)
LiveOf(u) == {s \in Subs : OwnerOf(s) = u /\ snap[s] # None /\ snap[s].status # "expired"}

ForUser(u) == IF LiveOf(u) # {} THEN CHOOSE s \in LiveOf(u) : TRUE ELSE latest[u]

-----------------------------------------------------------------------------
(* upsert_snapshot: the checks a candidate passes before it becomes row s. *)
(* others: the rows of the same user the partial unique index              *)
(* subscriptions_user_live_idx would clash with.                           *)

Storable(s, cand, others) ==
    /\ cand.start < cand.end
    /\ cand.status \in AccessStatuses => cand.renews # None
    /\ cand.status = "cancelled" => cand.ends # None
    /\ snap[s] # None => cand.rev >= snap[s].rev
    /\ cand.status # "expired" => others = {}

Replaceable(s, cand) == Storable(s, cand, LiveOf(OwnerOf(s)) \ {s})

Replace(s, cand) ==
    /\ snap' = [snap EXCEPT ![s] = cand]
    /\ latest' = [latest EXCEPT ![OwnerOf(s)] = s]

-----------------------------------------------------------------------------
(* The domain handlers.  CanX(f) holds of the deliveries handler X accepts *)
(* and X(f) is what it writes.  What a handler does not accept is rolled   *)
(* back to the domain savepoint and asks for a review.                     *)

(* _validate_attempt: an expired attempt still pairs with what was bought  *)
(* before its window closed; a renewal is always later than that.          *)
InWindow(a, f) ==
    attempts[a].status = "expired" => <<f.sub, a>> \notin LatePairs /\ f.inv <= 1

\* Mutant of Pairable: Pairable without the check that the attempt backs no other order.
PairableTwice(f) == f.attempt # None /\ InWindow(f.attempt, f)

(* _pair_attempt *)
Pairable(f) ==
    /\ f.attempt # None
    /\ InWindow(f.attempt, f)
    /\ attempts[f.attempt].order \in {None, f.sub}

Pair(f) ==
    attempts' = IF attempts[f.attempt].status = "paid" THEN attempts
                ELSE [attempts EXCEPT ![f.attempt] = [status |-> "paid", order |-> f.sub]]

CanPairOrder(f) == f.name = "order_created" /\ Pairable(f)

PairOrder(f) == Pair(f) /\ UNCHANGED <<snap, latest, invoices, followUp>>

(* The subscription that ended before a returning customer bought f.sub.   *)
Previous(f) ==
    LET found == ForUser(OwnerOf(f.sub))
    IN  IF found # None /\ found # f.sub /\ HasEnded(snap[found], f.at)
        THEN {found} ELSE {}

Created(f) ==
    [status |-> "active", start |-> f.start, end |-> f.end, renews |-> f.renews,
     ends |-> None, paidThrough |-> f.end, rev |-> f.rev]

CanCreate(f) ==
    LET found == ForUser(OwnerOf(f.sub))
    IN  /\ f.name = "subscription_created"
        /\ f.priced
        /\ Pairable(f)
        /\ found # None /\ found \notin Previous(f) =>
              found = f.sub /\ snap[found].status = "active" /\ f.rev >= snap[found].rev
        /\ f.status = "active"
        /\ f.start # None /\ f.end # None
        /\ f.renews # None /\ f.renews >= f.end
        /\ Storable(f.sub, Created(f), (LiveOf(OwnerOf(f.sub)) \ {f.sub}) \ Previous(f))

\* Mutant of Create: Create that leaves the customer's previous row as it is.
CreateBeside(f) ==
    /\ Pair(f)
    /\ snap' = [snap EXCEPT ![f.sub] = Created(f)]
    /\ latest' = [latest EXCEPT ![OwnerOf(f.sub)] = f.sub]
    /\ UNCHANGED <<invoices, followUp>>

Create(f) ==
    /\ Pair(f)
    /\ snap' = [s \in Subs |->
                  IF s = f.sub THEN Created(f)
                  ELSE IF s \in Previous(f)
                  THEN [snap[s] EXCEPT !.status = "expired",
                          !.renews = IF snap[s].status = "expired" THEN @ ELSE None]
                  ELSE snap[s]]
    /\ latest' = [latest EXCEPT ![OwnerOf(f.sub)] = f.sub]
    /\ UNCHANGED <<invoices, followUp>>

(* _existing_context, _fresh_provider_revision, _validate_current_period.  *)
Known(f) ==
    /\ snap[f.sub] # None
    /\ f.attempt # None => InWindow(f.attempt, f)

Fresh(f) == f.rev >= snap[f.sub].rev

SamePeriod(f, row) == f.start = row.start /\ f.end = row.end

(* _process_payment_success: the first invoice confirms the first period,  *)
(* every later one extends the paid time.                                  *)
IsRenewal(s) == \E k \in InvoiceIds : invoices[s][k] # None

\* Mutant of Paid: Paid that never extends the paid time.
PaidAlways(f) == [snap[f.sub] EXCEPT !.rev = f.rev]

Paid(f) ==
    IF IsRenewal(f.sub) THEN Created(f) ELSE [snap[f.sub] EXCEPT !.rev = f.rev]

CanInsertInvoice(f) ==
    /\ f.name = "subscription_payment_success"
    /\ Known(f) /\ Fresh(f)
    /\ (f.inv > 1) = IsRenewal(f.sub)
    /\ \E a \in Attempts : attempts[a].order = f.sub
    /\ f.status = "paid"
    /\ f.start # None /\ f.end # None /\ f.start < f.end
    /\ IF IsRenewal(f.sub)
       THEN f.start = snap[f.sub].paidThrough /\ f.renews # None /\ f.renews >= f.end
       ELSE SamePeriod(f, snap[f.sub])

(* The unique index on invoice ids raises: the whole delivery rolls back.  *)
Collides(f) == CanInsertInvoice(f) /\ invoices[f.sub][f.inv] # None

CanRecordPayment(f) == CanInsertInvoice(f) /\ ~Collides(f) /\ Replaceable(f.sub, Paid(f))

RecordPayment(f) ==
    /\ invoices' = [invoices EXCEPT ![f.sub][f.inv] =
                      [status |-> "paid", start |-> f.start, end |-> f.end]]
    /\ Replace(f.sub, Paid(f))
    /\ UNCHANGED <<attempts, followUp>>

\* Mutant of Dunned: Dunned that stamps the row and forgets its status.
DunnedQuietly(f) == [snap[f.sub] EXCEPT !.rev = f.rev]

(* _process_dunning *)
Dunned(f) ==
    [snap[f.sub] EXCEPT
        !.status = IF f.name = "subscription_payment_recovered" THEN "active" ELSE "past_due",
        !.rev = f.rev]

CanDun(f) ==
    /\ \/ /\ f.name = "subscription_payment_recovered"
          /\ f.status = "paid" /\ f.subStatus = "active"
       \/ /\ f.name = "subscription_payment_failed"
          /\ f.status = "failed" /\ f.subStatus = "past_due"
    /\ Known(f) /\ Fresh(f)
    /\ SamePeriod(f, snap[f.sub])
    /\ snap[f.sub].status \in
          AccessStatuses \cup (IF f.name = "subscription_payment_recovered"
                               THEN SuspendedStatuses ELSE {})
    /\ Replaceable(f.sub, Dunned(f))

Dun(f) == Replace(f.sub, Dunned(f)) /\ UNCHANGED <<invoices, attempts, followUp>>

\* Mutant of EndsAccess: EndsAccess with a strict comparison.
EndsPastOnly(f) ==
    /\ f.status = "refunded"
    /\ invoices[f.sub][f.inv].end > snap[f.sub].paidThrough
    /\ snap[f.sub].status # "expired"

(* _process_refund: a full refund of the last paid period ends access.     *)
EndsAccess(f) ==
    /\ f.status = "refunded"
    /\ invoices[f.sub][f.inv].end >= snap[f.sub].paidThrough
    /\ snap[f.sub].status # "expired"

\* Mutant of Ended: Ended that loses the paid time.
EndedUnpaid(f) ==
    [snap[f.sub] EXCEPT !.status = "expired", !.renews = None, !.paidThrough = None]

Ended(f) ==
    LET until == IF f.at < snap[f.sub].paidThrough THEN f.at ELSE snap[f.sub].paidThrough
    IN  [snap[f.sub] EXCEPT !.status = "expired", !.renews = None, !.ends = until,
                            !.paidThrough = until]

\* Mutant of CanRefund: CanRefund that lets a partial refund follow a full one.
CanRefundLess(f) ==
    /\ f.name \in RefundEvents
    /\ Known(f)
    /\ invoices[f.sub][f.inv] # None
    /\ SamePeriod(f, invoices[f.sub][f.inv])
    /\ f.status \in {"partial_refund", "refunded"}
    /\ EndsAccess(f) => Replaceable(f.sub, Ended(f))

CanRefund(f) ==
    /\ f.name \in RefundEvents
    /\ Known(f)
    /\ invoices[f.sub][f.inv] # None
    /\ SamePeriod(f, invoices[f.sub][f.inv])
    /\ f.status \in {"partial_refund", "refunded"}
    /\ invoices[f.sub][f.inv].status = "refunded" => f.status = "refunded"
    /\ EndsAccess(f) => Replaceable(f.sub, Ended(f))

Refund(f) ==
    /\ invoices' = [invoices EXCEPT ![f.sub][f.inv].status = f.status]
    /\ IF EndsAccess(f)
       THEN Replace(f.sub, Ended(f)) /\ followUp' = followUp \cup {f.sub}
       ELSE UNCHANGED <<snap, latest, followUp>>
    /\ UNCHANGED attempts

(* _process_subscription_transition *)
Cancels(f) == f.name = "subscription_cancelled" \/ f.status = "cancelled"
Resumes(f) == f.name = "subscription_resumed" /\ ~Cancels(f)
Expires(f) == (f.name = "subscription_expired" \/ f.status = "expired")
                 /\ ~Cancels(f) /\ ~Resumes(f)
Updates(f) == f.name = "subscription_updated" /\ ~Cancels(f) /\ ~Expires(f)

MovedTo(f, status, revision) ==
    LET base == [snap[f.sub] EXCEPT !.rev = revision, !.status = status]
    IN  IF Cancels(f) THEN [base EXCEPT !.renews = None, !.ends = f.ends]
        ELSE IF Resumes(f) THEN [base EXCEPT !.renews = f.renews, !.ends = None]
        ELSE IF Expires(f) THEN [base EXCEPT !.renews = None]
        ELSE IF f.status \in AccessStatuses THEN [base EXCEPT !.renews = f.renews]
        ELSE base

\* Mutant of Moved: Moved that keeps the old revision.
MovedUnstamped(f) == MovedTo(f, f.status, snap[f.sub].rev)
\* Mutant of Moved: Moved that keeps the old status.
MovedInTime(f) == MovedTo(f, snap[f.sub].status, f.rev)

Moved(f) == MovedTo(f, f.status, f.rev)

\* Mutant of CanMove: CanMove without the table of allowed transitions.
CanMoveAnywhere(f) ==
    \/ Cancels(f) /\ f.ends = snap[f.sub].paidThrough
    \/ Resumes(f) /\ f.renews # None
    \/ Expires(f)
    \/ Updates(f) /\ f.renews # None

CanMove(f) ==
    LET sn == snap[f.sub]
    IN  \/ /\ Cancels(f) /\ f.status = "cancelled"
           /\ sn.status \in {"active", "past_due", "cancelled"}
           /\ f.ends = sn.paidThrough
        \/ /\ Resumes(f) /\ f.status = "active"
           /\ sn.status = "cancelled" /\ sn.ends # None /\ f.at < sn.ends
           /\ f.renews # None
        \/ Expires(f) /\ f.status = "expired"
        \/ /\ Updates(f) /\ f.renews # None
           /\ \/ f.status = "active" /\ sn.status = "active"
              \/ f.status = "past_due" /\ sn.status \in AccessStatuses
        \/ /\ Updates(f) /\ f.status = "unpaid"
           /\ sn.status \in {"active", "past_due", "unpaid"}

(* After a full refund a cancellation only confirms the end.               *)
Confirms(f) == Cancels(f) /\ snap[f.sub].status = "expired"

CanTransition(f) ==
    /\ f.name \in TransitionEvents
    /\ Known(f) /\ Fresh(f)
    /\ SamePeriod(f, snap[f.sub])
    /\ Confirms(f) \/ (CanMove(f) /\ Replaceable(f.sub, Moved(f)))

Transition(f) ==
    /\ IF Confirms(f) THEN UNCHANGED <<snap, latest>> ELSE Replace(f.sub, Moved(f))
    /\ UNCHANGED <<invoices, attempts, followUp>>

-----------------------------------------------------------------------------
(* process_subscription_event: one idempotent transaction per delivery.    *)

(* subscription_event_key.  A payment event is known by its invoice alone, *)
(* another webhook by its body, a reconciliation row by its projection.    *)
InvoiceKey(f)   == <<"invoice", f.name, f.sub, f.inv>>
WebhookKey(e)   == IF e.name \in PaymentEvents THEN InvoiceKey(e) ELSE <<"webhook", e>>
ReconcileKey(f) == <<"reconcile", [f EXCEPT !.at = 0, !.renews = None, !.ends = None]>>

Accepts(f) ==
    \/ CanPairOrder(f) \/ CanCreate(f) \/ CanRecordPayment(f) \/ CanDun(f)
    \/ CanRefund(f) \/ CanTransition(f)

Handle(f) ==
    \/ CanPairOrder(f) /\ PairOrder(f)
    \/ CanCreate(f) /\ Create(f)
    \/ CanRecordPayment(f) /\ RecordPayment(f)
    \/ CanDun(f) /\ Dun(f)
    \/ CanRefund(f) /\ Refund(f)
    \/ CanTransition(f) /\ Transition(f)

Process(f, key) ==
    IF key \in processed \/ Collides(f) \/ ~Accepts(f)
    THEN UNCHANGED local
    ELSE Handle(f) /\ processed' = processed \cup {key}

\* Mutant of NeedsReview: NeedsReview silent about unknown subscriptions.
NeedsReviewIfKnown(f, key) ==
    key \notin processed /\ ~Collides(f) /\ ~Accepts(f) /\ snap[f.sub] # None

NeedsReview(f, key) == key \notin processed /\ ~Collides(f) /\ ~Accepts(f)

-----------------------------------------------------------------------------
(* normalize_invoice_attributes: status and period of an invoice row, from *)
(* the body, the local snapshot and what is known of the subscription      *)
(* (sub, or None when it could not be read).                               *)

InvoiceStatus(status, sub) ==
    IF status = "pending" /\ sub # None /\ sub.status = "past_due" THEN "failed" ELSE status

Period(s, k, status, sub) ==
    LET sn == snap[s]
        isNew == status = "paid" /\ k > 1
        end == IF sub # None THEN sub.renews ELSE 0
    IN  IF sn = None \/ (isNew /\ sn.paidThrough >= end)
        THEN [start |-> None, end |-> None]
        ELSE IF isNew THEN [start |-> sn.paidThrough, end |-> end]
        ELSE [start |-> sn.start, end |-> sn.end]

(* enrich_provider_payload: lookup says whether the provider's API answers.*)
InvoiceFacts(e, lookup) ==
    LET sub    == IF lookup THEN prov[e.sub] ELSE None
        status == IF snap[e.sub] = None THEN e.status ELSE InvoiceStatus(e.status, sub)
        filled == Period(e.sub, e.inv, status, sub)
        own    == e.start # None
    IN  [name |-> e.name, sub |-> e.sub, inv |-> e.inv, status |-> status,
         subStatus |-> IF own THEN "active"
                       ELSE IF lookup /\ snap[e.sub] # None THEN prov[e.sub].status ELSE "none",
         attempt |-> AttemptOf[e.sub], priced |-> TRUE,
         start |-> IF own THEN e.start ELSE filled.start,
         end |-> IF own THEN e.end ELSE filled.end,
         renews |-> IF lookup /\ snap[e.sub] # None THEN prov[e.sub].renews ELSE None,
         ends |-> None, rev |-> e.rev, at |-> now]

(* A refunded order stands for its initial invoice.                        *)
OrderFacts(e) ==
    LET row == invoices[e.sub][1]
    IN  [name |-> e.name, sub |-> e.sub, inv |-> e.inv, status |-> e.status,
         subStatus |-> "none", attempt |-> AttemptOf[e.sub], priced |-> TRUE,
         start |-> IF row = None THEN None ELSE row.start,
         end |-> IF row = None THEN None ELSE row.end,
         renews |-> None, ends |-> None, rev |-> e.rev, at |-> now]

SubscriptionFacts(e, lookup) ==
    LET sn == snap[e.sub]
        a  == attempts[AttemptOf[e.sub]]
    IN  [name |-> e.name, sub |-> e.sub, inv |-> 0, status |-> e.status,
         subStatus |-> "none", attempt |-> AttemptOf[e.sub],
         priced |-> lookup \/ (a.status = "paid" /\ a.order = e.sub),
         start |-> IF sn = None THEN prov[e.sub].created ELSE sn.start,
         end |-> IF sn = None THEN e.renews ELSE sn.end,
         renews |-> e.renews, ends |-> e.ends, rev |-> e.rev, at |-> now]

Facts(e, lookup) ==
    IF e.name \in {"order_created", "order_refunded"} THEN OrderFacts(e)
    ELSE IF e.name \in PaymentEvents THEN InvoiceFacts(e, lookup)
    ELSE SubscriptionFacts(e, lookup)

(* A refunded order whose initial invoice is unknown has no invoice id: it *)
(* is put aside (odloz_webhook) and may be delivered again.                *)
Rejected(e) ==
    e.name = "order_refunded" /\ (snap[e.sub] = None \/ invoices[e.sub][1] = None)

(* platba_webhook: a body sent may arrive at any time, once, often or      *)
(* never.  The reconciliation's transaction holds the write lock.          *)
Unlocked == batch.phase \in {"idle", "fetched"}

Deliver(e) ==
    /\ Unlocked
    /\ e \in events
    /\ MaxDelay # None => rev <= e.rev + MaxDelay
    /\ ~Rejected(e)
    /\ \E f \in {Facts(e, lookup) : lookup \in BOOLEAN} : Process(f, WebhookKey(e))
    /\ UNCHANGED <<now, provider, batch, runs, cases>>

-----------------------------------------------------------------------------
(* The checkout: platby.create_subscription_checkout_attempt.  A customer  *)
(* may buy when no subscription of his is running; his pending attempts    *)
(* are expired ones by then.                                               *)

Checkout(a) ==
    /\ Unlocked
    /\ attempts[a].status = "none"
    /\ \A s \in LiveOf(Owner[a]) : HasEnded(snap[s], now)
    /\ attempts' = [b \in Attempts |->
                      IF b = a THEN [status |-> "pending", order |-> None]
                      ELSE IF Owner[b] = Owner[a] /\ attempts[b].status = "pending"
                      THEN [attempts[b] EXCEPT !.status = "expired"]
                      ELSE attempts[b]]
    /\ UNCHANGED <<now, provider, snap, latest, invoices, processed, followUp, batch, runs, cases>>

-----------------------------------------------------------------------------
(* The provider (external).  Each operation is one revision of what it     *)
(* touches; p is the subscription after it, b its invoices, and every      *)
(* change of the subscription may also send subscription_updated.         *)

Of(s, name, k, status, p) ==
    [name |-> name, sub |-> s, inv |-> k, status |-> status, start |-> None,
     end |-> None, renews |-> IF k = 0 THEN p.renews ELSE None,
     ends |-> IF k = 0 THEN p.ends ELSE None, rev |-> rev + 1]

SubEvent(s, name, p) == Of(s, name, 0, p.status, p)

Updated(s, p) == IF CatchAll THEN {SubEvent(s, "subscription_updated", p)} ELSE {}

Operate(s, p, b, sent) ==
    /\ rev < MaxOps
    /\ rev' = rev + 1
    /\ prov' = [prov EXCEPT ![s] = [p EXCEPT !.rev = rev + 1]]
    /\ bill' = [bill EXCEPT ![s] = b]
    /\ events' = events \cup sent
    /\ Unlocked
    /\ UNCHANGED <<now, batch, runs>>

Change(s, p, name) ==
    Operate(s, p, bill[s], {SubEvent(s, name, p)} \cup Updated(s, p))

Billed(s, k, status) == [bill[s] EXCEPT ![k] = [status |-> status, rev |-> rev + 1]]

NextInvoice(s, k) ==
    k \in InvoiceIds /\ k > 1 /\ bill[s][k].status = "none" /\ bill[s][k - 1].status # "none"

Sale(s) ==
    LET p == [prov[s] EXCEPT !.status = "active", !.created = now, !.renews = now + Year]
    IN  /\ prov[s].status = "none"
        /\ attempts[AttemptOf[s]].status # "none"
        /\ Operate(s, p, Billed(s, 1, "paid"),
                   {Of(s, "order_created", 0, "paid", p),
                    SubEvent(s, "subscription_created", p),
                    Of(s, "subscription_payment_success", 1, "paid", p)})
        /\ UNCHANGED <<local, cases>>

Renew(s, k) ==
    LET p == [prov[s] EXCEPT !.renews = @ + Year]
    IN  /\ prov[s].status = "active" /\ now >= prov[s].renews /\ NextInvoice(s, k)
        /\ Operate(s, p, Billed(s, k, "paid"),
                   {Of(s, "subscription_payment_success", k, "paid", p)} \cup Updated(s, p))
        /\ UNCHANGED <<local, cases>>

RenewFails(s, k) ==
    LET p == [prov[s] EXCEPT !.status = "past_due"]
    IN  /\ prov[s].status = "active" /\ now >= prov[s].renews /\ NextInvoice(s, k)
        /\ Operate(s, p, Billed(s, k, "pending"),
                   {Of(s, "subscription_payment_failed", k, "pending", p)} \cup Updated(s, p))
        /\ UNCHANGED <<local, cases>>

(* The body of payment_recovered carries the period that was in danger     *)
(* (tests/test_lemon_webhook_fixtures.py:998).                             *)
Recover(s, k) ==
    LET p    == [prov[s] EXCEPT !.status = "active", !.renews = @ + Year]
        body == [Of(s, "subscription_payment_recovered", k, "paid", p) EXCEPT
                    !.start = prov[s].renews - Year, !.end = prov[s].renews]
    IN  /\ prov[s].status \in {"past_due", "unpaid"} /\ bill[s][k].status = "pending"
        /\ Operate(s, p, Billed(s, k, "paid"),
                   {body, Of(s, "subscription_payment_success", k, "paid", p)} \cup Updated(s, p))
        /\ UNCHANGED <<local, cases>>

GiveUp(s) ==
    /\ prov[s].status = "past_due"
    /\ Operate(s, [prov[s] EXCEPT !.status = "unpaid"], bill[s],
               {SubEvent(s, "subscription_updated", [prov[s] EXCEPT !.status = "unpaid"])})
    /\ UNCHANGED <<local, cases>>

Cancelled(s) == [prov[s] EXCEPT !.status = "cancelled", !.ends = prov[s].renews]

Cancel(s) ==
    /\ prov[s].status \in AccessStatuses
    /\ Change(s, Cancelled(s), "subscription_cancelled")
    /\ UNCHANGED <<local, cases>>

Resume(s) ==
    /\ prov[s].status = "cancelled" /\ now < prov[s].ends
    /\ Change(s, [prov[s] EXCEPT !.status = "active", !.ends = None], "subscription_resumed")
    /\ UNCHANGED <<local, cases>>

Expire(s) ==
    /\ \/ prov[s].status = "cancelled" /\ now >= prov[s].ends
       \/ prov[s].status \in {"past_due", "unpaid"}
    /\ Change(s, [prov[s] EXCEPT !.status = "expired"], "subscription_expired")
    /\ UNCHANGED <<local, cases>>

(* A refund leaves the subscription as it is.                              *)
RefundInvoice(s, k, status) ==
    /\ bill[s][k].status = "paid" \/ (bill[s][k].status = "partial_refund" /\ status = "refunded")
    /\ rev < MaxOps
    /\ rev' = rev + 1
    /\ bill' = [bill EXCEPT ![s] = Billed(s, k, status)]
    /\ events' = events \cup
          {Of(s, "subscription_payment_refunded", k, status, prov[s])} \cup
          (IF k = 1 THEN {Of(s, "order_refunded", 1, status, prov[s])} ELSE {})
    /\ Unlocked
    /\ UNCHANGED <<now, prov, local, batch, runs, cases>>

ProviderStep ==
    \E s \in Subs :
        \/ Sale(s) \/ GiveUp(s) \/ Cancel(s) \/ Resume(s) \/ Expire(s)
        \/ \E k \in InvoiceIds :
              \/ Renew(s, k) \/ RenewFails(s, k) \/ Recover(s, k)
              \/ \E status \in {"partial_refund", "refunded"} : RefundInvoice(s, k, status)

Tick ==
    /\ now < MaxTime /\ Unlocked
    /\ now' = now + 1
    /\ UNCHANGED <<provider, local, batch, runs, cases>>

-----------------------------------------------------------------------------
(* The end of a refund: server._doriesit_predplatne,                       *)
(* platby.dokonci_refundaciu_predplatneho.  After the commit the request   *)
(* stops the renewal at the provider; what fails becomes a payment case.   *)

StopRenewal(s) ==
    /\ s \in followUp
    /\ prov[s].status \in AccessStatuses
    /\ Change(s, Cancelled(s), "subscription_cancelled")
    /\ followUp' = followUp \ {s}
    /\ UNCHANGED <<snap, latest, invoices, attempts, processed, cases>>

StopFails(s) ==
    /\ s \in followUp /\ Unlocked
    /\ followUp' = followUp \ {s}
    /\ cases' = cases \cup {s}
    /\ UNCHANGED <<now, provider, snap, latest, invoices, attempts, processed, batch, runs>>

(* The process dies between the commit and the follow-up.                  *)
Crash(s) ==
    /\ s \in followUp /\ Unlocked
    /\ followUp' = followUp \ {s}
    /\ UNCHANGED <<now, provider, snap, latest, invoices, attempts, processed, batch, runs, cases>>

-----------------------------------------------------------------------------
(* The hourly reconciliation.  The two lists are fetched one after the     *)
(* other, then applied in one savepoint: lost activations, invoices,       *)
(* subscriptions.  It keeps the time it started with.                      *)

FetchSubscriptions ==
    /\ batch.phase = "idle"
    /\ MaxRuns # None => runs < MaxRuns
    /\ batch' = [NoBatch EXCEPT !.phase = "fetched", !.at = now, !.subs = prov]
    /\ runs' = IF MaxRuns = None THEN runs ELSE runs + 1
    /\ UNCHANGED <<now, provider, local, cases>>

Present(b)  == {s \in Subs : b.subs[s].status # "none"}
Invoiced(b) == {row \in Subs \X InvoiceIds : b.bills[row[1]][row[2]].status # "none"}

\* Mutant of Listed: Listed that goes through running subscriptions only.
ListedRunning(b) ==
    CASE b.phase = "activations" -> {<<s, 0>> : s \in {t \in Present(b) : snap[t] = None}}
      [] b.phase = "invoices"    -> Invoiced(b)
      [] OTHER -> {<<s, 0>> : s \in {t \in Present(b) : b.subs[t].status \in AccessStatuses}}

(* The rows each phase goes through; a phase without rows is over.         *)
Listed(b) ==
    CASE b.phase = "activations" -> {<<s, 0>> : s \in {t \in Present(b) : snap[t] = None}}
      [] b.phase = "invoices"    -> Invoiced(b)
      [] OTHER                   -> {<<s, 0>> : s \in Present(b)}

FetchInvoices ==
    LET b == [batch EXCEPT !.phase = "activations", !.bills = bill]
    IN  /\ batch.phase = "fetched"
        /\ batch' = [b EXCEPT !.todo = Listed(b)]
        /\ UNCHANGED <<now, provider, local, runs, cases>>

(* _attempt_for_lost_subscription: the attempt paired with the order, else *)
(* the only open one of the account, made for a purchase at that time.     *)
LostAttempts(s) ==
    LET paired == {a \in Attempts : attempts[a].order = s}
    IN  IF paired # {} THEN paired
        ELSE {a \in Attempts : /\ Owner[a] = OwnerOf(s)
                               /\ attempts[a].status \in {"pending", "expired"}
                               /\ <<s, a>> \notin LatePairs}

IsLost(s) ==
    /\ snap[s] = None
    /\ batch.subs[s].status = "active"
    /\ batch.bills[s][1].status = "paid"
    /\ \E a \in Attempts : LostAttempts(s) = {a}

RowFacts(name, s) ==
    LET row == batch.subs[s]
        sn  == snap[s]
    IN  [name |-> name, sub |-> s, inv |-> 0, status |-> row.status,
         subStatus |-> "none", attempt |-> None, priced |-> TRUE,
         start |-> IF sn # None THEN sn.start
                   ELSE IF name = "subscription_created" THEN row.created ELSE None,
         end |-> IF sn # None THEN sn.end
                 ELSE IF name = "subscription_created" THEN row.renews ELSE None,
         renews |-> row.renews, ends |-> row.ends, rev |-> row.rev, at |-> batch.at]

(* Row by row; what asks for a review is counted as drift.                 *)
Skip(row, drifts) ==
    /\ batch' = [batch EXCEPT !.todo = @ \ {row}, !.drift = @ \/ drifts]
    /\ UNCHANGED <<now, provider, local, runs, cases>>

Apply(row, f) ==
    /\ Process(f, ReconcileKey(f))
    /\ batch' = [batch EXCEPT !.todo = @ \ {row},
                              !.drift = @ \/ NeedsReview(f, ReconcileKey(f))]
    /\ UNCHANGED <<now, provider, runs, cases>>

ApplyActivation(s) ==
    /\ batch.phase = "activations" /\ <<s, 0>> \in batch.todo
    /\ IF IsLost(s)
       THEN \E f \in {[RowFacts("subscription_created", s) EXCEPT !.attempt = a] :
                       a \in LostAttempts(s)} : Apply(<<s, 0>>, f)
       ELSE Skip(<<s, 0>>, FALSE)

(* _normalized_invoice_row and _event_payload: what the row says, and the  *)
(* period known locally where it says nothing.                             *)
RowOf(s)       == IF batch.subs[s].status = "none" THEN None ELSE batch.subs[s]
RowStatus(s, k) ==
    IF snap[s] = None THEN batch.bills[s][k].status
    ELSE InvoiceStatus(batch.bills[s][k].status, RowOf(s))
RowPeriod(s, k) == Period(s, k, RowStatus(s, k), RowOf(s))

(* A paid invoice of the suspended period itself saves the subscription.   *)
Saves(s, k) ==
    /\ snap[s] # None
    /\ snap[s].status \in SuspendedStatuses \cup {"past_due"}
    /\ SamePeriod(RowPeriod(s, k), snap[s])

(* _invoice_event_name                                                     *)
InvoiceName(s, k) ==
    CASE RowStatus(s, k) \in {"refunded", "partial_refund"} -> "subscription_payment_refunded"
      [] RowStatus(s, k) = "failed"                         -> "subscription_payment_failed"
      [] RowStatus(s, k) = "paid" /\ Saves(s, k)            -> "subscription_payment_recovered"
      [] RowStatus(s, k) = "paid" /\ ~Saves(s, k) /\ invoices[s][k] = None ->
            "subscription_payment_success"
      [] RowStatus(s, k) = "paid" /\ ~Saves(s, k) /\ invoices[s][k] # None -> "duplicate"
      [] OTHER                                              -> "invalid"

InvoiceRow(s, k) ==
    LET own == RowPeriod(s, k)
        sub == RowOf(s)
        fallback == own.start = None /\ snap[s] # None
    IN  [name |-> InvoiceName(s, k), sub |-> s, inv |-> k, status |-> RowStatus(s, k),
         subStatus |-> IF sub = None \/ snap[s] = None THEN "none" ELSE sub.status,
         attempt |-> None, priced |-> TRUE,
         start |-> IF fallback THEN snap[s].start ELSE own.start,
         end |-> IF fallback THEN snap[s].end ELSE own.end,
         renews |-> IF sub = None THEN None ELSE sub.renews,
         ends |-> IF sub = None THEN None ELSE sub.ends,
         rev |-> batch.bills[s][k].rev, at |-> batch.at]

ApplyInvoice(s, k) ==
    /\ batch.phase = "invoices" /\ <<s, k>> \in batch.todo
    /\ \/ InvoiceName(s, k) = "duplicate" /\ Skip(<<s, k>>, FALSE)
       \/ InvoiceName(s, k) = "invalid" /\ Skip(<<s, k>>, TRUE)
       \/ /\ InvoiceName(s, k) \in EventNames
          /\ \E f \in {InvoiceRow(s, k)} : Apply(<<s, k>>, f)

(* _unchanged_older_snapshot, _subscription_event_name.                    *)
Unchanged(s) ==
    LET row == batch.subs[s]
    IN  /\ snap[s] # None /\ row.status = snap[s].status
        /\ row.rev < snap[s].rev
        /\ row.renews = snap[s].renews /\ row.ends = snap[s].ends

RowName(s) ==
    CASE batch.subs[s].status = "expired"   -> "subscription_expired"
      [] batch.subs[s].status = "cancelled" -> "subscription_cancelled"
      [] batch.subs[s].status = "active" /\ snap[s] # None /\ snap[s].status = "cancelled" ->
            "subscription_resumed"
      [] OTHER -> "subscription_updated"

ApplySubscription(s) ==
    /\ batch.phase = "subscriptions" /\ <<s, 0>> \in batch.todo
    /\ IF Unchanged(s) THEN Skip(<<s, 0>>, FALSE)
       ELSE \E f \in {RowFacts(RowName(s), s)} : Apply(<<s, 0>>, f)

NextPhase ==
    LET b == [batch EXCEPT !.phase = IF batch.phase = "activations" THEN "invoices"
                                     ELSE "subscriptions"]
    IN  /\ batch.phase \in {"activations", "invoices", "subscriptions"}
        /\ batch.todo = {}
        /\ batch' = IF batch.phase = "subscriptions" THEN NoBatch
                    ELSE [b EXCEPT !.todo = Listed(b)]
        /\ UNCHANGED <<now, provider, local, runs, cases>>

Reconcile ==
    \/ FetchSubscriptions \/ FetchInvoices \/ NextPhase
    \/ \E s \in Subs :
          \/ ApplyActivation(s) \/ ApplySubscription(s)
          \/ \E k \in InvoiceIds : ApplyInvoice(s, k)

-----------------------------------------------------------------------------
Next ==
    \/ Tick
    \/ ProviderStep
    \/ \E a \in Attempts : Checkout(a)
    \/ \E e \in events : Deliver(e)
    \/ \E s \in Subs : StopRenewal(s) \/ StopFails(s) \/ Crash(s)
    \/ Reconcile

(* The reconciliation timer fires hourly and the scripts run to their end. *)
Fairness == WF_vars(Reconcile)

Spec     == Init /\ [][Next]_vars
FairSpec == Spec /\ Fairness

-----------------------------------------------------------------------------
(* Type invariant. *)
ProviderOK ==
    /\ prov \in [Subs -> ProviderSub]
    /\ bill \in [Subs -> [InvoiceIds -> ProviderInvoice]]
    /\ rev \in Nat
    /\ events \subseteq Event

LocalOK ==
    /\ snap \in [Subs -> Snapshot \cup {None}]
    /\ latest \in [Users -> Subs \cup {None}]
    /\ invoices \in [Subs -> [InvoiceIds -> Invoice \cup {None}]]
    /\ attempts \in [Attempts -> Attempt]
    /\ followUp \subseteq Subs

TypeOK ==
    /\ now \in Nat /\ runs \in Nat
    /\ ProviderOK
    /\ LocalOK
    /\ batch \in Batch
    /\ cases \subseteq Subs

-----------------------------------------------------------------------------
(* What the type invariant and the properties below rest on; proved        *)
(* inductive in SubscriptionProofs.                                        *)

LatestStored == \A u \in Users : latest[u] # None => snap[latest[u]] # None

BatchLoaded ==
    /\ batch.phase # "idle" => batch.subs # None
    /\ batch.phase \notin {"idle", "fetched"} => batch.bills # None

PaymentsNameInvoice == \A e \in events : e.name \in PaymentEvents => e.inv # 0

ChargedForAYear == \A s \in Subs : prov[s].status # "none" => prov[s].renews >= Year

AttemptsPaired ==
    \A a \in Attempts :
        /\ attempts[a].status = "paid" <=> attempts[a].order # None
        /\ attempts[a].order # None => OwnerOf(attempts[a].order) = Owner[a]

-----------------------------------------------------------------------------
(* Safety. *)

Live(s) == snap[s] # None /\ snap[s].status # "expired"

(* A customer has at most one running subscription, whatever the order in  *)
(* which purchases, endings and late activations are processed.            *)
OneLivePerUser ==
    \A s, t \in Subs : OwnerOf(s) = OwnerOf(t) /\ Live(s) /\ Live(t) => s = t

(* A stored subscription is backed by a checkout attempt of its owner that *)
(* is paid and paired with its order and with no other.                    *)
BackedByAttempt ==
    \A s \in Subs : snap[s] # None =>
        \E a \in Attempts : /\ Owner[a] = OwnerOf(s)
                            /\ attempts[a] = [status |-> "paid", order |-> s]

(* Once invoices are recorded, a running subscription is paid exactly up   *)
(* to the end of one of them, and that one was not fully refunded: a late  *)
(* or repeated delivery never gives refunded time back. It holds as long as*)
(* CreationRevivesNothing does: a creation that arrives late for an expired*)
(* row makes it run again with the refunded invoice as its last.           *)
PaidTimeIsInvoiced ==
    \A s \in Subs : Live(s) /\ IsRenewal(s) =>
        \E k \in InvoiceIds : /\ invoices[s][k] # None
                              /\ invoices[s][k].status # "refunded"
                              /\ invoices[s][k].end = snap[s].paidThrough

(* No two standing invoices cover the same time, provided a run of the     *)
(* reconciliation ends before the period after the one it started in: a    *)
(* full refund it applies cuts the paid time back to the start of the run. *)
PeriodsDisjoint ==
    \A s \in Subs : \A j, k \in InvoiceIds :
        LET a == invoices[s][j]
            b == invoices[s][k]
        IN  j # k /\ a # None /\ b # None /\ a.status # "refunded" /\ b.status # "refunded"
              => a.end <= b.start \/ b.end <= a.start

(* A running row that carries the provider's last revision says what the   *)
(* provider says: no delivery leaves the row fresh and wrong.              *)
FreshMeansTrue ==
    \A s \in Subs : Live(s) /\ snap[s].rev >= prov[s].rev => snap[s].status = prov[s].status

(* A recorded invoice keeps its period: a payment that arrives both by     *)
(* webhook and by reconciliation is one payment.                           *)
InvoicesAreFinal ==
    [][\A s \in Subs : \A k \in InvoiceIds : invoices[s][k] # None =>
          /\ invoices'[s][k].start = invoices[s][k].start
          /\ invoices'[s][k].end = invoices[s][k].end
          /\ invoices[s][k].status = "refunded" => invoices'[s][k].status = "refunded"]_vars

(* What CreationRevivesNothing is about: the step takes the webhook of the *)
(* creation of a row that has ended.                                       *)
CreatedAgain(s) ==
    /\ snap[s].status = "expired"
    /\ \E e \in events : /\ e.name = "subscription_created" /\ e.sub = s
                         /\ WebhookKey(e) \in processed' \ processed

(* Where that does not happen, what was suspended comes back only by a     *)
(* payment the provider holds and the ledger did not have.                 *)
RevivedByPayment ==
    [][\A s \in Subs :
          /\ snap[s] # None /\ snap[s].status \in SuspendedStatuses
          /\ snap'[s].status = "active"
          => \/ \E k \in InvoiceIds : /\ bill[s][k].status \in InvoiceStatuses
                                      /\ invoices[s][k] = None
             \/ CreatedAgain(s)]_vars

(* Nor does a cancelled or suspended subscription come back by an older    *)
(* body that arrives late: only by something the provider did later or by  *)
(* a payment recorded in that step.                                        *)
RevivedByNews ==
    [][\A s \in Subs :
          /\ snap[s] # None /\ snap[s].status \in SuspendedStatuses \cup {"cancelled"}
          /\ snap'[s].status = "active"
          => \/ snap'[s].rev > snap[s].rev
             \/ invoices'[s] # invoices[s]
             \/ CreatedAgain(s)]_vars

-----------------------------------------------------------------------------
(* Liveness, with webhooks that may all be lost. *)

(* Access does not outlive the provider's subscription.                    *)
EndReachesAccess ==
    \A s \in Subs : prov[s].status = "expired" ~> ~HasAccess(snap[s])

EndedByRefund(s) ==
    /\ snap[s] # None /\ snap[s].status = "expired"
    /\ \E k \in InvoiceIds : invoices[s][k] # None /\ invoices[s][k].status = "refunded"

(* A subscription the provider charges for gives access, unless its        *)
(* payment was returned; otherwise the reconciliation reports a drift.     *)
PaidOrFlagged ==
    \A s \in Subs :
        prov[s].status = "active" ~>
            \/ prov[s].status # "active"
            \/ HasAccess(snap[s])
            \/ EndedByRefund(s)
            \/ batch.drift

-----------------------------------------------------------------------------
(* Statements of the repository that the code does not keep. *)

(* predplatne.py:1571 "Plne vrátená platba za posledné zaplatené obdobie   *)
(* končí prístup hneď": the webhook of a full refund of the last paid      *)
(* invoice is never put aside as a duplicate while access still runs.      *)
FullRefundEndsAccessAtOnce ==
    \A e \in events :
        /\ e.name = "subscription_payment_refunded" /\ e.status = "refunded"
        /\ Live(e.sub) /\ invoices[e.sub][e.inv] # None
        /\ invoices[e.sub][e.inv].status # "refunded"
        /\ invoices[e.sub][e.inv].end >= snap[e.sub].paidThrough
        => WebhookKey(e) \notin processed

(* server.py:7276 "prípad ostane v chránenej evidencii — nikdy sa          *)
(* nepokračuje potichu": a subscription whose payment was returned stops   *)
(* renewing at the provider, or a payment case or a drift says so.         *)
ReturnedStopsOrIsReported ==
    \A s \in Subs :
        EndedByRefund(s) /\ prov[s].status = "active" ~>
            \/ prov[s].status # "active"
            \/ ~EndedByRefund(s)
            \/ s \in cases
            \/ batch.drift

(* predplatne.py:1268 "opakované vytvorenie nesmie obnoviť ukončené        *)
(* predplatné": a repeated subscription_created revives nothing.           *)
CreationRevivesNothing ==
    [][\A e \in events :
          /\ e.name = "subscription_created"
          /\ snap[e.sub] # None /\ snap[e.sub].status = "expired"
          /\ Deliver(e)
          => snap'[e.sub].status = "expired"]_vars
=============================================================================
