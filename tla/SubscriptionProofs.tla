------------------------- MODULE SubscriptionProofs -------------------------
(***************************************************************************)
(* Theorems about Subscription, for every set of subscriptions, attempts   *)
(* and users and for every bound.                                          *)
(***************************************************************************)
EXTENDS Subscription, TLAPS

(* What a handler may rely on when it is given a delivery.                 *)
Deliverable(f) ==
  /\ f \in Delivery
  /\ f.name \in PaymentEvents => f.inv # 0
  /\ f.attempt # None => Owner[f.attempt] = OwnerOf(f.sub)

Stored == LocalOK /\ LatestStored /\ AttemptsPaired

(* A body the provider may send, and what its own resources keep.          *)
Sendable(e) == e \in Event /\ (e.name \in PaymentEvents => e.inv # 0)

Provided == ProviderOK /\ PaymentsNameInvoice /\ ChargedForAYear

-----------------------------------------------------------------------------
(* The constants. *)

(* Every subscription has an owner, the user of its attempt.               *)
LEMMA OwnerType == \A s \in Subs : OwnerOf(s) \in Users
  BY SubscriptionAssumption DEF OwnerOf

(* None is neither a subscription, nor a number, nor an attempt.           *)
LEMMA NoneFresh == None \notin Subs /\ None \notin Nat /\ None \notin Attempts
  BY SubscriptionAssumption

(* None is no row of a table and no list of the provider.                  *)
LEMMA NoneIsNoRow ==
  /\ None \notin Snapshot /\ None \notin Invoice
  /\ None \notin [Subs -> ProviderSub]
  /\ None \notin [Subs -> [InvoiceIds -> ProviderInvoice]]
  BY NoneAssumption

(* Invoices are numbered from one.                                         *)
LEMMA FirstInvoice == 1 \in InvoiceIds /\ InvoiceIds \subseteq Nat \ {0}
  BY SubscriptionAssumption DEF InvoiceIds

-----------------------------------------------------------------------------
(* Handlers keep the local tables well typed. *)

(* Replacing a stored row by a well-typed one keeps the tables well typed. *)
LEMMA ReplaceStored ==
  ASSUME Stored, NEW s \in Subs, NEW cand \in Snapshot, Replace(s, cand)
  PROVE  /\ snap' \in [Subs -> Snapshot \cup {None}]
         /\ latest' \in [Users -> Subs \cup {None}]
         /\ LatestStored'
  <1>1. snap' \in [Subs -> Snapshot \cup {None}]
    BY DEF Stored, LocalOK, Replace
  <1>2. latest' \in [Users -> Subs \cup {None}]
    BY OwnerType DEF Stored, LocalOK, Replace
  <1>3. cand # None
    BY NoneIsNoRow
  <1>4. LatestStored'
    BY <1>3 DEF Stored, LocalOK, Replace, LatestStored
  <1>5. QED
    BY <1>1, <1>2, <1>4

(* _pair_attempt: an attempt is paired once and for all. *)
LEMMA PairStored ==
  ASSUME Stored, NEW f \in Delivery, Pairable(f), Pair(f),
         Owner[f.attempt] = OwnerOf(f.sub)
  PROVE  attempts' \in [Attempts -> Attempt] /\ AttemptsPaired'
  <1>1. f.attempt \in Attempts /\ f.sub \in Subs /\ f.sub # None
    BY NoneFresh DEF Pairable, Delivery
  <1>2. CASE attempts[f.attempt].status = "paid"
    BY <1>2 DEF Stored, LocalOK, Pair, AttemptsPaired, OwnerOf
  <1>3. CASE attempts[f.attempt].status # "paid"
    <2> DEFINE new == [status |-> "paid", order |-> f.sub]
    <2>1. attempts' = [attempts EXCEPT ![f.attempt] = new]
      BY <1>3 DEF Pair
    <2>2. new \in Attempt
      BY <1>1 DEF Attempt
    <2>3. attempts' \in [Attempts -> Attempt]
      BY <2>1, <2>2, <1>1 DEF Stored, LocalOK
    <2>4. AttemptsPaired'
      BY <2>1, <1>1 DEF Stored, LocalOK, AttemptsPaired, OwnerOf
    <2>5. QED
      BY <2>3, <2>4
  <1>4. QED
    BY <1>2, <1>3

(* subscription_for_user returns a stored row or nothing. *)
LEMMA ForUserStored ==
  ASSUME Stored, NEW u \in Users, ForUser(u) # None
  PROVE  ForUser(u) \in Subs /\ snap[ForUser(u)] \in Snapshot
  <1>1. CASE LiveOf(u) # {}
    <2>1. PICK s \in LiveOf(u) : s = ForUser(u)
      BY <1>1 DEF ForUser
    <2>2. QED
      BY <2>1 DEF LiveOf, Stored, LocalOK
  <1>2. CASE LiveOf(u) = {}
    BY <1>2 DEF ForUser, Stored, LocalOK, LatestStored
  <1>3. QED
    BY <1>1, <1>2

(* The row made from a delivery with a period is a snapshot.               *)
LEMMA CreatedType ==
  ASSUME NEW f \in Delivery, f.start # None, f.end # None
  PROVE  Created(f) \in Snapshot
  BY DEF Created, Delivery, Snapshot, OptTime, Statuses, AccessStatuses

(* subscription_created, pairing and ending the previous row included,     *)
(* keeps the tables well typed.                                            *)
LEMMA CreateStored ==
  ASSUME Stored, NEW f \in Delivery, Owner[f.attempt] = OwnerOf(f.sub),
         CanCreate(f), Create(f)
  PROVE  Stored'
  <1>1. Created(f) \in Snapshot /\ f.sub \in Subs
    BY CreatedType DEF CanCreate, Delivery
  <1>2. \A s \in Subs : s \in Previous(f) => snap[s] \in Snapshot
    BY <1>1, OwnerType, ForUserStored DEF Previous
  <1>3. \A s \in Subs : snap[s] \in Snapshot =>
           [snap[s] EXCEPT !.status = "expired",
              !.renews = IF snap[s].status = "expired" THEN @ ELSE None] \in Snapshot
    BY DEF Snapshot, Statuses, SuspendedStatuses, OptTime
  <1>4. snap' \in [Subs -> Snapshot \cup {None}]
    BY <1>1, <1>2, <1>3 DEF Create, Stored, LocalOK
  <1>5. \A s \in Subs : snap[s] # None => snap'[s] # None
    BY <1>1, <1>2, <1>3, NoneIsNoRow DEF Create
  <1>6. latest' \in [Users -> Subs \cup {None}] /\ LatestStored'
    BY <1>1, <1>5, OwnerType, NoneIsNoRow DEF Create, Stored, LocalOK, LatestStored
  <1>7. attempts' \in [Attempts -> Attempt] /\ AttemptsPaired'
    BY PairStored DEF CanCreate, Create
  <1>8. QED
    BY <1>4, <1>6, <1>7 DEF Create, Stored, LocalOK

(* Recording a payment keeps the tables well typed.                        *)
LEMMA PaidStored ==
  ASSUME Stored, NEW f \in Delivery, CanRecordPayment(f), RecordPayment(f)
  PROVE  Stored'
  <1>1. f.sub \in Subs /\ snap[f.sub] \in Snapshot /\ f.rev \in Nat
    BY DEF CanRecordPayment, CanInsertInvoice, Known, Delivery, Stored, LocalOK
  <1>2. f.start \in Nat /\ f.end \in Nat
    BY DEF CanRecordPayment, CanInsertInvoice, Delivery, OptTime
  <1>3. [snap[f.sub] EXCEPT !.rev = f.rev] \in Snapshot
    BY <1>1 DEF Snapshot
  <1>4. Paid(f) \in Snapshot
    BY <1>3, CreatedType DEF Paid, CanRecordPayment, CanInsertInvoice
  <1>5. [status |-> "paid", start |-> f.start, end |-> f.end] \in Invoice
    BY <1>2 DEF Invoice, InvoiceStatuses
  <1>6. invoices' \in [Subs -> [InvoiceIds -> Invoice \cup {None}]]
    BY <1>1, <1>5 DEF RecordPayment, Stored, LocalOK
  <1>7. QED
    BY <1>1, <1>4, <1>6, ReplaceStored DEF RecordPayment, Stored, LocalOK, AttemptsPaired

(* A failed or recovered payment keeps the tables well typed.              *)
LEMMA DunStored ==
  ASSUME Stored, NEW f \in Delivery, CanDun(f), Dun(f)
  PROVE  Stored'
  <1>1. f.sub \in Subs /\ snap[f.sub] \in Snapshot /\ f.rev \in Nat
    BY DEF CanDun, Known, Delivery, Stored, LocalOK
  <1>2. Dunned(f) \in Snapshot
    BY <1>1 DEF Dunned, Snapshot, Statuses, AccessStatuses
  <1>3. QED
    BY <1>1, <1>2, ReplaceStored DEF Dun, Stored, LocalOK, AttemptsPaired

(* A refund, ending access or not, keeps the tables well typed.            *)
LEMMA RefundStored ==
  ASSUME Stored, NEW f \in Delivery, f.inv \in InvoiceIds, CanRefund(f), Refund(f)
  PROVE  Stored'
  <1>1. f.sub \in Subs /\ snap[f.sub] \in Snapshot /\ f.at \in Nat
    BY DEF CanRefund, Known, Delivery, Stored, LocalOK
  <1>2. Ended(f) \in Snapshot
    BY <1>1 DEF Ended, Snapshot, Statuses, SuspendedStatuses, OptTime
  <1>3. invoices[f.sub][f.inv] \in Invoice
    BY <1>1 DEF CanRefund, Stored, LocalOK
  <1>4. [invoices[f.sub][f.inv] EXCEPT !.status = f.status] \in Invoice
    BY <1>3 DEF CanRefund, Invoice, InvoiceStatuses
  <1>5. invoices' \in [Subs -> [InvoiceIds -> Invoice \cup {None}]]
    BY <1>1, <1>4 DEF Refund, Stored, LocalOK
  <1>6. CASE EndsAccess(f)
    BY <1>1, <1>2, <1>5, <1>6, ReplaceStored DEF Refund, Stored, LocalOK, AttemptsPaired
  <1>7. CASE ~EndsAccess(f)
    BY <1>5, <1>7 DEF Refund, Stored, LocalOK, LatestStored, AttemptsPaired
  <1>8. QED
    BY <1>6, <1>7

(* The row a transition writes is a snapshot.                              *)
LEMMA MovedType ==
  ASSUME Stored, NEW f \in Delivery, snap[f.sub] \in Snapshot, CanMove(f)
  PROVE  Moved(f) \in Snapshot
  <1>1. f.status \in Statuses
    BY DEF CanMove, Updates, Statuses, AccessStatuses, SuspendedStatuses
  <1>2. f.renews \in OptTime /\ f.ends \in OptTime /\ None \in OptTime /\ f.rev \in Nat
    BY DEF Delivery, OptTime
  <1> DEFINE base == [snap[f.sub] EXCEPT !.rev = f.rev, !.status = f.status]
  <1>3. base \in Snapshot
    BY <1>1, <1>2 DEF Snapshot
  <1>4. \A r, e \in OptTime :
           /\ [base EXCEPT !.renews = r, !.ends = e] \in Snapshot
           /\ [base EXCEPT !.renews = r] \in Snapshot
    BY <1>3 DEF Snapshot
  <1>5. QED
    BY <1>2, <1>3, <1>4 DEF Moved, MovedTo

(* A status transition keeps the tables well typed.                        *)
LEMMA TransitionStored ==
  ASSUME Stored, NEW f \in Delivery, CanTransition(f), Transition(f)
  PROVE  Stored'
  <1>1. f.sub \in Subs /\ snap[f.sub] \in Snapshot
    BY DEF CanTransition, Known, Delivery, Stored, LocalOK
  <1>2. CASE Confirms(f)
    BY <1>2 DEF Transition, Stored, LocalOK, LatestStored, AttemptsPaired
  <1>3. CASE ~Confirms(f)
    BY <1>1, <1>3, MovedType, ReplaceStored
    DEF CanTransition, Transition, Stored, LocalOK, AttemptsPaired
  <1>4. QED
    BY <1>2, <1>3

(* Whatever delivery is processed, the tables stay well typed.             *)
LEMMA ProcessStored ==
  ASSUME Stored, NEW f, Deliverable(f), NEW key, Process(f, key)
  PROVE  Stored'
  <1>0. f \in Delivery
    BY DEF Deliverable
  <1>1. CASE UNCHANGED local
    BY <1>1 DEF local, Stored, LocalOK, LatestStored, AttemptsPaired
  <1>2. CASE CanPairOrder(f) /\ PairOrder(f)
    BY <1>0, <1>2, PairStored
    DEF CanPairOrder, PairOrder, Pairable, Deliverable, Stored, LocalOK, LatestStored
  <1>3. CASE CanCreate(f) /\ Create(f)
    BY <1>0, <1>3, CreateStored DEF CanCreate, Pairable, Deliverable
  <1>4. CASE CanRecordPayment(f) /\ RecordPayment(f)
    BY <1>0, <1>4, PaidStored
  <1>5. CASE CanDun(f) /\ Dun(f)
    BY <1>0, <1>5, DunStored
  <1>6. CASE CanRefund(f) /\ Refund(f)
    <2>1. f.inv \in InvoiceIds
      BY <1>6 DEF CanRefund, PaymentEvents, Deliverable, Delivery
    <2>2. QED
      BY <1>0, <1>6, <2>1, RefundStored
  <1>7. CASE CanTransition(f) /\ Transition(f)
    BY <1>0, <1>7, TransitionStored
  <1>8. QED
    BY <1>1, <1>2, <1>3, <1>4, <1>5, <1>6, <1>7 DEF Process, Handle

-----------------------------------------------------------------------------
(* What the handlers are given is well formed. *)

(* A derived period is two times or nothing.                               *)
LEMMA PeriodType ==
  ASSUME Stored, NEW s \in Subs, NEW k, NEW status, NEW sub \in ProviderSub \cup {None}
  PROVE  Period(s, k, status, sub) \in [start : OptTime, end : OptTime]
  <1>1. CASE snap[s] = None
    BY <1>1 DEF Period, OptTime
  <1>2. CASE snap[s] # None
    <2>1. snap[s].start \in Nat /\ snap[s].end \in Nat /\ snap[s].paidThrough \in Nat
      BY <1>2 DEF Stored, LocalOK, Snapshot
    <2>2. sub # None => sub.renews \in Nat
      BY DEF ProviderSub
    <2>3. QED
      BY <1>2, <2>1, <2>2 DEF Period, OptTime
  <1>3. QED
    BY <1>1, <1>2

(* Completing a sent body from the API and the tables gives a delivery.    *)
LEMMA FactsDeliverable ==
  ASSUME TypeOK, Stored, PaymentsNameInvoice, NEW e \in events, NEW lookup \in BOOLEAN
  PROVE  Deliverable(Facts(e, lookup))
  <1>1. /\ e \in Event /\ e.sub \in Subs /\ AttemptOf[e.sub] \in Attempts
        /\ prov[e.sub] \in ProviderSub /\ now \in Nat
        /\ e.name \in PaymentEvents => e.inv # 0
    BY SubscriptionAssumption DEF TypeOK, ProviderOK, Event, PaymentsNameInvoice
  <1>2. None \in OptTime /\ Nat \subseteq OptTime
    BY DEF OptTime
  <1>3. CASE e.name \in {"order_created", "order_refunded"}
    <2>1. invoices[e.sub][1] # None =>
            /\ invoices[e.sub][1].start \in Nat
            /\ invoices[e.sub][1].end \in Nat
      BY <1>1, FirstInvoice DEF Stored, LocalOK, Invoice
    <2>2. QED
      BY <1>1, <1>2, <1>3, <2>1
      DEF Facts, OrderFacts, Deliverable, Delivery, Event, OwnerOf
  <1>4. CASE e.name \in PaymentEvents \ {"order_refunded"}
    <2> DEFINE sub == IF lookup THEN prov[e.sub] ELSE None
               status == IF snap[e.sub] = None THEN e.status ELSE InvoiceStatus(e.status, sub)
               filled == Period(e.sub, e.inv, status, sub)
    <2>1. filled.start \in OptTime /\ filled.end \in OptTime
      BY <1>1, PeriodType
    <2>2. status \in EventStatuses
      BY <1>1 DEF InvoiceStatus, Event, EventStatuses
    <2>3. prov[e.sub].status \in Statuses \cup {"none"} /\ prov[e.sub].renews \in Nat
      BY <1>1 DEF ProviderSub
    <2> HIDE DEF filled, status
    <2>4. "active" \in Statuses
      BY DEF Statuses, AccessStatuses
    <2>5. Facts(e, lookup) = InvoiceFacts(e, lookup)
      BY <1>4 DEF Facts, PaymentEvents, RefundEvents
    <2>6. QED
      BY <1>1, <1>2, <2>1, <2>2, <2>3, <2>4, <2>5
      DEF InvoiceFacts, Deliverable, Delivery, Event, OwnerOf, status, filled
  <1>5. CASE e.name \notin PaymentEvents \cup {"order_created", "order_refunded"}
    <2>1. snap[e.sub] # None => snap[e.sub].start \in Nat /\ snap[e.sub].end \in Nat
      BY <1>1 DEF Stored, LocalOK, Snapshot
    <2>2. prov[e.sub].created \in Nat
      BY <1>1 DEF ProviderSub
    <2>3. Facts(e, lookup) = SubscriptionFacts(e, lookup)
      BY <1>5 DEF Facts
    <2>4. QED
      BY <1>1, <1>2, <1>5, <2>1, <2>2, <2>3
      DEF SubscriptionFacts, Deliverable, Delivery, Event, OwnerOf
  <1>6. QED
    BY <1>3, <1>4, <1>5 DEF PaymentEvents, RefundEvents

-----------------------------------------------------------------------------
(* Every operation of the provider keeps its resources and the bodies it   *)
(* sent well formed.                                                       *)

(* A body built from a provider's resource is well formed.                 *)
LEMMA OfSendable ==
  ASSUME Provided, NEW s \in Subs, NEW name \in EventNames, NEW k \in InvoiceIds \cup {0},
         NEW status \in EventStatuses, NEW p \in ProviderSub,
         name \in PaymentEvents => k # 0
  PROVE  Sendable(Of(s, name, k, status, p))
  BY DEF Of, Sendable, Event, Provided, ProviderOK, ProviderSub, OptTime

(* So is a body about the subscription itself.                             *)
LEMMA SubEventSendable ==
  ASSUME Provided, NEW s \in Subs, NEW p \in ProviderSub, p.status # "none",
         NEW name \in TransitionEvents \cup {"subscription_created"}
  PROVE  Sendable(SubEvent(s, name, p))
  <1>1. name \in EventNames /\ name \notin PaymentEvents
    BY DEF EventNames, TransitionEvents, PaymentEvents, RefundEvents
  <1>2. p.status \in EventStatuses
    BY DEF ProviderSub, EventStatuses
  <1>3. QED
    BY <1>1, <1>2, OfSendable DEF SubEvent

(* So is a subscription_updated sent beside it.                            *)
LEMMA UpdatedSendable ==
  ASSUME Provided, NEW s \in Subs, NEW p \in ProviderSub, p.status # "none"
  PROVE  \A e \in Updated(s, p) : Sendable(e)
  BY SubEventSendable DEF Updated, TransitionEvents

(* A provider operation that writes well-formed values keeps its           *)
(* resources so.                                                           *)
LEMMA OperateProvided ==
  ASSUME Provided, NEW s \in Subs, NEW p \in ProviderSub, p.renews >= Year,
         NEW b \in [InvoiceIds -> ProviderInvoice],
         NEW sent, \A e \in sent : Sendable(e),
         Operate(s, p, b, sent)
  PROVE  Provided'
  <1>1. rev' \in Nat /\ [p EXCEPT !.rev = rev + 1] \in ProviderSub
    <2>1. rev + 1 \in Nat
      BY DEF Provided, ProviderOK
    <2>2. [p EXCEPT !.rev = rev + 1] \in ProviderSub
      BY <2>1 DEF ProviderSub
    <2>3. QED
      BY <2>1, <2>2 DEF Operate
  <1>2. prov' \in [Subs -> ProviderSub] /\ bill' \in [Subs -> [InvoiceIds -> ProviderInvoice]]
    BY <1>1 DEF Operate, Provided, ProviderOK
  <1>3. events' \subseteq Event /\ PaymentsNameInvoice'
    BY DEF Operate, Provided, ProviderOK, PaymentsNameInvoice, Sendable
  <1>4. [p EXCEPT !.rev = rev + 1].renews >= Year
    BY DEF ProviderSub
  <1>5. ChargedForAYear'
    BY <1>1, <1>4 DEF Operate, Provided, ProviderOK, ChargedForAYear
  <1>6. QED
    BY <1>1, <1>2, <1>3, <1>5 DEF Provided, ProviderOK

(* Changing one invoice leaves a list of invoices.                         *)
LEMMA BilledType ==
  ASSUME Provided, NEW s \in Subs, NEW k, NEW status \in InvoiceStatuses \cup {"pending"}
  PROVE  Billed(s, k, status) \in [InvoiceIds -> ProviderInvoice]
  <1>1. [status |-> status, rev |-> rev + 1] \in ProviderInvoice
    BY DEF ProviderInvoice, Provided, ProviderOK
  <1>2. bill[s] \in [InvoiceIds -> ProviderInvoice]
    BY DEF Provided, ProviderOK
  <1>3. QED
    BY <1>1, <1>2 DEF Billed

(* A change of the subscription alone keeps the provider's resources well  *)
(* formed.                                                                 *)
LEMMA ChangeProvided ==
  ASSUME Provided, NEW s \in Subs, NEW p \in ProviderSub, p.renews >= Year,
         p.status # "none", NEW name \in TransitionEvents, Change(s, p, name)
  PROVE  Provided'
  <1>1. \A e \in {SubEvent(s, name, p)} \cup Updated(s, p) : Sendable(e)
    BY SubEventSendable, UpdatedSendable
  <1>2. bill[s] \in [InvoiceIds -> ProviderInvoice]
    BY DEF Provided, ProviderOK
  <1>3. QED
    BY <1>1, <1>2, OperateProvided DEF Change

(* A subscription with a new status and a renewal no earlier than before.  *)
LEMMA ChangedType ==
  ASSUME Provided, NEW s \in Subs, NEW status \in Statuses
  PROVE  /\ prov[s].status \in Statuses \cup {"none"} /\ prov[s].renews \in Nat
         /\ [prov[s] EXCEPT !.status = status] \in ProviderSub
         /\ [prov[s] EXCEPT !.status = status].status = status
         /\ [prov[s] EXCEPT !.status = status].renews = prov[s].renews
  BY DEF Provided, ProviderOK, ProviderSub

(* A purchase keeps the provider's resources well formed.                  *)
LEMMA SaleProvided ==
  ASSUME Provided, now \in Nat, NEW s \in Subs, Sale(s)
  PROVE  Provided'
  <1> DEFINE until == now + Year
             p == [prov[s] EXCEPT !.status = "active", !.created = now, !.renews = until]
             sent == {Of(s, "order_created", 0, "paid", p),
                      SubEvent(s, "subscription_created", p),
                      Of(s, "subscription_payment_success", 1, "paid", p)}
  <1>1. until \in Nat /\ until >= Year
    BY SubscriptionAssumption
  <1> HIDE DEF until
  <1>2. /\ p \in ProviderSub /\ p.renews >= Year /\ p.status # "none"
    <2>1. prov[s] \in ProviderSub /\ "active" \in Statuses
      BY DEF Provided, ProviderOK, Statuses, AccessStatuses
    <2>2. p \in ProviderSub /\ p.renews = until /\ p.status = "active"
      BY <1>1, <2>1 DEF ProviderSub
    <2>3. QED
      BY <1>1, <2>2
  <1> HIDE DEF p
  <1>3. "paid" \in EventStatuses /\ "paid" \in InvoiceStatuses \cup {"pending"}
    BY DEF EventStatuses, InvoiceStatuses
  <1>4. /\ "order_created" \in EventNames \ PaymentEvents
        /\ "subscription_payment_success" \in EventNames
    BY DEF EventNames, TransitionEvents, PaymentEvents, RefundEvents
  <1>5. \A e \in sent : Sendable(e)
    BY <1>2, <1>3, <1>4, OfSendable, SubEventSendable, FirstInvoice
  <1>6. Operate(s, p, Billed(s, 1, "paid"), sent)
    BY DEF Sale, p, until
  <1> HIDE DEF sent
  <1>7. QED
    BY <1>2, <1>3, <1>5, <1>6, BilledType, OperateProvided

(* So does a renewal, paid, failed or recovered.                           *)
LEMMA RenewProvided ==
  ASSUME Provided, NEW s \in Subs, NEW k \in InvoiceIds,
         Renew(s, k) \/ RenewFails(s, k) \/ Recover(s, k)
  PROVE  Provided'
  <1>1. /\ Year \in Nat /\ prov[s] \in ProviderSub /\ k # 0
        /\ prov[s].status \in {"active", "past_due", "unpaid"}
        /\ prov[s].renews \in Nat /\ prov[s].renews >= Year
    <2>1. prov[s] \in ProviderSub /\ prov[s].renews \in Nat
      BY DEF Provided, ProviderOK, ProviderSub
    <2>2. prov[s].status \in {"active", "past_due", "unpaid"}
      BY DEF Renew, RenewFails, Recover
    <2>3. QED
      BY <2>1, <2>2, SubscriptionAssumption, FirstInvoice DEF Provided, ChargedForAYear
  <1>2. /\ "paid" \in EventStatuses /\ "pending" \in EventStatuses
        /\ {"paid", "pending"} \subseteq InvoiceStatuses \cup {"pending"}
        /\ {"subscription_payment_success", "subscription_payment_failed",
             "subscription_payment_recovered"} \subseteq EventNames
    BY DEF EventStatuses, InvoiceStatuses, EventNames, PaymentEvents
  <1>3. CASE Renew(s, k)
    <2> DEFINE p == [prov[s] EXCEPT !.renews = @ + Year]
               sent == {Of(s, "subscription_payment_success", k, "paid", p)} \cup Updated(s, p)
    <2>1. p \in ProviderSub /\ p.renews >= Year /\ p.status # "none"
      BY <1>1 DEF ProviderSub
    <2>2. Operate(s, p, Billed(s, k, "paid"), sent)
      BY <1>3 DEF Renew
    <2> HIDE DEF p
    <2>3. \A e \in sent : Sendable(e)
      BY <1>1, <1>2, <2>1, OfSendable, UpdatedSendable
    <2> HIDE DEF sent
    <2>4. QED
      BY <1>2, <2>1, <2>2, <2>3, BilledType, OperateProvided
  <1>4. CASE RenewFails(s, k)
    <2> DEFINE p == [prov[s] EXCEPT !.status = "past_due"]
               sent == {Of(s, "subscription_payment_failed", k, "pending", p)} \cup Updated(s, p)
    <2>1. p \in ProviderSub /\ p.renews >= Year /\ p.status # "none"
      BY <1>1 DEF ProviderSub, Statuses, AccessStatuses
    <2>2. Operate(s, p, Billed(s, k, "pending"), sent)
      BY <1>4 DEF RenewFails
    <2> HIDE DEF p
    <2>3. \A e \in sent : Sendable(e)
      BY <1>1, <1>2, <2>1, OfSendable, UpdatedSendable
    <2> HIDE DEF sent
    <2>4. QED
      BY <1>2, <2>1, <2>2, <2>3, BilledType, OperateProvided
  <1>5. CASE Recover(s, k)
    <2> DEFINE until == prov[s].renews + Year
               p == [prov[s] EXCEPT !.status = "active", !.renews = until]
               paid == Of(s, "subscription_payment_recovered", k, "paid", p)
               body == [paid EXCEPT !.start = prov[s].renews - Year, !.end = prov[s].renews]
               sent == {body, Of(s, "subscription_payment_success", k, "paid", p)}
                          \cup Updated(s, p)
    <2>1. until \in Nat /\ until >= Year
      BY <1>1
    <2>2. Operate(s, p, Billed(s, k, "paid"), sent)
      BY <1>5 DEF Recover
    <2> HIDE DEF until
    <2>0. p \in ProviderSub /\ p.renews >= Year /\ p.status # "none"
      <3>1. "active" \in Statuses
        BY DEF Statuses, AccessStatuses
      <3>2. p \in ProviderSub /\ p.renews = until /\ p.status = "active"
        BY <1>1, <2>1, <3>1 DEF ProviderSub
      <3>3. QED
        BY <2>1, <3>2
    <2> HIDE DEF p
    <2>3. Sendable(paid)
      BY <1>1, <1>2, <2>0, OfSendable
    <2> HIDE DEF paid
    <2>4. prov[s].renews - Year \in Nat
      BY <1>1
    <2>5. Sendable(body)
      BY <1>1, <2>3, <2>4 DEF Sendable, Event, OptTime
    <2> HIDE DEF body
    <2>6. \A e \in sent : Sendable(e)
      BY <1>1, <1>2, <2>0, <2>5, OfSendable, UpdatedSendable
    <2> HIDE DEF sent
    <2>7. QED
      BY <1>2, <2>0, <2>2, <2>6, BilledType, OperateProvided
  <1>6. QED
    BY <1>3, <1>4, <1>5

(* So does a cancellation, the customer's or a refund's.                   *)
LEMMA CancelledProvided ==
  ASSUME Provided, NEW s \in Subs, prov[s].status \in AccessStatuses,
         Change(s, Cancelled(s), "subscription_cancelled")
  PROVE  Provided'
  <1>1. /\ prov[s].renews \in OptTime /\ prov[s].renews >= Year
        /\ "cancelled" \in Statuses /\ "cancelled" # "none"
        /\ "subscription_cancelled" \in TransitionEvents
    BY DEF Provided, ProviderOK, ProviderSub, ChargedForAYear, OptTime, Statuses,
           AccessStatuses, TransitionEvents
  <1>2. /\ Cancelled(s) \in ProviderSub /\ Cancelled(s).status = "cancelled"
        /\ Cancelled(s).renews = prov[s].renews
    BY <1>1 DEF Cancelled, Provided, ProviderOK, ProviderSub
  <1>3. QED
    BY <1>1, <1>2, ChangeProvided

(* So does giving up, resuming and expiring.                               *)
LEMMA EndingProvided ==
  ASSUME Provided, NEW s \in Subs, GiveUp(s) \/ Cancel(s) \/ Resume(s) \/ Expire(s)
  PROVE  Provided'
  <1>1. /\ prov[s].renews >= Year /\ None \in OptTime
        /\ {"unpaid", "active", "expired"} \subseteq Statuses
        /\ {"subscription_resumed", "subscription_expired", "subscription_updated"}
              \subseteq TransitionEvents
    BY DEF GiveUp, Cancel, Resume, Expire, Provided, ChargedForAYear, OptTime, Statuses,
           AccessStatuses, SuspendedStatuses, TransitionEvents
  <1>2. CASE GiveUp(s)
    <2> DEFINE p == [prov[s] EXCEPT !.status = "unpaid"]
    <2>1. p \in ProviderSub /\ p.status = "unpaid" /\ p.renews = prov[s].renews
      BY <1>1, ChangedType
    <2>2. Operate(s, p, bill[s], {SubEvent(s, "subscription_updated", p)})
      BY <1>2 DEF GiveUp
    <2> HIDE DEF p
    <2>3. Sendable(SubEvent(s, "subscription_updated", p))
      BY <1>1, <2>1, SubEventSendable
    <2>4. bill[s] \in [InvoiceIds -> ProviderInvoice]
      BY DEF Provided, ProviderOK
    <2>5. QED
      BY <1>1, <2>1, <2>2, <2>3, <2>4, OperateProvided
  <1>3. CASE Cancel(s)
    BY <1>3, CancelledProvided DEF Cancel
  <1>4. CASE Resume(s)
    <2> DEFINE p == [prov[s] EXCEPT !.status = "active", !.ends = None]
    <2>1. p \in ProviderSub /\ p.status = "active" /\ p.renews = prov[s].renews
      BY <1>1 DEF Provided, ProviderOK, ProviderSub
    <2>2. Change(s, p, "subscription_resumed")
      BY <1>4 DEF Resume
    <2> HIDE DEF p
    <2>3. QED
      BY <1>1, <2>1, <2>2, ChangeProvided
  <1>5. CASE Expire(s)
    <2> DEFINE p == [prov[s] EXCEPT !.status = "expired"]
    <2>1. p \in ProviderSub /\ p.status = "expired" /\ p.renews = prov[s].renews
      BY <1>1, ChangedType
    <2>2. Change(s, p, "subscription_expired")
      BY <1>5 DEF Expire
    <2> HIDE DEF p
    <2>3. QED
      BY <1>1, <2>1, <2>2, ChangeProvided
  <1>6. QED
    BY <1>2, <1>3, <1>4, <1>5

(* So does a refund of one invoice.                                        *)
LEMMA RefundProvided ==
  ASSUME Provided, NEW s \in Subs, NEW k \in InvoiceIds,
         NEW status \in {"partial_refund", "refunded"}, RefundInvoice(s, k, status)
  PROVE  Provided'
  <1>1. /\ status \in EventStatuses /\ status \in InvoiceStatuses \cup {"pending"}
        /\ {"subscription_payment_refunded", "order_refunded"} \subseteq EventNames
        /\ k # 0
    BY FirstInvoice DEF EventStatuses, InvoiceStatuses, EventNames, PaymentEvents, RefundEvents
  <1>2. prov[s] \in ProviderSub
    BY DEF Provided, ProviderOK
  <1>3. /\ Sendable(Of(s, "subscription_payment_refunded", k, status, prov[s]))
        /\ Sendable(Of(s, "order_refunded", 1, status, prov[s]))
    BY <1>1, <1>2, OfSendable, FirstInvoice
  <1>4. \A e \in events' : e \in events \/ Sendable(e)
    BY <1>3 DEF RefundInvoice
  <1>5. events' \subseteq Event /\ PaymentsNameInvoice'
    BY <1>4 DEF Provided, ProviderOK, PaymentsNameInvoice, Sendable
  <1>6. bill' \in [Subs -> [InvoiceIds -> ProviderInvoice]] /\ rev' \in Nat
    BY <1>1, BilledType DEF RefundInvoice, Provided, ProviderOK
  <1>7. QED
    BY <1>5, <1>6 DEF RefundInvoice, Provided, ProviderOK, ChargedForAYear

(* A provider step keeps its resources well formed and the local tables    *)
(* unchanged.                                                              *)
LEMMA ProviderStepKeeps ==
  ASSUME Provided, now \in Nat, ProviderStep
  PROVE  /\ Provided'
         /\ UNCHANGED <<now, snap, latest, invoices, attempts, processed, followUp,
                        batch, runs, cases>>
  <1>1. PICK s \in Subs :
           \/ Sale(s) \/ GiveUp(s) \/ Cancel(s) \/ Resume(s) \/ Expire(s)
           \/ \E k \in InvoiceIds :
                 \/ Renew(s, k) \/ RenewFails(s, k) \/ Recover(s, k)
                 \/ \E status \in {"partial_refund", "refunded"} : RefundInvoice(s, k, status)
    BY DEF ProviderStep
  <1>2. Provided'
    BY <1>1, SaleProvided, RenewProvided, EndingProvided, RefundProvided
  <1>3. UNCHANGED <<now, snap, latest, invoices, attempts, processed, followUp,
                    batch, runs, cases>>
    BY <1>1 DEF Sale, GiveUp, Cancel, Resume, Expire, Renew, RenewFails, Recover,
                RefundInvoice, Change, Operate, local
  <1>4. QED
    BY <1>2, <1>3

-----------------------------------------------------------------------------
(* The rows of the reconciliation are well formed deliveries. *)

Loaded == batch \in Batch /\ BatchLoaded

(* A run that applies rows holds both fetched lists.                       *)
LEMMA LoadedType ==
  ASSUME Loaded, batch.phase \in {"activations", "invoices", "subscriptions"}
  PROVE  /\ batch.subs \in [Subs -> ProviderSub]
         /\ batch.bills \in [Subs -> [InvoiceIds -> ProviderInvoice]]
         /\ batch.at \in Nat
  BY DEF Loaded, BatchLoaded, Batch

(* A fetched subscription gives a delivery, for its own owner.             *)
LEMMA RowFactsDeliverable ==
  ASSUME Stored, Loaded, batch.phase \in {"activations", "invoices", "subscriptions"},
         NEW s \in Subs, NEW name \in TransitionEvents \cup {"subscription_created"}
  PROVE  /\ Deliverable(RowFacts(name, s))
         /\ RowFacts(name, s).sub = s
         /\ RowFacts(name, s).name = name
  <1>1. /\ batch.subs[s].status \in Statuses \cup {"none"} /\ batch.subs[s].created \in Nat
        /\ batch.subs[s].renews \in Nat /\ batch.subs[s].ends \in OptTime
        /\ batch.subs[s].rev \in Nat /\ batch.at \in Nat
    BY LoadedType DEF ProviderSub
  <1>2. snap[s] # None => snap[s].start \in Nat /\ snap[s].end \in Nat
    BY DEF Stored, LocalOK, Snapshot
  <1>3. /\ name \in EventNames /\ name \notin PaymentEvents
        /\ Statuses \subseteq EventStatuses
        /\ None \in OptTime /\ Nat \subseteq OptTime
    BY DEF EventNames, EventStatuses, TransitionEvents, PaymentEvents, RefundEvents, OptTime
  <1>4. QED
    BY <1>1, <1>2, <1>3 DEF RowFacts, Deliverable, Delivery

(* A fetched invoice gives a delivery.                                     *)
LEMMA InvoiceRowDeliverable ==
  ASSUME Stored, Loaded, batch.phase = "invoices",
         NEW s \in Subs, NEW k \in InvoiceIds, InvoiceName(s, k) \in EventNames
  PROVE  Deliverable(InvoiceRow(s, k))
  <1>1. /\ batch.bills[s][k].rev \in Nat /\ batch.at \in Nat /\ k # 0
        /\ batch.subs[s] \in ProviderSub /\ RowOf(s) \in ProviderSub \cup {None}
    BY LoadedType, FirstInvoice DEF RowOf, ProviderInvoice
  <1>2. RowOf(s) # None => /\ RowOf(s).status \in Statuses \cup {"none"}
                           /\ RowOf(s).renews \in OptTime /\ RowOf(s).ends \in OptTime
    BY <1>1 DEF ProviderSub, OptTime
  <1>3. snap[s] # None => snap[s].start \in OptTime /\ snap[s].end \in OptTime
    BY DEF Stored, LocalOK, Snapshot, OptTime
  <1>4. RowPeriod(s, k).start \in OptTime /\ RowPeriod(s, k).end \in OptTime
    BY <1>1, PeriodType DEF RowPeriod
  <1>5. RowStatus(s, k) \in EventStatuses \cup {"none"}
    <2>1. batch.bills[s][k].status \in InvoiceStatuses \cup {"none", "pending"}
      BY LoadedType DEF ProviderInvoice
    <2>2. QED
      BY <2>1 DEF RowStatus, InvoiceStatus, EventStatuses
  <1>6. None \in OptTime
    BY DEF OptTime
  <1> HIDE DEF RowOf, RowPeriod, RowStatus, InvoiceName
  <1>7. QED
    BY <1>1, <1>2, <1>3, <1>4, <1>5, <1>6
    DEF InvoiceRow, Deliverable, Delivery

(* A row is skipped or handed to the handlers as a well formed delivery.   *)
RowApplied(row) ==
  \/ \E drifts \in BOOLEAN : Skip(row, drifts)
  \/ \E f : Deliverable(f) /\ Apply(row, f)

(* The lost-activation phase skips its row or processes a delivery.        *)
LEMMA ActivationApplied ==
  ASSUME Stored, Loaded, NEW s \in Subs, ApplyActivation(s)
  PROVE  RowApplied(<<s, 0>>)
  <1>1. CASE ~IsLost(s)
    BY <1>1 DEF ApplyActivation, RowApplied
  <1>2. CASE IsLost(s)
    <2> DEFINE facts == RowFacts("subscription_created", s)
    <2>1. PICK a \in LostAttempts(s) : Apply(<<s, 0>>, [facts EXCEPT !.attempt = a])
      BY <1>2 DEF ApplyActivation
    <2>2. a \in Attempts /\ Owner[a] = OwnerOf(s)
      BY NoneFresh DEF LostAttempts, Stored, AttemptsPaired
    <2>3. Deliverable(facts) /\ facts.sub = s /\ facts.name = "subscription_created"
      BY RowFactsDeliverable DEF ApplyActivation
    <2> HIDE DEF facts
    <2>4. Deliverable([facts EXCEPT !.attempt = a])
      BY <2>2, <2>3 DEF Deliverable, Delivery
    <2>5. QED
      BY <2>1, <2>4 DEF RowApplied
  <1>3. QED
    BY <1>1, <1>2

(* The invoice phase skips its row or processes a delivery.                *)
LEMMA InvoiceApplied ==
  ASSUME Stored, Loaded, NEW s \in Subs, NEW k \in InvoiceIds, ApplyInvoice(s, k)
  PROVE  RowApplied(<<s, k>>)
  <1>1. InvoiceName(s, k) \in EventNames => Deliverable(InvoiceRow(s, k))
    BY InvoiceRowDeliverable DEF ApplyInvoice
  <1>2. QED
    BY <1>1 DEF ApplyInvoice, RowApplied

(* The subscription phase skips its row or processes a delivery.           *)
LEMMA SubscriptionApplied ==
  ASSUME Stored, Loaded, NEW s \in Subs, ApplySubscription(s)
  PROVE  RowApplied(<<s, 0>>)
  <1>1. RowName(s) \in TransitionEvents
    BY DEF RowName, TransitionEvents
  <1>2. Deliverable(RowFacts(RowName(s), s))
    BY <1>1, RowFactsDeliverable DEF ApplySubscription
  <1>3. QED
    BY <1>2 DEF ApplySubscription, RowApplied

(* A reconciliation step changes no table, or processes one delivery.      *)
LEMMA ReconcileKinds ==
  ASSUME Stored, Loaded, Reconcile
  PROVE  FetchSubscriptions \/ FetchInvoices \/ NextPhase \/ \E row : RowApplied(row)
  BY ActivationApplied, InvoiceApplied, SubscriptionApplied DEF Reconcile

-----------------------------------------------------------------------------
(* The inductive invariant of the types. *)

IndInv == TypeOK /\ Provided /\ Stored /\ Loaded

(* The inductive invariant holds of the initial states.                    *)
LEMMA InitIndInv == Init => IndInv
  <1> SUFFICES ASSUME Init PROVE IndInv
    OBVIOUS
  <1>1. ProviderOK
    BY DEF Init, ProviderOK, ProviderSub, ProviderInvoice, UnusedSub, UnusedBill, OptTime
  <1>2. LocalOK
    BY DEF Init, LocalOK, NoInvoice, Attempt
  <1>3. batch \in Batch
    BY DEF Init, Batch, NoBatch
  <1>4. LatestStored /\ PaymentsNameInvoice /\ ChargedForAYear /\ BatchLoaded
    BY DEF Init, LatestStored, PaymentsNameInvoice, ChargedForAYear, BatchLoaded,
           UnusedSub, NoBatch
  <1>5. AttemptsPaired
    BY DEF Init, AttemptsPaired
  <1>6. TypeOK
    BY <1>1, <1>2, <1>3 DEF Init, TypeOK
  <1>7. QED
    BY <1>1, <1>2, <1>3, <1>4, <1>5, <1>6 DEF IndInv, Provided, Stored, Loaded

(* A step is well typed when it keeps the parts it touches. *)
LEMMA Assemble ==
  ASSUME Provided', Stored', Loaded', now' \in Nat, runs' \in Nat, cases' \subseteq Subs
  PROVE  IndInv'
  BY DEF IndInv, TypeOK, Provided, Stored, Loaded

(* A step that leaves the provider alone keeps its part of the invariant.  *)
LEMMA KeepsProvided == Provided /\ UNCHANGED provider => Provided'
  BY DEF Provided, provider, ProviderOK, PaymentsNameInvoice, ChargedForAYear

(* A step that leaves the tables alone keeps theirs.                       *)
LEMMA KeepsStored == Stored /\ UNCHANGED <<snap, latest, invoices, attempts>> /\ followUp' \subseteq Subs
                       => Stored'
  BY DEF Stored, LocalOK, LatestStored, AttemptsPaired

(* A step that leaves the run alone keeps its part.                        *)
LEMMA KeepsLoaded == Loaded /\ UNCHANGED batch => Loaded'
  BY DEF Loaded, BatchLoaded

(* A webhook delivery keeps the inductive invariant.                       *)
LEMMA DeliverTyped ==
  ASSUME IndInv, NEW e \in events, Deliver(e)
  PROVE  IndInv'
  <1>1. PICK lookup \in BOOLEAN : \E f \in {Facts(e, lookup)} : Process(f, WebhookKey(e))
    BY DEF Deliver
  <1>2. Deliverable(Facts(e, lookup))
    BY FactsDeliverable DEF IndInv, Provided
  <1>3. Stored'
    BY <1>1, <1>2, ProcessStored DEF IndInv
  <1>4. QED
    BY <1>3, Assemble, KeepsProvided, KeepsLoaded DEF Deliver, IndInv, TypeOK, provider

(* A new checkout attempt keeps the inductive invariant.                   *)
LEMMA CheckoutTyped ==
  ASSUME IndInv, NEW a \in Attempts, Checkout(a)
  PROVE  IndInv'
  <1>1. attempts' \in [Attempts -> Attempt]
    BY DEF Checkout, IndInv, Stored, LocalOK, Attempt
  <1>2. AttemptsPaired'
    BY DEF Checkout, IndInv, Stored, LocalOK, AttemptsPaired, OwnerOf
  <1>3. Stored'
    BY <1>1, <1>2 DEF Checkout, IndInv, Stored, LocalOK, LatestStored
  <1>4. QED
    BY <1>3, Assemble, KeepsProvided, KeepsLoaded DEF Checkout, IndInv, TypeOK, provider

(* The end of a refund, done, failed or lost, keeps the inductive          *)
(* invariant.                                                              *)
LEMMA FollowUpTyped ==
  ASSUME IndInv, NEW s \in Subs, StopRenewal(s) \/ StopFails(s) \/ Crash(s)
  PROVE  IndInv'
  <1>1. CASE StopRenewal(s)
    <2>1. Provided'
      BY <1>1, CancelledProvided DEF StopRenewal, IndInv
    <2>2. Stored'
      BY <1>1, KeepsStored DEF StopRenewal, IndInv, Stored, LocalOK
    <2>3. QED
      BY <1>1, <2>1, <2>2, Assemble, KeepsLoaded
      DEF StopRenewal, Change, Operate, IndInv, TypeOK
  <1>2. CASE StopFails(s) \/ Crash(s)
    <2>1. Stored'
      BY <1>2, KeepsStored DEF StopFails, Crash, IndInv, Stored, LocalOK
    <2>2. QED
      BY <1>2, <2>1, Assemble, KeepsProvided, KeepsLoaded
      DEF StopFails, Crash, IndInv, TypeOK, provider
  <1>3. QED
    BY <1>1, <1>2

(* A row of the reconciliation goes through the same handlers. *)
LEMMA DoneRowLoaded ==
  ASSUME Loaded, NEW row, NEW drift \in BOOLEAN,
         batch' = [batch EXCEPT !.todo = @ \ {row}, !.drift = drift]
  PROVE  Loaded'
  BY DEF Loaded, BatchLoaded, Batch

(* A skipped row keeps the inductive invariant.                            *)
LEMMA SkipTyped ==
  ASSUME IndInv, NEW row, NEW drifts \in BOOLEAN, Skip(row, drifts)
  PROVE  IndInv'
  <1>1. (batch.drift \/ drifts) \in BOOLEAN
    OBVIOUS
  <1>2. Loaded'
    BY <1>1, DoneRowLoaded DEF Skip, IndInv
  <1>3. Stored'
    BY KeepsStored DEF Skip, IndInv, local, Stored, LocalOK
  <1>4. QED
    BY <1>2, <1>3, Assemble, KeepsProvided DEF Skip, IndInv, TypeOK, provider

(* An applied row keeps the inductive invariant.                           *)
LEMMA ApplyTyped ==
  ASSUME IndInv, NEW row, NEW f, Deliverable(f), Apply(row, f)
  PROVE  IndInv'
  <1>1. (batch.drift \/ NeedsReview(f, ReconcileKey(f))) \in BOOLEAN
    OBVIOUS
  <1>2. Loaded'
    BY <1>1, DoneRowLoaded DEF Apply, IndInv
  <1>3. Stored'
    BY ProcessStored DEF Apply, IndInv
  <1>4. QED
    BY <1>2, <1>3, Assemble, KeepsProvided DEF Apply, IndInv, TypeOK, provider

(* A row, skipped or applied, keeps the inductive invariant.               *)
LEMMA RowTyped ==
  ASSUME IndInv, NEW row, RowApplied(row)
  PROVE  IndInv'
  BY SkipTyped, ApplyTyped DEF RowApplied

(* Every step of the reconciliation keeps the inductive invariant.         *)
LEMMA BatchTyped ==
  ASSUME IndInv, FetchSubscriptions \/ FetchInvoices \/ NextPhase
  PROVE  IndInv'
  <1>1. batch \in Batch /\ BatchLoaded /\ now \in Nat /\ runs \in Nat
        /\ prov \in [Subs -> ProviderSub] /\ bill \in [Subs -> [InvoiceIds -> ProviderInvoice]]
    BY DEF IndInv, TypeOK, Loaded, ProviderOK
  <1>2. NoBatch \in Batch /\ NoBatch.phase = "idle"
    BY DEF NoBatch, Batch
  <1>3. \A b : Listed(b) \subseteq Subs \X (InvoiceIds \cup {0})
    BY DEF Listed, Present, Invoiced
  <1>4. Loaded'
    <2>1. CASE FetchSubscriptions
      <3>1. batch' = [NoBatch EXCEPT !.phase = "fetched", !.at = now, !.subs = prov]
        BY <2>1 DEF FetchSubscriptions
      <3>2. batch' \in Batch /\ batch'.phase = "fetched" /\ batch'.subs = prov
        BY <1>1, <1>2, <3>1 DEF Batch
      <3>3. QED
        BY <1>1, <3>2, NoneIsNoRow DEF Loaded, BatchLoaded
    <2>2. CASE FetchInvoices
      <3> DEFINE b == [batch EXCEPT !.phase = "activations", !.bills = bill]
      <3>1. batch' = [b EXCEPT !.todo = Listed(b)]
        BY <2>2 DEF FetchInvoices
      <3>2. b \in Batch /\ b.phase = "activations" /\ b.bills = bill /\ b.subs = batch.subs
        BY <1>1 DEF Batch
      <3> HIDE DEF b
      <3>3. batch' \in Batch /\ batch'.bills = bill /\ batch'.subs = batch.subs
        BY <1>3, <3>1, <3>2 DEF Batch
      <3>4. batch.subs # None
        BY <1>1, <2>2 DEF FetchInvoices, BatchLoaded
      <3>5. QED
        BY <1>1, <3>3, <3>4, NoneIsNoRow DEF Loaded, BatchLoaded
    <2>3. CASE NextPhase
      <3> DEFINE next == IF batch.phase = "activations" THEN "invoices" ELSE "subscriptions"
                 b == [batch EXCEPT !.phase = next]
      <3>1. CASE batch' = NoBatch
        BY <1>2, <3>1 DEF Loaded, BatchLoaded
      <3>2. CASE batch' = [b EXCEPT !.todo = Listed(b)]
        <4>1. b \in Batch /\ b.bills = batch.bills /\ b.subs = batch.subs
          BY <1>1 DEF Batch
        <4> HIDE DEF b
        <4>2. batch' \in Batch /\ batch'.bills = batch.bills /\ batch'.subs = batch.subs
          BY <1>3, <3>2, <4>1 DEF Batch
        <4>3. batch.subs # None /\ batch.bills # None
          BY <1>1, <2>3 DEF NextPhase, BatchLoaded
        <4>4. QED
          BY <4>2, <4>3 DEF Loaded, BatchLoaded
      <3>3. QED
        BY <2>3, <3>1, <3>2 DEF NextPhase
    <2>4. QED
      BY <2>1, <2>2, <2>3
  <1>5. Stored'
    BY KeepsStored DEF FetchSubscriptions, FetchInvoices, NextPhase, local, IndInv, Stored, LocalOK
  <1>6. now' \in Nat /\ cases' \subseteq Subs /\ UNCHANGED provider
    BY DEF FetchSubscriptions, FetchInvoices, NextPhase, IndInv, TypeOK
  <1>7. runs' \in Nat
    BY <1>1 DEF FetchSubscriptions, FetchInvoices, NextPhase
  <1>8. QED
    BY <1>4, <1>5, <1>6, <1>7, Assemble, KeepsProvided DEF IndInv

(* The invariant is inductive: every step keeps it.                        *)
LEMMA NextIndInv ==
  ASSUME IndInv, [Next]_vars
  PROVE  IndInv'
  <1>1. CASE Tick
    <2>1. now' \in Nat
      BY <1>1 DEF Tick, IndInv, TypeOK
    <2>2. Stored'
      BY <1>1, KeepsStored DEF Tick, local, IndInv, Stored, LocalOK
    <2>3. QED
      BY <1>1, <2>1, <2>2, Assemble, KeepsProvided, KeepsLoaded DEF Tick, IndInv, TypeOK
  <1>2. CASE ProviderStep
    <2>1. /\ Provided'
          /\ UNCHANGED <<now, snap, latest, invoices, attempts, processed, followUp,
                         batch, runs, cases>>
      BY <1>2, ProviderStepKeeps DEF IndInv, TypeOK
    <2>2. Stored'
      BY <2>1, KeepsStored DEF IndInv, Stored, LocalOK
    <2>3. QED
      BY <2>1, <2>2, Assemble, KeepsLoaded DEF IndInv, TypeOK
  <1>3. CASE \E a \in Attempts : Checkout(a)
    BY <1>3, CheckoutTyped
  <1>4. CASE \E e \in events : Deliver(e)
    BY <1>4, DeliverTyped
  <1>5. CASE \E s \in Subs : StopRenewal(s) \/ StopFails(s) \/ Crash(s)
    BY <1>5, FollowUpTyped
  <1>6. CASE Reconcile
    BY <1>6, BatchTyped, RowTyped, ReconcileKinds DEF IndInv
  <1>7. CASE UNCHANGED vars
    <2>1. UNCHANGED <<snap, latest, invoices, attempts>> /\ followUp' = followUp
          /\ UNCHANGED provider /\ UNCHANGED batch /\ UNCHANGED <<now, runs, cases>>
      BY <1>7 DEF vars, local
    <2>2. Stored'
      BY <2>1, KeepsStored DEF IndInv, Stored, LocalOK
    <2>3. QED
      BY <2>1, <2>2, Assemble, KeepsProvided, KeepsLoaded DEF IndInv, TypeOK
  <1>8. QED
    BY <1>1, <1>2, <1>3, <1>4, <1>5, <1>6, <1>7 DEF Next

(* The inductive invariant holds throughout every behaviour.               *)
LEMMA AlwaysIndInv == Spec => []IndInv
  <1>1. IndInv /\ [Next]_vars => IndInv'
    BY NextIndInv
  <1>2. QED
    BY InitIndInv, <1>1, PTL DEF Spec

(* Every table, every body and every run of the reconciliation keeps its   *)
(* type, whatever arrives and in whatever order.                           *)
THEOREM TypeCorrect == Spec => []TypeOK
  <1>1. IndInv => TypeOK
    BY DEF IndInv
  <1>2. QED
    BY AlwaysIndInv, <1>1, PTL

(* Every step writes the tables by a handler or by a checkout, or not.     *)
LEMMA StepKinds ==
  ASSUME IndInv, [Next]_vars
  PROVE  \/ UNCHANGED <<snap, invoices, attempts>>
         \/ \E a \in Attempts : Checkout(a)
         \/ \E f, key : Deliverable(f) /\ Process(f, key)
  <1>1. CASE Tick \/ ProviderStep
    BY <1>1, ProviderStepKeeps DEF Tick, local, IndInv, TypeOK
  <1>2. CASE \E e \in events : Deliver(e)
    <2>1. PICK e \in events, lookup \in BOOLEAN : Process(Facts(e, lookup), WebhookKey(e))
      BY <1>2 DEF Deliver
    <2>2. QED
      BY <2>1, FactsDeliverable DEF IndInv, Provided
  <1>3. CASE \E s \in Subs : StopRenewal(s) \/ StopFails(s) \/ Crash(s)
    BY <1>3 DEF StopRenewal, StopFails, Crash
  <1>4. CASE Reconcile
    <2>1. CASE FetchSubscriptions \/ FetchInvoices \/ NextPhase
      BY <2>1 DEF FetchSubscriptions, FetchInvoices, NextPhase, local
    <2>2. CASE \E row : RowApplied(row)
      BY <2>2 DEF RowApplied, Skip, Apply, local
    <2>3. QED
      BY <1>4, <2>1, <2>2, ReconcileKinds DEF IndInv
  <1>5. CASE UNCHANGED vars
    BY <1>5 DEF vars, local
  <1>6. QED
    BY <1>1, <1>2, <1>3, <1>4, <1>5 DEF Next

-----------------------------------------------------------------------------
(* One running subscription per customer. *)

(* A row upsert_snapshot accepts clashes with no running row of its user.  *)
LEMMA ReplaceOneLive ==
  ASSUME Stored, OneLivePerUser, NEW s \in Subs, NEW cand \in Snapshot,
         Replaceable(s, cand), Replace(s, cand)
  PROVE  OneLivePerUser'
  <1> SUFFICES ASSUME NEW t \in Subs, NEW w \in Subs,
                      OwnerOf(t) = OwnerOf(w), Live(t)', Live(w)'
               PROVE  t = w
    BY DEF OneLivePerUser, OwnerOf
  <1>1. \A x \in Subs : snap'[x] = IF x = s THEN cand ELSE snap[x]
    BY DEF Replace, Stored, LocalOK
  <1>2. CASE t # s /\ w # s
    BY <1>1, <1>2 DEF OneLivePerUser, Live
  <1>3. \A x \in Subs : Live(s)' /\ Live(x)' /\ x # s => OwnerOf(x) # OwnerOf(s)
    <2> SUFFICES ASSUME NEW x \in Subs, Live(s)', Live(x)', x # s, OwnerOf(x) = OwnerOf(s)
                 PROVE  FALSE
      OBVIOUS
    <2>1. cand.status # "expired" /\ Live(x)
      BY <1>1 DEF Live
    <2>2. x \in LiveOf(OwnerOf(s)) \ {s}
      BY <2>1 DEF LiveOf, Live
    <2>3. QED
      BY <2>1, <2>2 DEF Replaceable, Storable
  <1>4. QED
    BY <1>2, <1>3

(* A new subscription ends the previous one in the same transaction.       *)
LEMMA CreateOneLive ==
  ASSUME Stored, OneLivePerUser, NEW f \in Delivery, CanCreate(f), Create(f)
  PROVE  OneLivePerUser'
  <1> SUFFICES ASSUME NEW t \in Subs, NEW w \in Subs,
                      OwnerOf(t) = OwnerOf(w), Live(t)', Live(w)'
               PROVE  t = w
    BY DEF OneLivePerUser, OwnerOf
  <1> DEFINE s == f.sub
  <1>1. s \in Subs /\ Created(f).status = "active"
    BY DEF Delivery, Created
  <1>2. \A x \in Subs : snap'[x] =
           IF x = s THEN Created(f)
           ELSE IF x \in Previous(f)
           THEN [snap[x] EXCEPT !.status = "expired",
                   !.renews = IF snap[x].status = "expired" THEN @ ELSE None]
           ELSE snap[x]
    BY DEF Create
  <1>3. \A x \in Subs : x \in Previous(f) => snap[x] \in Snapshot
    BY <1>1, OwnerType, ForUserStored DEF Previous
  <1>4. \A x \in Subs : x # s /\ x \in Previous(f) => snap'[x].status = "expired"
    BY <1>2, <1>3 DEF Snapshot
  <1>5. \A x \in Subs : x # s /\ Live(x)' => Live(x) /\ x \notin Previous(f)
    BY <1>2, <1>4 DEF Live
  <1>6. \A x \in Subs : x # s /\ Live(x)' => OwnerOf(x) # OwnerOf(s)
    <2> SUFFICES ASSUME NEW x \in Subs, x # s, Live(x)', OwnerOf(x) = OwnerOf(s)
                 PROVE  FALSE
      OBVIOUS
    <2>1. x \in (LiveOf(OwnerOf(s)) \ {s}) \ Previous(f)
      BY <1>5 DEF LiveOf, Live
    <2>2. QED
      BY <1>1, <2>1 DEF CanCreate, Storable
  <1>7. QED
    BY <1>5, <1>6 DEF OneLivePerUser

(* No delivery gives a user a second running subscription.                 *)
LEMMA ProcessOneLive ==
  ASSUME Stored, OneLivePerUser, NEW f, Deliverable(f), NEW key, Process(f, key)
  PROVE  OneLivePerUser'
  <1>0. f \in Delivery /\ f.sub \in Subs
    BY DEF Deliverable, Delivery
  <1>1. CASE UNCHANGED snap
    BY <1>1 DEF OneLivePerUser, Live, OwnerOf
  <1>2. CASE CanCreate(f) /\ Create(f)
    BY <1>0, <1>2, CreateOneLive
  <1>3. CASE CanRecordPayment(f) /\ RecordPayment(f)
    <2>1. Paid(f) \in Snapshot
      <3>1. snap[f.sub] \in Snapshot /\ f.rev \in Nat
        BY <1>0, <1>3 DEF CanRecordPayment, CanInsertInvoice, Known, Stored, LocalOK, Delivery
      <3>2. [snap[f.sub] EXCEPT !.rev = f.rev] \in Snapshot
        BY <3>1 DEF Snapshot
      <3>3. QED
        BY <1>0, <1>3, <3>2, CreatedType DEF Paid, CanRecordPayment, CanInsertInvoice
    <2>2. QED
      BY <1>0, <1>3, <2>1, ReplaceOneLive DEF CanRecordPayment, RecordPayment
  <1>4. CASE CanDun(f) /\ Dun(f)
    <2>1. snap[f.sub] \in Snapshot /\ f.rev \in Nat
      BY <1>0, <1>4 DEF CanDun, Known, Stored, LocalOK, Delivery
    <2>2. Dunned(f) \in Snapshot
      BY <2>1 DEF Dunned, Snapshot, Statuses, AccessStatuses
    <2>3. QED
      BY <1>0, <1>4, <2>2, ReplaceOneLive DEF CanDun, Dun
  <1>5. CASE CanRefund(f) /\ Refund(f) /\ EndsAccess(f)
    <2>1. snap[f.sub] \in Snapshot /\ f.at \in Nat
      BY <1>0, <1>5 DEF CanRefund, Known, Stored, LocalOK, Delivery
    <2>2. Ended(f) \in Snapshot
      BY <2>1 DEF Ended, Snapshot, Statuses, SuspendedStatuses, OptTime
    <2>3. QED
      BY <1>0, <1>5, <2>2, ReplaceOneLive DEF CanRefund, Refund
  <1>6. CASE CanTransition(f) /\ Transition(f) /\ ~Confirms(f)
    <2>1. snap[f.sub] \in Snapshot
      BY <1>0, <1>6 DEF CanTransition, Known, Stored, LocalOK
    <2>2. QED
      BY <1>0, <1>6, <2>1, MovedType, ReplaceOneLive DEF CanTransition, Transition
  <1>7. QED
    BY <1>1, <1>2, <1>3, <1>4, <1>5, <1>6
    DEF Process, Handle, local, PairOrder, Refund, Transition

(* However purchases, endings, late activations and reconciliation runs    *)
(* interleave, a customer never has two running subscriptions.             *)
THEOREM AtMostOneLive == Spec => []OneLivePerUser
  <1>1. Init => OneLivePerUser
    BY DEF Init, OneLivePerUser, Live
  <1>2. IndInv /\ OneLivePerUser /\ [Next]_vars => OneLivePerUser'
    <2> SUFFICES ASSUME IndInv, OneLivePerUser, [Next]_vars PROVE OneLivePerUser'
      OBVIOUS
    <2>1. CASE UNCHANGED snap
      BY <2>1 DEF OneLivePerUser, Live, OwnerOf
    <2>2. CASE \E f, key : Deliverable(f) /\ Process(f, key)
      BY <2>2, ProcessOneLive DEF IndInv
    <2>3. QED
      BY <2>1, <2>2, StepKinds DEF Checkout
  <1>3. QED
    BY AlwaysIndInv, <1>1, <1>2, PTL DEF Spec

-----------------------------------------------------------------------------
(* Every stored subscription was bought with an attempt of its owner. *)

(* A handler stores a row only for an attempt it has just paired, and a    *)
(* pair is never broken.                                                   *)
LEMMA PairBacks ==
  ASSUME Stored, NEW f, Deliverable(f), Pairable(f), Pair(f)
  PROVE  /\ f.attempt \in Attempts /\ Owner[f.attempt] = OwnerOf(f.sub)
         /\ attempts'[f.attempt] = [status |-> "paid", order |-> f.sub]
         /\ \A a \in Attempts : attempts[a].status = "paid" => attempts'[a] = attempts[a]
  <1>1. f.attempt \in Attempts /\ Owner[f.attempt] = OwnerOf(f.sub)
    BY DEF Deliverable, Delivery, Pairable
  <1>2. CASE attempts[f.attempt].status = "paid"
    <2>1. attempts' = attempts /\ attempts[f.attempt].order = f.sub
      BY <1>1, <1>2 DEF Pair, Pairable, Stored, AttemptsPaired
    <2>2. attempts[f.attempt] \in Attempt
      BY <1>1 DEF Stored, LocalOK
    <2>3. attempts[f.attempt] = [status |-> "paid", order |-> f.sub]
      BY <1>2, <2>1, <2>2 DEF Attempt
    <2>4. QED
      BY <1>1, <2>1, <2>3
  <1>3. CASE attempts[f.attempt].status # "paid"
    BY <1>1, <1>3 DEF Pair, Stored, LocalOK
  <1>4. QED
    BY <1>2, <1>3

(* Rows stay backed while paid attempts are never touched and new rows     *)
(* have theirs.                                                            *)
LEMMA BackedKept ==
  ASSUME BackedByAttempt,
         \A a \in Attempts : attempts[a].status = "paid" => attempts'[a] = attempts[a],
         \A s \in Subs : snap'[s] # None =>
            \/ snap[s] # None
            \/ \E a \in Attempts : /\ Owner[a] = OwnerOf(s)
                                   /\ attempts'[a] = [status |-> "paid", order |-> s]
  PROVE  BackedByAttempt'
  <1> SUFFICES ASSUME NEW s \in Subs, snap'[s] # None
               PROVE  \E a \in Attempts : /\ Owner[a] = OwnerOf(s)
                                          /\ attempts'[a] = [status |-> "paid", order |-> s]
    BY DEF BackedByAttempt, OwnerOf
  <1>1. CASE snap[s] # None
    <2>1. PICK a \in Attempts : /\ Owner[a] = OwnerOf(s)
                                /\ attempts[a] = [status |-> "paid", order |-> s]
      BY <1>1 DEF BackedByAttempt
    <2>2. attempts'[a] = attempts[a]
      BY <2>1
    <2>3. QED
      BY <2>1, <2>2
  <1>2. CASE snap[s] = None
    BY <1>2
  <1>3. QED
    BY <1>1, <1>2

(* No delivery stores a subscription without its paid attempt.             *)
LEMMA ProcessBacked ==
  ASSUME Stored, BackedByAttempt, NEW f, Deliverable(f), NEW key, Process(f, key)
  PROVE  BackedByAttempt'
  <1>0. f.sub \in Subs
    BY DEF Deliverable, Delivery
  <1>1. CASE UNCHANGED <<snap, attempts>>
    BY <1>1 DEF BackedByAttempt, OwnerOf
  <1>2. CASE CanPairOrder(f) /\ PairOrder(f)
    <2>1. \A a \in Attempts : attempts[a].status = "paid" => attempts'[a] = attempts[a]
      BY <1>2, PairBacks DEF CanPairOrder, PairOrder
    <2>2. QED
      BY <1>2, <2>1, BackedKept DEF PairOrder
  <1>3. CASE CanCreate(f) /\ Create(f)
    <2>1. /\ f.attempt \in Attempts /\ Owner[f.attempt] = OwnerOf(f.sub)
          /\ attempts'[f.attempt] = [status |-> "paid", order |-> f.sub]
          /\ \A a \in Attempts : attempts[a].status = "paid" => attempts'[a] = attempts[a]
      BY <1>3, PairBacks DEF CanCreate, Create
    <2>2. \A s \in Subs : s \in Previous(f) => snap[s] # None
      BY <1>0, OwnerType, ForUserStored, NoneIsNoRow DEF Previous
    <2>3. \A s \in Subs : snap'[s] # None => s = f.sub \/ snap[s] # None
      BY <1>3, <2>2 DEF Create
    <2>4. QED
      BY <2>1, <2>3, BackedKept
  <1>4. CASE UNCHANGED attempts /\ \A s \in Subs : snap'[s] # None => snap[s] # None
    BY <1>4 DEF BackedByAttempt, OwnerOf
  <1>5. \A cand : Replace(f.sub, cand) /\ snap[f.sub] # None =>
           \A s \in Subs : snap'[s] # None => snap[s] # None
    BY DEF Replace, Stored, LocalOK
  <1>6. QED
    BY <1>1, <1>2, <1>3, <1>4, <1>5
    DEF Process, Handle, local, RecordPayment, CanRecordPayment, CanInsertInvoice,
        Dun, CanDun, Refund, CanRefund, Transition, CanTransition, Known

(* No subscription is stored that nobody's checkout asked for, and two     *)
(* payments of one checkout never give two subscriptions.                  *)
THEOREM AlwaysBacked == Spec => []BackedByAttempt
  <1>1. Init => BackedByAttempt
    BY DEF Init, BackedByAttempt
  <1>2. IndInv /\ BackedByAttempt /\ [Next]_vars => BackedByAttempt'
    <2> SUFFICES ASSUME IndInv, BackedByAttempt, [Next]_vars PROVE BackedByAttempt'
      OBVIOUS
    <2>1. CASE UNCHANGED <<snap, attempts>>
      BY <2>1 DEF BackedByAttempt, OwnerOf
    <2>2. CASE \E a \in Attempts : Checkout(a)
      <3>1. \A b \in Attempts : attempts[b].status = "paid" => attempts'[b] = attempts[b]
        BY <2>2 DEF Checkout
      <3>2. QED
        BY <2>2, <3>1, BackedKept DEF Checkout
    <2>3. CASE \E f, key : Deliverable(f) /\ Process(f, key)
      BY <2>3, ProcessBacked DEF IndInv
    <2>4. QED
      BY <2>1, <2>2, <2>3, StepKinds
  <1>3. QED
    BY AlwaysIndInv, <1>1, <1>2, PTL DEF Spec

-----------------------------------------------------------------------------
(* The ledger of invoices only grows. *)

FinalRows ==
  \A s \in Subs : \A k \in InvoiceIds : invoices[s][k] # None =>
      /\ invoices'[s][k].start = invoices[s][k].start
      /\ invoices'[s][k].end = invoices[s][k].end
      /\ invoices[s][k].status = "refunded" => invoices'[s][k].status = "refunded"

(* No delivery changes the period of a recorded invoice or undoes its      *)
(* full refund.                                                            *)
LEMMA ProcessFinal ==
  ASSUME Stored, NEW f, Deliverable(f), NEW key, Process(f, key)
  PROVE  FinalRows
  <1>1. CASE UNCHANGED invoices
    BY <1>1 DEF FinalRows
  <1>2. CASE CanRecordPayment(f) /\ RecordPayment(f)
    <2>1. invoices[f.sub][f.inv] = None
      BY <1>2 DEF CanRecordPayment, Collides
    <2>2. \A s \in Subs : \A k \in InvoiceIds :
             invoices[s][k] # None => invoices'[s][k] = invoices[s][k]
      BY <1>2, <2>1 DEF RecordPayment, Stored, LocalOK
    <2>3. QED
      BY <2>2 DEF FinalRows
  <1>3. CASE CanRefund(f) /\ Refund(f)
    <2> SUFFICES ASSUME NEW s \in Subs, NEW k \in InvoiceIds, invoices[s][k] # None
                 PROVE  /\ invoices'[s][k].start = invoices[s][k].start
                        /\ invoices'[s][k].end = invoices[s][k].end
                        /\ invoices[s][k].status = "refunded" =>
                              invoices'[s][k].status = "refunded"
      BY DEF FinalRows
    <2>1. invoices[s][k] \in Invoice
      BY DEF Stored, LocalOK
    <2>2. CASE s = f.sub /\ k = f.inv
      <3>1. invoices'[s][k] = [invoices[s][k] EXCEPT !.status = f.status]
        BY <1>3, <2>2 DEF Refund, Stored, LocalOK
      <3>2. invoices[s][k].status = "refunded" => f.status = "refunded"
        BY <1>3, <2>2 DEF CanRefund
      <3>3. QED
        BY <2>1, <3>1, <3>2 DEF Invoice
    <2>3. CASE s # f.sub \/ k # f.inv
      BY <1>3, <2>3 DEF Refund, Stored, LocalOK
    <2>4. QED
      BY <2>2, <2>3
  <1>4. QED
    BY <1>1, <1>2, <1>3
    DEF Process, Handle, local, PairOrder, Create, Dun, Transition

(* Whatever is delivered twice, late or by both channels, the period of a  *)
(* recorded invoice never changes and a full refund is never taken back.   *)
THEOREM InvoicesStayFinal == Spec => InvoicesAreFinal
  <1>1. IndInv /\ [Next]_vars => [FinalRows]_vars
    <2> SUFFICES ASSUME IndInv, [Next]_vars PROVE FinalRows
      OBVIOUS
    <2>1. CASE UNCHANGED invoices
      BY <2>1 DEF FinalRows
    <2>2. CASE \E f, key : Deliverable(f) /\ Process(f, key)
      BY <2>2, ProcessFinal DEF IndInv
    <2>3. QED
      BY <2>1, <2>2, StepKinds DEF Checkout
  <1>2. QED
    BY AlwaysIndInv, <1>1, PTL DEF Spec, InvoicesAreFinal, FinalRows

-----------------------------------------------------------------------------
(* What the provider has said.  A status of subscription s is told at a    *)
(* revision r by the provider's own resource, by an invoice that was paid  *)
(* or failed at r, by a body on its way, by a running row that carries r,  *)
(* or by the lists a reconciliation run holds.                             *)

Settling == {"subscription_payment_success", "subscription_payment_recovered"}

Telling ==
  TransitionEvents \cup Settling \cup {"subscription_created", "subscription_payment_failed"}

Means(e) ==
  IF e.name \in Settling THEN "active"
  ELSE IF e.name = "subscription_payment_failed" THEN "past_due" ELSE e.status

Charged(status) == IF status = "paid" THEN "active" ELSE "past_due"

SubTold(t, s, r, st) == t[s].status # "none" /\ t[s].rev = r /\ t[s].status = st

BillTold(b, s, r, st) ==
  \E k \in InvoiceIds : /\ b[s][k].status \in {"paid", "pending"}
                        /\ b[s][k].rev = r /\ Charged(b[s][k].status) = st

BodyTold(s, r, st) ==
  \E e \in events : e.name \in Telling /\ e.sub = s /\ e.rev = r /\ Means(e) = st

RowTold(s, r, st) == Live(s) /\ snap[s].rev = r /\ snap[s].status = st

RunTold(s, r, st) ==
  \/ batch.subs # None /\ SubTold(batch.subs, s, r, st)
  \/ batch.bills # None /\ BillTold(batch.bills, s, r, st)

Said(s, r, st) ==
  \/ SubTold(prov, s, r, st) \/ BillTold(bill, s, r, st)
  \/ BodyTold(s, r, st) \/ RowTold(s, r, st) \/ RunTold(s, r, st)

(* Invoice k of s was paid at revision n, as far as anything tells.        *)
BillPaid(b, s, k, n) == b[s][k].status = "paid" /\ b[s][k].rev = n

PaidAt(s, k, n) ==
  \/ BillPaid(bill, s, k, n)
  \/ \E e \in events : e.name \in Settling /\ e.sub = s /\ e.inv = k /\ e.rev = n
  \/ batch.bills # None /\ BillPaid(batch.bills, s, k, n)

(* Nothing is told of the future, one revision tells one status, and the   *)
(* first invoice was paid at the first revision of all.                    *)
RevsBounded == \A s \in Subs : prov[s].rev <= rev

SaidBefore == \A s \in Subs : \A r \in Nat : \A st : Said(s, r, st) => r <= prov[s].rev

Consistent ==
  \A s \in Subs : \A r \in Nat : \A st, other : Said(s, r, st) /\ Said(s, r, other) => st = other

FirstLowest ==
  \A s \in Subs : \A r, n \in Nat : \A st : PaidAt(s, 1, n) /\ Said(s, r, st) => n <= r

(* Before the purchase there is nothing to tell and no row.                *)
Unsold ==
  \A s \in Subs : prov[s].status = "none" =>
     /\ snap[s] = None
     /\ \A r \in Nat : \A st : ~Said(s, r, st)
     /\ \A k \in InvoiceIds : bill[s][k].status = "none"

(* An invoice is paid once, stays with the provider, and is recorded here  *)
(* only then, in a row that carries its revision or a later one.           *)
PaidOnce ==
  \A s \in Subs : \A k \in InvoiceIds : \A n, m \in Nat :
     PaidAt(s, k, n) /\ PaidAt(s, k, m) => n = m

PaidHeld ==
  \A s \in Subs : \A k \in InvoiceIds : \A n \in Nat :
     PaidAt(s, k, n) => bill[s][k].status \in InvoiceStatuses

Recorded ==
  \A s \in Subs : \A k \in InvoiceIds :
     invoices[s][k] # None => bill[s][k].status \in InvoiceStatuses

RecordedSeen ==
  \A s \in Subs : \A k \in InvoiceIds : \A n \in Nat :
     PaidAt(s, k, n) /\ invoices[s][k] # None => snap[s] # None /\ n <= snap[s].rev

ExpiredEnds ==
  \A s \in Subs : snap[s] # None /\ snap[s].status = "expired" => snap[s].renews = None

NoFirstPending == \A s \in Subs : bill[s][1].status # "pending"

SaidInv     == RevsBounded /\ SaidBefore /\ Consistent /\ FirstLowest /\ Unsold
RecordedInv == PaidOnce /\ PaidHeld /\ Recorded /\ RecordedSeen /\ ExpiredEnds /\ NoFirstPending
TruthInv    == SaidInv /\ RecordedInv

(* Nothing is said, paid or recorded at the start.                         *)
LEMMA InitTruth == Init => TruthInv
  <1> SUFFICES ASSUME Init PROVE TruthInv
    OBVIOUS
  <1>1. \A s \in Subs : /\ prov[s] = UnusedSub /\ bill[s] = UnusedBill /\ snap[s] = None
                        /\ invoices[s] = NoInvoice
    BY DEF Init
  <1>2. /\ events = {} /\ rev = 0 /\ batch.subs = None /\ batch.bills = None
        /\ UnusedSub.status = "none" /\ UnusedSub.rev = 0
        /\ \A k \in InvoiceIds : UnusedBill[k].status = "none" /\ NoInvoice[k] = None
    BY DEF Init, NoBatch, UnusedSub, UnusedBill, NoInvoice
  <1>3. \A s \in Subs : \A r, st : ~Said(s, r, st)
    BY <1>1, <1>2 DEF Said, SubTold, BillTold, BodyTold, RowTold, RunTold, Live
  <1>4. \A s \in Subs : \A k \in InvoiceIds : \A n : ~PaidAt(s, k, n)
    BY <1>1, <1>2 DEF PaidAt, BillPaid
  <1>5. SaidInv
    BY <1>1, <1>2, <1>3, <1>4 DEF SaidInv, RevsBounded, SaidBefore, Consistent, FirstLowest, Unsold
  <1>6. RecordedInv
    BY <1>1, <1>2, <1>4, FirstInvoice
    DEF RecordedInv, PaidOnce, PaidHeld, Recorded, RecordedSeen, ExpiredEnds, NoFirstPending
  <1>7. QED
    BY <1>5, <1>6 DEF TruthInv

(* What is told carries a revision that is a number.                       *)
LEMMA TypedTold ==
  ASSUME IndInv, NEW s \in Subs
  PROVE  /\ prov[s].rev \in Nat /\ prov[s].status \in Statuses \cup {"none"}
         /\ \A k \in InvoiceIds :
               bill[s][k].rev \in Nat /\ bill[s][k].status \in InvoiceStatuses \cup {"none", "pending"}
         /\ snap[s] # None => snap[s] \in Snapshot /\ snap[s].rev \in Nat
         /\ rev \in Nat
  BY DEF IndInv, Provided, ProviderOK, ProviderSub, ProviderInvoice, Stored, LocalOK, Snapshot

-----------------------------------------------------------------------------
(* Steps that tell nothing new. *)

(* Where only part of what was told remains, and the provider's invoices   *)
(* stay paid, all of it stays consistent.                                  *)
LEMMA QuietTruth ==
  ASSUME IndInv, TruthInv, UNCHANGED <<prov, snap, invoices>>, rev' \in Nat, rev <= rev',
         \A s \in Subs : \A r \in Nat : \A st : Said(s, r, st)' => Said(s, r, st),
         \A s \in Subs : \A k \in InvoiceIds : \A n \in Nat : PaidAt(s, k, n)' => PaidAt(s, k, n),
         \A s \in Subs : \A k \in InvoiceIds :
            /\ bill[s][k].status \in InvoiceStatuses => bill'[s][k].status \in InvoiceStatuses
            /\ bill[s][k].status \notin InvoiceStatuses => bill'[s][k] = bill[s][k]
  PROVE  TruthInv'
  <1>1. \A s \in Subs : prov'[s] = prov[s] /\ snap'[s] = snap[s] /\ invoices'[s] = invoices[s]
    OBVIOUS
  <1>2. RevsBounded'
    BY <1>1, TypedTold DEF TruthInv, SaidInv, RevsBounded
  <1>3. SaidBefore' /\ Consistent'
    BY <1>1 DEF TruthInv, SaidInv, SaidBefore, Consistent
  <1>4. FirstLowest'
    BY FirstInvoice DEF TruthInv, SaidInv, FirstLowest
  <1>5. Unsold'
    BY <1>1 DEF TruthInv, SaidInv, Unsold, InvoiceStatuses
  <1>6. PaidOnce' /\ PaidHeld'
    BY DEF TruthInv, RecordedInv, PaidOnce, PaidHeld
  <1>7. Recorded' /\ RecordedSeen' /\ ExpiredEnds'
    BY <1>1 DEF TruthInv, RecordedInv, Recorded, RecordedSeen, ExpiredEnds
  <1>8. NoFirstPending'
    BY FirstInvoice DEF TruthInv, RecordedInv, NoFirstPending, InvoiceStatuses
  <1>9. QED
    BY <1>2, <1>3, <1>4, <1>5, <1>6, <1>7, <1>8 DEF TruthInv, SaidInv, RecordedInv

(* What a run holds, it fetched from the provider.                         *)
RunKeeps ==
  /\ batch'.subs # None => batch'.subs \in {batch.subs, prov}
  /\ batch'.bills # None => batch'.bills \in {batch.bills, bill}

(* A run that fetches the provider's resources tells nothing new.          *)
LEMMA RunTruth ==
  ASSUME IndInv, TruthInv, UNCHANGED <<provider, snap, invoices>>, RunKeeps
  PROVE  TruthInv'
  <1>1. UNCHANGED <<prov, bill, rev, events>>
    BY DEF provider
  <1>2. \A s \in Subs : \A r \in Nat : \A st : Said(s, r, st)' => Said(s, r, st)
    BY <1>1 DEF Said, SubTold, BillTold, BodyTold, RowTold, RunTold, Live, RunKeeps
  <1>3. \A s \in Subs : \A k \in InvoiceIds : \A n \in Nat : PaidAt(s, k, n)' => PaidAt(s, k, n)
    BY <1>1 DEF PaidAt, BillPaid, RunKeeps
  <1>4. rev \in Nat
    BY DEF IndInv, Provided, ProviderOK
  <1>5. QED
    BY <1>1, <1>2, <1>3, <1>4, QuietTruth

(* A refund tells nothing of the subscription's status.                    *)
LEMMA RefundTruth ==
  ASSUME IndInv, TruthInv, NEW s \in Subs, NEW k \in InvoiceIds,
         NEW status \in {"partial_refund", "refunded"}, RefundInvoice(s, k, status)
  PROVE  TruthInv'
  <1>1. /\ UNCHANGED <<prov, snap, invoices, batch>> /\ rev' = rev + 1
        /\ bill' = [bill EXCEPT ![s] = Billed(s, k, status)]
        /\ bill[s][k].status \in InvoiceStatuses
    BY DEF RefundInvoice, local, InvoiceStatuses
  <1>2. \A e \in events' : e \in events \/ e.name \in RefundEvents
    BY DEF RefundInvoice, Of, RefundEvents
  <1>3. \A t \in Subs : \A j \in InvoiceIds :
           IF t = s /\ j = k THEN bill'[t][j] = [status |-> status, rev |-> rev + 1]
           ELSE bill'[t][j] = bill[t][j]
    BY <1>1 DEF Billed, IndInv, Provided, ProviderOK
  <1>4. /\ RefundEvents \cap Telling = {} /\ RefundEvents \cap Settling = {}
        /\ status \notin {"paid", "pending"} /\ status \in InvoiceStatuses
    BY DEF RefundEvents, Telling, Settling, TransitionEvents, InvoiceStatuses
  <1>5. rev' \in Nat /\ rev <= rev'
    BY <1>1 DEF IndInv, Provided, ProviderOK
  <1>6. ASSUME NEW t \in Subs, NEW r \in Nat, NEW st, Said(t, r, st)' PROVE Said(t, r, st)
    <2>1. BillTold(bill, t, r, st)' => BillTold(bill, t, r, st)
      BY <1>3, <1>4 DEF BillTold
    <2>2. BodyTold(t, r, st)' => BodyTold(t, r, st)
      BY <1>2, <1>4 DEF BodyTold
    <2>3. QED
      BY <1>1, <1>6, <2>1, <2>2 DEF Said, SubTold, RowTold, RunTold, Live, BillTold
  <1>7. ASSUME NEW t \in Subs, NEW j \in InvoiceIds, NEW n \in Nat, PaidAt(t, j, n)'
        PROVE  PaidAt(t, j, n)
    BY <1>1, <1>2, <1>3, <1>4, <1>7 DEF PaidAt, BillPaid
  <1>8. QED
    BY <1>1, <1>3, <1>4, <1>5, <1>6, <1>7, QuietTruth

-----------------------------------------------------------------------------
(* Operations of the provider. *)

(* An operation tells of s at its own revision, in the resource, in the    *)
(* invoice and in the bodies alike, and pays no invoice a second time.     *)
NewlyPaid(s, b, k) ==
  /\ k \in InvoiceIds
  /\ bill[s][k].status \notin InvoiceStatuses
  /\ b[k].status = "paid" /\ b[k].rev = rev + 1
  /\ k = 1 => prov[s].status = "none"

HonestBody(s, p, b, e) ==
  /\ e.sub = s /\ e.rev = rev + 1
  /\ e.name \in Telling => Means(e) = p.status
  /\ e.name \in Settling => NewlyPaid(s, b, e.inv)

HonestBill(s, p, b, k) ==
  \/ b[k] = bill[s][k]
  \/ /\ bill[s][k].status \notin InvoiceStatuses
     /\ b[k].rev = rev + 1 /\ Charged(b[k].status) = p.status
     /\ \/ NewlyPaid(s, b, k)
        \/ b[k].status = "pending" /\ k # 1

Honest(s, p, b, sent) ==
  /\ p.status \in Statuses
  /\ \A e \in sent : HonestBody(s, p, b, e)
  /\ \A k \in InvoiceIds : HonestBill(s, p, b, k)

(* What an operation adds to what was told and paid.                       *)
LEMMA OperateTells ==
  ASSUME IndInv, NEW s \in Subs, NEW p \in ProviderSub, NEW b \in [InvoiceIds -> ProviderInvoice],
         NEW sent, Operate(s, p, b, sent), Honest(s, p, b, sent), UNCHANGED <<snap, invoices>>
  PROVE  /\ rev' = rev + 1 /\ rev \in Nat
         /\ \A t \in Subs : t # s => prov'[t] = prov[t] /\ bill'[t] = bill[t]
         /\ prov'[s].rev = rev + 1 /\ prov'[s].status = p.status /\ bill'[s] = b
         /\ \A t \in Subs : \A r, st :
               Said(t, r, st)' => Said(t, r, st) \/ (t = s /\ r = rev + 1 /\ st = p.status)
         /\ \A t \in Subs : \A k \in InvoiceIds : \A n :
               PaidAt(t, k, n)' => PaidAt(t, k, n) \/ (t = s /\ n = rev + 1 /\ NewlyPaid(s, b, k))
  <1>1. /\ rev' = rev + 1 /\ rev \in Nat /\ UNCHANGED batch
        /\ prov' = [prov EXCEPT ![s] = [p EXCEPT !.rev = rev + 1]]
        /\ bill' = [bill EXCEPT ![s] = b] /\ events' = events \cup sent
    BY DEF Operate, IndInv, Provided, ProviderOK
  <1>2. /\ [p EXCEPT !.rev = rev + 1].rev = rev + 1
        /\ [p EXCEPT !.rev = rev + 1].status = p.status
    BY DEF ProviderSub
  <1>3. \A t \in Subs : IF t = s THEN prov'[t] = [p EXCEPT !.rev = rev + 1] /\ bill'[t] = b
                        ELSE prov'[t] = prov[t] /\ bill'[t] = bill[t]
    BY <1>1 DEF IndInv, Provided, ProviderOK
  <1>4. prov'[s].rev = rev + 1 /\ prov'[s].status = p.status /\ bill'[s] = b
    BY <1>2, <1>3
  <1>5. ASSUME NEW t \in Subs, NEW r, NEW st, Said(t, r, st)'
        PROVE  Said(t, r, st) \/ (t = s /\ r = rev + 1 /\ st = p.status)
    <2>1. SubTold(prov, t, r, st)' => SubTold(prov, t, r, st) \/ (t = s /\ r = rev + 1 /\ st = p.status)
      BY <1>3, <1>4 DEF SubTold
    <2>2. BillTold(bill, t, r, st)' => BillTold(bill, t, r, st) \/ (t = s /\ r = rev + 1 /\ st = p.status)
      <3>1. CASE t # s
        BY <1>3, <3>1 DEF BillTold
      <3>2. CASE t = s
        <4> SUFFICES ASSUME BillTold(bill, s, r, st)'
                     PROVE  BillTold(bill, s, r, st) \/ (r = rev + 1 /\ st = p.status)
          BY <3>2
        <4>1. PICK k \in InvoiceIds : /\ b[k].status \in {"paid", "pending"}
                                      /\ b[k].rev = r /\ Charged(b[k].status) = st
          BY <1>4 DEF BillTold
        <4>2. HonestBill(s, p, b, k)
          BY DEF Honest
        <4>3. QED
          BY <4>1, <4>2 DEF HonestBill, BillTold
      <3>3. QED
        BY <3>1, <3>2
    <2>3. BodyTold(t, r, st)' => BodyTold(t, r, st) \/ (t = s /\ r = rev + 1 /\ st = p.status)
      BY <1>1 DEF BodyTold, Honest, HonestBody
    <2>4. RowTold(t, r, st)' => RowTold(t, r, st)
      BY DEF RowTold, Live
    <2>5. RunTold(t, r, st)' => RunTold(t, r, st)
      BY <1>1 DEF RunTold, SubTold, BillTold
    <2>6. QED
      BY <1>5, <2>1, <2>2, <2>3, <2>4, <2>5 DEF Said
  <1>6. ASSUME NEW t \in Subs, NEW k \in InvoiceIds, NEW n, PaidAt(t, k, n)'
        PROVE  PaidAt(t, k, n) \/ (t = s /\ n = rev + 1 /\ NewlyPaid(s, b, k))
    <2>1. CASE BillPaid(bill, t, k, n)'
      <3>1. CASE t # s
        BY <1>3, <2>1, <3>1 DEF BillPaid, PaidAt
      <3>2. CASE t = s
        <4>1. b[k].status = "paid" /\ b[k].rev = n
          BY <1>4, <2>1, <3>2 DEF BillPaid
        <4>2. HonestBill(s, p, b, k)
          BY DEF Honest
        <4>3. QED
          BY <3>2, <4>1, <4>2 DEF HonestBill, BillPaid, PaidAt
      <3>3. QED
        BY <3>1, <3>2
    <2>2. CASE \E e \in events' : e.name \in Settling /\ e.sub = t /\ e.inv = k /\ e.rev = n
      BY <1>1, <2>2 DEF Honest, HonestBody, PaidAt
    <2>3. CASE (batch.bills # None /\ BillPaid(batch.bills, t, k, n))'
      BY <1>1, <2>3 DEF PaidAt, BillPaid
    <2>4. QED
      BY <1>6, <2>1, <2>2, <2>3 DEF PaidAt
  <1>7. QED
    BY <1>1, <1>3, <1>4, <1>5, <1>6

(* No operation contradicts what was told before it.                       *)
LEMMA OperateTruth ==
  ASSUME IndInv, TruthInv, NEW s \in Subs, NEW p \in ProviderSub,
         NEW b \in [InvoiceIds -> ProviderInvoice], NEW sent,
         Operate(s, p, b, sent), Honest(s, p, b, sent), UNCHANGED <<snap, invoices>>
  PROVE  TruthInv'
  <1>1. /\ rev' = rev + 1 /\ rev \in Nat
        /\ \A t \in Subs : t # s => prov'[t] = prov[t] /\ bill'[t] = bill[t]
        /\ prov'[s].rev = rev + 1 /\ prov'[s].status = p.status /\ bill'[s] = b
    BY OperateTells
  <1>2. ASSUME NEW t \in Subs, NEW r \in Nat, NEW st, Said(t, r, st)'
        PROVE  Said(t, r, st) \/ (t = s /\ r = rev + 1 /\ st = p.status)
    BY <1>2, OperateTells
  <1>3. ASSUME NEW t \in Subs, NEW k \in InvoiceIds, NEW n \in Nat, PaidAt(t, k, n)'
        PROVE  PaidAt(t, k, n) \/ (t = s /\ n = rev + 1 /\ NewlyPaid(s, b, k))
    BY <1>3, OperateTells
  <1>4. \A t \in Subs : prov[t].rev \in Nat /\ prov[t].rev <= rev
    BY TypedTold DEF TruthInv, SaidInv, RevsBounded
  <1>5. \A t \in Subs : \A r \in Nat : \A st : Said(t, r, st) => r <= prov[t].rev
    BY DEF TruthInv, SaidInv, SaidBefore
  <1>6. \A t \in Subs : \A k \in InvoiceIds :
           \/ bill'[t][k] = bill[t][k]
           \/ /\ t = s /\ bill[t][k].status \notin InvoiceStatuses
              /\ bill'[t][k].status = "pending" => k # 1
    BY <1>1 DEF Honest, HonestBill, NewlyPaid
  <1>7. RevsBounded'
    BY <1>1, <1>4 DEF RevsBounded
  <1>8. SaidBefore'
    <2> SUFFICES ASSUME NEW t \in Subs, NEW r \in Nat, NEW st, Said(t, r, st)'
                 PROVE  r <= prov'[t].rev
      BY DEF SaidBefore
    <2>1. CASE t # s
      BY <1>1, <1>2, <1>5, <2>1
    <2>2. CASE t = s
      BY <1>1, <1>2, <1>4, <1>5, <2>2
    <2>3. QED
      BY <2>1, <2>2
  <1>9. Consistent'
    <2> SUFFICES ASSUME NEW t \in Subs, NEW r \in Nat, NEW st, NEW other,
                        Said(t, r, st)', Said(t, r, other)'
                 PROVE  st = other
      BY DEF Consistent
    <2>1. CASE t = s /\ r = rev + 1
      <3>1. \A x : ~Said(t, r, x)
        BY <1>1, <1>4, <1>5, <2>1
      <3>2. QED
        BY <1>2, <3>1
    <2>2. CASE ~(t = s /\ r = rev + 1)
      BY <1>2, <2>2 DEF TruthInv, SaidInv, Consistent
    <2>3. QED
      BY <2>1, <2>2
  <1>10. FirstLowest'
    <2> SUFFICES ASSUME NEW t \in Subs, NEW r \in Nat, NEW n \in Nat, NEW st,
                        PaidAt(t, 1, n)', Said(t, r, st)'
                 PROVE  n <= r
      BY DEF FirstLowest
    <2>1. CASE PaidAt(t, 1, n) /\ Said(t, r, st)
      BY <2>1 DEF TruthInv, SaidInv, FirstLowest
    <2>2. CASE ~PaidAt(t, 1, n)
      <3>1. t = s /\ n = rev + 1 /\ prov[s].status = "none"
        BY <1>3, <2>2, FirstInvoice DEF NewlyPaid
      <3>2. ~Said(t, r, st)
        BY <3>1 DEF TruthInv, SaidInv, Unsold
      <3>3. QED
        BY <1>1, <1>2, <3>1, <3>2
    <2>3. CASE PaidAt(t, 1, n) /\ ~Said(t, r, st)
      <3>1. t = s /\ r = rev + 1
        BY <1>2, <2>3
      <3>2. CASE prov[s].status = "none"
        <4>1. bill[s][1].status = "none"
          BY <3>2, FirstInvoice DEF TruthInv, SaidInv, Unsold
        <4>2. bill[s][1].status \in InvoiceStatuses
          BY <2>3, <3>1, FirstInvoice DEF TruthInv, RecordedInv, PaidHeld
        <4>3. QED
          BY <4>1, <4>2 DEF InvoiceStatuses
      <3>3. CASE prov[s].status # "none"
        <4>1. Said(s, prov[s].rev, prov[s].status)
          BY <3>3 DEF Said, SubTold
        <4>2. n <= prov[s].rev
          BY <1>4, <2>3, <3>1, <4>1 DEF TruthInv, SaidInv, FirstLowest
        <4>3. QED
          BY <1>1, <1>4, <3>1, <4>2
      <3>4. QED
        BY <3>2, <3>3
    <2>4. QED
      BY <2>1, <2>2, <2>3
  <1>11. Unsold'
    <2> SUFFICES ASSUME NEW t \in Subs, prov'[t].status = "none"
                 PROVE  /\ snap'[t] = None
                        /\ \A r \in Nat : \A st : ~Said(t, r, st)'
                        /\ \A k \in InvoiceIds : bill'[t][k].status = "none"
      BY DEF Unsold
    <2>1. t # s
      BY <1>1 DEF Honest, Statuses, AccessStatuses, SuspendedStatuses
    <2>2. prov'[t] = prov[t] /\ bill'[t] = bill[t]
      BY <1>1, <2>1
    <2>3. QED
      BY <1>2, <2>1, <2>2 DEF TruthInv, SaidInv, Unsold
  <1>12. PaidHeld'
    <2> SUFFICES ASSUME NEW t \in Subs, NEW k \in InvoiceIds, NEW n \in Nat, PaidAt(t, k, n)'
                 PROVE  bill'[t][k].status \in InvoiceStatuses
      BY DEF PaidHeld
    <2>1. CASE PaidAt(t, k, n)
      BY <1>6, <2>1 DEF TruthInv, RecordedInv, PaidHeld
    <2>2. CASE ~PaidAt(t, k, n)
      BY <1>1, <1>3, <2>2 DEF NewlyPaid, InvoiceStatuses
    <2>3. QED
      BY <2>1, <2>2
  <1>13. PaidOnce'
    <2> SUFFICES ASSUME NEW t \in Subs, NEW k \in InvoiceIds, NEW n \in Nat, NEW m \in Nat,
                        PaidAt(t, k, n)', PaidAt(t, k, m)'
                 PROVE  n = m
      BY DEF PaidOnce
    <2>1. \A x \in Nat : PaidAt(t, k, x) => bill[t][k].status \in InvoiceStatuses
      BY DEF TruthInv, RecordedInv, PaidHeld
    <2>2. CASE PaidAt(t, k, n) /\ PaidAt(t, k, m)
      BY <2>2 DEF TruthInv, RecordedInv, PaidOnce
    <2>3. CASE ~PaidAt(t, k, n) \/ ~PaidAt(t, k, m)
      BY <1>3, <2>1, <2>3 DEF NewlyPaid
    <2>4. QED
      BY <2>2, <2>3
  <1>14. Recorded'
    BY <1>6 DEF TruthInv, RecordedInv, Recorded
  <1>15. RecordedSeen'
    <2> SUFFICES ASSUME NEW t \in Subs, NEW k \in InvoiceIds, NEW n \in Nat,
                        PaidAt(t, k, n)', invoices[t][k] # None
                 PROVE  snap[t] # None /\ n <= snap[t].rev
      BY DEF RecordedSeen
    <2>1. PaidAt(t, k, n)
      BY <1>3 DEF NewlyPaid, TruthInv, RecordedInv, Recorded
    <2>2. QED
      BY <2>1 DEF TruthInv, RecordedInv, RecordedSeen
  <1>16. ExpiredEnds'
    BY DEF TruthInv, RecordedInv, ExpiredEnds
  <1>17. NoFirstPending'
    BY <1>6, FirstInvoice DEF TruthInv, RecordedInv, NoFirstPending
  <1>18. QED
    BY <1>7, <1>8, <1>9, <1>10, <1>11, <1>12, <1>13, <1>14, <1>15, <1>16, <1>17
    DEF TruthInv, SaidInv, RecordedInv

(* The bodies and invoices of the operations are honest.                   *)
LEMMA BodyHonest ==
  ASSUME NEW s \in Subs, NEW p, NEW b
  PROVE  /\ \A name \in TransitionEvents \cup {"subscription_created"} :
               HonestBody(s, p, b, SubEvent(s, name, p))
         /\ \A e \in Updated(s, p) : HonestBody(s, p, b, e)
         /\ HonestBody(s, p, b, Of(s, "order_created", 0, "paid", p))
         /\ p.status = "past_due" => \A k \in InvoiceIds :
               HonestBody(s, p, b, Of(s, "subscription_payment_failed", k, "pending", p))
         /\ p.status = "active" => \A k \in InvoiceIds : \A name \in Settling :
               NewlyPaid(s, b, k) => HonestBody(s, p, b, Of(s, name, k, "paid", p))
  <1>1. \A name, k, status : /\ Of(s, name, k, status, p).name = name
                             /\ Of(s, name, k, status, p).sub = s
                             /\ Of(s, name, k, status, p).rev = rev + 1
                             /\ Of(s, name, k, status, p).inv = k
                             /\ Of(s, name, k, status, p).status = status
    BY DEF Of
  <1>2. /\ "subscription_updated" \in TransitionEvents
        /\ (TransitionEvents \cup {"subscription_created"}) \cap Settling = {}
        /\ "subscription_payment_failed" \notin TransitionEvents \cup {"subscription_created"} \cup Settling
        /\ "order_created" \notin Telling \cup Settling
    BY DEF TransitionEvents, Settling, Telling
  <1>3. \A name \in TransitionEvents \cup {"subscription_created"} :
           HonestBody(s, p, b, SubEvent(s, name, p))
    BY <1>1, <1>2 DEF SubEvent, HonestBody, Means
  <1>4. \A e \in Updated(s, p) : HonestBody(s, p, b, e)
    BY <1>2, <1>3 DEF Updated
  <1>5. HonestBody(s, p, b, Of(s, "order_created", 0, "paid", p))
    BY <1>1, <1>2 DEF HonestBody
  <1>6. ASSUME p.status = "past_due", NEW k \in InvoiceIds
        PROVE  HonestBody(s, p, b, Of(s, "subscription_payment_failed", k, "pending", p))
    BY <1>1, <1>2, <1>6 DEF HonestBody, Means
  <1>7. ASSUME p.status = "active", NEW k \in InvoiceIds, NEW name \in Settling, NewlyPaid(s, b, k)
        PROVE  HonestBody(s, p, b, Of(s, name, k, "paid", p))
    BY <1>1, <1>7 DEF HonestBody, Means
  <1>8. QED
    BY <1>3, <1>4, <1>5, <1>6, <1>7

(* An invoice an operation writes is paid or falls due at its revision.    *)
LEMMA BillHonest ==
  ASSUME Provided, NEW s \in Subs, NEW p, NEW k \in InvoiceIds,
         bill[s][k].status \notin InvoiceStatuses
  PROVE  /\ p.status = "active" /\ (k = 1 => prov[s].status = "none")
               => /\ NewlyPaid(s, Billed(s, k, "paid"), k)
                  /\ \A j \in InvoiceIds : HonestBill(s, p, Billed(s, k, "paid"), j)
         /\ p.status = "past_due" /\ k # 1
               => \A j \in InvoiceIds : HonestBill(s, p, Billed(s, k, "pending"), j)
  <1>1. ASSUME NEW status, NEW j \in InvoiceIds
        PROVE  /\ j = k => /\ Billed(s, k, status)[j].status = status
                           /\ Billed(s, k, status)[j].rev = rev + 1
               /\ j # k => Billed(s, k, status)[j] = bill[s][j]
    BY DEF Billed, Provided, ProviderOK
  <1>2. ASSUME p.status = "active", k = 1 => prov[s].status = "none"
        PROVE  /\ NewlyPaid(s, Billed(s, k, "paid"), k)
               /\ \A j \in InvoiceIds : HonestBill(s, p, Billed(s, k, "paid"), j)
    <2>1. Billed(s, k, "paid")[k].status = "paid" /\ Billed(s, k, "paid")[k].rev = rev + 1
      BY <1>1
    <2>2. NewlyPaid(s, Billed(s, k, "paid"), k)
      BY <1>2, <2>1 DEF NewlyPaid
    <2>3. ASSUME NEW j \in InvoiceIds PROVE HonestBill(s, p, Billed(s, k, "paid"), j)
      BY <1>1, <1>2, <2>1, <2>2 DEF HonestBill, Charged
    <2>4. QED
      BY <2>2, <2>3
  <1>3. ASSUME p.status = "past_due", k # 1
        PROVE  \A j \in InvoiceIds : HonestBill(s, p, Billed(s, k, "pending"), j)
    <2>1. Billed(s, k, "pending")[k].status = "pending" /\ Billed(s, k, "pending")[k].rev = rev + 1
      BY <1>1
    <2>2. ASSUME NEW j \in InvoiceIds PROVE HonestBill(s, p, Billed(s, k, "pending"), j)
      BY <1>1, <1>3, <2>1 DEF HonestBill, Charged
    <2>3. QED
      BY <2>2
  <1>4. QED
    BY <1>2, <1>3

(* A change of the subscription alone.                                     *)
LEMMA ChangeTruth ==
  ASSUME IndInv, TruthInv, NEW s \in Subs, NEW p \in ProviderSub, p.status \in Statuses,
         NEW name \in TransitionEvents, Change(s, p, name), UNCHANGED <<snap, invoices>>
  PROVE  TruthInv'
  <1> DEFINE sent == {SubEvent(s, name, p)} \cup Updated(s, p)
  <1>1. \A e \in sent : HonestBody(s, p, bill[s], e)
    BY BodyHonest
  <1>2. Operate(s, p, bill[s], sent)
    BY DEF Change
  <1> HIDE DEF sent
  <1>3. Honest(s, p, bill[s], sent)
    BY <1>1 DEF Honest, HonestBill
  <1>4. bill[s] \in [InvoiceIds -> ProviderInvoice]
    BY DEF IndInv, Provided, ProviderOK
  <1>5. QED
    BY <1>2, <1>3, <1>4, OperateTruth

(* A purchase: the first thing told of a subscription.                     *)
LEMMA SaleTruth ==
  ASSUME IndInv, TruthInv, NEW s \in Subs, Sale(s)
  PROVE  TruthInv'
  <1> DEFINE until == now + Year
             p == [prov[s] EXCEPT !.status = "active", !.created = now, !.renews = until]
             b == Billed(s, 1, "paid")
             sent == {Of(s, "order_created", 0, "paid", p),
                      SubEvent(s, "subscription_created", p),
                      Of(s, "subscription_payment_success", 1, "paid", p)}
  <1>1. until \in Nat /\ now \in Nat
    BY SubscriptionAssumption DEF IndInv, TypeOK
  <1>2. Operate(s, p, b, sent) /\ UNCHANGED <<snap, invoices>> /\ prov[s].status = "none"
    BY DEF Sale, local
  <1> HIDE DEF until
  <1>3. p \in ProviderSub /\ p.status = "active"
    BY <1>1 DEF IndInv, Provided, ProviderOK, ProviderSub, Statuses, AccessStatuses
  <1> HIDE DEF p
  <1>4. b \in [InvoiceIds -> ProviderInvoice]
    BY BilledType DEF IndInv, InvoiceStatuses
  <1>5. bill[s][1].status \notin InvoiceStatuses
    BY <1>2, FirstInvoice DEF TruthInv, SaidInv, Unsold, InvoiceStatuses
  <1>6. NewlyPaid(s, b, 1) /\ \A j \in InvoiceIds : HonestBill(s, p, b, j)
    BY <1>2, <1>3, <1>5, BillHonest, FirstInvoice DEF IndInv
  <1> HIDE DEF b
  <1>7. \A e \in sent : HonestBody(s, p, b, e)
    BY <1>3, <1>6, BodyHonest, FirstInvoice DEF Settling
  <1> HIDE DEF sent
  <1>8. Honest(s, p, b, sent)
    BY <1>3, <1>6, <1>7 DEF Honest, Statuses, AccessStatuses
  <1>9. QED
    BY <1>2, <1>3, <1>4, <1>8, OperateTruth

(* A renewal, paid, failed or recovered.                                   *)
LEMMA RenewTruth ==
  ASSUME IndInv, TruthInv, NEW s \in Subs, NEW k \in InvoiceIds,
         Renew(s, k) \/ RenewFails(s, k) \/ Recover(s, k)
  PROVE  TruthInv'
  <1>1. /\ Year \in Nat /\ prov[s] \in ProviderSub /\ prov[s].renews \in Nat
        /\ UNCHANGED <<snap, invoices>> /\ prov[s].status \in {"active", "past_due", "unpaid"}
    <2>1. prov[s] \in ProviderSub /\ prov[s].renews \in Nat
      BY DEF IndInv, Provided, ProviderOK, ProviderSub
    <2>2. UNCHANGED <<snap, invoices>> /\ prov[s].status \in {"active", "past_due", "unpaid"}
      BY DEF Renew, RenewFails, Recover, local
    <2>3. QED
      BY <2>1, <2>2, SubscriptionAssumption
  <1>2. bill[s][k].status \notin InvoiceStatuses /\ k # 1
    <2>1. (bill[s][k].status = "none" /\ k > 1) \/ bill[s][k].status = "pending"
      BY DEF Renew, RenewFails, Recover, NextInvoice
    <2>2. QED
      BY <2>1, FirstInvoice DEF TruthInv, RecordedInv, NoFirstPending, InvoiceStatuses
  <1>3. /\ Billed(s, k, "paid") \in [InvoiceIds -> ProviderInvoice]
        /\ Billed(s, k, "pending") \in [InvoiceIds -> ProviderInvoice]
    BY BilledType DEF IndInv, InvoiceStatuses
  <1>4. {"active", "past_due"} \subseteq Statuses
    BY DEF Statuses, AccessStatuses
  <1>5. CASE Renew(s, k)
    <2> DEFINE until == prov[s].renews + Year
               p == [prov[s] EXCEPT !.renews = until]
               b == Billed(s, k, "paid")
               sent == {Of(s, "subscription_payment_success", k, "paid", p)} \cup Updated(s, p)
    <2>1. until \in Nat
      BY <1>1
    <2>2. Operate(s, p, b, sent) /\ prov[s].status = "active"
      BY <1>5 DEF Renew
    <2> HIDE DEF until
    <2>3. p \in ProviderSub /\ p.status = "active"
      BY <1>1, <2>1, <2>2 DEF ProviderSub
    <2> HIDE DEF p
    <2>4. NewlyPaid(s, b, k) /\ \A j \in InvoiceIds : HonestBill(s, p, b, j)
      BY <1>2, <2>3, BillHonest DEF IndInv
    <2>5. b \in [InvoiceIds -> ProviderInvoice]
      BY <1>3
    <2> HIDE DEF b
    <2>6. \A e \in sent : HonestBody(s, p, b, e)
      BY <2>3, <2>4, BodyHonest DEF Settling
    <2> HIDE DEF sent
    <2>7. Honest(s, p, b, sent)
      BY <1>4, <2>3, <2>4, <2>6 DEF Honest
    <2>8. QED
      BY <1>1, <2>2, <2>3, <2>5, <2>7, OperateTruth
  <1>6. CASE RenewFails(s, k)
    <2> DEFINE p == [prov[s] EXCEPT !.status = "past_due"]
               b == Billed(s, k, "pending")
               sent == {Of(s, "subscription_payment_failed", k, "pending", p)} \cup Updated(s, p)
    <2>1. Operate(s, p, b, sent)
      BY <1>6 DEF RenewFails
    <2>2. p \in ProviderSub /\ p.status = "past_due"
      BY <1>1, <1>4 DEF ProviderSub
    <2> HIDE DEF p
    <2>3. \A j \in InvoiceIds : HonestBill(s, p, b, j)
      BY <1>2, <2>2, BillHonest DEF IndInv
    <2>4. b \in [InvoiceIds -> ProviderInvoice]
      BY <1>3
    <2> HIDE DEF b
    <2>5. \A e \in sent : HonestBody(s, p, b, e)
      BY <2>2, BodyHonest
    <2> HIDE DEF sent
    <2>6. Honest(s, p, b, sent)
      BY <1>4, <2>2, <2>3, <2>5 DEF Honest
    <2>7. QED
      BY <1>1, <2>1, <2>2, <2>4, <2>6, OperateTruth
  <1>7. CASE Recover(s, k)
    <2> DEFINE until == prov[s].renews + Year
               p == [prov[s] EXCEPT !.status = "active", !.renews = until]
               b == Billed(s, k, "paid")
               paid == Of(s, "subscription_payment_recovered", k, "paid", p)
               body == [paid EXCEPT !.start = prov[s].renews - Year, !.end = prov[s].renews]
               sent == {body, Of(s, "subscription_payment_success", k, "paid", p)}
                          \cup Updated(s, p)
    <2>1. until \in Nat
      BY <1>1
    <2>2. Operate(s, p, b, sent)
      BY <1>7 DEF Recover
    <2> HIDE DEF until
    <2>3. p \in ProviderSub /\ p.status = "active"
      BY <1>1, <1>4, <2>1 DEF ProviderSub
    <2> HIDE DEF p
    <2>4. NewlyPaid(s, b, k) /\ \A j \in InvoiceIds : HonestBill(s, p, b, j)
      BY <1>2, <2>3, BillHonest DEF IndInv
    <2>5. b \in [InvoiceIds -> ProviderInvoice]
      BY <1>3
    <2> HIDE DEF b
    <2>6. HonestBody(s, p, b, paid)
      BY <2>3, <2>4, BodyHonest DEF Settling
    <2>7. /\ body.name = paid.name /\ body.sub = paid.sub /\ body.inv = paid.inv
          /\ body.rev = paid.rev /\ body.status = paid.status
      BY DEF Of
    <2> HIDE DEF body, paid
    <2>8. HonestBody(s, p, b, body)
      BY <2>6, <2>7 DEF HonestBody, Means
    <2>9. \A e \in sent : HonestBody(s, p, b, e)
      BY <2>3, <2>4, <2>8, BodyHonest DEF Settling
    <2> HIDE DEF sent
    <2>10. Honest(s, p, b, sent)
      BY <1>4, <2>3, <2>4, <2>9 DEF Honest
    <2>11. QED
      BY <1>1, <2>2, <2>3, <2>5, <2>10, OperateTruth
  <1>8. QED
    BY <1>5, <1>6, <1>7

(* A cancellation, the customer's or a refund's.                           *)
LEMMA CancelTruth ==
  ASSUME IndInv, TruthInv, NEW s \in Subs, Change(s, Cancelled(s), "subscription_cancelled"),
         UNCHANGED <<snap, invoices>>
  PROVE  TruthInv'
  <1>1. /\ prov[s].renews \in OptTime
        /\ "cancelled" \in Statuses /\ "subscription_cancelled" \in TransitionEvents
    BY DEF IndInv, Provided, ProviderOK, ProviderSub, OptTime, Statuses, TransitionEvents
  <1>2. Cancelled(s) \in ProviderSub /\ Cancelled(s).status = "cancelled"
    BY <1>1 DEF Cancelled, IndInv, Provided, ProviderOK, ProviderSub
  <1>3. QED
    BY <1>1, <1>2, ChangeTruth

(* Giving up, resuming, expiring.                                          *)
LEMMA EndingTruth ==
  ASSUME IndInv, TruthInv, NEW s \in Subs, GiveUp(s) \/ Cancel(s) \/ Resume(s) \/ Expire(s)
  PROVE  TruthInv'
  <1>1. /\ UNCHANGED <<snap, invoices>> /\ None \in OptTime /\ Provided
        /\ {"unpaid", "active", "expired"} \subseteq Statuses
        /\ {"subscription_resumed", "subscription_expired", "subscription_updated"}
              \subseteq TransitionEvents
    BY DEF GiveUp, Cancel, Resume, Expire, local, IndInv, OptTime, Statuses,
           AccessStatuses, SuspendedStatuses, TransitionEvents
  <1>2. CASE GiveUp(s)
    <2> DEFINE p == [prov[s] EXCEPT !.status = "unpaid"]
               sent == {SubEvent(s, "subscription_updated", p)}
    <2>1. p \in ProviderSub /\ p.status = "unpaid"
      BY <1>1, ChangedType
    <2>2. Operate(s, p, bill[s], sent)
      BY <1>2 DEF GiveUp
    <2> HIDE DEF p
    <2>3. \A e \in sent : HonestBody(s, p, bill[s], e)
      BY <1>1, BodyHonest
    <2> HIDE DEF sent
    <2>4. Honest(s, p, bill[s], sent)
      BY <1>1, <2>1, <2>3 DEF Honest, HonestBill
    <2>5. bill[s] \in [InvoiceIds -> ProviderInvoice]
      BY <1>1 DEF Provided, ProviderOK
    <2>6. QED
      BY <1>1, <2>1, <2>2, <2>4, <2>5, OperateTruth
  <1>3. CASE Cancel(s)
    BY <1>1, <1>3, CancelTruth DEF Cancel
  <1>4. CASE Resume(s)
    <2> DEFINE p == [prov[s] EXCEPT !.status = "active", !.ends = None]
    <2>1. p \in ProviderSub /\ p.status = "active"
      BY <1>1 DEF Provided, ProviderOK, ProviderSub
    <2>2. Change(s, p, "subscription_resumed")
      BY <1>4 DEF Resume
    <2> HIDE DEF p
    <2>3. QED
      BY <1>1, <2>1, <2>2, ChangeTruth
  <1>5. CASE Expire(s)
    <2> DEFINE p == [prov[s] EXCEPT !.status = "expired"]
    <2>1. p \in ProviderSub /\ p.status = "expired"
      BY <1>1, ChangedType
    <2>2. Change(s, p, "subscription_expired")
      BY <1>5 DEF Expire
    <2> HIDE DEF p
    <2>3. QED
      BY <1>1, <2>1, <2>2, ChangeTruth
  <1>6. QED
    BY <1>2, <1>3, <1>4, <1>5

(* Whatever happens at the provider, what it tells stays consistent.       *)
LEMMA ProviderTruth ==
  ASSUME IndInv, TruthInv, ProviderStep
  PROVE  TruthInv'
  BY SaleTruth, RenewTruth, EndingTruth, RefundTruth DEF ProviderStep

-----------------------------------------------------------------------------
(* Deliveries. *)

(* What a delivery says was said by the provider: its status at its        *)
(* revision, its payment; and a creation is of a row not yet stored or     *)
(* comes as the webhook of one, with the period of the row.                *)
Heard(f, key) ==
  /\ f.name \in Telling /\ f.status # "none" => Said(f.sub, f.rev, Means(f))
  /\ f.name \in Settling /\ f.status = "paid" => PaidAt(f.sub, f.inv, f.rev)
  /\ f.name = "subscription_created" =>
        \/ snap[f.sub] = None
        \/ /\ \E e \in events : /\ e.name = "subscription_created" /\ e.sub = f.sub
                                /\ key = WebhookKey(e) /\ Deliver(e)
           /\ f.start = snap[f.sub].start /\ f.end = snap[f.sub].end

(* A body on its way is heard.                                             *)
LEMMA FactsHeard ==
  ASSUME IndInv, NEW e \in events, NEW lookup \in BOOLEAN, Deliver(e)
  PROVE  Heard(Facts(e, lookup), WebhookKey(e))
  <1> DEFINE f == Facts(e, lookup)
  <1>1. /\ f.name = e.name /\ f.sub = e.sub /\ f.rev = e.rev
        /\ f.inv = (IF e.name \in PaymentEvents \/ e.name = "order_created" THEN e.inv ELSE 0)
    BY DEF Facts, OrderFacts, InvoiceFacts, SubscriptionFacts, PaymentEvents, RefundEvents
  <1>2. e.name \in TransitionEvents \cup {"subscription_created"} => f.status = e.status
    BY DEF Facts, SubscriptionFacts, TransitionEvents, PaymentEvents, RefundEvents
  <1>3. Settling \subseteq PaymentEvents
    BY DEF Settling, PaymentEvents
  <1>4. e.name \in Telling => Means(f) = Means(e)
    BY <1>1, <1>2 DEF Telling, Means
  <1>5. e.name = "subscription_created" /\ snap[e.sub] # None =>
           f.start = snap[e.sub].start /\ f.end = snap[e.sub].end
    BY DEF Facts, SubscriptionFacts, PaymentEvents, RefundEvents
  <1> HIDE DEF f
  <1>6. e.name \in Telling => Said(f.sub, f.rev, Means(f))
    BY <1>1, <1>4 DEF Said, BodyTold
  <1>7. e.name \in Settling => PaidAt(f.sub, f.inv, f.rev)
    BY <1>1, <1>3 DEF PaidAt
  <1>8. Heard(f, WebhookKey(e))
    BY <1>1, <1>5, <1>6, <1>7 DEF Heard
  <1>9. QED
    BY <1>8 DEF f

(* So is a row of the list of subscriptions,                               *)
LEMMA RowFactsHeard ==
  ASSUME IndInv, batch.phase \in {"activations", "invoices", "subscriptions"}, NEW s \in Subs,
         NEW name \in TransitionEvents \cup {"subscription_created"}, NEW a, NEW key,
         name = "subscription_created" => snap[s] = None
  PROVE  /\ Heard(RowFacts(name, s), key)
         /\ Heard([RowFacts(name, s) EXCEPT !.attempt = a], key)
  <1>1. batch.subs # None
    BY DEF IndInv, Loaded, BatchLoaded
  <1>2. name \notin Settling /\ name # "subscription_payment_failed"
    BY DEF Settling, TransitionEvents
  <1>3. batch.subs[s].status # "none" => Said(s, batch.subs[s].rev, batch.subs[s].status)
    BY <1>1 DEF Said, RunTold, SubTold
  <1> DEFINE f == RowFacts(name, s)
             g == [RowFacts(name, s) EXCEPT !.attempt = a]
  <1>4. /\ f.name = name /\ f.sub = s /\ f.status = batch.subs[s].status /\ f.rev = batch.subs[s].rev
        /\ g.name = name /\ g.sub = s /\ g.status = batch.subs[s].status /\ g.rev = batch.subs[s].rev
    BY DEF RowFacts
  <1> HIDE DEF f, g
  <1>5. Heard(f, key) /\ Heard(g, key)
    BY <1>2, <1>3, <1>4 DEF Heard, Means
  <1>6. QED
    BY <1>5 DEF f, g

(* and of the list of invoices.                                            *)
LEMMA InvoiceRowHeard ==
  ASSUME IndInv, batch.phase = "invoices", NEW s \in Subs, NEW k \in InvoiceIds, NEW key
  PROVE  Heard(InvoiceRow(s, k), key)
  <1> DEFINE f == InvoiceRow(s, k)
             i == batch.bills[s][k]
  <1>1. batch.bills # None /\ i.status \in InvoiceStatuses \cup {"none", "pending"}
    BY LoadedType DEF IndInv, Loaded, BatchLoaded, ProviderInvoice
  <1>2. f.name = InvoiceName(s, k) /\ f.sub = s /\ f.inv = k /\ f.rev = i.rev /\ f.status = RowStatus(s, k)
    BY DEF InvoiceRow
  <1>3. /\ RowStatus(s, k) = "paid" => i.status = "paid"
        /\ RowStatus(s, k) = "failed" => i.status = "pending"
    BY <1>1 DEF RowStatus, InvoiceStatus, InvoiceStatuses
  <1> HIDE DEF f, i
  <1>4. /\ f.name \in Telling =>
              f.name \in Settling \cup {"subscription_payment_failed"}
        /\ f.name \in Settling => f.status = "paid"
        /\ f.name = "subscription_payment_failed" => f.status = "failed" /\ f.name \notin Settling
        /\ f.name # "subscription_created"
    BY <1>2 DEF InvoiceName, Telling, Settling, TransitionEvents
  <1>5. /\ i.status = "paid" => Said(s, i.rev, "active") /\ PaidAt(s, k, i.rev)
        /\ i.status = "pending" => Said(s, i.rev, "past_due")
    BY <1>1 DEF i, Said, RunTold, BillTold, Charged, PaidAt, BillPaid
  <1>6. Heard(f, key)
    BY <1>2, <1>3, <1>4, <1>5 DEF Heard, Means
  <1>7. QED
    BY <1>6 DEF f

(* A row of the reconciliation is skipped or heard.                        *)
RowHeard(row) ==
  \/ \E drifts \in BOOLEAN : Skip(row, drifts)
  \/ \E f : Deliverable(f) /\ Heard(f, ReconcileKey(f)) /\ Apply(row, f)

(* Every row of a run is one or the other.                                 *)
LEMMA ReconcileHeard ==
  ASSUME IndInv, Reconcile
  PROVE  FetchSubscriptions \/ FetchInvoices \/ NextPhase \/ \E row : RowHeard(row)
  <1>1. Stored /\ Loaded
    BY DEF IndInv
  <1>2. ASSUME NEW s \in Subs, ApplyActivation(s) PROVE RowHeard(<<s, 0>>)
    <2>1. CASE ~IsLost(s)
      BY <1>2, <2>1 DEF ApplyActivation, RowHeard
    <2>2. CASE IsLost(s)
      <3> DEFINE facts == RowFacts("subscription_created", s)
      <3>1. PICK a \in LostAttempts(s) : Apply(<<s, 0>>, [facts EXCEPT !.attempt = a])
        BY <1>2, <2>2 DEF ApplyActivation
      <3>2. a \in Attempts /\ Owner[a] = OwnerOf(s)
        BY <1>1, NoneFresh DEF LostAttempts, Stored, AttemptsPaired
      <3>3. Deliverable(facts) /\ facts.sub = s /\ facts.name = "subscription_created"
        BY <1>1, <1>2, RowFactsDeliverable DEF ApplyActivation
      <3>4. \A key : Heard([facts EXCEPT !.attempt = a], key)
        BY <1>2, <2>2, RowFactsHeard DEF ApplyActivation, IsLost
      <3> HIDE DEF facts
      <3>5. Deliverable([facts EXCEPT !.attempt = a])
        BY <3>2, <3>3 DEF Deliverable, Delivery
      <3>6. QED
        BY <3>1, <3>4, <3>5 DEF RowHeard
    <2>3. QED
      BY <2>1, <2>2
  <1>3. ASSUME NEW s \in Subs, NEW k \in InvoiceIds, ApplyInvoice(s, k) PROVE RowHeard(<<s, k>>)
    <2>1. InvoiceName(s, k) \in EventNames => Deliverable(InvoiceRow(s, k))
      BY <1>1, <1>3, InvoiceRowDeliverable DEF ApplyInvoice
    <2>2. \A key : Heard(InvoiceRow(s, k), key)
      BY <1>3, InvoiceRowHeard DEF ApplyInvoice
    <2>3. QED
      BY <1>3, <2>1, <2>2 DEF ApplyInvoice, RowHeard
  <1>4. ASSUME NEW s \in Subs, ApplySubscription(s) PROVE RowHeard(<<s, 0>>)
    <2>1. RowName(s) \in TransitionEvents /\ RowName(s) # "subscription_created"
      BY DEF RowName, TransitionEvents
    <2>2. Deliverable(RowFacts(RowName(s), s))
      BY <1>1, <1>4, <2>1, RowFactsDeliverable DEF ApplySubscription
    <2>3. \A key : Heard(RowFacts(RowName(s), s), key)
      BY <1>4, <2>1, RowFactsHeard DEF ApplySubscription
    <2>4. QED
      BY <1>4, <2>2, <2>3 DEF ApplySubscription, RowHeard
  <1>5. QED
    BY <1>2, <1>3, <1>4 DEF Reconcile

(* One delivery that was heard is processed.                               *)
Delivered(f, key) ==
  /\ Deliverable(f) /\ Heard(f, key) /\ Process(f, key)
  /\ UNCHANGED <<prov, bill, rev, events>>
  /\ batch'.subs = batch.subs /\ batch'.bills = batch.bills

(* Every step is one that tells something or one delivery that was heard.  *)
LEMMA StepTells ==
  ASSUME IndInv, TruthInv, [Next]_vars
  PROVE  \/ TruthInv' /\ UNCHANGED <<snap, invoices>>
         \/ \E f, key : Delivered(f, key)
  <1>1. CASE UNCHANGED <<provider, snap, invoices, batch>>
    BY <1>1, RunTruth DEF RunKeeps
  <1>2. CASE ProviderStep
    BY <1>2, ProviderTruth, ProviderStepKeeps DEF IndInv, TypeOK
  <1>3. CASE \E e \in events : Deliver(e)
    <2>1. PICK e \in events : Deliver(e)
      BY <1>3
    <2>2. PICK lookup \in BOOLEAN : Process(Facts(e, lookup), WebhookKey(e))
      BY <2>1 DEF Deliver
    <2>3. UNCHANGED <<prov, bill, rev, events, batch>>
      BY <1>3 DEF Deliver, provider
    <2>4. QED
      BY <2>1, <2>2, <2>3, FactsDeliverable, FactsHeard DEF Delivered, IndInv, Provided
  <1>4. CASE \E s \in Subs : StopRenewal(s)
    BY <1>4, CancelTruth DEF StopRenewal
  <1>5. CASE Reconcile
    <2>1. CASE FetchSubscriptions \/ FetchInvoices \/ NextPhase
      <3>1. UNCHANGED <<provider, snap, invoices>>
        BY <2>1 DEF FetchSubscriptions, FetchInvoices, NextPhase, local
      <3>2. RunKeeps
        <4>1. batch \in Batch
          BY DEF IndInv, Loaded
        <4>2. NoBatch.subs = None /\ NoBatch.bills = None
          BY DEF NoBatch
        <4>3. CASE FetchSubscriptions
          BY <4>2, <4>3 DEF FetchSubscriptions, RunKeeps, NoBatch
        <4>4. CASE FetchInvoices
          BY <4>1, <4>4 DEF FetchInvoices, RunKeeps, Batch
        <4>5. CASE NextPhase
          <5> DEFINE next == IF batch.phase = "activations" THEN "invoices" ELSE "subscriptions"
                     b == [batch EXCEPT !.phase = next]
          <5>1. CASE batch' = NoBatch
            BY <4>2, <5>1 DEF RunKeeps
          <5>2. CASE batch' = [b EXCEPT !.todo = Listed(b)]
            <6>1. b.subs = batch.subs /\ b.bills = batch.bills
              BY <4>1 DEF Batch
            <6>2. batch'.subs = b.subs /\ batch'.bills = b.bills
              BY <4>1, <5>2 DEF Batch
            <6>3. QED
              BY <6>1, <6>2 DEF RunKeeps
          <5>3. QED
            BY <4>5, <5>1, <5>2 DEF NextPhase
        <4>6. QED
          BY <2>1, <4>3, <4>4, <4>5
      <3>3. QED
        BY <3>1, <3>2, RunTruth
    <2>2. CASE \E row : RowHeard(row)
      <3>1. CASE \E row : \E drifts \in BOOLEAN : Skip(row, drifts)
        <4>1. UNCHANGED <<provider, snap, invoices>>
          BY <3>1 DEF Skip, local
        <4>2. batch'.subs = batch.subs /\ batch'.bills = batch.bills
          BY <3>1 DEF Skip, IndInv, Loaded, Batch
        <4>3. QED
          BY <4>1, <4>2, RunTruth DEF RunKeeps
      <3>2. CASE \E row, f : Deliverable(f) /\ Heard(f, ReconcileKey(f)) /\ Apply(row, f)
        <4>1. PICK row, f : Deliverable(f) /\ Heard(f, ReconcileKey(f)) /\ Apply(row, f)
          BY <3>2
        <4>2. batch'.subs = batch.subs /\ batch'.bills = batch.bills
          BY <4>1 DEF Apply, IndInv, Loaded, Batch
        <4>3. Process(f, ReconcileKey(f)) /\ UNCHANGED <<prov, bill, rev, events>>
          BY <4>1 DEF Apply, provider
        <4>4. QED
          BY <4>1, <4>2, <4>3 DEF Delivered
      <3>3. QED
        BY <2>2, <3>1, <3>2 DEF RowHeard
    <2>3. QED
      BY <1>5, <2>1, <2>2, ReconcileHeard
  <1>6. (\/ Tick \/ UNCHANGED vars
         \/ \E a \in Attempts : Checkout(a)
         \/ \E s \in Subs : StopFails(s) \/ Crash(s))
        => UNCHANGED <<provider, snap, invoices, batch>>
    BY DEF Tick, Checkout, StopFails, Crash, vars, local
  <1>7. QED
    BY <1>1, <1>2, <1>3, <1>4, <1>5, <1>6 DEF Next

-----------------------------------------------------------------------------
(* What the handlers believe. *)

(* A running row says what was said, no row forgets its revision, a new    *)
(* invoice was paid at the revision its row carries.                       *)
Believes ==
  /\ \A s \in Subs : Live(s)' => Said(s, snap'[s].rev, snap'[s].status)
  /\ \A s \in Subs : snap[s] # None => snap'[s] # None /\ snap[s].rev <= snap'[s].rev
  /\ \A s \in Subs : snap'[s] # None => snap[s] # None \/ Live(s)'
  /\ \A s \in Subs : \A k \in InvoiceIds : invoices'[s][k] # None =>
        invoices[s][k] # None \/ (snap'[s] # None /\ PaidAt(s, k, snap'[s].rev))
  /\ ExpiredEnds'

(* Tables that believe what was said stay consistent with it.              *)
LEMMA BelievesTruth ==
  ASSUME IndInv, TruthInv, Stored', Believes, UNCHANGED <<prov, bill, rev, events>>,
         batch'.subs = batch.subs, batch'.bills = batch.bills
  PROVE  TruthInv'
  <1>1. \A s \in Subs : snap'[s] # None => snap'[s].rev \in Nat
    BY DEF Stored, LocalOK, Snapshot
  <1>2. \A s \in Subs : snap[s] # None => snap[s].rev \in Nat
    BY TypedTold
  <1>3. ASSUME NEW s \in Subs, NEW r \in Nat, NEW st, Said(s, r, st)' PROVE Said(s, r, st)
    <2>1. RowTold(s, r, st)' => Said(s, r, st)
      BY DEF RowTold, Believes
    <2>2. ~RowTold(s, r, st)' => Said(s, r, st)
      BY <1>3 DEF Said, SubTold, BillTold, BodyTold, RunTold
    <2>3. QED
      BY <2>1, <2>2
  <1>4. \A s \in Subs : \A k \in InvoiceIds : \A n \in Nat : PaidAt(s, k, n)' <=> PaidAt(s, k, n)
    BY DEF PaidAt, BillPaid
  <1>5. RevsBounded' /\ NoFirstPending'
    BY DEF TruthInv, SaidInv, RecordedInv, RevsBounded, NoFirstPending
  <1>6. SaidBefore' /\ Consistent'
    BY <1>3 DEF TruthInv, SaidInv, SaidBefore, Consistent
  <1>7. FirstLowest'
    BY <1>3, <1>4, FirstInvoice DEF TruthInv, SaidInv, FirstLowest
  <1>8. Unsold'
    <2> SUFFICES ASSUME NEW s \in Subs, prov[s].status = "none"
                 PROVE  /\ snap'[s] = None
                        /\ \A r \in Nat : \A st : ~Said(s, r, st)'
                        /\ \A k \in InvoiceIds : bill'[s][k].status = "none"
      BY DEF Unsold
    <2>1. snap[s] = None /\ \A r \in Nat : \A st : ~Said(s, r, st)
      BY DEF TruthInv, SaidInv, Unsold
    <2>2. \A k \in InvoiceIds : bill'[s][k].status = "none"
      BY DEF TruthInv, SaidInv, Unsold
    <2>3. snap'[s] = None
      BY <1>1, <2>1 DEF Believes
    <2>4. QED
      BY <1>3, <2>1, <2>2, <2>3
  <1>9. PaidOnce' /\ PaidHeld'
    BY <1>4 DEF TruthInv, RecordedInv, PaidOnce, PaidHeld
  <1>10. Recorded'
    BY <1>1 DEF Believes, TruthInv, RecordedInv, Recorded, PaidHeld
  <1>11. RecordedSeen'
    <2> SUFFICES ASSUME NEW s \in Subs, NEW k \in InvoiceIds, NEW n \in Nat,
                        PaidAt(s, k, n)', invoices'[s][k] # None
                 PROVE  snap'[s] # None /\ n <= snap'[s].rev
      BY DEF RecordedSeen
    <2>1. PaidAt(s, k, n)
      BY <1>4
    <2>2. CASE invoices[s][k] # None
      <3>1. snap[s] # None /\ n <= snap[s].rev
        BY <2>1, <2>2 DEF TruthInv, RecordedInv, RecordedSeen
      <3>2. snap'[s] # None /\ snap[s].rev <= snap'[s].rev
        BY <3>1 DEF Believes
      <3>3. QED
        BY <1>1, <1>2, <3>1, <3>2
    <2>3. CASE invoices[s][k] = None
      <3>1. snap'[s] # None /\ PaidAt(s, k, snap'[s].rev)
        BY <2>3 DEF Believes
      <3>2. n = snap'[s].rev
        BY <1>1, <2>1, <3>1 DEF TruthInv, RecordedInv, PaidOnce
      <3>3. QED
        BY <1>1, <3>1, <3>2
    <2>4. QED
      BY <2>2, <2>3
  <1>12. QED
    BY <1>5, <1>6, <1>7, <1>8, <1>9, <1>10, <1>11 DEF Believes, TruthInv, SaidInv, RecordedInv

(* Replacing one row by what was said.                                     *)
LEMMA ReplaceBelieves ==
  ASSUME IndInv, TruthInv, NEW s \in Subs, NEW cand \in Snapshot, Replace(s, cand),
         snap[s] # None, snap[s].rev <= cand.rev,
         cand.status # "expired" => Said(s, cand.rev, cand.status),
         cand.status = "expired" => cand.renews = None,
         \A t \in Subs : \A k \in InvoiceIds : invoices'[t][k] # None =>
            invoices[t][k] # None \/ (t = s /\ PaidAt(s, k, cand.rev))
  PROVE  Believes
  <1>1. \A t \in Subs : snap'[t] = IF t = s THEN cand ELSE snap[t]
    BY DEF Replace, IndInv, Stored, LocalOK
  <1>2. \A t \in Subs : snap[t] # None => snap[t].rev \in Nat
    BY TypedTold
  <1>3. cand # None
    BY NoneIsNoRow
  <1>4. \A t \in Subs : Live(t) => Said(t, snap[t].rev, snap[t].status)
    BY DEF Said, RowTold
  <1>5. \A t \in Subs : Live(t)' => Said(t, snap'[t].rev, snap'[t].status)
    BY <1>1, <1>4 DEF Live
  <1>6. \A t \in Subs : snap[t] # None => snap'[t] # None /\ snap[t].rev <= snap'[t].rev
    BY <1>1, <1>2, <1>3
  <1>7. \A t \in Subs : snap'[t] # None => snap[t] # None
    BY <1>1
  <1>8. \A t \in Subs : \A k \in InvoiceIds : invoices'[t][k] # None =>
           invoices[t][k] # None \/ (snap'[t] # None /\ PaidAt(t, k, snap'[t].rev))
    BY <1>1, <1>3
  <1>9. ExpiredEnds'
    BY <1>1 DEF TruthInv, RecordedInv, ExpiredEnds
  <1>10. QED
    BY <1>5, <1>6, <1>7, <1>8, <1>9 DEF Believes

(* A step that leaves rows and invoices alone believes what they say.      *)
LEMMA KeepBelieves ==
  ASSUME IndInv, TruthInv, UNCHANGED snap,
         \A t \in Subs : \A k \in InvoiceIds : invoices'[t][k] # None => invoices[t][k] # None
  PROVE  Believes
  <1>1. \A t \in Subs : snap[t] # None => snap[t].rev \in Nat
    BY TypedTold
  <1>2. \A t \in Subs : Live(t)' => Said(t, snap'[t].rev, snap'[t].status)
    BY DEF Said, RowTold, Live
  <1>3. ExpiredEnds'
    BY DEF TruthInv, RecordedInv, ExpiredEnds
  <1>4. QED
    BY <1>1, <1>2, <1>3 DEF Believes

(* subscription_created                                                    *)
LEMMA CreateBelieves ==
  ASSUME IndInv, TruthInv, NEW f, Deliverable(f), NEW key, Heard(f, key), CanCreate(f), Create(f)
  PROVE  Believes
  <1> DEFINE s == f.sub
  <1>1. /\ f \in Delivery /\ s \in Subs /\ f.rev \in Nat /\ f.name = "subscription_created"
        /\ f.status = "active" /\ f.start # None /\ f.end # None
        /\ snap[s] # None => f.rev >= snap[s].rev
    BY DEF Deliverable, Delivery, CanCreate, Storable, Created
  <1>2. Created(f) # None /\ Created(f).status = "active" /\ Created(f).rev = f.rev
    BY <1>1, CreatedType, NoneIsNoRow DEF Created
  <1>3. \A t \in Subs : t \in Previous(f) => snap[t] \in Snapshot
    BY <1>1, OwnerType, ForUserStored DEF Previous, IndInv
  <1>4. \A t \in Subs : snap'[t] =
           IF t = s THEN Created(f)
           ELSE IF t \in Previous(f)
           THEN [snap[t] EXCEPT !.status = "expired",
                   !.renews = IF snap[t].status = "expired" THEN @ ELSE None]
           ELSE snap[t]
    BY DEF Create
  <1>5. ASSUME NEW t \in Subs, t # s, t \in Previous(f)
        PROVE  /\ snap'[t] # None /\ snap'[t].status = "expired" /\ snap'[t].rev = snap[t].rev
               /\ snap'[t].renews = None /\ snap[t] # None
    <2>1. snap[t] \in Snapshot /\ snap[t] # None
      BY <1>3, <1>5, NoneIsNoRow
    <2>2. snap[t].status = "expired" => snap[t].renews = None
      BY <2>1 DEF TruthInv, RecordedInv, ExpiredEnds
    <2> DEFINE until == IF snap[t].status = "expired" THEN snap[t].renews ELSE None
    <2>3. until = None
      BY <2>2
    <2>4. snap'[t] = [snap[t] EXCEPT !.status = "expired", !.renews = until]
      BY <1>4, <1>5
    <2> HIDE DEF until
    <2>5. [snap[t] EXCEPT !.status = "expired", !.renews = until] \in Snapshot
      BY <2>1, <2>3 DEF Snapshot, Statuses, SuspendedStatuses, OptTime
    <2>6. QED
      BY <2>1, <2>3, <2>4, <2>5, NoneIsNoRow DEF Snapshot
  <1>6. \A t \in Subs : t # s /\ t \notin Previous(f) => snap'[t] = snap[t]
    BY <1>4
  <1>7. snap'[s] = Created(f)
    BY <1>1, <1>4
  <1>8. Said(s, f.rev, "active")
    BY <1>1 DEF Heard, Telling, Means, Settling
  <1> HIDE DEF s
  <1>9. \A t \in Subs : snap[t] # None => snap[t].rev \in Nat
    BY TypedTold
  <1>10. \A t \in Subs : Live(t)' => Said(t, snap'[t].rev, snap'[t].status)
    BY <1>2, <1>5, <1>6, <1>7, <1>8 DEF Live, Said, RowTold
  <1>11. \A t \in Subs : snap[t] # None => snap'[t] # None /\ snap[t].rev <= snap'[t].rev
    BY <1>1, <1>2, <1>5, <1>6, <1>7, <1>9
  <1>12. \A t \in Subs : snap'[t] # None => snap[t] # None \/ Live(t)'
    BY <1>2, <1>5, <1>6, <1>7 DEF Live
  <1>13. ExpiredEnds'
    BY <1>2, <1>5, <1>6, <1>7 DEF TruthInv, RecordedInv, ExpiredEnds
  <1>14. UNCHANGED invoices
    BY DEF Create
  <1>15. QED
    BY <1>10, <1>11, <1>12, <1>13, <1>14 DEF Believes

(* The row a payment writes is a snapshot.                                 *)
LEMMA PaidType ==
  ASSUME Stored, NEW f \in Delivery, CanRecordPayment(f)
  PROVE  Paid(f) \in Snapshot
  <1>1. snap[f.sub] \in Snapshot /\ f.rev \in Nat
    BY DEF CanRecordPayment, CanInsertInvoice, Known, Stored, LocalOK, Delivery
  <1>2. [snap[f.sub] EXCEPT !.rev = f.rev] \in Snapshot
    BY <1>1 DEF Snapshot
  <1>3. QED
    BY <1>2, CreatedType DEF Paid, CanRecordPayment, CanInsertInvoice

(* A payment: the first one confirms the row as it stands, every other     *)
(* says that the subscription is active.                                   *)
LEMMA PaidBelieves ==
  ASSUME IndInv, TruthInv, NEW f, Deliverable(f), NEW key, Heard(f, key),
         CanRecordPayment(f), RecordPayment(f)
  PROVE  Believes
  <1> DEFINE s == f.sub
             k == f.inv
  <1>1. /\ f \in Delivery /\ s \in Subs /\ f.rev \in Nat /\ f.name = "subscription_payment_success"
        /\ f.status = "paid" /\ snap[s] # None /\ f.rev >= snap[s].rev
        /\ k > 1 <=> IsRenewal(s)
    BY DEF Deliverable, Delivery, CanRecordPayment, CanInsertInvoice, Known, Fresh
  <1>2. k \in InvoiceIds /\ k \in Nat \ {0}
    BY <1>1, FirstInvoice DEF Deliverable, Delivery, PaymentEvents
  <1>3. snap[s] \in Snapshot /\ snap[s].rev \in Nat
    BY <1>1, TypedTold
  <1>4. Said(s, f.rev, "active") /\ PaidAt(s, k, f.rev)
    BY <1>1 DEF Heard, Telling, Means, Settling
  <1>5. Paid(f) \in Snapshot
    BY <1>1, PaidType DEF IndInv
  <1>6. Paid(f).rev = f.rev
    BY <1>1, <1>3 DEF Paid, Created, Snapshot
  <1>7. Paid(f).status # "expired" => Said(s, f.rev, Paid(f).status)
    <2>1. CASE IsRenewal(s)
      BY <1>4, <2>1 DEF Paid, Created
    <2>2. CASE ~IsRenewal(s)
      <3>1. k = 1
        BY <1>1, <1>2, <2>2
      <3>2. Paid(f).status = snap[s].status
        BY <1>1, <1>3, <2>2 DEF Paid, Snapshot
      <3>3. snap[s].status # "expired" => Said(s, snap[s].rev, snap[s].status)
        BY <1>1 DEF Said, RowTold, Live
      <3>4. snap[s].status # "expired" => f.rev <= snap[s].rev
        BY <1>1, <1>3, <1>4, <3>1, <3>3 DEF TruthInv, SaidInv, FirstLowest
      <3>5. snap[s].status # "expired" => f.rev = snap[s].rev
        BY <1>1, <1>3, <3>4
      <3>6. QED
        BY <3>2, <3>3, <3>5
    <2>3. QED
      BY <2>1, <2>2
  <1>8. Paid(f).status = "expired" => Paid(f).renews = None
    <2>1. CASE IsRenewal(s)
      BY <2>1 DEF Paid, Created
    <2>2. CASE ~IsRenewal(s)
      BY <1>1, <1>3, <2>2 DEF Paid, Snapshot, TruthInv, RecordedInv, ExpiredEnds
    <2>3. QED
      BY <2>1, <2>2
  <1>9. \A t \in Subs : \A j \in InvoiceIds : invoices'[t][j] # None =>
           invoices[t][j] # None \/ (t = s /\ j = k)
    BY <1>1, <1>2 DEF RecordPayment, IndInv, Stored, LocalOK
  <1>10. Replace(s, Paid(f))
    BY DEF RecordPayment
  <1> HIDE DEF s, k
  <1>11. QED
    BY <1>1, <1>4, <1>5, <1>6, <1>7, <1>8, <1>9, <1>10, ReplaceBelieves

(* A failed or recovered payment.                                          *)
LEMMA DunBelieves ==
  ASSUME IndInv, TruthInv, NEW f, Deliverable(f), NEW key, Heard(f, key), CanDun(f), Dun(f)
  PROVE  Believes
  <1> DEFINE s == f.sub
  <1>1. /\ s \in Subs /\ f.rev \in Nat /\ snap[s] # None /\ f.rev >= snap[s].rev
        /\ f.name \in {"subscription_payment_recovered", "subscription_payment_failed"}
        /\ f.status \in {"paid", "failed"}
    BY DEF Deliverable, Delivery, CanDun, Known, Fresh
  <1>2. snap[s] \in Snapshot /\ snap[s].rev \in Nat
    BY <1>1, TypedTold
  <1>3. Dunned(f) \in Snapshot /\ Dunned(f).rev = f.rev /\ Dunned(f).status = Means(f)
    BY <1>1, <1>2 DEF Dunned, Snapshot, Statuses, AccessStatuses, Means, Settling
  <1>4. Said(s, f.rev, Means(f))
    BY <1>1 DEF Heard, Telling, Settling
  <1>5. Means(f) # "expired"
    BY <1>1 DEF Means, Settling
  <1>6. Replace(s, Dunned(f)) /\ UNCHANGED invoices
    BY DEF Dun
  <1> HIDE DEF s
  <1>7. QED
    BY <1>1, <1>3, <1>4, <1>5, <1>6, ReplaceBelieves

(* A refund.                                                               *)
LEMMA RefundBelieves ==
  ASSUME IndInv, TruthInv, NEW f, Deliverable(f), CanRefund(f), Refund(f)
  PROVE  Believes
  <1> DEFINE s == f.sub
  <1>1. /\ s \in Subs /\ f.at \in Nat /\ snap[s] # None
    BY DEF Deliverable, Delivery, CanRefund, Known
  <1>2. snap[s] \in Snapshot /\ snap[s].rev \in Nat /\ snap[s].paidThrough \in Nat
    BY <1>1, TypedTold DEF Snapshot
  <1>3. /\ Ended(f) \in Snapshot /\ Ended(f).rev = snap[s].rev
        /\ Ended(f).status = "expired" /\ Ended(f).renews = None
    BY <1>1, <1>2 DEF Ended, Snapshot, Statuses, SuspendedStatuses, OptTime
  <1>4. \A t \in Subs : \A j \in InvoiceIds :
           invoices'[t][j] # None => invoices[t][j] # None
    <2> SUFFICES ASSUME NEW t \in Subs, NEW j \in InvoiceIds, invoices[t][j] = None
                 PROVE  invoices'[t][j] = None
      OBVIOUS
    <2>1. t # f.sub \/ j # f.inv
      BY DEF CanRefund
    <2>2. QED
      BY <2>1 DEF Refund, IndInv, Stored, LocalOK
  <1>5. CASE EndsAccess(f)
    <2>1. Replace(s, Ended(f))
      BY <1>5 DEF Refund
    <2> HIDE DEF s
    <2>2. QED
      BY <1>1, <1>2, <1>3, <1>4, <2>1, ReplaceBelieves
  <1>6. CASE ~EndsAccess(f)
    BY <1>4, <1>6, KeepBelieves DEF Refund
  <1>7. QED
    BY <1>5, <1>6

(* What a transition writes: the status it was told, at its revision.      *)
LEMMA MovedSays ==
  ASSUME NEW f, snap[f.sub] \in Snapshot, CanMove(f), f.rev \in Nat
  PROVE  /\ Moved(f).status = f.status /\ Moved(f).rev = f.rev
         /\ f.status \in Statuses
         /\ f.status = "expired" => Moved(f).renews = None
  <1> DEFINE base == [snap[f.sub] EXCEPT !.rev = f.rev, !.status = f.status]
  <1>1. base.rev = f.rev /\ base.status = f.status
    BY DEF Snapshot
  <1>2. \A r, e : /\ [base EXCEPT !.renews = r, !.ends = e].status = base.status
                  /\ [base EXCEPT !.renews = r, !.ends = e].rev = base.rev
                  /\ [base EXCEPT !.renews = r].status = base.status
                  /\ [base EXCEPT !.renews = r].rev = base.rev
                  /\ [base EXCEPT !.renews = r].renews = r
    BY DEF Snapshot
  <1>3. Moved(f) = IF Cancels(f) THEN [base EXCEPT !.renews = None, !.ends = f.ends]
                   ELSE IF Resumes(f) THEN [base EXCEPT !.renews = f.renews, !.ends = None]
                   ELSE IF Expires(f) THEN [base EXCEPT !.renews = None]
                   ELSE IF f.status \in AccessStatuses THEN [base EXCEPT !.renews = f.renews]
                   ELSE base
    BY DEF Moved, MovedTo
  <1> HIDE DEF base
  <1>4. f.status \in Statuses
    BY DEF CanMove, Updates, Statuses, AccessStatuses, SuspendedStatuses
  <1>5. f.status = "expired" => Expires(f) /\ ~Cancels(f) /\ ~Resumes(f)
    BY DEF CanMove, Expires, Updates, AccessStatuses
  <1>6. QED
    BY <1>1, <1>2, <1>3, <1>4, <1>5

(* A status transition.                                                    *)
LEMMA TransitionBelieves ==
  ASSUME IndInv, TruthInv, NEW f, Deliverable(f), NEW key, Heard(f, key),
         CanTransition(f), Transition(f)
  PROVE  Believes
  <1> DEFINE s == f.sub
  <1>1. /\ f \in Delivery /\ s \in Subs /\ f.rev \in Nat /\ f.name \in TransitionEvents
        /\ snap[s] # None /\ f.rev >= snap[s].rev
    BY DEF Deliverable, Delivery, CanTransition, Known, Fresh
  <1>2. snap[s] \in Snapshot /\ snap[s].rev \in Nat
    BY <1>1, TypedTold
  <1>3. UNCHANGED invoices
    BY DEF Transition
  <1>4. CASE Confirms(f)
    BY <1>3, <1>4, KeepBelieves DEF Transition
  <1>5. CASE ~Confirms(f)
    <2>1. CanMove(f) /\ Replace(s, Moved(f))
      BY <1>5 DEF CanTransition, Transition
    <2>2. Moved(f) \in Snapshot
      BY <1>1, <1>2, <2>1, MovedType DEF IndInv
    <2>3. /\ Moved(f).status = f.status /\ Moved(f).rev = f.rev /\ f.status # "none"
          /\ f.status = "expired" => Moved(f).renews = None
      BY <1>1, <1>2, <2>1, MovedSays DEF Statuses, AccessStatuses, SuspendedStatuses
    <2>4. Said(s, f.rev, f.status)
      BY <1>1, <2>3 DEF Heard, Telling, Means, Settling, TransitionEvents
    <2> HIDE DEF s
    <2>5. QED
      BY <1>1, <1>2, <1>3, <2>1, <2>2, <2>3, <2>4, ReplaceBelieves
  <1>6. QED
    BY <1>4, <1>5

(* Whatever is delivered, the tables believe nothing that was not said.    *)
LEMMA ProcessBelieves ==
  ASSUME IndInv, TruthInv, NEW f, Deliverable(f), NEW key, Heard(f, key), Process(f, key)
  PROVE  Believes
  <1>1. CASE UNCHANGED <<snap, invoices>>
    BY <1>1, KeepBelieves
  <1>2. CASE CanCreate(f) /\ Create(f)
    BY <1>2, CreateBelieves
  <1>3. CASE CanRecordPayment(f) /\ RecordPayment(f)
    BY <1>3, PaidBelieves
  <1>4. CASE CanDun(f) /\ Dun(f)
    BY <1>4, DunBelieves
  <1>5. CASE CanRefund(f) /\ Refund(f)
    BY <1>5, RefundBelieves
  <1>6. CASE CanTransition(f) /\ Transition(f)
    BY <1>6, TransitionBelieves
  <1>7. QED
    BY <1>1, <1>2, <1>3, <1>4, <1>5, <1>6 DEF Process, Handle, local, PairOrder

(* The truth invariant holds throughout every behaviour.                   *)
LEMMA AlwaysTruth == Spec => []TruthInv
  <1>1. IndInv /\ TruthInv /\ [Next]_vars => TruthInv'
    <2> SUFFICES ASSUME IndInv, TruthInv, [Next]_vars PROVE TruthInv'
      OBVIOUS
    <2>1. CASE \E f, key : Delivered(f, key)
      <3>1. PICK f, key : Delivered(f, key)
        BY <2>1
      <3>2. Believes
        BY <3>1, ProcessBelieves DEF Delivered
      <3>3. Stored'
        BY NextIndInv DEF IndInv
      <3>4. QED
        BY <3>1, <3>2, <3>3, BelievesTruth DEF Delivered
    <2>2. QED
      BY <2>1, StepTells
  <1>2. QED
    BY AlwaysIndInv, InitTruth, <1>1, PTL DEF Spec

(* However webhooks and reconciliation rows are lost, repeated and mixed,  *)
(* a running row that is up to date says what the provider says.           *)
THEOREM FreshRowsTrue == Spec => []FreshMeansTrue
  <1>1. IndInv /\ TruthInv => FreshMeansTrue
    <2> SUFFICES ASSUME IndInv, TruthInv, NEW s \in Subs, Live(s), snap[s].rev >= prov[s].rev
                 PROVE  snap[s].status = prov[s].status
      BY DEF FreshMeansTrue
    <2>1. snap[s].rev \in Nat /\ prov[s].rev \in Nat /\ snap[s] # None
      BY TypedTold DEF Live
    <2>2. Said(s, snap[s].rev, snap[s].status)
      BY DEF Said, RowTold
    <2>3. snap[s].rev = prov[s].rev
      BY <2>1, <2>2 DEF TruthInv, SaidInv, SaidBefore
    <2>4. prov[s].status # "none"
      BY <2>1 DEF TruthInv, SaidInv, Unsold
    <2>5. Said(s, snap[s].rev, prov[s].status)
      BY <2>3, <2>4 DEF Said, SubTold
    <2>6. QED
      BY <2>1, <2>2, <2>5 DEF TruthInv, SaidInv, Consistent
  <1>2. QED
    BY AlwaysIndInv, AlwaysTruth, <1>1, PTL

-----------------------------------------------------------------------------
(* What brings a subscription back. *)

Revives(s) ==
  /\ snap[s] # None /\ snap[s].status \in SuspendedStatuses \cup {"cancelled"}
  /\ snap'[s].status = "active"

Unrecorded(s) ==
  \E k \in InvoiceIds : bill[s][k].status \in InvoiceStatuses /\ invoices[s][k] = None

(* A row comes back by the webhook of its own creation, or by news, and    *)
(* what was suspended by a payment not recorded before.                    *)
BroughtBack(s) ==
  \/ CreatedAgain(s)
  \/ /\ snap'[s].rev > snap[s].rev \/ invoices'[s] # invoices[s]
     /\ snap[s].status \in SuspendedStatuses => Unrecorded(s)

(* A creation brings back only the row it created, once that expired.      *)
LEMMA CreateRevives ==
  ASSUME IndInv, OneLivePerUser, NEW f, Deliverable(f), NEW key, Heard(f, key),
         CanCreate(f), Create(f), key \in processed' \ processed, Revives(f.sub)
  PROVE  CreatedAgain(f.sub)
  <1> DEFINE s == f.sub
             found == ForUser(OwnerOf(s))
  <1>1. s \in Subs /\ OwnerOf(s) \in Users /\ snap[s] # None
    BY OwnerType DEF Deliverable, Delivery, Revives
  <1>2. snap[s].status = "expired"
    <2> SUFFICES ASSUME snap[s].status # "expired" PROVE FALSE
      OBVIOUS
    <2>1. s \in LiveOf(OwnerOf(s))
      BY <1>1 DEF LiveOf
    <2>2. found \in LiveOf(OwnerOf(s))
      BY <2>1 DEF ForUser
    <2>3. found = s
      BY <1>1, <2>1, <2>2 DEF LiveOf, OneLivePerUser, Live
    <2>4. s \notin Previous(f) /\ s # None
      BY <1>1, NoneFresh DEF Previous
    <2>5. snap[s].status = "active"
      BY <2>3, <2>4 DEF CanCreate
    <2>6. QED
      BY <2>5 DEF Revives, SuspendedStatuses
  <1>3. PICK e \in events : e.name = "subscription_created" /\ e.sub = s /\ key = WebhookKey(e)
    BY <1>1 DEF Heard, CanCreate
  <1>4. QED
    BY <1>2, <1>3 DEF CreatedAgain

(* A payment that brings a row back was not in the ledger.                 *)
LEMMA PaidRevives ==
  ASSUME IndInv, TruthInv, NEW f, Deliverable(f), NEW key, Heard(f, key),
         CanRecordPayment(f), RecordPayment(f)
  PROVE  invoices'[f.sub] # invoices[f.sub] /\ Unrecorded(f.sub)
  <1>1. /\ f.sub \in Subs /\ f.rev \in Nat /\ f.name = "subscription_payment_success"
        /\ f.status = "paid" /\ f.inv \in InvoiceIds /\ invoices[f.sub][f.inv] = None
    BY DEF Deliverable, Delivery, CanRecordPayment, CanInsertInvoice, Collides, PaymentEvents
  <1>2. PaidAt(f.sub, f.inv, f.rev)
    BY <1>1 DEF Heard, Settling
  <1>3. bill[f.sub][f.inv].status \in InvoiceStatuses
    BY <1>1, <1>2 DEF TruthInv, RecordedInv, PaidHeld
  <1> DEFINE row == [status |-> "paid", start |-> f.start, end |-> f.end]
  <1>4. row \in Invoice
    BY DEF CanRecordPayment, CanInsertInvoice, Deliverable, Delivery, OptTime, Invoice, InvoiceStatuses
  <1>5. invoices' = [invoices EXCEPT ![f.sub][f.inv] = row]
    BY DEF RecordPayment
  <1> HIDE DEF row
  <1>6. invoices'[f.sub][f.inv] = row
    BY <1>1, <1>5 DEF IndInv, Stored, LocalOK
  <1>7. row # None
    BY <1>4, NoneIsNoRow
  <1>8. QED
    BY <1>1, <1>3, <1>6, <1>7 DEF Unrecorded

(* Nor was one that the notice of a recovery brings it back by.            *)
LEMMA DunRevives ==
  ASSUME IndInv, TruthInv, NEW f, Deliverable(f), NEW key, Heard(f, key),
         CanDun(f), Dun(f), Revives(f.sub)
  PROVE  snap'[f.sub].rev > snap[f.sub].rev /\ Unrecorded(f.sub)
  <1> DEFINE s == f.sub
             k == f.inv
  <1>1. /\ f \in Delivery /\ s \in Subs /\ f.rev \in Nat /\ snap[s] # None /\ f.rev >= snap[s].rev
    BY DEF Deliverable, Delivery, CanDun, Known, Fresh
  <1>2. snap[s] \in Snapshot /\ snap[s].rev \in Nat
    BY <1>1, TypedTold
  <1>3. /\ snap'[s] = Dunned(f) /\ Dunned(f).rev = f.rev /\ Dunned(f).renews = snap[s].renews
        /\ Dunned(f).status = Means(f)
    BY <1>1, <1>2 DEF Dun, Replace, Dunned, IndInv, Stored, LocalOK, Snapshot, Means, Settling, CanDun
  <1>4. f.name = "subscription_payment_recovered" /\ f.status = "paid" /\ Dunned(f).status = "active"
    BY <1>3 DEF Revives, CanDun, Means, Settling
  <1>5. k \in InvoiceIds
    BY <1>1, <1>4 DEF Deliverable, Delivery, PaymentEvents
  <1>6. Said(s, f.rev, "active") /\ PaidAt(s, k, f.rev)
    BY <1>4 DEF Heard, Telling, Settling, Means
  <1>7. snap[s].status # "expired"
    <2>1. Dunned(f).renews # None
      BY <1>4 DEF CanDun, Replaceable, Storable, AccessStatuses
    <2>2. QED
      BY <1>1, <1>3, <2>1 DEF TruthInv, RecordedInv, ExpiredEnds
  <1>8. Said(s, snap[s].rev, snap[s].status)
    BY <1>1, <1>7 DEF Said, RowTold, Live
  <1>9. f.rev # snap[s].rev
    BY <1>1, <1>6, <1>8 DEF TruthInv, SaidInv, Consistent, Revives, SuspendedStatuses
  <1>10. f.rev > snap[s].rev
    BY <1>1, <1>2, <1>9
  <1>11. bill[s][k].status \in InvoiceStatuses
    BY <1>1, <1>5, <1>6 DEF TruthInv, RecordedInv, PaidHeld
  <1>12. invoices[s][k] = None
    <2> SUFFICES ASSUME invoices[s][k] # None PROVE FALSE
      OBVIOUS
    <2>1. f.rev <= snap[s].rev
      BY <1>1, <1>5, <1>6 DEF TruthInv, RecordedInv, RecordedSeen
    <2>2. QED
      BY <1>1, <1>2, <1>10, <2>1
  <1>13. QED
    BY <1>3, <1>5, <1>10, <1>11, <1>12 DEF Unrecorded

(* A transition brings back only what was cancelled, and by news.          *)
LEMMA TransitionRevives ==
  ASSUME IndInv, TruthInv, NEW f, Deliverable(f), NEW key, Heard(f, key),
         CanTransition(f), Transition(f), Revives(f.sub)
  PROVE  snap'[f.sub].rev > snap[f.sub].rev /\ snap[f.sub].status = "cancelled"
  <1> DEFINE s == f.sub
  <1>1. /\ f \in Delivery /\ s \in Subs /\ f.rev \in Nat /\ snap[s] # None /\ f.rev >= snap[s].rev
        /\ f.name \in TransitionEvents
    BY DEF Deliverable, Delivery, CanTransition, Known, Fresh
  <1>2. snap[s] \in Snapshot /\ snap[s].rev \in Nat
    BY <1>1, TypedTold
  <1>3. snap[s].status # "active"
    BY DEF Revives, SuspendedStatuses
  <1>4. ~Confirms(f)
    BY <1>3 DEF Transition, Revives
  <1>5. CanMove(f) /\ snap'[s] = Moved(f)
    BY <1>1, <1>4 DEF CanTransition, Transition, Replace, IndInv, Stored, LocalOK
  <1>6. Moved(f).status = f.status /\ Moved(f).rev = f.rev
    BY <1>1, <1>2, <1>5, MovedSays
  <1>7. f.status = "active"
    BY <1>5, <1>6 DEF Revives
  <1>8. snap[s].status = "cancelled"
    BY <1>3, <1>5, <1>7 DEF CanMove, Expires
  <1>9. Said(s, f.rev, "active")
    BY <1>1, <1>7 DEF Heard, Telling, Means, Settling, TransitionEvents
  <1>10. Said(s, snap[s].rev, "cancelled")
    BY <1>1, <1>8 DEF Said, RowTold, Live
  <1>11. f.rev # snap[s].rev
    BY <1>1, <1>9, <1>10 DEF TruthInv, SaidInv, Consistent
  <1>12. QED
    BY <1>1, <1>2, <1>5, <1>6, <1>8, <1>11

(* Whatever is delivered, a row comes back by one of those ways.           *)
LEMMA ProcessRevives ==
  ASSUME IndInv, TruthInv, OneLivePerUser, NEW f, Deliverable(f), NEW key, Heard(f, key),
         Process(f, key), NEW s \in Subs, Revives(s)
  PROVE  BroughtBack(s)
  <1>1. f \in Delivery /\ f.sub \in Subs
    BY DEF Deliverable, Delivery
  <1>2. ~UNCHANGED snap
    BY DEF Revives, SuspendedStatuses
  <1>3. Handle(f) /\ key \in processed' \ processed
    BY <1>2 DEF Process, local
  <1>4. s = f.sub
    <2> SUFFICES ASSUME s # f.sub PROVE FALSE
      OBVIOUS
    <2>1. snap'[s] # snap[s]
      BY DEF Revives, SuspendedStatuses
    <2>2. \A cand : Replace(f.sub, cand) => snap'[s] = snap[s]
      BY DEF Replace, IndInv, Stored, LocalOK
    <2>3. CanCreate(f) /\ Create(f)
      BY <1>3, <2>1, <2>2 DEF Handle, PairOrder, RecordPayment, Dun, Refund, Transition
    <2>4. s \in Previous(f)
      BY <2>1, <2>3 DEF Create
    <2>5. snap[s] \in Snapshot
      BY DEF Revives, IndInv, Stored, LocalOK
    <2>6. snap'[s].status = "expired"
      BY <2>3, <2>4, <2>5 DEF Create, Snapshot
    <2>7. QED
      BY <2>6 DEF Revives
  <1>5. CASE CanCreate(f) /\ Create(f)
    BY <1>3, <1>4, <1>5, CreateRevives DEF BroughtBack
  <1>6. CASE CanRecordPayment(f) /\ RecordPayment(f)
    BY <1>4, <1>6, PaidRevives DEF BroughtBack
  <1>7. CASE CanDun(f) /\ Dun(f)
    BY <1>4, <1>7, DunRevives DEF BroughtBack
  <1>8. CASE CanRefund(f) /\ Refund(f)
    <2>1. Replace(s, Ended(f))
      BY <1>2, <1>4, <1>8 DEF Refund
    <2>2. snap[s] \in Snapshot
      BY DEF Revives, IndInv, Stored, LocalOK
    <2>3. snap'[s].status = "expired"
      BY <1>4, <2>1, <2>2 DEF Replace, Ended, IndInv, Stored, LocalOK, Snapshot
    <2>4. QED
      BY <2>3 DEF Revives
  <1>9. CASE CanTransition(f) /\ Transition(f)
    BY <1>4, <1>9, TransitionRevives DEF BroughtBack, SuspendedStatuses
  <1>10. QED
    BY <1>2, <1>3, <1>5, <1>6, <1>7, <1>8, <1>9 DEF Handle, PairOrder

(* Every step that brings a row back is one of those.                      *)
LEMMA StepRevives ==
  ASSUME IndInv, TruthInv, OneLivePerUser, [Next]_vars, NEW s \in Subs, Revives(s)
  PROVE  BroughtBack(s)
  <1>1. ~UNCHANGED snap
    BY DEF Revives, SuspendedStatuses
  <1>2. PICK f, key : Delivered(f, key)
    BY <1>1, StepTells
  <1>3. QED
    BY <1>2, ProcessRevives DEF Delivered

(* But for the webhook of its creation, a suspended row comes back only by *)
(* a payment the provider holds and the ledger did not have.               *)
THEOREM RevivalIsPaid == Spec => RevivedByPayment
  <1> DEFINE Step == \A s \in Subs :
                /\ snap[s] # None /\ snap[s].status \in SuspendedStatuses
                /\ snap'[s].status = "active"
                => \/ \E k \in InvoiceIds : /\ bill[s][k].status \in InvoiceStatuses
                                            /\ invoices[s][k] = None
                   \/ CreatedAgain(s)
  <1>1. IndInv /\ TruthInv /\ OneLivePerUser /\ [Next]_vars => [Step]_vars
    BY StepRevives DEF Revives, BroughtBack, Unrecorded
  <1>2. Spec => [][Step]_vars
    BY AlwaysIndInv, AlwaysTruth, AtMostOneLive, <1>1, PTL DEF Spec
  <1>3. QED
    BY <1>2 DEF RevivedByPayment

(* Nor does a row that was suspended or cancelled come back by an older    *)
(* body that arrives late.                                                 *)
THEOREM RevivalIsNews == Spec => RevivedByNews
  <1> DEFINE Step == \A s \in Subs :
                /\ snap[s] # None /\ snap[s].status \in SuspendedStatuses \cup {"cancelled"}
                /\ snap'[s].status = "active"
                => \/ snap'[s].rev > snap[s].rev
                   \/ invoices'[s] # invoices[s]
                   \/ CreatedAgain(s)
  <1>1. IndInv /\ TruthInv /\ OneLivePerUser /\ [Next]_vars => [Step]_vars
    BY StepRevives DEF Revives, BroughtBack
  <1>2. Spec => [][Step]_vars
    BY AlwaysIndInv, AlwaysTruth, AtMostOneLive, <1>1, PTL DEF Spec
  <1>3. QED
    BY <1>2 DEF RevivedByNews

-----------------------------------------------------------------------------
(* What one delivery does to the paid time and the ledger. *)

(* Row t keeps its period and its paid time, and does not come back.       *)
KeepsPeriod(t) ==
  /\ snap'[t] # None <=> snap[t] # None
  /\ snap[t] # None => /\ snap'[t].start = snap[t].start /\ snap'[t].end = snap[t].end
                       /\ snap'[t].paidThrough = snap[t].paidThrough
  /\ Live(t)' => Live(t)

Opens(s) ==
  /\ snap'[s] # None
  /\ snap'[s].start < snap'[s].end /\ snap'[s].paidThrough = snap'[s].end

(* A row is stored, or its creation is delivered once more.                *)
Starts(s) ==
  /\ Opens(s) /\ snap'[s].status = "active"
  /\ UNCHANGED invoices
  /\ \/ snap[s] = None
     \/ /\ snap'[s].start = snap[s].start /\ snap'[s].end = snap[s].end
        /\ \/ Live(s)
           \/ \E e \in events : e.name = "subscription_created" /\ e.sub = s /\ Deliver(e)

(* Invoice k is recorded: the first one for the period of the row, every   *)
(* other for the time from where the row was paid to.                      *)
Pays(s, k) ==
  /\ snap[s] # None /\ invoices[s][k] = None
  /\ invoices'[s][k] \in Invoice /\ invoices'[s][k].status # "refunded"
  /\ \A j \in InvoiceIds \ {k} : invoices'[s][j] = invoices[s][j]
  /\ invoices'[s][k].end = snap'[s].end /\ invoices'[s][k].start = snap'[s].start
  /\ IF IsRenewal(s) THEN Opens(s) /\ snap'[s].start = snap[s].paidThrough
     ELSE KeepsPeriod(s)

(* Invoice k is returned.  In full, and with nothing paid after it, it     *)
(* ends the row.                                                           *)
Ends(s) ==
  /\ snap'[s] # None /\ ~Live(s)'
  /\ snap'[s].start = snap[s].start /\ snap'[s].end = snap[s].end
  /\ snap'[s].paidThrough <= snap[s].paidThrough

Returns(s, k) ==
  /\ snap[s] # None /\ invoices[s][k] # None
  /\ invoices'[s][k] \in Invoice
  /\ invoices'[s][k].start = invoices[s][k].start
  /\ invoices'[s][k].end = invoices[s][k].end
  /\ invoices[s][k].status = "refunded" => invoices'[s][k].status = "refunded"
  /\ \A j \in InvoiceIds \ {k} : invoices'[s][j] = invoices[s][j]
  /\ \/ Ends(s)
     \/ /\ KeepsPeriod(s)
        /\ Live(s) /\ invoices'[s][k].status = "refunded" =>
              invoices[s][k].end < snap[s].paidThrough

Books(s) ==
  \/ KeepsPeriod(s) /\ UNCHANGED invoices
  \/ Starts(s)
  \/ \E k \in InvoiceIds : Pays(s, k) \/ Returns(s, k)

(* One row is booked and the others are let alone.                         *)
Booked ==
  \E s \in Subs :
    /\ Books(s)
    /\ \A t \in Subs \ {s} : KeepsPeriod(t) /\ invoices'[t] = invoices[t]

(* Replacing row s touches no other.                                       *)
LEMMA ReplaceAlone ==
  ASSUME IndInv, NEW s \in Subs, NEW cand, Replace(s, cand)
  PROVE  snap'[s] = cand /\ \A t \in Subs \ {s} : KeepsPeriod(t)
  <1>1. snap'[s] = cand /\ \A t \in Subs \ {s} : snap'[t] = snap[t]
    BY DEF Replace, IndInv, Stored, LocalOK
  <1>2. QED
    BY <1>1 DEF KeepsPeriod, Live

(* A creation stores a row, or starts the stored one over.                 *)
LEMMA CreateBooks ==
  ASSUME IndInv, NEW f, Deliverable(f), NEW key, Heard(f, key), CanCreate(f), Create(f)
  PROVE  Booked
  <1> DEFINE s == f.sub
  <1>1. /\ f \in Delivery /\ s \in Subs /\ f.rev \in Nat /\ f.name = "subscription_created"
        /\ f.start # None /\ f.end # None /\ UNCHANGED invoices
    BY DEF Deliverable, Delivery, CanCreate, Create
  <1>2. /\ Created(f) # None /\ Created(f).status = "active"
        /\ Created(f).start = f.start /\ Created(f).end = f.end
        /\ Created(f).paidThrough = f.end /\ f.start < f.end
    BY <1>1, CreatedType, NoneIsNoRow DEF Created, CanCreate, Storable
  <1>3. snap'[s] = Created(f)
    BY <1>1 DEF Create
  <1>4. Starts(s)
    BY <1>1, <1>2, <1>3 DEF Starts, Opens, Heard
  <1>5. ASSUME NEW t \in Subs \ {s} PROVE KeepsPeriod(t)
    <2>1. CASE t \in Previous(f)
      <3>1. snap[t] \in Snapshot /\ snap[t] # None
        BY <1>1, <2>1, OwnerType, ForUserStored, NoneIsNoRow DEF Previous, IndInv
      <3> DEFINE until == IF snap[t].status = "expired" THEN snap[t].renews ELSE None
      <3>2. snap'[t] = [snap[t] EXCEPT !.status = "expired", !.renews = until]
        BY <2>1 DEF Create
      <3>3. until \in OptTime
        BY <3>1 DEF Snapshot, OptTime
      <3> HIDE DEF until
      <3>4. [snap[t] EXCEPT !.status = "expired", !.renews = until] \in Snapshot
        BY <3>1, <3>3 DEF Snapshot, Statuses, SuspendedStatuses
      <3>5. /\ snap'[t] # None /\ snap'[t].status = "expired"
            /\ snap'[t].start = snap[t].start /\ snap'[t].end = snap[t].end
            /\ snap'[t].paidThrough = snap[t].paidThrough
        BY <3>1, <3>2, <3>4, NoneIsNoRow DEF Snapshot
      <3>6. QED
        BY <3>1, <3>5 DEF KeepsPeriod, Live
    <2>2. CASE t \notin Previous(f)
      BY <2>2 DEF Create, KeepsPeriod, Live
    <2>3. QED
      BY <2>1, <2>2
  <1>6. QED
    BY <1>1, <1>4, <1>5 DEF Booked, Books

(* A payment records its invoice and extends the row.                      *)
LEMMA PaidBooks ==
  ASSUME IndInv, NEW f, Deliverable(f), CanRecordPayment(f), RecordPayment(f)
  PROVE  Booked
  <1> DEFINE s == f.sub
             k == f.inv
             row == [status |-> "paid", start |-> f.start, end |-> f.end]
  <1>1. /\ f \in Delivery /\ s \in Subs /\ f.rev \in Nat /\ f.start \in Nat /\ f.end \in Nat
        /\ f.start < f.end /\ k \in InvoiceIds /\ invoices[s][k] = None /\ snap[s] # None
        /\ IF IsRenewal(s) THEN f.start = snap[s].paidThrough ELSE SamePeriod(f, snap[s])
    BY DEF Deliverable, Delivery, CanRecordPayment, CanInsertInvoice, Collides, PaymentEvents,
           Known, OptTime
  <1>2. snap[s] \in Snapshot
    BY <1>1, TypedTold
  <1>3. row \in Invoice /\ row.status # "refunded" /\ row.start = f.start /\ row.end = f.end
    BY <1>1 DEF Invoice, InvoiceStatuses
  <1>4. invoices' = [invoices EXCEPT ![s][k] = row]
    BY DEF RecordPayment
  <1> HIDE DEF row
  <1>5. /\ invoices'[s][k] = row
        /\ \A j \in InvoiceIds \ {k} : invoices'[s][j] = invoices[s][j]
        /\ \A t \in Subs \ {s} : invoices'[t] = invoices[t]
    BY <1>1, <1>4 DEF IndInv, Stored, LocalOK
  <1>6. Replace(s, Paid(f)) /\ Paid(f) \in Snapshot
    BY <1>1, PaidType DEF RecordPayment, IndInv
  <1>7. snap'[s] = Paid(f) /\ \A t \in Subs \ {s} : KeepsPeriod(t)
    BY <1>1, <1>6, ReplaceAlone
  <1>8. CASE IsRenewal(s)
    <2>1. /\ Paid(f).start = f.start /\ Paid(f).end = f.end /\ Paid(f).paidThrough = f.end
          /\ Paid(f) # None
      BY <1>6, <1>8, NoneIsNoRow DEF Paid, Created
    <2>2. Opens(s) /\ snap'[s].start = snap[s].paidThrough
      BY <1>1, <1>7, <1>8, <2>1 DEF Opens
    <2>3. Pays(s, k)
      BY <1>1, <1>3, <1>5, <1>7, <1>8, <2>1, <2>2 DEF Pays
    <2>4. QED
      BY <1>1, <1>5, <1>7, <2>3 DEF Booked, Books
  <1>9. CASE ~IsRenewal(s)
    <2>1. /\ Paid(f).start = snap[s].start /\ Paid(f).end = snap[s].end
          /\ Paid(f).paidThrough = snap[s].paidThrough /\ Paid(f).status = snap[s].status
          /\ Paid(f) # None
      BY <1>2, <1>6, <1>9, NoneIsNoRow DEF Paid, Snapshot
    <2>2. KeepsPeriod(s)
      BY <1>1, <1>7, <2>1 DEF KeepsPeriod, Live
    <2>3. Pays(s, k)
      BY <1>1, <1>3, <1>5, <1>7, <1>9, <2>1, <2>2 DEF Pays, SamePeriod
    <2>4. QED
      BY <1>1, <1>5, <1>7, <2>3 DEF Booked, Books
  <1>10. QED
    BY <1>8, <1>9

(* A failed or recovered payment books nothing.                            *)
LEMMA DunBooks ==
  ASSUME IndInv, TruthInv, NEW f, Deliverable(f), CanDun(f), Dun(f)
  PROVE  Booked
  <1> DEFINE s == f.sub
  <1>1. s \in Subs /\ snap[s] # None /\ snap[s] \in Snapshot /\ f.rev \in Nat
    BY TypedTold DEF Deliverable, Delivery, CanDun, Known
  <1>2. /\ Dunned(f).start = snap[s].start /\ Dunned(f).end = snap[s].end
        /\ Dunned(f).paidThrough = snap[s].paidThrough /\ Dunned(f).renews = snap[s].renews
        /\ Dunned(f).status \in {"active", "past_due"} /\ Dunned(f) \in Snapshot
    BY <1>1 DEF Dunned, Snapshot, Statuses, AccessStatuses
  <1>3. Dunned(f).renews # None
    BY <1>2 DEF CanDun, Replaceable, Storable, AccessStatuses
  <1>4. Live(s)
    BY <1>1, <1>2, <1>3 DEF TruthInv, RecordedInv, ExpiredEnds, Live
  <1>5. snap'[s] = Dunned(f) /\ \A t \in Subs \ {s} : KeepsPeriod(t)
    BY <1>1, ReplaceAlone DEF Dun
  <1>6. KeepsPeriod(s) /\ UNCHANGED invoices
    BY <1>1, <1>2, <1>4, <1>5, NoneIsNoRow DEF KeepsPeriod, Dun
  <1>7. QED
    BY <1>1, <1>5, <1>6 DEF Booked, Books

(* Nor does a change of status.                                            *)
LEMMA TransitionBooks ==
  ASSUME IndInv, NEW f, Deliverable(f), CanTransition(f), Transition(f)
  PROVE  Booked
  <1> DEFINE s == f.sub
  <1>1. /\ f \in Delivery /\ s \in Subs /\ f.rev \in Nat /\ snap[s] # None
        /\ snap[s] \in Snapshot /\ UNCHANGED invoices
    BY TypedTold DEF Deliverable, Delivery, CanTransition, Known, Transition
  <1>2. CASE Confirms(f)
    <2>1. UNCHANGED snap
      BY <1>2 DEF Transition
    <2>2. QED
      BY <1>1, <2>1 DEF Booked, Books, KeepsPeriod, Live
  <1>3. CASE ~Confirms(f)
    <2>1. CanMove(f) /\ Replace(s, Moved(f))
      BY <1>3 DEF CanTransition, Transition
    <2>2. Moved(f) \in Snapshot /\ Moved(f).status = f.status
      BY <1>1, <2>1, MovedType, MovedSays DEF IndInv
    <2>3. /\ Moved(f).start = snap[s].start /\ Moved(f).end = snap[s].end
          /\ Moved(f).paidThrough = snap[s].paidThrough
      <3> DEFINE base == [snap[s] EXCEPT !.rev = f.rev, !.status = f.status]
      <3>1. /\ base.start = snap[s].start /\ base.end = snap[s].end
            /\ base.paidThrough = snap[s].paidThrough
        BY <1>1 DEF Snapshot
      <3>2. \A r, e : /\ [base EXCEPT !.renews = r, !.ends = e].start = base.start
                      /\ [base EXCEPT !.renews = r, !.ends = e].end = base.end
                      /\ [base EXCEPT !.renews = r, !.ends = e].paidThrough = base.paidThrough
                      /\ [base EXCEPT !.renews = r].start = base.start
                      /\ [base EXCEPT !.renews = r].end = base.end
                      /\ [base EXCEPT !.renews = r].paidThrough = base.paidThrough
        BY <1>1 DEF Snapshot
      <3>3. Moved(f) = IF Cancels(f) THEN [base EXCEPT !.renews = None, !.ends = f.ends]
                       ELSE IF Resumes(f) THEN [base EXCEPT !.renews = f.renews, !.ends = None]
                       ELSE IF Expires(f) THEN [base EXCEPT !.renews = None]
                       ELSE IF f.status \in AccessStatuses
                       THEN [base EXCEPT !.renews = f.renews]
                       ELSE base
        BY DEF Moved, MovedTo
      <3> HIDE DEF base
      <3>4. QED
        BY <3>1, <3>2, <3>3
    <2>4. f.status # "expired" => Live(s)
      BY <1>1, <2>1 DEF CanMove, Live, AccessStatuses
    <2>5. snap'[s] = Moved(f) /\ \A t \in Subs \ {s} : KeepsPeriod(t)
      BY <1>1, <2>1, ReplaceAlone
    <2>6. KeepsPeriod(s)
      BY <1>1, <2>2, <2>3, <2>4, <2>5, NoneIsNoRow DEF KeepsPeriod, Live
    <2>7. QED
      BY <1>1, <2>5, <2>6 DEF Booked, Books
  <1>4. QED
    BY <1>2, <1>3

(* A refund returns its invoice.                                           *)
LEMMA RefundBooks ==
  ASSUME IndInv, NEW f, Deliverable(f), CanRefund(f), Refund(f)
  PROVE  Booked
  <1> DEFINE s == f.sub
             k == f.inv
  <1>1. /\ s \in Subs /\ k \in InvoiceIds /\ f.at \in Nat /\ snap[s] # None
        /\ invoices[s][k] # None /\ f.status \in {"partial_refund", "refunded"}
        /\ invoices[s][k].status = "refunded" => f.status = "refunded"
    BY DEF Deliverable, Delivery, CanRefund, Known, PaymentEvents
  <1>2. snap[s] \in Snapshot /\ snap[s].paidThrough \in Nat /\ invoices[s][k] \in Invoice
    BY <1>1, TypedTold DEF Snapshot, IndInv, Stored, LocalOK
  <1>3. /\ invoices'[s][k] = [invoices[s][k] EXCEPT !.status = f.status]
        /\ \A j \in InvoiceIds \ {k} : invoices'[s][j] = invoices[s][j]
        /\ \A t \in Subs \ {s} : invoices'[t] = invoices[t]
    BY <1>1 DEF Refund, IndInv, Stored, LocalOK
  <1>4. /\ invoices'[s][k] \in Invoice /\ invoices'[s][k].status = f.status
        /\ invoices'[s][k].start = invoices[s][k].start
        /\ invoices'[s][k].end = invoices[s][k].end
    BY <1>1, <1>2, <1>3 DEF Invoice, InvoiceStatuses
  <1>5. CASE EndsAccess(f)
    <2> DEFINE until == IF f.at < snap[s].paidThrough THEN f.at ELSE snap[s].paidThrough
    <2>1. /\ Ended(f) \in Snapshot /\ Ended(f).status = "expired"
          /\ Ended(f).start = snap[s].start /\ Ended(f).end = snap[s].end
          /\ Ended(f).paidThrough <= snap[s].paidThrough
      <3>1. until \in Nat /\ until <= snap[s].paidThrough
        BY <1>1, <1>2
      <3>2. Ended(f) = [snap[s] EXCEPT !.status = "expired", !.renews = None, !.ends = until,
                                       !.paidThrough = until]
        BY DEF Ended
      <3> HIDE DEF until
      <3>3. QED
        BY <1>2, <3>1, <3>2 DEF Snapshot, Statuses, SuspendedStatuses, OptTime
    <2>2. snap'[s] = Ended(f) /\ \A t \in Subs \ {s} : KeepsPeriod(t)
      BY <1>1, <1>5, ReplaceAlone DEF Refund
    <2>3. Ends(s)
      BY <2>1, <2>2, NoneIsNoRow DEF Ends, Live
    <2>4. Returns(s, k)
      BY <1>1, <1>3, <1>4, <2>3 DEF Returns
    <2>5. QED
      BY <1>1, <1>3, <2>2, <2>4 DEF Booked, Books
  <1>6. CASE ~EndsAccess(f)
    <2>1. UNCHANGED snap
      BY <1>6 DEF Refund
    <2>2. \A t \in Subs : KeepsPeriod(t)
      BY <2>1 DEF KeepsPeriod, Live
    <2>3. Live(s) /\ f.status = "refunded" => invoices[s][k].end < snap[s].paidThrough
      BY <1>2, <1>6 DEF EndsAccess, Live, Invoice
    <2>4. Returns(s, k)
      BY <1>1, <1>3, <1>4, <2>2, <2>3 DEF Returns
    <2>5. QED
      BY <1>1, <1>3, <2>2, <2>4 DEF Booked, Books
  <1>7. QED
    BY <1>5, <1>6

(* Every step books one row or leaves them all.                            *)
LEMMA StepBooks ==
  ASSUME IndInv, TruthInv, [Next]_vars
  PROVE  UNCHANGED <<snap, invoices>> \/ Booked
  <1>1. ASSUME NEW f, NEW key, Delivered(f, key) PROVE UNCHANGED <<snap, invoices>> \/ Booked
    BY <1>1, CreateBooks, PaidBooks, DunBooks, RefundBooks, TransitionBooks
    DEF Delivered, Process, Handle, local, PairOrder
  <1>2. QED
    BY <1>1, StepTells

-----------------------------------------------------------------------------
(* What the booked time keeps to. *)

(* A stored row is paid at most to the end of its period, and a running    *)
(* one exactly; what is recorded belongs to a stored row.                  *)
RowsInTime ==
  \A s \in Subs : snap[s] # None =>
    /\ snap[s].start < snap[s].end /\ snap[s].paidThrough <= snap[s].end
    /\ Live(s) \/ ~IsRenewal(s) => snap[s].paidThrough = snap[s].end

LedgerOfRows == \A s \in Subs : IsRenewal(s) => snap[s] # None

BooksInv == RowsInTime /\ LedgerOfRows

(* The booked numbers are numbers.                                         *)
LEMMA TypedBooks ==
  ASSUME IndInv, NEW s \in Subs
  PROVE  /\ snap[s] # None => /\ snap[s].start \in Nat /\ snap[s].end \in Nat
                              /\ snap[s].paidThrough \in Nat
         /\ \A k \in InvoiceIds : invoices[s][k] # None =>
               /\ invoices[s][k].start \in Nat /\ invoices[s][k].end \in Nat
  BY DEF IndInv, Stored, LocalOK, Snapshot, Invoice

(* A row whose period and ledger stay is as it was.                        *)
LEMMA KeptBooks ==
  ASSUME BooksInv, NEW s \in Subs, KeepsPeriod(s), invoices'[s] = invoices[s]
  PROVE  /\ snap'[s] # None =>
              /\ snap'[s].start < snap'[s].end /\ snap'[s].paidThrough <= snap'[s].end
              /\ Live(s)' \/ ~IsRenewal(s)' => snap'[s].paidThrough = snap'[s].end
         /\ IsRenewal(s)' => snap'[s] # None
  BY DEF BooksInv, RowsInTime, LedgerOfRows, KeepsPeriod, IsRenewal

(* No booking breaks the time of a row.                                    *)
LEMMA StepBooksInv ==
  ASSUME IndInv, IndInv', BooksInv, UNCHANGED <<snap, invoices>> \/ Booked
  PROVE  BooksInv'
  <1>1. \A t \in Subs : snap'[t] # None => snap'[t].end \in Nat
    BY DEF IndInv, Stored, LocalOK, Snapshot
  <1>2. CASE UNCHANGED <<snap, invoices>>
    BY <1>2 DEF BooksInv, RowsInTime, LedgerOfRows, Live, IsRenewal
  <1>3. CASE Booked
    <2>1. PICK s \in Subs :
             /\ Books(s)
             /\ \A t \in Subs \ {s} : KeepsPeriod(t) /\ invoices'[t] = invoices[t]
      BY <1>3 DEF Booked
    <2> SUFFICES ASSUME NEW t \in Subs
                 PROVE  /\ snap'[t] # None =>
                             /\ snap'[t].start < snap'[t].end
                             /\ snap'[t].paidThrough <= snap'[t].end
                             /\ Live(t)' \/ ~IsRenewal(t)' =>
                                   snap'[t].paidThrough = snap'[t].end
                        /\ IsRenewal(t)' => snap'[t] # None
      BY DEF BooksInv, RowsInTime, LedgerOfRows
    <2>2. CASE t # s
      BY <2>1, <2>2, KeptBooks
    <2>3. CASE t = s /\ KeepsPeriod(s) /\ UNCHANGED invoices
      BY <2>3, KeptBooks
    <2>4. CASE t = s /\ Starts(s)
      BY <1>1, <2>4 DEF Starts, Opens
    <2>5. ASSUME t = s, NEW k \in InvoiceIds, Pays(s, k)
          PROVE  /\ snap'[s] # None =>
                      /\ snap'[s].start < snap'[s].end
                      /\ snap'[s].paidThrough <= snap'[s].end
                      /\ Live(s)' \/ ~IsRenewal(s)' => snap'[s].paidThrough = snap'[s].end
                 /\ IsRenewal(s)' => snap'[s] # None
      <3>1. CASE IsRenewal(s)
        BY <1>1, <2>5, <3>1 DEF Pays, Opens
      <3>2. CASE ~IsRenewal(s)
        BY <2>5, <3>2 DEF Pays, KeepsPeriod, BooksInv, RowsInTime
      <3>3. QED
        BY <3>1, <3>2
    <2>6. ASSUME t = s, NEW k \in InvoiceIds, Returns(s, k)
          PROVE  /\ snap'[s] # None =>
                      /\ snap'[s].start < snap'[s].end
                      /\ snap'[s].paidThrough <= snap'[s].end
                      /\ Live(s)' \/ ~IsRenewal(s)' => snap'[s].paidThrough = snap'[s].end
                 /\ IsRenewal(s)' => snap'[s] # None
      <3>1. IsRenewal(s) /\ IsRenewal(s)' /\ snap[s] # None
        BY <2>6, NoneIsNoRow DEF Returns, IsRenewal
      <3>2. CASE Ends(s)
        <4>1. snap'[s].paidThrough \in Nat /\ snap'[s] # None
          BY <3>2 DEF Ends, IndInv, Stored, LocalOK, Snapshot
        <4>2. QED
          BY <2>6, <3>1, <3>2, <4>1, TypedBooks DEF Ends, BooksInv, RowsInTime
      <3>3. CASE KeepsPeriod(s)
        BY <2>6, <3>1, <3>3 DEF KeepsPeriod, BooksInv, RowsInTime
      <3>4. QED
        BY <2>6, <3>2, <3>3 DEF Returns
    <2>7. QED
      BY <2>1, <2>2, <2>3, <2>4, <2>5, <2>6 DEF Books
  <1>4. QED
    BY <1>2, <1>3

(* The booked time is in order throughout every behaviour.                 *)
LEMMA AlwaysBooks == Spec => []BooksInv
  <1>1. Init => BooksInv
    BY DEF Init, NoInvoice, BooksInv, RowsInTime, LedgerOfRows, IsRenewal
  <1>2. IndInv /\ TruthInv /\ BooksInv /\ [Next]_vars => BooksInv'
    BY NextIndInv, StepBooks, StepBooksInv
  <1>3. QED
    BY AlwaysIndInv, AlwaysTruth, <1>1, <1>2, PTL DEF Spec

-----------------------------------------------------------------------------
(* Paid time is invoiced. *)

(* A recorded invoice that was not returned in full, and the one a running *)
(* row is paid to.                                                         *)
Standing(s, k) == invoices[s][k] # None /\ invoices[s][k].status # "refunded"

PaidBy(s, k) == Standing(s, k) /\ invoices[s][k].end = snap[s].paidThrough

(* A booking that revives no row by its creation leaves every running row  *)
(* paid by a standing invoice.                                             *)
LEMMA BooksInvoiced ==
  ASSUME IndInv, IndInv', BooksInv, BooksInv', PaidTimeIsInvoiced, NEW s \in Subs,
         Books(s), Starts(s) => snap[s] = None \/ Live(s), Live(s)', IsRenewal(s)'
  PROVE  \E k \in InvoiceIds : PaidBy(s, k)'
  <1>1. Live(s) /\ IsRenewal(s) => \E k \in InvoiceIds : PaidBy(s, k)
    BY DEF PaidTimeIsInvoiced, PaidBy, Standing
  <1>2. CASE KeepsPeriod(s) /\ UNCHANGED invoices
    BY <1>1, <1>2 DEF KeepsPeriod, PaidBy, Standing, IsRenewal, Live
  <1>3. CASE Starts(s)
    <2>1. IsRenewal(s)
      BY <1>3 DEF Starts, IsRenewal
    <2>2. snap[s] # None /\ Live(s)
      BY <1>3, <2>1 DEF BooksInv, LedgerOfRows
    <2>3. snap'[s].paidThrough = snap[s].paidThrough
      BY <1>3, <2>2, NoneIsNoRow DEF Starts, Opens, BooksInv, RowsInTime, Live
    <2>4. QED
      BY <1>1, <1>3, <2>1, <2>2, <2>3 DEF Starts, PaidBy, Standing
  <1>4. ASSUME NEW k \in InvoiceIds, Pays(s, k) PROVE PaidBy(s, k)'
    <2>1. snap'[s].paidThrough = snap'[s].end
      BY DEF BooksInv, RowsInTime, Live
    <2>2. QED
      BY <1>4, <2>1, NoneIsNoRow DEF Pays, PaidBy, Standing
  <1>5. ASSUME NEW k \in InvoiceIds, Returns(s, k) PROVE \E j \in InvoiceIds : PaidBy(s, j)'
    <2>1. /\ KeepsPeriod(s) /\ Live(s) /\ snap[s] # None
          /\ invoices'[s][k].status = "refunded" => invoices[s][k].end < snap[s].paidThrough
      BY <1>5 DEF Returns, Ends, KeepsPeriod
    <2>2. IsRenewal(s)
      BY <1>5 DEF Returns, IsRenewal
    <2>3. PICK j \in InvoiceIds : PaidBy(s, j)
      BY <1>1, <2>1, <2>2
    <2>4. snap'[s].paidThrough = snap[s].paidThrough /\ snap[s].paidThrough \in Nat
      BY <2>1, TypedBooks DEF KeepsPeriod
    <2>5. PaidBy(s, j)'
      BY <1>5, <2>1, <2>3, <2>4, NoneIsNoRow DEF PaidBy, Standing, Returns
    <2>6. QED
      BY <2>5
  <1>6. QED
    BY <1>2, <1>3, <1>4, <1>5 DEF Books

(* As long as the webhook of its creation brings no ended row back, a      *)
(* running subscription is paid exactly to the end of a standing invoice.  *)
THEOREM PaidTimeInvoiced == Spec /\ CreationRevivesNothing => []PaidTimeIsInvoiced
  <1> DEFINE Step == \A e \in events :
                /\ e.name = "subscription_created"
                /\ snap[e.sub] # None /\ snap[e.sub].status = "expired"
                /\ Deliver(e)
                => snap'[e.sub].status = "expired"
  <1>1. Init => PaidTimeIsInvoiced
    BY DEF Init, PaidTimeIsInvoiced, Live
  <1>2. ASSUME IndInv, IndInv', BooksInv, BooksInv', TruthInv, PaidTimeIsInvoiced, [Next]_vars,
               [Step]_vars
        PROVE  PaidTimeIsInvoiced'
    <2>1. CASE UNCHANGED <<snap, invoices>>
      BY <1>2, <2>1 DEF PaidTimeIsInvoiced, Live, IsRenewal
    <2>2. CASE Booked /\ ~UNCHANGED <<snap, invoices>>
      <3>1. PICK s \in Subs :
               /\ Books(s)
               /\ \A t \in Subs \ {s} : KeepsPeriod(t) /\ invoices'[t] = invoices[t]
        BY <2>2 DEF Booked
      <3>2. Starts(s) => snap[s] = None \/ Live(s)
        BY <1>2, <2>2 DEF Starts, Live, vars, local
      <3> SUFFICES ASSUME NEW t \in Subs, Live(t)', IsRenewal(t)'
                   PROVE  \E k \in InvoiceIds : PaidBy(t, k)'
        BY DEF PaidTimeIsInvoiced, PaidBy, Standing
      <3>3. CASE t = s
        BY <1>2, <3>1, <3>2, <3>3, BooksInvoiced
      <3>4. CASE t # s
        BY <1>2, <3>1, <3>4 DEF PaidTimeIsInvoiced, PaidBy, Standing, KeepsPeriod, IsRenewal, Live
      <3>5. QED
        BY <3>3, <3>4
    <2>3. QED
      BY <1>2, <2>1, <2>2, StepBooks
  <1>3. IndInv /\ IndInv' /\ BooksInv /\ BooksInv' /\ TruthInv /\ PaidTimeIsInvoiced
        /\ [Next]_vars /\ [Step]_vars => PaidTimeIsInvoiced'
    BY <1>2
  <1>4. Spec /\ [][Step]_vars => []PaidTimeIsInvoiced
    BY AlwaysIndInv, AlwaysBooks, AlwaysTruth, <1>1, <1>3, PTL DEF Spec
  <1>5. QED
    BY <1>4 DEF CreationRevivesNothing

-----------------------------------------------------------------------------
(* Standing invoices do not overlap. *)

(* What PeriodsDisjoint rests on and the code does not give: a refund that *)
(* cuts the paid time takes none that a standing invoice covers.  A run of *)
(* the reconciliation that lasts over the end of a period breaks it: the   *)
(* refund it applies cuts the paid time back to the start of the run.      *)
RefundsCutReturnedTime ==
  [][\A s \in Subs : \A k \in InvoiceIds :
        /\ snap[s] # None /\ snap'[s].paidThrough < snap[s].paidThrough
        /\ Standing(s, k)'
        => invoices'[s][k].end <= snap'[s].paidThrough]_vars

(* No standing invoice covers time its row is not paid for.                *)
CoveredBy(s) ==
  \A k \in InvoiceIds : Standing(s, k) => invoices[s][k].end <= snap[s].paidThrough

DisjointAt(s) ==
  \A j, k \in InvoiceIds : j # k /\ Standing(s, j) /\ Standing(s, k) =>
    \/ invoices[s][j].end <= invoices[s][k].start
    \/ invoices[s][k].end <= invoices[s][j].start

LedgerInv == \A s \in Subs : CoveredBy(s) /\ DisjointAt(s)

(* A row whose ledger stays, with no standing invoice added, keeps it in   *)
(* order if its paid time is not cut below one.                            *)
LEMMA LessStands ==
  ASSUME NEW s \in Subs, CoveredBy(s), DisjointAt(s),
         \A k \in InvoiceIds : Standing(s, k)' =>
            /\ Standing(s, k) /\ invoices'[s][k].start = invoices[s][k].start
            /\ invoices'[s][k].end = invoices[s][k].end
            /\ invoices[s][k].end <= snap'[s].paidThrough
  PROVE  CoveredBy(s)' /\ DisjointAt(s)'
  BY DEF CoveredBy, DisjointAt

(* One booking keeps the ledger of its row in order.                       *)
LEMMA BooksDisjoint ==
  ASSUME IndInv, IndInv', BooksInv, BooksInv', NEW s \in Subs, Books(s),
         CoveredBy(s), DisjointAt(s),
         \A k \in InvoiceIds :
            /\ snap[s] # None /\ snap'[s].paidThrough < snap[s].paidThrough
            /\ Standing(s, k)'
            => invoices'[s][k].end <= snap'[s].paidThrough
  PROVE  CoveredBy(s)' /\ DisjointAt(s)'
  <1>1. \A k \in InvoiceIds : Standing(s, k) => snap[s] # None
    BY DEF Standing, BooksInv, LedgerOfRows, IsRenewal
  <1>2. snap'[s] # None => snap'[s].paidThrough \in Nat /\ snap'[s].end \in Nat
    BY DEF IndInv, Stored, LocalOK, Snapshot
  <1>3. CASE KeepsPeriod(s) /\ UNCHANGED invoices
    BY <1>1, <1>3, LessStands DEF KeepsPeriod, CoveredBy, Standing
  <1>4. CASE Starts(s)
    <2>1. ASSUME NEW k \in InvoiceIds, Standing(s, k)
          PROVE  invoices[s][k].end <= snap'[s].paidThrough
      <3>1. snap[s] # None
        BY <1>1, <2>1
      <3>2. snap[s].paidThrough <= snap'[s].paidThrough
        BY <1>4, <3>1 DEF Starts, Opens, BooksInv, RowsInTime
      <3>3. QED
        BY <1>2, <1>4, <2>1, <3>1, <3>2, TypedBooks DEF CoveredBy, Standing, Starts, Opens
    <2>2. QED
      BY <1>4, <2>1, LessStands DEF Starts, Standing
  <1>5. ASSUME NEW k \in InvoiceIds, Pays(s, k) PROVE CoveredBy(s)' /\ DisjointAt(s)'
    <2>1. /\ \A j \in InvoiceIds \ {k} : Standing(s, j)' <=> Standing(s, j)
          /\ \A j \in InvoiceIds \ {k} : invoices'[s][j] = invoices[s][j]
          /\ invoices'[s][k].start = snap'[s].start /\ invoices'[s][k].end = snap'[s].end
          /\ snap[s] # None
      BY <1>5 DEF Pays, Standing
    <2>2. CASE IsRenewal(s)
      <3>1. /\ snap'[s] # None /\ snap'[s].start = snap[s].paidThrough
            /\ snap'[s].start < snap'[s].end /\ snap'[s].paidThrough = snap'[s].end
        BY <1>5, <2>2 DEF Pays, Opens
      <3>2. ASSUME NEW j \in InvoiceIds \ {k}, Standing(s, j)
            PROVE  /\ invoices[s][j].end <= snap'[s].start
                   /\ invoices[s][j].end <= snap'[s].paidThrough
        BY <1>2, <2>1, <3>1, <3>2, TypedBooks DEF CoveredBy, Standing
      <3>3. QED
        BY <1>2, <2>1, <3>1, <3>2 DEF CoveredBy, DisjointAt
    <2>3. CASE ~IsRenewal(s)
      <3>1. \A j \in InvoiceIds : ~Standing(s, j)
        BY <2>3 DEF IsRenewal, Standing
      <3>2. snap'[s] # None /\ snap'[s].paidThrough = snap'[s].end
        BY <1>5, <2>1, <2>3 DEF Pays, KeepsPeriod, BooksInv, RowsInTime
      <3>3. QED
        BY <1>2, <2>1, <3>1, <3>2 DEF CoveredBy, DisjointAt
    <2>4. QED
      BY <2>2, <2>3
  <1>6. ASSUME NEW k \in InvoiceIds, Returns(s, k) PROVE CoveredBy(s)' /\ DisjointAt(s)'
    <2>1. \A j \in InvoiceIds : Standing(s, j)' =>
             /\ Standing(s, j) /\ invoices'[s][j].start = invoices[s][j].start
             /\ invoices'[s][j].end = invoices[s][j].end
      BY <1>6 DEF Returns, Standing
    <2>2. snap'[s] # None /\ snap[s] # None /\ snap'[s].paidThrough <= snap[s].paidThrough
      BY <1>2, <1>6, TypedBooks DEF Returns, Ends, KeepsPeriod
    <2>3. ASSUME NEW j \in InvoiceIds, Standing(s, j)'
          PROVE  invoices[s][j].end <= snap'[s].paidThrough
      <3>1. CASE snap'[s].paidThrough < snap[s].paidThrough
        BY <2>1, <2>2, <2>3, <3>1
      <3>2. CASE snap'[s].paidThrough = snap[s].paidThrough
        BY <2>1, <2>3, <3>2 DEF CoveredBy
      <3>3. QED
        BY <1>2, <2>2, <3>1, <3>2, TypedBooks
    <2>4. QED
      BY <2>1, <2>3, LessStands
  <1>7. QED
    BY <1>3, <1>4, <1>5, <1>6 DEF Books

(* Unless a refund cuts into time another payment stands for, no two       *)
(* standing invoices of a subscription ever cover the same time.           *)
THEOREM PaymentsDisjoint == Spec /\ RefundsCutReturnedTime => []PeriodsDisjoint
  <1> DEFINE Step == \A s \in Subs : \A k \in InvoiceIds :
                /\ snap[s] # None /\ snap'[s].paidThrough < snap[s].paidThrough
                /\ Standing(s, k)'
                => invoices'[s][k].end <= snap'[s].paidThrough
  <1>1. Init => LedgerInv
    BY DEF Init, NoInvoice, LedgerInv, CoveredBy, DisjointAt, Standing
  <1>2. ASSUME IndInv, IndInv', BooksInv, BooksInv', TruthInv, LedgerInv, [Next]_vars, [Step]_vars
        PROVE  LedgerInv'
    <2> SUFFICES ASSUME NEW s \in Subs PROVE CoveredBy(s)' /\ DisjointAt(s)'
      BY DEF LedgerInv
    <2>1. CASE snap'[s] = snap[s] /\ invoices'[s] = invoices[s]
      BY <1>2, <2>1 DEF LedgerInv, CoveredBy, DisjointAt, Standing
    <2>2. CASE Booked /\ ~UNCHANGED vars
      <3>1. PICK t \in Subs :
               /\ Books(t)
               /\ \A r \in Subs \ {t} : KeepsPeriod(r) /\ invoices'[r] = invoices[r]
        BY <2>2 DEF Booked
      <3>2. CASE s = t
        BY <1>2, <2>2, <3>1, <3>2, BooksDisjoint DEF LedgerInv
      <3>3. CASE s # t
        <4>1. \A k \in InvoiceIds : Standing(s, k) => snap[s] # None
          BY <1>2 DEF Standing, BooksInv, LedgerOfRows, IsRenewal
        <4>2. QED
          BY <1>2, <3>1, <3>3, <4>1, LessStands DEF LedgerInv, CoveredBy, Standing, KeepsPeriod
      <3>4. QED
        BY <3>2, <3>3
    <2>3. QED
      BY <1>2, <2>1, <2>2, StepBooks DEF vars, local
  <1>3. IndInv /\ IndInv' /\ BooksInv /\ BooksInv' /\ TruthInv /\ LedgerInv
        /\ [Next]_vars /\ [Step]_vars => LedgerInv'
    BY <1>2
  <1>4. Spec /\ [][Step]_vars => []LedgerInv
    BY AlwaysIndInv, AlwaysBooks, AlwaysTruth, <1>1, <1>3, PTL DEF Spec
  <1>5. LedgerInv => PeriodsDisjoint
    BY DEF LedgerInv, DisjointAt, Standing, PeriodsDisjoint
  <1>6. QED
    BY <1>4, <1>5, PTL DEF RefundsCutReturnedTime
=============================================================================
