# Uvar.si in TLA+

A verification project for Uvar.si, a meal-planning service with a yearly
Premium subscription. It models the protocols on which money, access and the
week's offers depend and checks them with TLC; the results that should hold for
every number of users, purchases, processes and pages are proved with TLAPS.

## The system

One host runs a FastAPI application (`src/app/server.py`) over one SQLite
database in WAL mode (`db_rezim.py`), a plan worker, and scripts started by
timers. Writers serialise on SQLite's write lock: `BEGIN IMMEDIATE` or a
savepoint is one atomic step, and what a request reads before it, or does after
its commit, is not. The other side of every protocol is external: Lemon Squeezy
(payments), Resend (mail), Anthropic (paid model calls), retailers' sites.

| Component | State | Operations | Interacts with | What is hard | What makes it correct |
|---|---|---|---|---|---|
| Subscription engine, `predplatne.py` | snapshot per subscription, invoices, delivery keys | one handler per provider event; access decision | webhook route, deferred queue, reconciliation | lost, repeated, reordered webhooks; fields completed from a second source | paid time is invoiced once; no stale delivery revives or hides anything; one running subscription per user |
| Reconciliation, `rekonciliacia.py` | lists fetched from the provider | hourly: lost activations, invoices, subscriptions; one-time orders | engine, alerts | lists older than the rows they meet | whatever webhooks lose is repaired or reported |
| Payments, `platby.py` | checkout attempts, founder places, one-time entitlements, deferred webhooks, payment cases | create, pair and expire attempts; grant and withdraw; put aside and replay | server, engine, provider | a place reserved, paid and counted in three tables; queue of 200 bodies | 50 places, no payment without a contract, no payment lost silently |
| Web application, `server.py` | sessions in memory only | routes, webhook intake, end of a refund | all | work after the commit | what fails after the commit leaves a trace |
| Consumer requests, `customer_requests.py` | requests, confirmation outbox with leases | create, claim, finish, recover, close on refund | mail, payments | expiry of a lease while its owner still works | one owner at a time, bounded attempts, no confirmation lost |
| Authentication, `auth_data.py` | single-use tokens, setup sessions, sessions, passkeys, reset outbox | issue, consume, revoke | server, mail | a token used twice, or after the credential changed | single use; a change of password ends what it should |
| Account data, `account_data.py` | reauthentication tokens, the account's rows | export, erase | payments, requests | erasure while a payment is under way | nothing billable or open is orphaned |
| AI cost ledger, `naklady.py` | charges, runs per week, credit flag | check, charge, reserve and release runs | worker, collectors | check and charge are two steps | a cap is passed by the calls in flight at most |
| Owner's grants, `premium_cli.py` | manual entitlements | grant, withdraw, list | payments | the same rows the payments write | a tester's access is never bought or refunded |
| Plans served, `server.py` | this week's plan per account, shared plans, daily quota, seats and flights in memory | generate, force, look, correct the profile | ledger, catalogues | read, wait, reserve, build, store: five steps and a date | nobody has more plans than his day allows |
| Plan jobs, `plan_jobs.py`, `plan_worker.py` | jobs with leases, daily counter | enqueue, claim, heartbeat, dispatch, finish | server, ledger | retired: nothing enqueues a job and the worker refuses each one | the money reserved for old jobs is set free |
| Precompute and engine health, `predpocet.py`, `server.py` | shadow matrix, its weekly row, smoke state | measure, report, switch on | collector, deployment | two processes measure, and the offers change under them | ready only on evidence for what is served |
| Plan engine, `deterministic_plan.py`, `plan_data.py`, ... | none (pure) | choose meals, aggregate purchases | catalogues | combinatorial choice, rounding | limits and amounts hold |
| Offers, `zbierac_akcii.py`, `weekly_data.py`, ... | stage, active offers, claims, calendar of leaflets read ahead, memory of failures | collect, verify, promote, read ahead | retailers, ledger | several collectors, leases, partial failures, a page that cannot be had | paid once, read in full, promoted whole |
| Receipt and landing, `refresh_blocek.py` | the published page and its fingerprint | compose, promote, write | offers, watchdog | the offers change between the snapshot and the page | what is shown is what is active |
| Payment probes and gates, `payment-smoke.py`, `payment_smoke_marker.py`, `subscription_lifecycle_probe.py` | markers of smoke and activation, runs of the probe with their facts | prove, sign, open; collect, promote, clean | provider, deferred queue, engine health | evidence that ages while the owner acts; facts out of order | nobody pays with a configuration that was not proved |
| Catalogues, legal pages | data | pure functions, rendering | | rounding | |
| Deployment and watchdog, `hetzner/` | release slots, markers, backups, state files of the watchdog | deploy, switch, roll back, watch | timers | interruption between two steps | one live release, a way back |
| Tesco bridge, browser client | none kept on the server | proxy, views | | | |

`PROJECT.json` lists them all with their status, and under `hazards` what is
hard to test, line by line.

## The modules

| Module | Models | Checked by | Proved in |
|---|---|---|---|
| `Subscription` | engine, provider, reconciliation | `MCSubscription`, `MCScenes` | `SubscriptionProofs` |
| `Requests`, abstract `Promise` | consumer requests and their outbox | `MCRequests` | `RequestsProofs` |
| `Entitlements` | one-time membership, deferred queue, hourly job | `MCEntitlements` | `EntitlementsProofs` |
| `Accounts` | passwords, sessions, tokens, passkeys, erasure | `MCServices` | `AccountsProofs` |
| `ResetOutbox`, extends `Accounts` | mails that reset passwords | `MCServices` | `AccountsProofs` |
| `Checkout` | founder places of the annual price | `MCServices` | `ServicesProofs` |
| `PlanServing` | plans, quota, cache | `MCServices` | `ServicesProofs` |
| `Costs` | AI budget, runs of the week, credit | `MCServices` | `ServicesProofs` |
| `Collection` | collectors, publisher, watchdog | `MCHost` | `CollectionProofs` |
| `LeafletRead` | one leaflet from pages to offers | `MCHost` | `LeafletReadProofs` |
| `JobQueue` | what is left of the plan jobs | `MCHost` | `HostProofs` |
| `Engine` | recipe engine: evidence, gates, rollout | `MCHost` | `HostProofs` |
| `Launch`, extends `Engine` | when the checkout opens | `MCHost` | `HostProofs` |
| `LifecycleProbe` | webhooks of the lifecycle probe | `MCHost` | `HostProofs` |

`MCServices` and `MCHost` compose components that share a host and a database
but no row the properties look at. Each has a variable `story` that says which
component moves, so one run checks several small instances and their sum, not
their product, is what TLC explores. Components that do meet are one module or
one story: `ResetOutbox` moves with `Accounts`, `Launch` with `Engine`, the
watchdog with a deployment.

### The plan

What is left, most important first:

1. `PeriodsDisjoint` from a bound on how long a run of the reconciliation
   lasts, instead of from what its refunds may cut.
2. An abstract budget that `Costs` implements, and an abstract week of offers
   that `Collection` and `LeafletRead` implement together, with the proofs.
3. The deploy state machine with its slots, its rollback and the backups.
4. The pure algorithms against reference definitions: rounding of packages,
   aggregation of purchases, the meal selection, the withdrawal deadlines.

## Module `Subscription`

Three actors share one database.

- *The provider* (external; `Sale` to `RefundInvoice`). Every operation is one
  revision of what it touches, sends the webhooks the code handles, and changes
  the resources the code fetches. Its rules come from how the code and the
  fixtures of `tests/test_lemon_webhook_fixtures.py` use them.
- *The webhook route* (`Deliver`). Any body sent so far may arrive, any number
  of times, in any order, or never. One delivery is one transaction:
  `Facts` completes the body (`enrich_provider_payload`; `lookup` says whether
  the API answered), `Process` checks its key and runs the handler.
- *The reconciliation* (`FetchSubscriptions`, `FetchInvoices`, then row by row).
  The lists are fetched one after the other and webhooks may be processed in
  between; the rows are applied in one savepoint, so nothing interleaves with
  them (`Unlocked`). The run keeps the time it started with. A crash inside it
  rolls everything back, which is the same as no run.

Each handler is a pair: `CanX(f)` says when handler X accepts delivery f, `X(f)`
what it writes. What no handler accepts is rolled back to the domain savepoint
and asks for a review: no state of the model changes and the key can be tried
again; in a reconciliation it counts as drift.

| Model | Code |
|---|---|
| `snap`, `invoices`, `processed` | tables `subscriptions`, `subscription_invoices`, `subscription_events` with status processed |
| `attempts` | `checkout_attempts`: status and `provider_order_id` |
| `latest` | the order by `updated_at` in `subscription_for_user` |
| `batch` | local variables of `reconcile_subscriptions_from_api` |
| `followUp` | `access_ended` results between the commit and `dokonci_refundaciu_predplatneho` |
| `cases` | payment cases of kind `DRUH_ZRUSIT_PREDPLATNE` |

What is abstracted, and why it changes no answer:

- The ids of subscription, order and customer are one value; bodies are genuine,
  so the code's comparisons of ids, prices, currency, variant and mode succeed.
- `updated_at` is the number of the provider's operation. Rows that are written
  at one and the same instant would tie in `latest`; the last write wins here.
- Amounts are partial or full. Reviews are the absence of an effect.
- `paused` and `unpaused` are not sent: the code sends every paused state to a
  review. Mail, alerts and portal links are left out.
- A second row for an invoice id raises an integrity error that rolls the whole
  delivery back (`Collides`): no key is stored.
- The constant `LatePairs` names purchases made after the payment window of
  their attempt; `CatchAll` says whether the provider sends
  `subscription_updated` beside the specific events.

### Bounds

`MaxTime`, `MaxOps`, `MaxInvoices`, `MaxRuns` and `MaxDelay` cap the clock, the
provider's operations, the invoices of a subscription, the reconciliation runs
and the age of a body that is still delivered. `Year = Grace = 1`, so a purchase,
its renewal and the end of its grace fit in two or three ticks. Four operations
are the shortest histories with a hazard in each place: purchase, failure,
recovery and a refund; purchase, cancellation, resumption and expiry; purchase,
renewal and two refunds. Each cfg sets `CHECK_DEADLOCK FALSE`: at the bounds of
the clock and of the provider the instance really stops.

### Runs

| Run | Instance | Shows |
|---|---|---|
| `reconcile` | one subscription over two periods, `subscription_updated` beside every event: four operations with webhooks alone, three with one reconciliation beside them; and a customer who returns: two purchases, three operations | paid time always ends with a standing invoice, periods are disjoint, a fresh row is true, invoices are final, nothing is revived without a payment and without news, with lists that are stale when applied; one running subscription per user |
| `scenes` | two stories of `MCScenes`, unbounded runs, webhooks may all be lost: one subscription and its renewal; one attempt paid twice | the provider's end of a subscription ends access; a charged subscription gives access, was returned, or is reported; each stored row has its own paid attempt |
| `refund_at_once` | one subscription, webhooks only | finding 1 |
| `refund_renewal` | one subscription, unbounded runs | finding 2 |
| `late_creation` | a customer who returns, one run, 5 operations; a state constraint keeps the search on one story | finding 3 |

`RevivedByPayment` and `RevivedByNews` except the webhook of a row's own creation
(`CreatedAgain`), the only delivery that brings back an expired row without a
payment or news: that is finding 3, and it takes more operations than `reconcile`
has. With the exception both are theorems.

The state constraints of `reconcile` leave out: a reconciliation after the third
operation or in the last period (`RunsEarly`), and of a customer who returns
(`OneOrReturning`) his renewals and the processing of `subscription_updated` and
`order_created`; his other webhooks come in any order, repeatedly or never.

Two invariants of `reconcile` hold because of these constraints. Without them
they are theorems under a hypothesis each, which says what goes wrong beyond:

- `PaidTimeIsInvoiced` fails with finding 3. A customer who returns makes four
  operations: his first subscription, stored by the reconciliation, is fully
  refunded and expires, the second is bought and ends, and only then the
  creation webhook of the first arrives. The first row runs again up to the end
  of an invoice that was refunded. `PaidTimeInvoiced` has the hypothesis that
  `CreationRevivesNothing`, which is what finding 3 refutes: it is the only way.
- `PeriodsDisjoint` fails when one run of the reconciliation lasts two periods.
  It fetches the subscriptions in the first one; then a renewal is paid and
  refunded and the next is paid, and the run applies all of it. The refund cuts the paid
  time back to the start of the run, so the next invoice is booked from there,
  over the first one. A period is a year and the timer is hourly, so
  `RunsEarly` leaves out nothing that happens, but no code forbids it.
  `PaymentsDisjoint` has the hypothesis that no refund cuts paid time a standing
  invoice covers.

### Fairness

`WF_batch(Reconcile)`: the reconciliation is started by an hourly timer and a run
has finitely many rows; every step of it changes `batch`. Nothing else is fair:
the provider may never act again, webhooks may be lost, a follow-up may never
come. In `scenes` and `refund_renewal`, `MaxDelay = 0` drops bodies that are
older than the provider's last operation, which only shortens the search.

### Findings

1. `FullRefundEndsAccessAtOnce`. The key of a refund webhook is event and
   invoice. After a partial refund was processed, the webhook of the full refund
   is a duplicate; access runs until the next reconciliation, while
   `predplatne.py:1571` says it ends at once.
2. `ReturnedStopsOrIsReported`. The full refund is committed, then the process
   dies before the renewal is stopped. The refund never reports `access_ended`
   again and the provider's unchanged row is a duplicate of one applied before:
   the provider goes on charging with no case and no drift.
3. `CreationRevivesNothing`. `_process_subscription_created` looks at the row
   `subscription_for_user` returns. When that is another ended subscription, the
   expired row of the event's own subscription is made active again.

## Module `SubscriptionProofs`

For every set of subscriptions, attempts and users, every `AttemptOf` and
`Owner`, every length of a period and every bound, from
`SubscriptionAssumption` and `NoneAssumption` (the constants have their types;
`None` is none of the values it stands beside):

- `TypeCorrect`: `Spec => []TypeOK`
- `AtMostOneLive`: `Spec => []OneLivePerUser`
- `AlwaysBacked`: `Spec => []BackedByAttempt`
- `InvoicesStayFinal`: `Spec => InvoicesAreFinal`

`TypeOK` is not inductive: the row a handler writes is well typed only because
the body names an invoice, `latest` names a stored row, a run that applies rows
has both lists, and an attempt is paid exactly when it has an order. `IndInv`
adds those facts: `TypeOK`, the provider's part (`PaymentsNameInvoice`,
`ChargedForAYear`), the tables' part (`LatestStored`, `AttemptsPaired`) and the
run's (`BatchLoaded`). There is one lemma per handler, per provider operation
and per kind of row. `StepKinds` then says that a step leaves the tables alone,
is a checkout, or processes one `Deliverable` delivery; so each of the other
theorems needs one lemma about `Process`. The argument for
`AtMostOneLive` is that `Storable` refuses a running row beside another one and
`Create` ends the previous row in the same step.

What the tables say of the provider:

- `FreshRowsTrue`: `Spec => []FreshMeansTrue`
- `RevivalIsPaid`: `Spec => RevivedByPayment`
- `RevivalIsNews`: `Spec => RevivedByNews`

A stored row can be wrong in many ways at a time: its revision may come from an
invoice, from an old body, from a list fetched before other webhooks. The
invariant `TruthInv` therefore speaks of everything that tells something of a
subscription at a revision (`Said`): the provider itself, its invoices, bodies on
their way, running rows, lists fetched by the run. One revision tells one
status, whoever tells it (`Consistent`), and nothing tells of the future
(`SaidBefore`), so a running row at the provider's revision has the provider's
status. The first invoice gives its row its own revision and leaves the status as
it is; that is true all the same, because it was paid at the lowest revision of
all (`FirstLowest`), so a row it is not stale for has that revision already.
An invoice is paid once (`PaidOnce`), recorded only when the provider holds it
(`Recorded`, `PaidHeld`), and then seen in the revision of its row
(`RecordedSeen`), so a payment that brings a row back is not in the ledger yet.
Three layers of lemmas carry it: the provider's operations say something new at
a new revision; a delivery, from a webhook, an answer of the API or a row of the
run, repeats what was said (`Heard`); and a handler writes only that
(`Believes`, one lemma per handler).

What the tables say of money:

- `PaidTimeInvoiced`: `Spec /\ CreationRevivesNothing => []PaidTimeIsInvoiced`
- `PaymentsDisjoint`: `Spec /\ RefundsCutReturnedTime => []PeriodsDisjoint`

Every delivery books at most one row (`StepBooks`): it starts the row, pays or
returns one invoice, or leaves paid time and ledger alone (`Starts`, `Pays`,
`Returns`, `KeepsPeriod`). A renewal is booked from where the row was paid to, and
a running row is paid to the end of its period (`BooksInv`), so a standing
invoice ends there unless a creation revives the row. The hypotheses are not
assumptions about the code: the first is what finding 3 refutes, the second
fails only when a refund is applied by a run that lasts over the end of a
period. Both theorems say that nothing else breaks the two invariants.

Only model-checked: the liveness properties (liveness under fairness is beyond
the prover).

## Modules `Requests` and `Promise`

A route stores a withdrawal or a complaint in one transaction and then, in a
thread, tries to send its confirmation. One background worker per process sends
whatever is due. Both claim a row for a lease, send without a lock, and finish
in another transaction; afterwards they look up when something is next due and
set the alarm that starts the worker again.

| Model | Code |
|---|---|
| `rows` | table `consumer_requests`; `due` and `lease` are the times left until `confirmation_next_attempt_at` and `confirmation_lease_expires_at` |
| `thread` | threads in `process_consumer_request_confirmation_queue`: at a claim, at the provider, before the finish, before the look-up of the next wake |
| `alarm` | `CONSUMER_REQUEST_OUTBOX_WAKE_HANDLES` |
| `accepted`, `mailbox` | the provider (external): idempotency keys it knows, mails the customer has |
| `File` (`Repeat`, `Insert`) | `_create`, `_create_subscription_request` up to the thread of the route |
| `Claim`, `Send`, `Finish` | `claim_confirmation_delivery` with the recovery of leases, `send_resend_message`, `finish_confirmation_delivery` |
| `Arrange`, `Fault`, `Wake` | `confirmation_next_wake`, `discard_outcome` and the end of the route; their failing paths; the timer's callback |
| `MarkProcessing`, `CloseForRefund` | the operator's tool; webhook and reconciliation |
| `Restart` | the process dies in any state and starts with `migruj_schemu` and the worker |

What is abstracted. Every thread of a process has the same owner name, so the
owner column tells nothing apart: the attempt does, and `CanFinish` has only it.
Times are durations, so a clock is not needed. The refund scope, classification,
texts, rate limits and the orderly shutdown are left out (a shutdown is a
restart that stops between steps). A batch is one delivery, as configured.
The provider accepts a key once, and its answer may be lost; nothing bounds how
long a sender takes. One customer is modelled: rows of several only meet in the
order in which the worker takes them. No code sets the status `resolved`, so
the model has none.

`Promise` is what the customer is promised, without leases: a request is owed,
then kept or broken once and for all; one mail; kept only when it was received.
Under the mapping `Stage` the outbox implements it: `Insert` is `File`, a first
acceptance is `Mail`, a finish is `Keep` or `GiveUp`, a recovery is `GiveUp` of
every request whose last lease expired, and the rest is a stutter. "Broken" does
not mean that no mail came: the last answer may have been the one that was lost.

### Runs

| Run | Instance | Shows |
|---|---|---|
| `confirmations` | one route and the worker, two requests about one annual invoice, two attempts, one fault or restart | one owner of a lease, one request each, `Implements`, and `Settles`: nothing that was filed is left behind |
| `restarts` | as before with two complaints of different `remedy_type` | finding 4 |

Two attempts are enough for a first and a last one; one route beside the worker
is enough for a slow sender and its successor; with two requests the alarm of
one can be moved by the other. `Lease = RetryBase = InternalRetry = 1` lets all
three end at one tick or at different ones. In `confirmations` the kinds have
different types, so `Migrates` always holds there; `Settles` says nothing of a
server that cannot start, and `restarts` is about that. `CHECK_DEADLOCK FALSE`:
after the last fault everything may be settled and no time need pass.

Fairness: threads are scheduled and `requests.post` has a timeout of 20 seconds
(`WF_vars(Step(t))`), event-loop timers fire (`Wake`), time passes (`Tick`).
Filing, the operator, refunds and faults are not fair.

### Finding

4. `Restartable`. `SCHEMA` creates `consumer_requests_one_open_idx`, one open
   request per user, order and type, and the migration drops it again further
   down, at every start. Two annual requests of one type share the order of
   their subscription: complaints with two remedies, or withdrawals from two
   invoices. The final indexes allow both. From then on the migration fails,
   and with it every start of the server, the operator's tool and the
   reconciliation, although `server.py:671` calls the migrations idempotent.

## Module `RequestsProofs`

For every set of purchases, kinds and routes, every number of requests and
attempts and every lease and delay, from `RequestsAssumption`, `NoneAssumption`
and `PowersAssumption` (powers of two are natural numbers, which the provers do
not know):

- `TypeCorrect`, `OneOwnerHolds`, `GivenUpLastHolds`, `OneRequestEachHolds`
- `OutboxImplements`: `Spec => Implements`, the refinement of `Promise`

`OneOwner` is not inductive: that the recovery of one thread's lease cannot give
the row to two follows from three facts. `LeaseHeld`: a lease that has not
expired is the one the row records, with its attempt. `Fenced`: two threads
never work for the same attempt of a request. `ThreadsOK`: an attempt that is
being delivered was counted. `MailPerKey` and `SentReceived` tie the mailbox to
the provider's keys and to "sent"; with them each action is one step of
`Promise` or none. `ThreadMoves` is the lemma all actions share that take a
delivery away from a thread. `OneRequestEach` is inductive on its own, beside
the types.

`GivenUpLast` is proved and no run checks it. Only model-checked: `Settles`.

## Module `Entitlements`

The membership that was sold once, not by the year. Its orders still arrive as
webhooks, in the provider's order list and in bodies put aside earlier, and the
same table holds the owner's manual grants. An event is one transaction
(`Process`: the key, then `Grant`, `Return` or `Nothing`); the case it asks for
is opened after the commit.

| Model | Code |
|---|---|
| `rows`, `paying` | table `naroky`, by order, and by user for provider `rucne`; `pouzivatelia.platiaci` |
| `pending` | `checkout_attempts` with status pending and time left |
| `recent`, `old` | keys in `platobne_udalosti` and hashes of finished rows of `platobne_odlozene`, before and after 180 days |
| `queue` | unfinished rows of `platobne_odlozene`, by id |
| `storing` | threads in `odloz_webhook`, before its count and before its insert |
| `after` | `_doriesit_udalost` and the complaint about an unusable event, between the commit and the case |
| `job` | `rekonciliacia.main`: the bodies it read, the orders it downloaded, the cases it has still to open |
| `Receive`, `Defer` | `platba_webhook` with payments on, and off |
| `Count`, `Insert`, `FollowUp` | `odloz_webhook`, `_zaznamenaj_platobny_pripad` |
| `Start`, `Replay` | `spracuj_odlozene` |
| `Fetch`, `Apply`, `Report`, `Finish` | `stiahni_objednavky`, `rekonciluj` with `_vrat`, the cases, `uprac_udalosti` |
| `GrantManually`, `WithdrawManually` | `udel_narok_rucne`, `zrus_narok_rucne` |
| `Crash`, `Abandon` | the web process dies; the job dies or the API does not answer |

What is abstracted, and why it changes no answer:

- Bodies are genuine and name an account that exists: signatures, mode and
  product checks succeed. The events of subscriptions are those of
  `Subscription`; a one-time order sends a creation and refunds.
- A replayed body is processed and marked in one step. The code commits twice;
  between the commits the body is one whose key is on record, which is the state
  of a webhook delivered again.
- `_vrat` reads the order's row before its transaction. Between the two, only
  another refund of the order can end the entitlement, with the same result.
- After a death of the process, `after` is gone: the key is on record, so no
  later delivery opens the case.
- A manual grant without a free place leaves a row `nad_kapacitu` that nothing
  reads; the model leaves that row out. Alerts and mails are left out.
- `on` stands for both payment switches.

`deal` fixes what does not change: who buys which order through which attempt,
which orders the API returns with a known account, whether orders must consume
an attempt (`LEMON_VARIANT_ID` is set), and whether payments are on at first.

### Runs

| Run | Instance | Shows |
|---|---|---|
| `entitlements` | two orders, one place, one body of queue, two storing threads, one tester; one buyer with one or two attempts, or two buyers; five events | places, rows, the flag and the attempts agree in every interleaving; what was ended stays ended; every payment is answered and every refund takes effect although all webhooks may be lost |
| `other_refund` | the same | finding 5 |

`MaxEvents` counts what comes from outside: payments, refunds, deliveries, the
switch, expiries, deaths and the owner. Five are two payments, two deliveries
and a refund, a grant, a death or a second delivery; the threads, the job and
the passing of 180 days are not counted. With a queue of one body, two
threads can read the count together. `CHECK_DEADLOCK FALSE` is only a safeguard: the job starts
again for ever.

Fairness. `WF_job(JobStep)`: the timer is hourly and a run is finite.
`WF_threads(RouteStep)`: threads are scheduled. `SF_recent(Age)`: time passes,
and between two runs there is most of an hour in which nothing is under way; a
refund that met no entitlement leaves a key, and only its pruning after 180 days
lets a later run end an entitlement granted after it. `PaidIsAnswered` and
`ReturnedEnds` therefore promise "in the end", not "within the hour".

### Finding

5. `OnlyOwnRefundEnds`. A refund whose own order runs no entitlement ends
   whatever the payer bought. A customer who paid twice is promised the surplus
   back (`SPRAVA_DUPLICITA_ZAKAZNIK`); when that refund's webhook arrives, the
   order that was kept loses its membership. The comment at `platby.py:1629`
   wants the fallback to leave alone what has nothing to do with the payment.

## Module `EntitlementsProofs`

For every set of orders, users and testers, every deal, capacity, queue, number
of threads and events, from `EntitlementsAssumption` (the constants have their
types; there are finitely many orders, and an order is no user):

- `TypeCorrect`, `QueueIsHeld`
- `CapacityIsHeld`, `OneEntitlementEach`, `FlagIsRight`, `AttemptsBuyOnce`
- `OrdersGrantOnce`: `Spec => GrantedOnce`

The inductive invariant `IInv` is those state properties and two more.
`ThreadsHeld`: at most `MaxThreads` bodies are being put aside. `QueueHeld`
needs it: a thread that finds room adds itself to those that insert, and there
are at most `MaxThreads - 1` others. `UsedUp`: the attempt of an order that has
a row is not pending any more, which is what makes `AttemptBuysOnce` inductive.
`OneEntitlement` and `FlagMatches` lean on each other: a grant asks
`HasEntitlement`, and a refund takes back the flag exactly when the entry it
ended was the only one. `StepKinds` sorts the
disjuncts of `Next` into six kinds: rows stay, an event grants or ends, the
owner grants or withdraws, an attempt expires.

`TypeCorrect`, `QueueIsHeld` and `FlagIsRight` are proved and not checked by a
run of their own; the run checks what they are there for. Only model-checked:
the liveness properties `PaidIsAnswered` and `ReturnedEnds`.

## Module `Accounts`

Signing in and everything that proves who somebody is. Each database transaction
is one step. A request that reads, then waits for its body, for the password
hash or for the mail provider, and writes afterwards is a row of `flight`
between its steps, and two such requests interleave.

| Model | Code |
|---|---|
| `account`, `credential`, `session`, `passkey` | tables `pouzivatelia`, `auth_credentials`, `sessions_v2`, `auth_passkeys` |
| `token`, `spent` | every single-use capability by its random id: registration, reset and setup links, setup sessions, passkey challenges, proofs for an erasure |
| `belated` | history: erased accounts that were given a passkey challenge after their erasure |
| `claimed`, `reserved` | tables `auth_legacy_setup_claims`, `magic_token_reservations` |
| `blocked` | accounts with an open consumer request or a running renewal |
| `AskRegister`, `SendLink`, `Confirm`, `UseLink` | `auth_register`, `auth_confirm`, `auth_password_reset` |
| `Login`, `LoginCommit`, `Verify`, `ChangePassword`, `SetPassword`, `Revoke`, `Logout` | `auth_password_login`, `authenticate_password_async`, `update_authenticated_password`, `auth_password_set`, `revoke_other_sessions`, `auth_logout` |
| `AskMagic`, `Reserve`, `Promote`, `Cross`, `EnterSetup`, `CompleteSetup` | `auth_request`, `reserve_magic_token`, `promote_magic_token`, `consume_magic_token`, `user_for_setup_session`, `complete_restricted_setup_password` |
| `Options`, `Enrol`, `PasskeyLogin`, `DropPasskey` | the routes `auth_passkey_*` with `consume_webauthn_challenge` |
| `ReauthPassword`, `AnswerReauth`, `ReauthPasskey`, `Erase` | `account_reauth_password`, `account_reauth_passkey_verify`, `delete_user_account` |

A credential is identified by its `changed_at`, which every write of a password
renews. Words stand for passwords: two words are the same or not. Whatever has a
time to live may be gone at any step (`Expire`); rows that expired and rows that
were deleted are treated alike because the code does. Left out: rate limits,
cookies, hash formats, the signature counter of passkeys, the migration of
sessions.

`OnlyCurrent`: a live session was made by, or stayed under, the password its
account has now, however the password changes and whatever was in flight.
`SpentStaysSpent`: a used token is never a row again, which is about the outbox,
the only place that stores a token twice.

`NoLeftoverEnters`: nothing that was given out or in flight when an account was
erased gives it a session or a way to one, but for the accounts in `belated`. A
request is authenticated (`Present`) before its body is there; the challenge or
the proof it carries is whichever the body names later, and may have been minted
meanwhile. `register/options` stores its challenge without another look at the
account (`server.py:2298`), and `register/verify` looks at the challenge alone. Of
two such requests authenticated before an erasure, the first may therefore mint
after it a challenge that the second answers: the erased account has a passkey
again, and a login by that passkey is a session of it. The exception is the
code's, and no document or test of the repository speaks of it, so it is an
observation and not a finding. The property says that there is no other way: a
proof, a setup session, a link, a hash that was verified or a passkey of before
opens nothing afterwards. The story `late` reaches the exception.

## Module `ResetOutbox`

A request for a reset stores a job with the credential it is for. A background
task claims it, derives the token from the job (again, if it was tried before),
mails it and finishes the job; a handle in memory wakes the task.

| Model | Code |
|---|---|
| `job` | table `auth_password_reset_outbox`; `due` and `lease` are times left |
| `task`, `wake` | the task of `ensure_password_reset_worker` on the event loop, its wake handle |
| `apiKey` | `RESEND_API_KEY`, which the token is derived from and which may change or be missing |
| `Enqueue`, `Claim` | `enqueue_password_reset_delivery`; `_recover_password_reset_leases` and `claim_password_reset_job`, one transaction |
| `SendMail`, `Finish`, `After` | the provider, `finish_password_reset_job`, `password_reset_outbox_next_wake` with `discard_outcome` |
| `Fires`, `Starts`, `Tick` | the timer, systemd with the clean-up at a start, the clock |

`ResetSettles`: every job ends, across refusals, restarts and changed keys,
unless there is no key, or the database failed under the task and left nobody to
wake it: the state `lost`, which the formula names because the code really is
left in it until the next request or restart. Fairness is `WF` of `Steady`: the
event loop runs its callbacks, time passes, systemd starts a dead process. The
faults are not fair and at most one happens (`MaxFaults`).

## Module `Checkout`

| Model | Code |
|---|---|
| `attempt` | table `checkout_attempts`; `reserved` is `founder_reserved_until`, `url` the provider's checkout |
| `clock`, `order` | the time against `expires_at` and the grace of a late order, and when the order was created by the provider's clock |
| `annual`, `late` | subscriptions of verified first payments; founder orders paired after their place was given up |
| `Start`, `AskProvider`, `Record` | `platba_start` with the sweep of what ran out, `create_provider_subscription_checkout` outside any transaction, `record_provider_checkout` |
| `Buy` | the customer pays (external); the provider closes a checkout by its own clock |
| `OrderCreated`, `SubscriptionCreated`, `SubscriptionEnds` | `_validate_attempt`, `_pair_attempt`, the subscription's webhooks, each late, repeated or before the other |

A founder place is counted in three places one after the other: a reservation,
a paid order, a subscription. `PlacesHeld` says that it is counted without a gap:
the founder price was paid by, or is promised to, no more than `Capacity`
customers and the orders in `late`. That exception is the code's: an order made
in time and told of after its reservation ran out keeps its price. Offers other
than the founder's and the regular price, and attempts that are not genuine, are
left out.

## Module `PlanServing`

| Model | Code |
|---|---|
| `plan`, `shared`, `used`, `repaired` | tables `plany`, `plany_zdielane`, `prepocty`, `profilove_opravy` |
| `seats`, `work` | `PLAN_MIESTA`, `_PLAN_FLIGHTS`: one operation per account and kind |
| `Generate`, `Another`, `FromPantry`, `Look` | `generuj_plan`, its two variants, `daj_plan` |
| `Seat`, `ReadDay`, `TakePlan`, `Store`, `Fail` | the thread: a seat, the date, `rezervuj_prepocet`, the two writes, `vrat_prepocet` |
| `SaveProfile` | `uloz_profil` with the one correction a day |
| `Midnight`, `Restart`, `EraseEater`, `PremiumTurns` | the date changes, the process dies, the account goes, Premium comes or goes |

`QuotaHeld`: no account is given more plans on a day than Premium has, and one
more for a corrected profile, whatever is in flight, fails or is corrected
meanwhile. Days in `swept` are excepted. `rezervuj_prepocet` deletes the rows of
every day but the one it was given, and it is given the date read before the
wait: a request from before midnight deletes today's counters. The docstring at
`server.py:1217` promises for one moment what holds for concurrent clicks of one
day. Another thing the model shows and no property forbids: an operation in
flight during an erasure stores a row of `plany` for the erased account
(`server.py:3444`).

## Module `Costs`

| Model | Code |
|---|---|
| `booked`, `runCount`, `creditRow` | tables `naklady`, `naklady_behy`, `naklady_kredit` |
| `collector` | a collector's process between its steps |
| `billed`, `silent` | what the provider billed (external); history: requests of the week that brought no answer |
| `backlog` | `active_reservations_eur`, what old plan jobs reserve |
| `BeginRun`, `SeeCount`, `ReserveRun` | the start of `main`, `rezervuj_beh`: the counter is read outside the transaction of the insert |
| `CheckBudget`, `Answered`, `CallFailed`, `CallRefused` | `s_rozpoctom`: `skontroluj`, the call, `zapis` |
| `Retries`, `Bills` | `max_retries` of the client (`zbierac_akcii.py:3882`); what a call's requests cost, the unanswered ones included |
| `Probe`, `CreditGone` | `_over_kreditovy_cooldown` with its compare-and-swap, `uvolni_beh` |
| `RunDone`, `Killed`, `RepairLedger`, `HourPasses`, `NextWeek` | the end of a run, the bounded wrapper, `oprav_kredit`, time |

Money is counted in units of the estimate; the day, the week and the month of
the ledger behave alike and the model has the week. The client sends a request
that times out or fails once more by itself. The ledger is told what the answer
used, and books an estimate for a call that failed; what the provider billed for
a request without an answer it cannot know. Such a request costs anything up to
a price in the model (`Bills`). `BudgetHeld`: what the provider bills in a period
stays under the cap but for one call of each process, and one price for each
request that brought no answer. The first overshoot is the code's: `skontroluj`
knows nothing of calls that are being answered. The second no ledger can
prevent; the property says that it grows with those requests alone, and not with
runs, retries, refusals, repairs or weeks. An observation without a run:
`uvolni_beh` gives a place back to the counter of the *current* week, although the
run may have reserved it in the week before, where `naklady.py:820` says that a
place goes back only for work that never began.

## Composition `MCServices`

| Run | Instance | Shows |
|---|---|---|
| `services` | ten stories: `words`, `links`, `erased`, `late`, `keys` are sets of routes of `Accounts`; `reset` the outbox; `checkout`; `plans`; `costs` and `weeks` the ledger within a week with a kill, and over two weeks | the types, `OnlyCurrent`, `NoLeftoverEnters`, `SpentStaysSpent`, `PlacesHeld`, `QuotaHeld`, `BudgetHeld`, `ResetSettles` |

Accounts have two users, one address, two words and two requests in flight: an
old request beside the one that makes it stale, and a second account that gets
the address of an erased one. `late` has three: the options and the answer of a
passkey ceremony, both authenticated, and the erasure between them. `MaxTokens = 3` allows a link, the entry made from
it and a rival; `MaxSessions = 2` a session and the one that must end. In
`reset`, two attempts are a first and a last one and `Lease = 2` is longer than
a retry. `Checkout` has one place and three attempts: one holding the place, one
sold after it, one in between. `PlanServing` has one account, two inputs, two
days, three operations and a limit of one, so that any plan too many shows.
`Costs` has two collectors, a price twice the estimate, a last run with a cap
above the usual and one retry; in `costs` two requests of a week bring no answer,
in `weeks` one. `InStory` narrows a story further; its bounds are in the module.
`CHECK_DEADLOCK FALSE`: at the bounds of tokens, checkouts and plans a story
really stops.

## Module `Collection`

Programs, not threads: the hourly watchdog under its lock, and a deployment or
the owner running the same collector and publisher beside it. They share one
SQLite file; a paid read of a shop is claimed by a lease.

| Model | Code |
|---|---|
| `staged`, `active` | tables `zber_staging_stav` and `akcie_staging`, `zber_stav` and `akcie` |
| `claim`, `ahead`, `tries` | tables `zber_claim`, `letaky_kalendar` with its column `pokusy` |
| `receipt` | the landing page and the fingerprint in it |
| `proc` | what each process is doing and has read |
| `fails`, `keyed`, `stopped`, `checked` | the watchdog's state files of the day |
| `wasted`, `forgot` | history: paid reads that failed for a reason of their own, and how often that memory was lost |
| the collector's steps | `prepare_store_collection`, `unchanged_structural_failure`, `claim_store_collection`, `renew_store_claim`, the read, `_require_claim_owner`, `release_store_claim` |
| the publisher's | `_staged_offer_view`, `promote_staged_week`, the page, `landing_data_is_verified_current` |
| the watchdog's | `dozorca.sh` from the shops it finds missing over the day's limit to the daily check (`check_source_changes`) and the reading ahead (`prefetch_upcoming_leaflets`) |
| `Outside` | new leaflets, the next day, outages, kills, leases that run out, the release |

What is abstracted:

- A leaflet is a version. It is the manifest's fingerprint with the content of
  the pages, so a page withheld in one run and delivered in the next makes
  another version, which is paid for again.
- The short transactions of one shop's look are one step; offers can always be
  composed into a receipt; a refusal by the budget or for credit is `GivesUp`,
  and `Costs` has the ledger.
- The keys by which the watchdog recognises the failure of one stage are the
  flags `keyed` and `stopped`. Reading ahead is one step. Reading ahead by hand
  is not modelled: it takes no claim (`zbierac_akcii.py:4347`).

`PaidAlone`: two runs pay for one shop at a time only if the lease of one ran
out, and that one no longer counts. `FailedOnce`: a leaflet nobody can read is
paid for once by each process, and once more whenever an outage or another
leaflet made the failure be forgotten, which the code does. `StagedIsPublished`:
a week whose shops are all staged is published with a receipt that shows what is
offered, unless a shop meanwhile shows a leaflet nobody can read (`Illegible`):
then a failure flag on a healthy stage keeps the watchdog from publishing it.

## Module `LeafletRead`

The reading that `Collection` takes as one paid read: pages are downloaded and
hashed, a scan chooses those with food, a cheap model reads them in batches, and
a dearer one what the cheap one cannot confirm. `reading` is the place in
`_collect_validated_flyer`; `pending`, `denied`, `lost`, `food`, `doubtful`, `priced` are
its local lists; `looks` counts the paid readings of a page; `kept` is what is
staged. Any download or call may fail, for a structural reason or a transient
one. A page stands for its offers; a download's own retries are part of the
download; the comparison of prices with the shop's own text is page by page. If
the dearer model fails, the cheap one's offers are kept and the pages without
any are passed over, as in the code.

`ReadInFull`: offers that are staged are of a leaflet that was read in full. No
more pages are missing than it may do without, a page the scan chose has an
offer or was looked at twice, and the comparison left something. The type
invariant says in addition that no page is paid for in more than three readings.

## Module `JobQueue`

At this commit `enqueue_popular_profiles` returns before it enqueues and the
worker ends every job with `EngineReplaced`, so the initial states are what an
older release may have left: jobs queued, running under a lease nobody renews,
or sent. `ClaimNext` (with `_recover_expired_leases`), `TurnDown`, `WorkerDies`
and `JobLeaseEnds` are the worker. `BacklogEnds`: the money reserved for these
jobs, which every budget misses, is set free however often the worker dies. A
worker that dies with nothing in hand changes nothing and is left out, and so is
the heartbeat row, which only the alarm reads.

## Modules `Engine` and `Launch`

| Model | Code |
|---|---|
| `offers`, `library`, `mode`, `flag` | the week's offers, the planner with its recipes, the server's mode, the file it is started with |
| `row`, `matrix` | table `recipe_engine_shadow`, its newest row; what a process is measuring |
| `smoke` | the state file of the synthetic smoke, stale after two hours |
| `Starts`, `Finishes`, `WarmStarts`, `WarmFinishes` | `run_recipe_engine_shadow`, called by the rollout and by `zahrej`: the row is reset, measured, and completed only by the run that reset it |
| `Rollout` and its undo | `recipe-engine-rollout.sh` step by step, with `rollback_off` |
| `Watch` | `skontroluj_recipe_engine` of `dozorca.sh` |
| `NewRelease`, `Collects`, `NewWeek`, `Flips`, `Fails`, `RolloutDies` | what changes the ground: a release, offers, a payment switch, a step that fails, a kill |
| `config`, `proving`, `marker`, `activation` | the environment, `payment-smoke.py` while it runs, the two markers |
| `ProveBegins`, `ProveEnds`, `Authorizes` | `payment-smoke.py` reads release and configuration when it begins, writes the marker when it ends, and signs it (`--authorize-activation`) |
| `Open` | `_runtime_payment_readiness`, as far as it depends on these |

`EvidenceMatches`: an engine that is called ready was measured on the very
offers and with the library people plan from, whichever processes measured
meanwhile. `EngineRecovers`: with payments off and offers good enough, the engine
is on and ready again and again, whatever was killed, deployed or collected.
`OpenIsProven`: nobody can pay with a configuration no full smoke went through
with, in whatever order the owner proves, signs, changes the environment and
turns the switches.

The gate `payments_off` of the script asks for both switches or for
`UVARSI_PAYMENTS_ENABLED`, which comes to the latter (`PaymentsOff`); the smoke and
the health of the engine ask for either switch.

`WarmShadow` has the hourly precompute measure too. Only the newest row is kept,
as the code reads only it. The other facts of the readiness (operator, sources,
receipt, worker) are assumed, and so is a base URL that shows health details; a
restart that fails is a failed step.

### Finding

6. `StaysOpen`. `payment_smoke_marker.py:827` says that neither time nor a new
   release may close the checkout of payments that are on, since the proofs
   cannot be renewed then. The activation indeed does not age. But
   `_recipe_gate_ready` (`server.py:5257`) asks for a fresh smoke of the recipe
   engine as well, and `run_recipe_engine_synthetic_smoke` (`server.py:5640`)
   refuses to run while a payment switch is on. Two hours later the checkout is
   closed, and `dozorca.sh:433` can only raise an alarm. The run `checkout_closes`
   is the smallest instance: one release, one configuration, nothing fails.

## Module `LifecycleProbe`

Before payments are launched a daily subscription is taken through its life in
the provider's test mode, and its webhooks are collected into a run. Facts come
in any order and more than once; what comes too early waits in the deferred
queue. `history` is the life (a constant set of them), `sent` and `queue` the
webhooks under way and put aside, `run` and `recorded` the two tables, `command`
and `seen` the owner's command: the queue, the renewal at the provider, the queue
again, row by row. `ProvenInTheEnd`: whatever the order, and however often a
webhook is repeated or the command killed, a whole life whose renewal was seen
while the subscription was alive makes the run ready. A life whose renewal was
not seen in time leaves a run that can neither be completed nor cleaned up; the
property does not cover it. Signatures, digests and formats are left out.

## Composition `MCHost`

| Run | Instance | Shows |
|---|---|---|
| `host` | seven stories: `leaflets`, the watchdog alone with last week's offers; `beside`, with a deployment; `pages`; `queue`; `engine`; `launch`; `probe` | the types, `PaidAlone`, `FailedOnce`, `ReadInFull`, `EvidenceMatches`, `OpenIsProven`, `StagedIsPublished`, `BacklogEnds`, `EngineRecovers`, `ProvenInTheEnd` |
| `checkout_closes` | `Launch` alone, everything once | finding 6 |

Two shops are one that is free and one that is paid; three versions a readable,
an unreadable and a malformed leaflet; `MaxTries = 2` so that the watchdog gives
up. Four pages make two batches in the scan and in the reading. Two jobs are one
in hand and one that waits. Two sets of offers, two weeks, two releases and two
configurations are one that is proved and one it is mistaken for. The three
lives of the probe are a full one, one that ends by failing payments, and one
too short to prove anything. `InStory` narrows each story. `CHECK_DEADLOCK FALSE`: a leaflet that is read, a
queue that is empty and a rollout that is done stop.

Fairness, one conjunct per program and only in its story: cron starts the
watchdog every hour and a program that runs goes on (`Works`, `Watches`,
`Wakes`), leases and days end (`NewDay`), systemd keeps the plan worker running
(`ClaimNext`, `TurnDown`, `JobLeaseEnds`), the rollout goes on and the watchdog
looks at the engine (`Rollout`, `Watch`), the owner repeats the command and the
provider sends (`Commands`, `Provides`). New leaflets, outages, kills,
deployments and the owner's switches are not fair, and each is bounded.

## Proofs about the components of the two compositions

The theorems are about each component's own specification (`AccountsSpec`,
`ResetSpec`, `CheckoutSpec`, `PlanSpec`, `CostsSpec`, `LeafletSpec`,
`CollectionSpec`, `QueueSpec`, `EngineSpec`, `LaunchSpec`, `ProbeSpec`), and about
`ServicesSpec` and `HostSpec`, in which every story is one of them beside variables
that stand still. They hold for every value
of the constants that satisfies the assumption the module names, which is about
types and signs but for two: `Estimate <= Price` and `Estimate <= CapDay <= CapLast`
in `CostsAssumption` are relations of the constants in `naklady.py`.
`NoneAssumption`, `NothingAssumption`, `NoPlanAssumption` and `NoJobAssumption` say
that a cell without a row is no row;
`PowersAssumption`, that a power of two is a number, which is arithmetic the
provers do not have.

- `AccountsProofs`, accounts by themselves: `AccountsHold`. A request in flight
  acts on what it read before others moved, so the invariant says what its
  reading is still worth (`FlightOK`): the session it was authenticated with
  belongs to its user while it is there (`Here`), the hash it verified is of the
  current password while the changed_at is the same (`SignsIn`), the setup
  session it holds is of its user while it is there (`SetsUp`). These survive the steps of everybody else because the
  numbers are never given twice: `TokensMove`, `SessionsMove` and
  `CredentialsMove` say so of every step, and one lemma (`FlightStays`) does the
  rest. What a request finds in its body is of the account as it is then, so the
  passkeys and challenges of accounts that are not open are an invariant of their
  own (`BelatedOK`). It survives because an erased account stays erased and an id
  is never given twice (`Stays`).
- `AccountsProofs`, with the outbox: `TypeCorrect`, `OnlyCurrentHolds`,
  `NoLeftoverEntersHolds`, `SpentStaysSpentHolds`. `Claim` stores the token of a
  job again when it is gone, used or not. What saves it is `SpentOK`: the job of
  a used token is for no credential any more, because who uses a reset link
  writes a password with a changed_at of its own (`Renewed`), an address has one
  open account at a time (`OneEach`), a job's credential was written before
  (`JobOK`), and every other kind of token has no job. `Turn` says this of every
  step of the accounts. `IInv` and `ResetInv` are inductive; the properties by
  themselves are not.
- `ServicesProofs`, checkout: `CheckoutTypes`, `PlacesAreHeld`. A sale is counted
  before and after each webhook; the step in danger is the sweep. `OpenReserved` (an open
  founder checkout holds its place), `SweptRanOut` (only what ran out is swept)
  and `LatePaid` make `PlacesHeld` inductive, by counting: what stops being
  pending is sold, or in `late`, or out.
- `ServicesProofs`, costs: `CostsTypes`, `BudgetIsHeld`. `Covers`: what was billed
  is booked, but for a price of each request without an answer. `LeavesRoom`: what is booked, with a price for each call in
  flight, is at most the bound; a check adds a call where there is room for an
  estimate, and an answer turns a place in flight into a booking. A repair is
  why `Covers` counts the rows charged for refused requests.
- `ServicesProofs`, plans: `PlanTypes`, `QuotaIsHeld`. `QuotaHeld` counts plans that
  were made; a plan is charged when it is begun and made much later, or given
  back. The counter of a day therefore covers the plans made and those being
  built for it, but for one that was given back for a corrected profile; while
  the day lasts, that correction is on record, so there is no second one
  (`Accounted`, with `RepairsPast`). `WorkHeld` bounds the limit an operation has
  read, since Premium may end between its reading and its use.
- `ServicesProofs`, side by side: `ServicesTypes`, `ServicesHold`, all the state
  invariants of the run `services` as theorems of `ServicesSpec`.
- `LeafletReadProofs`: `LeafletTypes`, `ReadInFullHolds`. `ReadSettled`: of the
  chosen pages those no longer pending have an offer or two looks. `BatchKnown`
  says of the batch in hand what is doubtful, `LooksLeft` how often each page
  was shown, which also bounds the readings by three.
- `CollectionProofs`: `PaidAloneHolds`. Whoever reads owns the claim or was told
  that its lease is over (`Paying`), and nobody's step touches another's claim
  while it is live (`Spares`). The shapes of the rows are carried along because
  an `EXCEPT` on a row of unknown shape says nothing.
- `CollectionProofs`: `CollectionTypes`, `FailedOnceHolds`, by `ReadInv`. The memory of
  an unreadable leaflet is one row of the stage, which every process reads
  before it pays and writes after. What was wasted on a leaflet is covered by
  how often the memory was lost, by the memory itself and by the processes that
  have committed to the read and will not commit again (`Tally`). `TryLeft` says
  which steps of the watchdog still have a try of the day. The proof is where
  the history `forgot` turned out to count too few losses, which the model has
  since put right.
- `HostProofs`, engine and launch: `EngineTypes`, `EvidenceMatchesHolds`, `LaunchTypes`,
  `OpenIsProvenHolds`. `RowTrue`: a complete row was measured on the offers it
  names, since only the run that reset it completes it. `SignedProven`: a marker
  or an activation names a proven configuration, because what is signed is taken
  from the marker and the marker from what the smoke read when it began
  (`ReadWhenBegun`).
- `HostProofs`, the rest: `QueueTypes` (`QueueInv`: the one worker has at most one job
  in hand), `ProbeTypes`, and side by side `HostTypes` and `HostHolds`, all the state
  invariants of the run `host` as theorems of `HostSpec`.

Every state invariant of a passing run and every action property is a theorem;
the liveness properties of these modules (`ResetSettles`, `StagedIsPublished`,
`BacklogEnds`, `EngineRecovers`, `ProvenInTheEnd`) are only model-checked, since
liveness under fairness is beyond the prover.

## Not modelled

- The meal-plan engine, the catalogues, the parsing of pages and the matching of
  offers to ingredients: sequential functions over large data. A small instance
  resembles none of it; `PlanServing`, `Engine` and `LeafletRead` take what they
  return as given, and choose it freely.
- The deploy state machine with its slots and rollback, backups, certificates and
  disk checks. A release is a change under running components in `Collection`,
  `PlanServing` and `Engine`.
- The Tesco bridge and the browser client: neither keeps state of the server's.
- Pages of the application that write one row by one transaction: shopping lists,
  pantry, feedback, profiles beside their plans. Rendering, mail texts, alarms,
  rate limits.
- Schema migrations, but for the one finding 4 is about.
- Bodies that are not genuine: every check of a signature, mode, price, currency
  or identity succeeds.

Hazards the modules do not cover: the follow-up of a payment that turns out a
duplicate when it is replayed from the queue (`platby.py:1926`); what a refunded
duplicate goes on telling the customer (`platby.py:1113`); the address of a
confirmation, read when it is claimed (`customer_requests.py:1149`); the signature
counter of a passkey (`auth_data.py:592`).

## Reading the modules

A comment `Mutant of X` marks an operator that is X with a plausible bug;
`PROJECT.json` pairs each property with a mutant that violates it. They are not
part of the model.

