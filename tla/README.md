# Verification of the dropshipping backend

TLA+ models of the backend under `src/src`, TLC runs that check them on small
instances, and TLAPS proofs about them for every instance. All paths below are
relative to `src/src` unless they start with `src/`.

## The system

A FastAPI application (`main.py`, `api/v1`), Celery workers and beat
(`workers/tasks`, `workers/celery_config.py`) and Kafka consumers
(`src/scripts/run_consumers.py`, `workers/consumers`) share one PostgreSQL
database through SQLAlchemy, one Redis and one Kafka broker. Sellers list the
products of suppliers; both connect their shops on platforms (Basalam); buyers'
orders come in through the API, by webhook and by polling; sellers pay orders
from a wallet that is filled through a payment gateway (Zarinpal); suppliers are
paid from an escrow some days after delivery.

Facts about the runtime that all models rest on:

- One request or task is one database session. `get_db` (`api/deps.py:31-41`)
  commits when the endpoint returns and rolls back when it raises;
  `UnitOfWork` (`core/repository/unit_of_work.py`) does the same at the end of
  its block. Nothing sets an isolation level: transactions run at READ
  COMMITTED.
- Sessions autoflush, do not expire objects on commit, and keep an identity map:
  a row read twice is the object of the first read, with its old values, even
  when the second read takes the row lock (`core/database.py:38-42`).
- Every process may die at any await. Docker restarts it
  (`restart: always`); Celery redelivers a task (`acks_late`), Kafka redelivers
  from the committed offset.

### Components

| Component | State it keeps | Operations | What makes it correct |
|---|---|---|---|
| Orders and inventory reservations (`domains/orders`, `domains/inventory`, `api/v1/orders.py`) | orders, items, inventory and reserved counters, reservations | create, confirm, mark paid/shipped/delivered, complete, cancel, forced cancellation, cleanup of expired reservations | no unit sold twice or kept for nobody; counters agree with reservations; orders follow their state machine |
| Payments, wallet, escrow (`domains/payments`, `api/v1/payment.py`, `integrations/payment`, `auto_confirm_deliveries`) | wallet transactions, payments, payouts, disputes | deposit, gateway callback, pay from wallet, auto confirm and pay out | an order is charged once; only accepted deposits are money; payouts are funded, made once, and after the dispute window |
| Kafka consumers (`workers/consumers/base.py`, `core/events/publisher.py`) | offsets, retry and dead letter topics | publish, poll, process, commit, retry, dead letter | at least once, nothing forgotten, everything settled in the end |
| Incoming webhooks (`api/v1/webhooks.py`, `integrations/webhooks`) | webhook events, processed marks, Redis keys, retry schedules | verify, deduplicate, store, process, schedule a retry | a webhook takes effect once; what was acknowledged is stored |
| Outgoing webhooks (`integrations/notification/adapters/webhook.py`, `workers/tasks/outgoing_webhook_retry.py`, `api/v1/webhook_health.py`) | delivery logs, Celery queue, dead letter rows | send, retry with back-off, dead letter, manual retry | nothing to check: no code path creates a delivery log |
| Order synchronisation (`workers/tasks/order_tasks.py:56-354`) | orders and their items, `OrderCreated` events | poll the platform, create or move orders | no order of the platform is missed, none is created twice |
| Product synchronisation (`integrations/basalam`, `workers/consumers/product_sync_consumer.py`, `product_tasks.py`) | supplier products and variants, sync state, sync jobs | full and delta sync | after a sync every change of the platform is stored or will be fetched again |
| Stock writers (`domains/inventory/service/sync_service.py`, `api/v1/inventory.py`, `api/v1/admin.py`) | inventory counters, logs, reconciliations | set, adjust, force, reconcile | a write does not undo a consumption that happened meanwhile |
| Shop integrations (`domains/shops`, `api/v1/shops.py`) | integrations with their tokens, OAuth states in Redis, webhooks registered at the platform | connect, OAuth start and callback, disconnect | one connected integration for a shop, one shop for a vendor; an abandoned flow does not block; no webhook is lost |
| Accounts and sessions (`api/v1/auth.py`, `domains/accounts`) | accounts, one-time codes and the token blacklist in Redis | register, login, refresh, logout, reset password | a refresh token and a code work once |
| Products, listings, pricing, validation (`domains/products`, `domains/pricing`, `domains/product_validation`) | products, listings, price rules, moderation results | list, price, validate | the price covers cost; a forbidden product is not listed |
| Shipping, notifications, administration, monitoring | shipments, notifications, audit and integration logs | create shipment, confirm delivery, notify, moderate | delivery is reported once |

### How they interact

- HTTP requests call the services directly; each service writes through
  repositories into the request's session.
- Orders reserve stock when created, consume it when marked paid
  (`transition_status`) and release it when cancelled; wallet payments mark an
  order paid without touching the reservation; the beat task
  `cleanup_expired_reservations` releases what is overdue.
- Five writers move an order: the order endpoints, wallet payments, the platform
  (`order_sync`, webhook processors), administrators, and
  `auto_confirm_deliveries`. They share the order row and nothing else; only
  the wallet payment locks it when it reads.
- Services publish events to Kafka, several of them before their commit
  (`reservation_service.py:144`, `shipping.py:152`). The domain consumers write
  notifications, logs, shipments and pending payouts. `TopicRouter`
  (`core/events/publisher.py`) sends several events to topics nobody
  subscribes to, so consumers change less than their number suggests.
- Celery beat (`workers/celery_config.py:74-107`) starts the cleanup every
  300 s, order synchronisation 120 s, webhook retries 60 s, automatic
  confirmation 3600 s, reconciliation 900 s, product synchronisation 1800 s.

### What is hard here

Sessions that overlap at READ COMMITTED with check-then-act on unlocked reads;
objects that the identity map keeps stale; commits split over several sessions
within one request; deadlocks between operations that take row locks in
different orders; redelivery by Kafka, Celery and the platforms; process death
between two commits; rebalances; deadlines that race with payments. Each is
listed with its line under `hazards` in PROJECT.json, with the properties that
watch it or the reason why none does.

## The modules

| Module | What it is |
|---|---|
| `OrderLifecycle` | the statuses of an order and `VALID_TRANSITIONS`; shared by `OrderInventory` and `Payments` |
| `StockLedger` | abstract: units of stock promised, given back, sold and written off, by one transaction at a time |
| `OrderInventory` | orders, reservations and stock at the grain of database statements; implements `StockLedger` |
| `Escrow` | abstract: accounts of deposits, charges and payouts, moved by one transaction at a time |
| `Payments` | wallet, gateway, escrow, and everything that moves an order as far as payment goes; implements `Escrow` |
| `Delivery` | abstract: at-least-once delivery with dead letters |
| `KafkaConsumer` | the consume loop, its broker, rebalances and crashes; implements `Delivery` |
| `IncomingWebhook` | the webhook endpoint, concurrent deliveries, Redis and database marks |
| `ShopRegistry` | abstract: the rows and secrets of connections, each created, connected and removed whole |
| `ShopConnections` | connecting and disconnecting shops: rows, OAuth states, webhooks at the platform; implements `ShopRegistry` |
| `ProductSync` | full and delta synchronisation of a shop's products, and their job rows |
| `StockWriters` | one variant's inventory: orders against adjustments, overrides, forced updates, webhooks |
| `OrderSync` | polling orders of the platform, in one transaction for all shops |
| `MC*` | instances for TLC |
| `*Proofs` | inductive invariants and theorems |

`OrderInventory` and `Payments` overlap in what moves an order on purpose: the
first has the stock and its row locks and knows a payment only as a status
change, the second has the money and knows an order only as status and
timestamps. Their product would be too large to check and the two meet in one
row, whose writers both modules have. In the same way `StockWriters` has the
operations of the orders on a variant as a reading and a writing step each, and `OrderSync` knows an
order by its rows and its status at the platform.

## Proved and only checked

Proved for every value of the constants: the theorems listed in PROJECT.json,
from the named assumptions on constants in the modules (`ItemAssumption`,
`BoundAssumption`, `MessageAssumption` and their like), which TLC evaluates on
every run. Every invariant and action property of a run that passes has its
theorem. Some properties are broken by sessions that overlap. History variables
then name the very orders, variants, wallets, deposits or shops that two sessions
had in hand at once (`contested`, `raced`, `crossed`), the properties hold of all
the others, and that is proved with no assumption on what overlaps elsewhere.

Only model-checked: the liveness properties (`RequestsEnd`, `ExpiredIsFreed`,
`WindowEnds`, `EventuallySettled`, `DuplicateIsSettled`, `JobsEnd`, `CatchesUp`,
`OrdersArrive`, `StatusFollows`), since fairness and ENABLED are out of the
prover's reach. Four of them rest on a part that is safety, and that part is proved:
`RequestsEnd` on never having everyone wait for everyone (`SomeoneGoesOn` of the
orders), `JobsEnd` on a job being done or still in somebody's hands
(`JobsAreAccounted`, and `SomeoneGoesOn` of the product synchronisation),
`EventuallySettled` on the consumer always having a step (`SomeoneGoesOn` of
Kafka) and on commits that only grow (`CommitsOnlyGrow`), `DuplicateIsSettled` on
a duplicate being answered only when its original is stored or still being handled
(`DuplicateIsAccounted`). `SomeoneGoesOn` names the condition under which some
action is enabled; that it is that condition is seen from the guards, not proved,
because ENABLED is beyond the prover.

## OrderInventory and StockLedger: orders and the stock they reserve

Models `OrderService` (create, transition, cancel), `ReservationService`
(reserve, release, consume), the inventory and reservation repositories, the
order endpoints that call them, the `cleanup_expired_reservations` task,
`force_cancel_order` of the administrators, and what
`PaymentService.pay_order_from_wallet`, the poll of the platform and the order and
payment webhooks do to the order.

**State.** The database as committed: `inventory`, `reserved`
(`supplier_variants.inventory`, `.reserved_inventory`), `reservation` (the
status of the one reservation an order item ever has), `expired` (which
reservations are past `expires_at`), `status` and `paidAt` of the orders. Per
session (one API request or one task, with one SQLAlchemy session and one
PostgreSQL transaction at READ COMMITTED): the operation, its order, the status
it read (`from`) and will write (`to`), what it still has to look at (`todo`),
the reservations it found active (`active`), the items it has processed
(`done`), and the row locks, which follow from `done` and `row`. History variables,
which no guard reads: `taken`, the items consumed so far; `leaked`, the items a forced
cancellation has marked released; `paidOutside`, the orders a wallet or the
platform has paid;
`contested`, the orders two sessions have worked on at once (requests for the order,
or a cleanup with one of its items in hand); and `raced`, the variants two
create_order requests have wanted at once.

**Actions and code.** `StartCreate`, `ReserveItem`, `ReserveFails` and
`CommitCreate` are `create_order`; `StartCancel`, `FindActive`, `Apply`,
`UpdateOrder`, `RejectCancel` and `CommitStatus` are `cancel_order`, and the same
steps in the order of `transition_status` are a status change; `StartCleanup`,
`Apply` and `CommitCleanup` the task; `StartWallet`, `WalletRefused` and
`CommitWallet` the wallet payment; `StartForce`, `UpdateOrder` and `CommitForce`
the forced cancellation, whose one UPDATE marks the reservations released and
leaves the counters; `StartReport`, `UpdateOrder` and `CommitReport` whatever sets the
status it is told (`order_tasks.py:252`, `processors/order.py:91`,
`processors/payment.py:91` and `:112`), with no table and no stock. Each order that a
poll moves is a session of its own in the model, although the poll commits them
together. `auto_confirm_deliveries` (`order_tasks.py:425`) is a transition from
delivered to completed.

**Grain.** One action per database statement that another session can
interleave with: the unlocked reads at the start of a request, each
lock-and-update of a variant row, the UPDATE of the order row, the commit. A
session's own writes are in `done` and become visible at its commit; that is
sound because the variant rows stay locked until then and the counter updates
are relative (`reserved_inventory = reserved_inventory + :q`). Where the code
decides on an object that the identity map returns instead of the row it has
just locked, the model keeps the value of the first read: `pinned`/`seen` in
`create_order` (only the last variant read is still referenced when the
reservations start, so only its object survives in the weak identity map), and
`active`, which is decided once and never looked at again, in release, consume
and cleanup.

**Assumptions about the environment.** PostgreSQL row locks, READ COMMITTED,
deadlock detection with one victim (`Deadlocked`, `DeadlockAbort`); the lazy
load of `variant.product` in `create_order` is a plain read; the supplier
variant ids used by reservations and the variant ids of order items name the
same variants, as `create_order` passes one for the other. Order history, audit
records, events, shipments, prices are left out: no property is about them.

**Properties that hold, however sessions overlap.** `NoReservationLeak`: a reserved
counter never exceeds what live reservations ask for and forced cancellations have
left behind, which is exactly what `force_cancel_order` breaks (it releases the
reservations and leaves the counters). It is checked in the run `order_inventory`:
two orders that want the last unit of a variant, every operation but the wallet's
(which takes no stock and is in `order_live`), any number of deaths. `StockConservation`, that no item is sold twice, is proved and in no run,
since `KeepsLedger` below has it. Run `order_live` (one order for two units; cancel
locks variants then the order, mark-paid the order then variants, so that they
deadlock; wallet payments and reports that an order is paid, no forced cancellations):
`PaidIsSettled`, of the orders that neither a wallet nor the platform has paid,
`RequestsEnd` and `ExpiredIsFreed`.

**Properties of what is not contested.** The docstrings promise more, and the code
keeps it for an order, or a variant, that sessions leave to one another, whatever
happens elsewhere at the same time:

- `ReservedExact`: the counter of a variant is exactly what its live reservations
  and the leaked items ask for, if no order that asks for the variant was contested;
- `PromisesKept`: no more of a variant is promised than there is, if no two
  create_order requests wanted it at once: whatever cancellations, payments, cleanups
  and forced cancellations run meanwhile only give units back;
- `FollowsLifecycle` and `SettledStays` (proved, in no run): the status of an order
  that was not contested moves along the state machine, or by a wallet or an
  administrator, or to what the platform reports, and its reservations are settled for good.

**What it all amounts to.** `StockLedger` has the counters, the reservations and
what became of each item, and no sessions: one transaction promises an order all it
asks for or nothing (`Promise`), gives items back (`GiveBack`), sells all that an order
still holds and nothing twice (`Sell`), or marks what it holds released and leaves it
in the counter, as `force_cancel_order` does (`WriteOff`). Every counter moves by
exactly what is marked. `KeepsLedger` says that each commit of `OrderInventory` is one
such transaction and every other step, a crash in the middle of a cleanup included,
changes nothing: what a session collects in `done` takes effect as a whole. `InHand`
and `Promise` name the excuses: items of a contested order may be settled although
they no longer are reserved, and a raced variant may be promised beyond what there is.
`Sell` has no excuse for an item sold before.

Without the antecedent each of the properties above fails: run `order_oversell` keeps the trace for
`NoOversell`; two sessions that settle one reservation both subtract it
(`ReservedExact`, `SettledStays`), and two transitions validated on one stale status
leave a terminal status (`FollowsLifecycle`). Run `order_paid_released` is a
one-session trace in which a paid order's stock goes back to sale. The two runs are
findings of PROJECT.json.

**Bounds.** Two sessions are enough: each broken property needs exactly two
and the locks serialise a third behind them. No order of these runs is refused
after a part of it was reserved (three items, with every operation, are more than
ten million states): that case is left to the theorems, which remove the
bound. `Ops`, `Target` and `Reported` bound what is started, `Mortal` what may die (in the first
run a create, a cancellation or a cleanup; the deaths of the others add no state); the symmetry
of `order_inventory` exchanges the sessions, and the two orders with their items. That run
does not go on from a state in which requests have overlapped on both orders (its
constraint `SomeUndisturbed`): of such orders only `NoReservationLeak` and parts of the
others still speak, and the theorems, which have no such bound, cover them. The
deadlock checking of TLC is off because the system may stop when every order
is final.

**Fairness.** Strong fairness of `Step(s)`: a request whose next statement
waits for a lock gets it, since PostgreSQL queues lock requests, and a
transaction that is runnable runs. Strong fairness of starting the cleanup:
celery beat sends the task every 300 s. Nothing is assumed about users.
Where the items of an order have several variants, requests for a cancelled order
repeated without end can make the cleanup the victim of a deadlock each time, so
`ExpiredIsFreed` is checked, and claimed, for orders whose items share a variant.

**Proofs** (`OrderInventoryProofs`). `TypeOK` is not inductive alone: that a
commit writes the status of a real order needs to know what each session may
be working on. The inductive invariant is `TypeOK /\ Structure`; `Structure`
says which locks, items and orders each kind of session may hold, that a
session creating an order is alone with it, that items of an uncommitted order
have no reservation, that an order row has one lock holder, and that what is
about to be consumed has not been taken (`TakenIsSettled`, `ConsumesOnce`).
From it: `TypeCorrect`, `Conservation` and `NoLeak` for every number of sessions,
orders, items, variants and every quantity, and `PaidSettled` with the strengthening
`PaysWhatItSettles`. The counters are compared through lemmas on amounts
(`UnitsFinite`, `AmountUnion`, `AmountDifference`, `AmountMonotone`), which is why a
quantity is a set of units: a cardinality can be reasoned about without induction.

A second invariant, `Undisturbed`, says what a session knows of an order that no
other works on: it is alone with it (`OneAtWork`), its items in hand are still
reserved (`SettlesReserved`) and its status is the one that was read
(`StatusIsCurrent`). Two lemmas carry it: a session that begins finds out whose work
it joins (`Joins`), and a commit changes only its own orders and their items
(`ChangesItsOrders`). From it follow `CounterIsExact`, `SettledForGood` and
`LifecycleFollowed`. `KeepsPromises` needs a third argument: the units free to be
promised never fall but by the commit of a create_order that wants them
(`FreeSteps`), so the availability that create_order remembers, stale as it may be,
is never too high (`PromisesCovered`). `NeverOversells` joins the two: then the live
reservations, and not only the counter, are covered by the inventory.

`ImplementsLedger` is the refinement. Its map is the identity on what is committed, so
the work is in the guards of the ledger: `Promise` needs that create_order commits all
of its items (`WholeOrders`) and that what it promised is still there (`CoveredHolds`,
`KeptInductive`); `Sell` that mark-paid has in hand everything the order holds
(`PaysWhatItSettles`) and nothing that was taken (`ConsumesOnce`); `GiveBack` that an
uncontested item in hand is reserved (`SettlesReserved`). Steps between commits map to
an overlap at most (`OverlapsOnly`), and `SameAmount` says that both count alike.

`SomeoneGoesOn` is as much of `RequestsEnd` as is a matter of safety: in every
reachable state in which sessions are at work, one of them has a step to take
(`Ready`, the guards of `Step` without those of the deadlock's victim), or all of them
are `Deadlocked`. A session that cannot go on waits for a lock (`WaitsForSomeone`), and
who holds one is at work; so if nobody can go on, the sessions at work are a set of
which each waits for another, which is what PostgreSQL looks for.

`TypeOK`, `StockConservation`, `SettledStays` and `NothingOversold` are proved and in
no run. None of the
theorems excludes an operation. Only model-checked: the two liveness properties.

## Payments and Escrow: wallet, gateway and escrow

Models `initiate_wallet_deposit` and `payment_gateway_callback` with the Zarinpal
provider, `pay_order_from_wallet`, `auto_confirm_deliveries`, and every writer of
an order's status: the order endpoints, `order_sync`, the order and payment
webhook processors, and `force_cancel_order`.

**State.** `deposit` (the status of each wallet deposit), `payments` (who was
charged for each order, in sequence), `payouts`, and of an order its `status`,
whether `paid_at` is set, and how long ago `delivered_at` was (`delivered`).
`accepted` is what the gateway knows. A session has an operation (`op`), the
deposit, user and order it works on, and what it has loaded.

**Grain.** A session is a start, which reads and validates, and a commit, which
writes. Its statements in between touch rows that nobody can see before the
commit, and the only lock that matters is the row lock `pay_order_from_wallet`
takes when it reads the order: `RowFree` makes every other UPDATE of that row
wait. A call of the gateway is a step of its own, since callbacks and
cancellations overlap with it. `"moving"` is a status change that also stamps
`paid_at` or `delivered_at`, `"marking"` one that does not: webhooks and
administrators leave the timestamps alone. `auto_confirm_deliveries` locks
the rows one by one; `CommitConfirm` merges that, which is sound because it
waits while any of them is locked, reads the payments under the lock, and writes
nothing that depends on what it has read of another order.

**Details of the code that the model keeps.** `verify_payment` counts -21 as
success besides 100 and 101, so a second verification of an accepted deposit is
answered with success (`Accept`). A refused or cancelled deposit is failed only
if it is still pending when looked up, but the write is an UPDATE by primary key
of what was read (`CommitDeposit`). An order created by `order_sync` in status
delivered has no `delivered_at`. An order whose event cannot be published is
completed without its payout (`unpublished` in `CommitConfirm`). An order with
several payments would raise in `scalar_one_or_none`; `HasPayment` pays nothing
then, and `ChargedOnce` shows that it does not happen.

**Properties that hold however sessions overlap**: `ChargedOnce`,
`CreditedIsAccepted`, `WindowEnds`, and `PayoutIsFunded`, which is proved and in no
run.

**Properties that hold of what has not been contested.** Nothing locks a wallet, a
deposit or, outside `pay_order_from_wallet`, an order, so three properties say
exactly which overlap can break them. History variables, set when a session begins
(`Begin`), name the victims: the deposits two sessions worked on at once
(`crossed`), the users two payments charged at once (`raced`), the orders two
sessions had in hand at once (`contested`) and those the platform or an
administrator moved (`overruled`). `NoOverdraft` holds of every other wallet (the
balance is a SUM nothing locks; two overlapping payments for two orders overdraw
it), `DepositsStay` (proved, and in the run as part of `KeepsAccounts`) of every
other deposit (an overlapping refusal overwrites a
credit), and `PayoutOnce` of every other order (two overlapping runs of the task pay
twice; so does a platform that reports a completed order as delivered again),
whatever overlaps elsewhere meanwhile.

**What it all amounts to.** `Escrow` is the specification a reader of the accounts
needs: it knows no sessions, locks, statuses or gateway, and its only steps are
`Credit`, `Withdraw`, `Charge` and `PayOut`. Each says what it keeps to (an order is
charged once and to a wallet that can afford it when the charge is committed, only
charged orders are paid out, once; a credit is not withdrawn) and which overlap, on
the same deposit, wallet or order, excuses it. `KeepsAccounts` says that `Payments`
implements it, with `credited <- {d : deposit[d] = "completed"}`,
`charges <- payments` and `disturbed <- contested \cup overruled`: every commit maps
to one of these steps or to none, whatever the sessions around it have read. It
includes `ChargedOnce`, `PayoutIsFunded`, `PayoutOnce` and `DepositsStay`, and says
more than the sum of them, since it is about each step and not about states alone:
a wallet that is not overdrawn because a deposit arrived in time could still have
been charged too early.

One cutoff of 72 hours serves all orders: the seven days that
`domains/payments/models.py:12` gives a high-value order are written to
`dispute_window_ends_at` and not read, so the model has no second deadline.

**Bounds** (run `payments`). Two sessions, one wallet whose deposit can pay for
either of two orders but not for both, one report of the platform or an
administrator (`MaxReports`, the only counter), and crashes of every operation but
the confirmation (`Mortal`): a task that died for ever would confirm nothing, and a
confirmation that dies leaves the database as it found it. The platform reports
`delivered`, the report that both stamps a time and takes an order back. That two
wallets are not charged for one order is left to the theorem.

**Fairness.** Weak fairness of a session's steps; strong fairness of starting
`auto_confirm_deliveries`, which beat sends every hour, because other tasks may
occupy the worker in between. `WindowEnds` needs nothing else.

**Not claimed.** That a paid order which is cancelled is refunded
(`refund_to_seller` has no caller), that a completed order was paid out (the
`complete` endpoint and a failed publication both prevent it), that a disputed
order keeps its escrow (nothing reads disputes when paying out).

**Proofs** (`PaymentsProofs`). The inductive invariant adds to the three
properties: `WorksOnItsDeposit` (who credits has an accepted deposit),
`PaysAlone` (two sessions that pay hold different orders, and the order of a
payer is unpaid), `MovesAnOrder`, and `ChargedIsPaid` (a charged order has
`paid_at`). The last is the heart: `paid_at` is never cleared, so whatever
moves the status, a second payment request is refused. Theorems:
`TypeCorrect`, `ChargesOnce`, `CreditIsAccepted`, `PayoutsAreFunded`, for any
number of sessions, users, deposits and orders. Three more invariants say what a
session knows when it commits, of what nothing else has touched: its deposit is
still pending and nobody else works on it (`DepositsInHand`), an order whose
suppliers were paid is completed and no session is about to move it or to pay them
again (`OrdersInHand`), and the wallet it charges is charged by nobody else and can
still afford the order (`WalletsInHand`). From them follow `CreditStays`,
`PaysOutOnce` and `NoWalletOverdrawn`, with no assumption on the sessions that work
on other deposits, orders and wallets; `HistoryGrows` is the lemma that makes them
inductive, since what is clean after a step was clean before it.
`ImplementsEscrow` puts them together: at a commit each says that the guard of the
abstract step is met (`DepositMaps`, `PayMaps`, `ConfirmMaps`), and every other step
touches no money (`OverlapsOnly`).
The sums of `get_balance` are counts of units of
money (`Credited`, `Charged`), so that what a deposit or a payment does to a balance
follows from the cardinality of disjoint unions, with no induction over a sum
(`PaymentTakesCost`, `DepositsAdd`). Only `WindowEnds` is left to the run, being
liveness.
## KafkaConsumer and Delivery: the consume loop

`KafkaConsumer` models `DLQAwareConsumer` (`workers/consumers/base.py`), the loop
every Kafka consumer runs, as started by `scripts/run_consumers.py` in several
replicas, and `EventPublisher.publish` as the source of messages.

**State.** Of the broker: the entries of each partition (`log`; an entry is a
message and its `retry_count` header), the group's committed offsets, the owner
of each partition, the dead letter topic. Of a consumer: where it is in its
loop (`phase`), how far it has fetched each partition (`position`), the message
in hand. History: what was sent, how often each message failed, what was
processed.

**Actions.** One per await of the loop: `Poll`, `Process`/`ProcessFails`,
`Commit` with its three outcomes (`CommitSkipped` for `CommitFailedError`,
`CommitError` for any other error, which the shared `try` turns into a failure
of the message), `Route` (retry below `max_retries`, else dead letter) and
`RouteError`, after which `consume` re-raises, stops its clients and ends
(`phase = "ended"`). `run_consumers.main` only waits for a signal, so an ended
consumer stays ended while its process lives; a process that dies is restarted
by docker (`restart: always`), which is `Crash` and `Start`. External: partition
assignment at the committed offset, rebalances at any point, commits of the
positions of the partitions still owned.

**Properties.** Run `kafka_delivery`: `NoLoss`, and `DeliversAsPromised`, the
loop refines `Delivery`, at-least-once delivery with dead letters after more
than `MaxRetries` failures; and `EventuallySettled`: every message is processed or
dead-lettered in the end, unless failures to route a message have ended the loop
of every consumer. In that case messages stay unprocessed while all processes
are up, although `src/openspec/changes/basalam-dropshipping-platform/specs/webhook-reliability/spec.md:49`
says "The system SHALL move permanently failed webhooks to DLQ". Nothing is
claimed about order: a retried message comes back behind those that followed it.

**Bounds.** One partition of each topic: offsets of different partitions do not
interact except through `commit()`, which covers the topic and the retry topic
together. Two processes, so that a partition can move in mid-processing and
back; two faults, so that a crash can follow a rebalance or a failed commit, or
both loops end; one message, which its retries follow in the log, with
`MaxRetries` 2. The theorems have none of these bounds. Deadlock checking is
off: the system may stop when all messages are settled.

**Fairness** (`FairSpec`). Weak fairness of the loop's steps and of restarting a
process; strong fairness of assigning a partition and of polling, since
rebalances may interrupt both, though only `MaxFaults` times. No fairness of
processing succeeding.

**Proofs** (`KafkaConsumerProofs`). The inductive invariant is `TypeOK`,
`HandMatches` (a busy consumer holds an entry of the log whose message has
failed at least as often as it says), `EntriesEarned` (the same of every entry),
`OffsetsBounded` and `NoneForgotten`. The last is the strengthening of `NoLoss`:
that a message is ahead of the committed offset says nothing about the next
commit of the partition's owner, so an entry is *live* when it is uncommitted
and its owner has not fetched it, or holds it undecided. Theorems: `TypeCorrect`,
`NothingLost`, and `ImplementsDelivery`, the refinement: `Publish` is
`Delivery!Publish`, `Process` is `Handle`, a failure is `Fail`, routing to the
dead letter topic is `GiveUp`, everything else a stutter. With `OwnersAhead` (a partition
belongs to a live consumer that reads ahead of the committed offset) follow two
more: `CommitsOnlyGrow`, no commit takes an offset back; and `SomeoneGoesOn`, the
safety core of `EventuallySettled`: the loops come to rest only when every message
is settled or routing failures have ended all of them. That fairness then settles
each message is only model-checked.

## IncomingWebhook: the endpoint the platforms call

Models `receive_webhook` (`api/v1/webhooks.py:284-492`) with the security chain,
`IdempotencyManager`, the `webhook_events` row, the processors' outcome and
`RetryScheduler`.

**State.** Per request: the body it carries (`message`), where its handler is
(`phase`), what the platform was told (`answer`) and the status of the row it has
committed (`row`). Shared: `marked` (`processed_events`), `cached` (Redis keys).
`applied` is history: requests whose processor has committed its effect.

**Actions and code.** `Receive` and `Reject` stand for the lookup of the
integration and the chain of IP, rate, timestamp and signature checks, which
either pass or do not. `IsDuplicate`/`IsNew`: Redis first, then the database;
a Redis failure falls through to the database. `Create`/`CreateFails`: the INSERT
and its commit, one step, because an uncommitted row is invisible and a second
INSERT of the same id waits for that commit and then fails on
`uq_webhook_platform_event`. `MarkCache`, `MarkRecord`: `mark_processed` runs
before the webhook is processed, in a session of its own. `Handle`: the
processor commits in its own session and returns True; the handler then calls
`update_status` with a string where an enum is used, and again with an unknown
argument in the except branch, so the request ends with 500 and the row stays
"received". `Refuse`, `Schedule`: the processor returns False, the event becomes
"retrying" and gets a row in `webhook_retry_schedules`. `Evict`: Redis loses a
key or its 24 hours are over. `ProcessorFails`: the processor works in the handler's
own session; when its `UnitOfWork` rolls back, `webhook_event` is expired, and reading
its id raises where the retry would be scheduled (`webhooks.py:456`) and again in the
except branch (`:465`). The platform is answered 500, the row stays "received", and
since the event is marked already a redelivery is answered as a duplicate.

**Details the model keeps.** The event id comes from the body only: the header
lookup asks a lower-cased dictionary for capitalised names. A body without an id
gets a fresh one, so it is never a duplicate. A numeric id (Basalam sends its
event type as `event_id`) does not fit the VARCHAR column: `Numeric`.

**Properties** (run `webhook_incoming`). `AppliedOnce`: a webhook with an id
takes effect once, and what guarantees it is the unique constraint and nothing
else. `AcknowledgedIsStored`. `DuplicateIsSettled`: a delivery answered
"already processed" is applied, scheduled or without processor in the end,
unless the very request that had stored that webhook died or its processor failed
(`Lost`), whatever dies or fails elsewhere. After either, between the mark and the
effect, the event stays "received" and nothing picks it up.

**Bounds.** Three requests: two that overlap and one that comes later. Six
messages, one for each path: two that share an id, one the processor refuses,
one without processor, one without id, one with a numeric id. One crash.

**Fairness.** Weak fairness of a handler's own steps; none of deliveries.

**Proofs** (`IncomingWebhookProofs`). Inductive invariant: `Progresses` (which
phases have a row), `UniqueRows` (two requests with rows have different ids),
`AppliedHasRow`, `MarkedIsStored`. `AppliesOnce` follows from `UniqueRows` and
`AppliedHasRow` without looking at a mark. Theorems: `TypeCorrect`,
`AppliesOnce`, `AcknowledgesStored`. `DuplicateIsSettled` is model-checked only,
but its safety core is proved: `DuplicateIsAccounted` says of every webhook that
is marked, cached or was answered as a duplicate that it is settled, lost, or in
the hands of a live request that stored it (`Accounted`). `HandsOn` shows that
the last step of such a request settles it, `StaysAccounted` that no step of
another takes that back; what is left to fairness is that the request goes on.


## ShopConnections: how a shop connects to the platform

Models `connect_shop`, `start_oauth`, `handle_oauth_callback` and
`disconnect_shop` (`domains/shops/service/integration_service.py`) together with
their endpoints (`api/v1/shops.py:121-259`), the repository and the two unique
constraints of `shop_integrations` (`domains/shops/models.py:158-166`).

**State.** Per row: `status`, `vendor` (`external_shop_id`), `webhook`
(`webhook_id`), `hookStatus` (`webhook_status`); an id is used once, so a deleted
row stays "deleted". The platform's side: `registered`, the shop it made each
webhook for. Redis: `states`, the OAuth states, each named by the row its flow inserted.
Per session: `req`, the operation it serves, its next step and what it has read.
History: `contested`, the shops that two requests have served at once, and `cut`,
the webhooks whose request never had their id to store.

**Actions and code.** A request reads in steps and writes in one, because all
its writes become visible with one commit. `StartConnect`: the look-up that
answers 409. `FindStale`: the pending row of an abandoned flow
(`scalar_one_or_none` raises on two). `CommitStart`, `CommitConnect`: the stale
row is deleted by its key, whatever has become of it, and a row is inserted; the
platform is asked for a webhook between INSERT and UPDATE. `Registers`: that is two
calls (`integration_service.py:335-349`), the first of which creates an active
webhook (`client.py:506-524`) and the second subscribes the vendor to it; if the
first answer is lost or the second call fails, the webhook exists and its id is
forgotten. `ConnectFails`: a constraint refuses the INSERT (before the platform is
asked) or the UPDATE (after it, so the webhook stays). A registration that fails in
either call makes the endpoint call `connect_shop` again without webhooks in the
same transaction, where the pending row of the first try is found, or that and
another: `SecondTryFails`. `StartCallback`, `PickPending`:
the state is read and deleted in two calls, and the callback takes the first
pending row of the shop. `CommitCallback` notes a failed registration as
"not_registered", and writes the status without looking at what it is by then. `StartDisconnect` takes the first row of the shop whatever
its status, `CommitDisconnect` writes what differs from what was read, which is
how SQLAlchemy builds the UPDATE. `Expire`: ten minutes. `Crash`: roll back,
except for a webhook the platform may have registered already.

Status "error" is left out: the look-up and the index name it, but nothing writes
it into an integration. Tokens are data and left out.

**Properties** (run `connections`). `ConnectedOnce` (`OneActive` and
`VendorOnce`) holds with everything interleaved, by the two constraints: the checks before them are made
on old reads. `OneOpen` and `WebhooksAreKnown` hold of every shop that is not
`contested`, the second of the webhooks that are not `cut`, whatever overlaps on
other shops meanwhile. A webhook that is `cut` is live and unknown to the
program, with no overlap and no crash: the failure of the subscription is enough. `KeepsRegistry`: every commit is a step of `ShopRegistry`, the abstract registry
of what becomes of a row. It goes from pending to connected to disconnected and
never back, and is deleted only as the abandoned flow that a new row replaces; of
a contested shop the registry excuses other ends, but never a second connection
or a second owner of a vendor. Of a contested shop the others fail:

- two starts at once leave two pending rows, after which every start and
  connection of that shop ends in `MultipleResultsFound`, though an abandoned
  flow "does NOT block" (`domains/shops/repository/shop_integration.py:46`);
- a start deletes a row that a callback has connected since it was read, and
  its webhook id with it;
- a callback connects a row that a disconnection answered in between has ended
  (`Complete` in the registry allows it of a contested shop only);
- a connection that loses the race for the index has registered its webhook.

Three things the model does as the code does and no property asks otherwise:
no disconnection ever deletes a webhook, because `_ensure_connected`
(`integrations/shop/connector.py:180`) raises on the fresh connector, so
`webhook_status` becomes "cleanup_failed" and never "inactive" (theorem `TypesHold`);
a shop that was connected before may be answered "disconnected" while its newer
row stays connected; and a disconnected row keeps its vendor, so that no row can
take that vendor again: another shop is told to disconnect it first, and the
callback of its own shop, which writes a new row, runs into `uq_platform_shop`.

**Bounds.** Two sessions that overlap and repeat. One shop with two rows and one
with one row that wants the same vendor: two rows of a shop are enough for two
flows at once, for a second connection after a disconnection and for a stale row
that is replaced. One webhook, since `WebhooksAreKnown` speaks of one
at a time; a second could matter by taking the place of the first in its row, which
the proof excludes for any number of them (`Blank`: a row that is not connected yet
knows none). Requests die at any step and as often as they like. Rows run out, so the system may stop:
deadlock is not checked.

**Fairness.** None is assumed and no liveness property is stated.

**Proofs** (`ShopConnectionsProofs`). `Invariance`: the conjunction `Inv` of the
four properties with `Blank` (a row that was never connected has no vendor and no
webhook), `RequestShape` (a request has picked a row of its own shop), `OneRequest`
(a shop that is not contested is served by one request at most) and `ReadIsCurrent`
(what that request has read is still so). `OneActive` and `VendorOnce` are inductive
with `Blank` alone. The argument for the other two is local to a shop: a request
touches the rows and webhooks of no other (`Untouched`, `CurrentStays`), so the end
of a request is settled at its own shop (`Ends`, `EndsIdly`), where the commit deletes
the only pending row, which is blank and so knows no webhook, and opens one row
(`OneOpens`, `KeepsWebhooks`). `ImplementsRegistry`, the refinement, adds `Used` (a row
that a request has picked, or an OAuth state is for, was inserted) and shows of each
insertion that what it deletes is what the registry replaces (`ReplacesStale`). All
properties of the run are theorems, for any number of sessions, shops, rows and webhooks.
## ProductSync: synchronising the products of a shop

Models `POST /shops/{id}/sync/products`, the scheduled task `product_sync`,
`ProductSyncConsumer` and `ProductSyncService`, for one integration, with the
sync state and the job rows they keep.

**State.** A synchronisation reads the listing of the platform page by page,
upserts each page, and moves `last_sync_timestamp`; a delta asks only for what
was modified after it. Versions and timestamps appear by comparison only:
`current` are the products whose committed row has the platform's present version,
`fresh` those a delta would ask for. A synchronisation is one transaction
(`UnitOfWork`), so what it holds is local: the part of the listing still to be
read (`left`), the page in hand, the products upserted (`got`), which of its
copies are not out of date (`good`), the products of batches it dropped
(`skipped`), and what was modified since it took its timestamp (`after`). `lock` is the row lock of the sync state. Job rows have
sessions of their own (`SetJob`), before and after that transaction.

**Actions.** `Request` commits the job and publishes, or fails to; `Take` reads
the sync state; `LockState` is the flush at the start, which sends an UPDATE, and
so takes the lock, only if the row changes: a row found `"syncing"` in the same
mode is not locked (`Unsent`). `FetchPage`, `StorePage`, `PageFails` (a
`BasalamAPIError` ends the reading, not the synchronisation), `Forbidden` (the
handler of a forbidden product commits the transaction half way and releases the
lock), `Commit`, `Complete`; `Fail` for every other exception, followed by `FailJob`,
which marks the job. `StorePage` stores a page or, as a fault, part of it: `gather(...,
return_exceptions=True)` swallows the error of a batch (`product_sync.py:436-445`), and
the synchronisation goes on without it. `Timeout` is `asyncio.wait_for` around
`process_message`: the `CancelledError` rolls back, but `except Exception` in the
consumer does not see it, so the job is not marked. `Route` sends the message to the
retry or dead letter topic; when that fails (`RouteFails`) the loop of the consumer has
ended for good (phase `"ended"`), and its message goes to another. External: crashes, redeliveries, PostgreSQL's
deadlock detection, and products that change at the platform.

**Properties** (runs `product_sync_faults` for safety, `product_sync` for
`JobsEnd` and `CatchesUp`). `NothingMissed`: every product whose row is behind is asked for by the next delta,
or is a `risk`. Three things make a risk, all of this code and all real losses
until the product changes again or somebody starts a full synchronisation: the
timestamp is taken after the last page (`product_sync.py:177`), so a product that
changes behind the page being read falls in between; a page that cannot be
fetched is skipped with the timestamp moved all the same (`:259`); and so is a batch
that is dropped (`:436`). The property says that crashes, roll backs, timeouts,
retries, redeliveries and two synchronisations at once add nothing to these. `OneAtATime`: they exclude one another, which rests
on the UPDATE of the status alone, until a forbidden product breaks it.
`CompletedIsSynced`, and `JobsEnd`: a published job ends completed or failed and
stays so unless an update of its row was lost, which `_update_job_status` only
logs, or its last try was cancelled by the timeout, which leaves it `"running"` for
ever (both are in `lost`), or the loops of all consumers have ended. `CatchesUp`:
deltas bring every row up to date, or make it a risk, while a consumer is left.

**Details worth knowing.** A failed synchronisation never leaves status `"error"`,
though `src/openspec/specs/basalam-product-sync/spec.md:58` names it: the handler
flushes it into the transaction that the exception rolls back (`TypeOK` says so).
No variant is ever stored: `_bulk_upsert_variants` reads `.id` of a UUID
(`product_sync.py:599-601`), and the error is swallowed with the batch's result
(`:445`). A job whose message cannot be published stays pending, although the
answer says it will be retried.

**Bounds.** Two consumers, one job and the scheduled delta, one retry (none in the run
with the temporal properties, where crashes and failed routing still deliver a message
again), one change at the platform, two faults: enough for a forbidden product to leave the state
`"syncing"`, a failure after it, and then a deadlock of two synchronisations that
do not exclude one another. The safety run has two products, so a listing has
several pages; the run with the temporal properties has one, since TLC's liveness
graph for two does not finish in minutes. The theorems have none of these bounds. Assumed of the platform: the order of a listing does not change
while it is read. The deltas of beat do not pile up: there is one every 30
minutes, and processing has a timeout of ten. Deadlock checking is off because
a run may stop when its bounds are used up.

**Fairness.** Beat goes on; Kafka delivers each message it has (strong, since a
consumer may be busy with the other) while some loop is alive; a consumer goes on with
its message, and the row lock comes to each that waits for it (strong). Nothing is
assumed of a loop that has ended: an idle or ended consumer takes no step of its own. No fairness of pages, errors or
changes: they are the environment's.

**Proofs** (`ProductSyncProofs`). `NothingMissed` is not inductive: that a commit
loses nothing needs to know what the synchronisation has read. The inductive
invariant says of each one under way: every product that is behind is still in its
listing, or in its hands in the present version, or in a batch it dropped, or changed
since, or a risk
(`Covers`); an outdated copy is of a product the next delta has or of a risk, and
without company writes over nothing newer (`Outdated`); `Tidy` and `Locked` say
what it holds in each phase. Theorems, for any number of consumers, products and
jobs: `TypeCorrect`, `NothingIsMissed`, `RunsAlone`, `CompletedJobsSynced`. The
two liveness properties are only model-checked, but what `JobsEnd` rests on is
proved: `JobsAreAccounted` (no published job is ever out of sight: it has ended, is
to be delivered, is in the hands of a consumer that goes on, lost its last update or
was given up while running) and
`SomeoneGoesOn` (a consumer that waits does so for one at work, so one of them can go
on or PostgreSQL finds a deadlock among them; `HasMore` says that a synchronisation
goes on reading only if there is something left).

## StockWriters: the inventory of one variant

Models everything that writes a row of `supplier_variants` and its log:
`reserve_inventory`, `release_inventory`, `consume_inventory`; and the writers of an
absolute inventory, `override_inventory` and `adjust_inventory`
(`api/v1/inventory.py`), `force_inventory_update` (`api/v1/admin.py`), and the
inventory webhook processor; and `force_cancel_order`, which marks reservations and
leaves the row.

**State and grain.** The row (`inventory`, `reserved`) and the `reservation` of each
item. Per session of an order what it is about to do (`task`), to which `item`, and
the available inventory it has `seen`; per session of an absolute writer the request,
what it was asked for and the inventory it has read (`old`). Every one of them
decides on something it has read without a lock, so the reading is a step (`Load`,
`FindActive`, `Begin`) and the writing another (`Reserve`, `Release`, `Consume`,
`Store`), or failure (`GiveUp`, `Fail`), with anything in between. So an item can be
released twice, or released and sold (`reservation_service.py:387-394`, `455-462`
read the status before the lock at `394`, `462`), and one reserved that the row no
longer covers (`Suffices`: the object that `order_service.py:231` loaded, if the
identity map still has it). Two sales of one item cannot, since mark-paid has updated
the row of the order before it reads the reservations. SQLAlchemy sends an UPDATE
only for an attribute that differs from what was loaded (`Sends`).

**Properties.** What the reserved counter is worth is for `OrderInventory`, which has
the orders; here the question is what the absolute writers and the log make of it.
`LedgerHolds`: the inventory is the last absolute value and every adjustment and
sale since, except between an adjustment of a stale inventory, or an override that
was dropped since it asked for the value it had read, and the next absolute write.
"Adjust inventory by a relative amount" (`api/v1/inventory.py:304`) is therefore
not what an adjustment that overlaps with a sale does: it writes the sum of what it
has read, and the sold unit is back. `AuditTells` says what the log ("audit trail for
all inventory changes", `domains/inventory/models.py:54`) adds up to. It has rows of
two kinds: a reservation and its release are changes of what is *available*
(`reservation_service.py:218-230`, `414-430`), an override, an adjustment and a sale
changes of the *inventory*, and a sale has both. So all its rows together are the
available inventory less the units sold, whatever the orders do, until a forced
update or a webhook changes the inventory, which write no row, or a logged writer
overwrites what it has not read.

**Bounds.** Two items of different size, two sessions of the orders, two of the
absolute writers with two requests, levels around the stock, changes of one: an
adjustment that overlaps with a sale, and the absolute request that sets the
inventory right again, are two. One variant is enough, since no operation touches the row of another.

**Left out.** The scheduled synchronisation and reconciliation
(`workers/tasks/inventory_tasks.py`) change nothing: both select integrations whose
status is `"active"` (`:134`, `:199`), and an integration is pending, connected,
disconnected or error. The product synchronisation never gets to write a variant (see
`ProductSync`). The consumer of inventory events
(`workers/consumers/inventory_consumer.py`) has code that writes log rows for
reserved and released units (`:173-232`), and never runs it: the only
publisher of those events is `ReservationService._publish_event`, which returns at
once without a publisher (`reservation_service.py:145-147`), and every
`ReservationService` is built without one (`order_service.py:143`,
`inventory_tasks.py:87`).

**Proofs** (`StockWritersProofs`). Both properties and `TypeOK`, for any number of
sessions, items, quantities and requests. None needs more of an invariant than the
types and that a session at work has an item.
## OrderSync: polling the orders of the platform

Models the task `order_sync` (`workers/tasks/order_tasks.py:50-347`) over all
connected integrations, `list_orders` of the Basalam client, and the status part of
the order webhook processor.

**State.** The platform: the `platform` status of each order and the orders
`listed` on the first page of their shop. The database: how many `rows` an order
has and the `local` status in them. Per run: the integrations still to be polled,
the page in hand with the statuses it says (`snap`), what it has inserted (`made`)
and moved (`moved`). `told`, `silent`, `contested` and `ours` are history: the
orders announced by `OrderCreated`, those whose run failed to announce them, those
two runs had inserted at once, and those whose status this side was the last to write.

**Actions.** `Start` selects the integrations, `Fetch` asks for one page, `Create`
and `Update` handle an order of it, `Commit` ends the transaction, which is one for
all integrations. An order that the database refuses (`Refused`: an item without
a quantity, say) is caught per order, but the failed flush has left the session
unusable, so that even the handlers of the error fail when they name the
integration, and the task ends rolled back (`Refuse`). `Skip` is a call to the
platform that fails, and is handled per integration. `MoveHere` stands for every
writer of a status on this side: the endpoints of the orders
(`repository/order.py:93-101`), a forced cancellation (`api/v1/admin.py:192-194`), a
payment from the wallet (`payment_service.py:405`) or told by a webhook
(`processors/payment.py`), `auto_confirm_deliveries` (`order_tasks.py:425`). They
write whatever status is theirs to write, also between the look of a run and its
commit, and the next poll takes it back to the platform's; when they may is in
`OrderInventory` and `Payments`. External: `Place` (a new order
may push another one off the page), `Move`, late status webhooks (`Notify`),
`Crash`.

**Properties** (run `order_sync`). `NoDuplicates`: an order is stored once,
unless two runs had it inserted at once, before either committed (`contested`);
what else overlaps, dies or is repeated does not matter. Nothing but the lookup of the task stands against a second
row, since the table has an index on the external id and no constraint, and runs do
overlap: beat starts one every 120 s, and a task is acknowledged late. After that
`scalar_one_or_none` raises for the order at every poll, so it never moves again.
`EventsAgree` (`StoredIsAnnounced` and `AnnouncedIsStored`) relates table and events, in a task that
publishes before it commits: a stored order was announced or its own run failed to,
and an announced order is stored or its whole run was rolled back. `OrdersArrive`
and `StatusFollows` are liveness: an order on the first page comes to be stored and
to have the platform's status, whatever late webhooks and this side's requests wrote, unless it leaves the
page or a refused order, of whatever shop, is on a page (`Blocked`): then no order
of any shop is stored or moved. That the events of a run that is rolled back are
out already is in the model (`Rollback` forgets them) and not claimed otherwise.

**Details worth knowing.** Only page 1 is ever read. A status the map does not know
is `pending`, so a returned order goes back there. Items whose variant is unknown
are dropped for good (`:180-190`), as a known order's items are not looked at again;
items are data and left out. What a poll does to the lifecycle and the money of an
order is in `OrderInventory` and `Payments`.

**Bounds.** Two runs; two shops, one with room for one of its two orders, one whose
only order is refused; one order that moves, twice; one fault, late webhook or request here. Statuses are
two known ones and one that only the platform has. Workers start again and again,
so the system never stops, and TLC checks that.

**Fairness.** Weak fairness of `Step(r)` for each worker: beat sends the task again
and again, and a worker goes on with its run. None of the platform and of faults.

**Proofs** (`OrderSyncProofs`). The inductive invariant adds what a run has in hand:
idle workers have nothing, what a run has inserted is announced or `silent`, and
an order that is not contested is inserted by one run at most, and not stored yet
while it is: the lookup that found it unknown is still right when the run commits,
because nobody else can have stored it since. Theorems, for any number of workers, shops and orders and any page
size: `TypeCorrect`, `StoredOnce`, `EventsAgreeHolds`, and `ShowsOnlyThePast`: a stored
order shows no status that it never had at its platform, unless this side's own
writers gave it since a poll or a webhook last moved it (`ours`). That needs the same of
every status a run has read and not yet written (`SnapsArePast`), and that what was
`Seen` of an order stays seen, since the platform does not take a status back.
## How the project grew, and how to extend it

The order was: orders and stock, money, the consume loop, webhooks, connections,
then the three ways in which the platform and its users write around them
(`ProductSync`, `StockWriters`, `OrderSync`). Each component has one run for what
holds with everything interleaved, one more where a property needs a restricted
environment, and a run with a counterexample only for a disagreement with a
documented promise.

A change of the code belongs into the action that "map" in PROJECT.json gives its
lines; the proofs have one step per action, so what a new action needs is one more
step in each. Components that are not modelled today, and would be worth a module
once they do more: shipments, when they move orders; outgoing webhooks, when delivery
logs are written; disputes and refunds, when something calls them.

## Not modelled

Listed in PROJECT.json with the reason: outgoing webhooks (the adapter creates a
delivery log only when it is given a database session and an integration, and
`integrations/notification/manager.py:180` gives it neither, so the retry task
and the dead letters work on an empty table), pure data (schemas, mappers, pricing
formulas), accounts (credentials with a lifetime in Redis, on which no order, stock
or money depends), rows written once by one request of their owner (products,
listings, shops, shipments), pure output (metrics, logging, dashboards), scripts, and service
methods without a caller (`withdraw`, `refund_to_seller`,
`release_mature_payouts`, the dispute service, `update_delivery`,
`refresh_token` of the integrations, `rotate_webhook_secret`, `run_sync`, the `*_with_deadlock_retry` variants, the
Kafka webhook consumer, whose topic has no producer).
