# Drinkit in TLA+

A TLA+ development kept beside the Drinkit backend (Python, FastAPI, SQLAlchemy 2
on PostgreSQL, Redis, Celery). It models the parts of the program where several
requests, workers or outside parties act on the same rows, states what must hold
of them, lets TLC check it on small instances, and proves with TLAPS what matters
most of the inventory, the checkout, the prices, amounts and memberships, the
payments, the fulfillment, the relay and the tracking, the party mode, the token
sessions and the customers' data, for every instance.

Paths below are relative to the repository; `app/...` is `src/app/...`.

## 1. The system and its parts

Every service function opens `transaction(session)` (`app/core/database.py`):
a transaction of its own, or a savepoint if the session is already in one.
PostgreSQL runs at READ COMMITTED. A plain `SELECT` sees the last commit and
takes no lock; `SELECT ... FOR UPDATE` waits for the row and then reads its
latest version, **unless the session already holds the object**: SQLAlchemy then
returns the loaded object unchanged (no `populate_existing`). An ORM `UPDATE`
writes the values Python computed from what was read, and only the columns that
differ from it; a bulk `UPDATE` finds its rows in a snapshot, waits for them, and
never sees a row inserted meanwhile. `autoflush` is off, so the order of the
writes is the order of the explicit flushes. These rules decide which operation
is one action here and which is several.

| Part | State | Operations | Meets |
|---|---|---|---|
| Inventory (`inventory/service.py`) | `inventory_balances` (on hand, reserved), `stock_adjustments`, `inventory_reservations` | `adjust_stock`, `reserve_stock`, `release_reservation`, lazy expiry | checkout (holds), warehouse (goods receipt, write-off) |
| Cart (`cart/service.py`) | one active cart per user, its lines with a price snapshot | add, update, remove a line | pricing; checkout clears it |
| Checkout (`orders/service.py`) | orders, order lines | `create_order_from_cart`: validates address and age, reads the cart, reserves stock, prices, coupon, points, writes the order, consumes the holds, clears the cart, creates the picking task, records `order.created` | everything above and below |
| Promotions (`promotions/service.py`) | coupons and usages, loyalty accounts | validate and apply a coupon, redeem and award points | checkout, party mode |
| Pricing, tax, memberships | price rows by start, plans and membership rows | set, deactivate and choose a price; line taxes; subscribe, extend, switch, cancel, lapse | cart, checkout |
| Addresses and coverage (`addresses/service.py`) | addresses, one default; coverage of postal codes | create, update, default, deactivate; upsert, deactivate, resolve | checkout |
| Compliance (`compliance/service.py`) | one KYC row per customer, compliance log | submit a document, check an order, verify a handover | checkout |
| Payments (`payments/*`) | `orders.payment_*` | initiate, confirm, refund, three webhooks | provider over HTTP, order row |
| Warehouse (`warehouse/service.py`) | picking tasks and items, bins | start, scan, complete, pack and stage, dispatch; goods receipt, write-off | order row, delivery row, inventory |
| Delivery (`delivery/service.py`) | slots, couriers, deliveries | schedule, assign, picked up, in transit, delivered | order row, slot row |
| Outbox and relay (`workers/outbox_relay.py`) | `outbox_events` | events written with the business rows; batches taken with `SKIP LOCKED`, published to Redis, marked | all services, Redis |
| Live tracking (`orders/websocket.py`) | an open socket and its forwarder | snapshot, subscribe, forward, disconnect | relay, Redis |
| Party mode (`party/service.py`) | sessions, participants, shared cart, packs | create, join, add, update, add a pack, lock, check out | inventory, orders |
| Token sessions (`auth/service.py`) | `auth_sessions` with family and replacement | login, refresh (rotation, reuse), logout, disabled account | - |
| Catalog, search, configuration | - | read-only queries, I/O | - |

What is hard about each, and what makes it correct:

* **Inventory.** Concurrent retries, expiry and release of one hold. Reserved
  stays within stock, stock is the sum of its ledger, and reserved is the sum of
  the live holds.
* **Checkout.** One transaction of some thirty awaits which reads the cart and
  the coupon unlocked, locks balances in cart order and writes what it read
  earlier. Stock must be taken atomically, points not spent twice, a coupon not
  closed too early, no added line lost, and no checkout may hang.
* **Prices and memberships.** Nothing is locked between reading and writing. The
  customer must be charged what was shown, and a membership that ended must not
  come back through the write of a request that read it before.
* **Addresses, coverage, identity.** One default address under concurrent
  requests; an order must come from a location that covers its address; no
  alcohol without a document of the legal age, although two submissions may mix
  their columns in one row.
* **Payments.** The provider acts outside the transaction; webhooks are late,
  repeated and out of order; calls are lost after the provider acted. Captured
  means paid, refunds must be explainable, and the events must tell the history.
* **Fulfillment.** Two services write the order's and the delivery's status and
  lock them in opposite orders. Slot capacity, agreement of the three statuses,
  no hanging request.
* **Relay and tracking.** Crash between publish and commit, several workers, a
  snapshot read before the subscription. Nothing uncommitted is sent, nothing is
  crossed off unsent, and a client misses only what falls into the gap.
* **Party mode.** Guests edit while the host locks and orders: the order is the
  cart, for good, and its stock is taken at once.
* **Token sessions.** Several requests with one token. One working session per
  family at most, and a reuse must end the family.

`PROJECT.json` lists each hazard at its line with the properties that watch it.

## 2. The modules

| Module | What it models |
|---|---|
| `Quantities` | sums of quantities as cardinalities, so that they can be reasoned about without recursion |
| `Inventory` | the inventory service and its callers; `release_reservation` in two steps |
| `AtomicOrders` | abstract: an order takes all its lines at once, only what is available, once |
| `Checkout` | `create_order_from_cart` lock by lock, with cart edits, one coupon and the loyalty accounts; implements `AtomicOrders` |
| `Totals` | the amounts of an order as pure operators: coupon, line taxes, fee, points, total |
| `Billing` | prices, the cart line's snapshot, memberships and the amounts of an order; uses `Totals` |
| `Customers` | addresses, coverage, identity document, and the part of the checkout that rests on them |
| `Fulfillment` | the warehouse's picking task and the delivery, with their row locks |
| `Payment` | payment service, webhooks, route and provider |
| `AtLeastOnce` | abstract: committed, delivered, crossed off, in that order |
| `Relay` | outbox transactions and relay workers; implements `AtLeastOnce` for the events that have a channel |
| `Gateway` | composes `Relay` with the WebSocket clients of an order |
| `Party` | party mode; its checkout implements `AtomicOrders` too |
| `Sessions` | refresh-token rotation and family revocation |
| `*Proofs` | the theorems of the module they are named after; `GatewayProofs` also those of `Relay`, `BillingProofs` those of `Totals`, `AccountProofs` those of `Customers` and `Sessions` |
| `MC*` | the instances for TLC |

`create_order_from_cart` is one transaction and too much for one state space. It is
modelled three times, each time with everything it shares with one group of other
requests and nothing of the rest: stock, coupon limits, points, cart and locks in
`Checkout`; prices, membership and amounts in `Billing`; address, location and
compliance in `Customers`. In each, what the other two models decide is a
nondeterministic refusal (`Fail`, `Abort`).

Conventions. A call that raises rolls its transaction back and is no step, unless
it held locks, had acted outside, or others could have seen how far it was (then
`Fail`, `Lose`, `Crash`, `Abort`, `AbortRefresh`). A call whose every write follows from rows it
has locked is one action. A row lock is an entry of `lock`; an action that needs
the row is enabled when it is free, and the writes show when the call ends. A
definition that a module's header names as a mutant is a plausible bug beside the
definition it would replace; `PROJECT.json` names which property catches which,
and nothing else uses it.

### Inventory

`onHand`, `reserved` and `adjustments` are the balance row and its ledger,
`status`, `qty` and `expires` the reservations by key; quantities count in the
smallest unit of `Numeric(12,3)`. A pair without a row reads as zero, which is how
`_lock_or_create_balance` creates it and what makes `reserve_stock` refuse.
`AdjustStock`, `ReserveStock`, `ReserveReplay` and `CheckoutHold` are atomic
because the balance row is locked first. `t` is the clock the call read before it
waited for that lock, so it may be in the past. `release_reservation` is
`ReleaseLoad` (the unlocked read), then `ReleaseCommit` or `ReleaseNoEffect`,
which decide on the loaded status. `overRefunded` is a history variable: what was
given back for holds no longer active.

### Checkout

`stage` is how far a call is: `reserve` (one balance per step), `coupon` (a plain
read), `redeem` (account `FOR UPDATE`), `award` (a plain read, or the account it
already holds), `flush` (one `UPDATE` lock per step, in any order) and the commit.
`order` is what the call has read, its `left` the lines it has not reserved yet. A
cart is a set of lines; a line is named by its place by `created_at`, which is also
the order in which the balances are locked (`NextLine`). A cart edit is one action; adding a line locks
the user first, which a checkout holds through its order's foreign key from the
`INSERT` on (`OrderPending`). Every order earns points in the model (`Award > 0`)
and every coupon gives a discount; an order for which either is zero skips that
write. PostgreSQL's deadlock detector is `AbortDeadlock`.

### Totals and Billing

Amounts are minor units and divisions round down, as in the code. A price row is
named by its start, which is unique per variant and currency; `Current` is what
`get_current_variant_price` chooses at the clock `now`, and `shown` remembers the price
that was current when the customer last touched the line. `ReadFor` is the
unlocked read of the membership, `Extend`, `Subscribe` and `Cancel` write some
steps later from what was read; `Lapsed` is the lazy expiry that an order commits
with itself. `LoadCart`, `PriceOrder` and `CommitOrder` are the checkout's reads
and its write. A cart line has an id, which a line that was removed and added again
does not keep: the commit deletes the line it had loaded and no other. `raced` is a history variable: a subscription went by a list of
memberships to which another had added since.

### Customers

Address writes hold the user's row from `Enter` to `Commit`; `Clear` is the bulk
`UPDATE` of the other defaults, which fixes its rows in `cleared`. The unique
index on the default address is left out on purpose: `OneDefault` says that it is
never needed. A document is read by `SubmitKyc` and written by `WriteKyc`, which
flushes the columns that differ (`Flushed`). An order reads the address, resolves
a location from the session's postal code, checks the compliance and commits;
`Stale` and `StaleOrders` mark the orders that an edit overtook, so that the
property can speak about the others.

### Fulfillment

`Continue(c)` takes the next lock of a started request; one-lock operations are
single actions. One item stands for those of a task. Inactive slots and couriers
refuse like `Fail`. The task exists from the start because the checkout creates
it in the order's transaction.

### Payment

`InitiateLock`, `CreateIntent`, then `Authorize` (a session of its own) or
`AnswerRoute` (the HTTP route, whose session is never committed). `Lose` is a
crash, a timeout or a refusal at any point in between. A webhook is one action;
messages stay in `hooks` and may be handled any number of times in any order. The
provider (`charge`, `refunds`, `CustomerPays`, `CustomerDeclined`) is external and
modelled from what the clients in `payments/` send and read.

### Relay and Gateway

Events are numbered by `occurred_at`, the start of their transaction; they commit
in any order. `TakeBatch` is the `SKIP LOCKED` query, `Publish` and `PublishFails`
one event of the batch, `CommitBatch` the bookkeeping. `repeats` is a history
variable: broadcasts that no `published_at` records. In `Gateway` a client reads
the order (`Connect`), then the delivery, then subscribes; every publication is
pushed to the subscribed clients in the same step (`Next /\ Pushed`) and forwarded
one by one. `ForwarderFails` is the task that ends while the socket stays open
(`deaf`). What a client knows is reset when its connection ends.

### Party

`Enter` locks the party's row and reads, the operation's own action writes and
commits (`edit` is the lock of every operation on the shared cart). `call` keeps
what was read under the lock, so that a write from stale data would show. A
checkout goes on from `Enter` line by line: `ReserveLine` takes the lock of one more
balance, in any order, and reads it there; what it found too little of, and the
circle of two checkouts that wait for each other's balances, end in `Abort`.
`CheckoutCart` is the commit, in which `reserved_quantity` becomes visible. Nothing
at the commit asks for the stock again: that it is still there is what
`StockTakenAtomically` is about. Seats are participants; a cart item is named by who added it and
its variant. `relocked` counts how often an ordered party was locked again.

### Sessions

`RefreshLock` locks the row of the presented token and reads it. An active one is
rotated (`Rotate`), a revoked one leads to `RevokeFind`, the snapshot of the bulk
`UPDATE`, and `RevokeCommit`. Anybody may present any token at any time. `racing`
remembers the sessions that rotations inserted between the two.

## 3. The runs

| Run | Instance | Distinct states | Expected |
|---|---|---|---|
| `inventory` | 1 balance, 3 holds, 2 adjustment keys, 2 releases, quantities to 2, stock to 3, clock to 1 | 123,966 | passes |
| `inventory_oversell` | the same | | violates `NoOversell` |
| `checkout` | 2 customers with carts in several orders, 2 variants, 2 checkouts, up to 2 cart edits, coupon with 2 uses and 1 per customer | 290,073 | passes |
| `checkout_twice` | one-line carts | | violates `LineOrderedOnce` |
| `fulfillment` | 2 orders, 1 slot with 1 place, 2 requests at a time | 87,049 | passes |
| `payment` | 1 order, 2 calls, 2 intents, 2 refunds | 13,580 | passes |
| `payment_route` | the same | | violates `AnsweredIsAuthorized` |
| `tracking` | 3 events, 2 workers, batches of 2, 1 failure, 1 client | 228,719 | passes |
| `sessions` | 4 session rows, 3 requests | 55,046 | passes |
| `party` | 2 parties of one host, 2 users, 3 seats, 2 variants, 1 pack, 2 calls, 2 orders | 630,958 | passes |
| `billing` | clock to 2, 2 prices of which one ends, 2 plans, 2 membership rows, 2 requests at a time, 8 in all, 1 order | 1,014,179 | passes |
| `customers` | 2 addresses, 2 postal codes in 2 states, 2 locations, ages 17, 19 and 25, 2 requests at a time, 6 in all | 1,082,469 | passes |

Why the bounds are enough.

* Balances share nothing, so one is enough; a stale release needs two releases of
  one hold and a third hold to sell the stock again.
* A cycle of row locks needs two requests, and no request of these services waits
  for two others at a time. Two checkouts show a lost update of the counter, of
  the account and of the cart. One cart edit falls between any two of their
  steps; two give one customer two checkouts without a common line, which no
  balance row keeps apart, and have a start of their own.
* One order with two calls contends for its row, and two intents give a stale one
  beside the live one. (The proofs cover the other values.)
* Three events and batches of two give a full batch beside a partial one and an
  event that commits behind a later one. Clients do not see each other.
* A rotation beside a reuse needs two requests; the third is a second reuse, or
  the rotation of the session that raced. Four rows are a family with three
  rotations, or several families.
* Two parties share the stock; a party row serialises its own requests, so two
  calls are a race for the row or for the balances, and two variants are enough
  for two checkouts that take them in opposite orders. Who created a party matters
  only as the host's seat, so one user has both; the other joins as a registered
  guest beside anonymous ones. Two orders are one for each party or two for one
  that was locked again.
* Memberships last a day and the clock runs for two, so that a request may read
  before and write after an expiry; one price replaces another that has no end.
  Eight requests are a race of two subscriptions with a purchase around it.
* Six requests are two addresses, an edit and an order with its document. The
  three ages lie below 18, between the two legal ages and above.

Every bound is a named constant. Symmetry is used in runs whose properties name
no single member of the symmetric set and which have no liveness.

The passing runs show, beyond the type invariants (section 5 names those that are
proved for every instance):

* `ReservedWithinStock`, `LedgerExplainsOnHand`, `HoldsAccounted`: stock covers what
  is reserved, is explained by its ledger, and what is reserved by the live holds.
* `StockTakenAtomically`: `Checkout` and `Party` implement `AtomicOrders`. A
  checkout that fails at its last line, deadlocks or is rolled back takes nothing,
  and one that commits takes what it found at its locks, whatever other checkouts
  did between one balance and the next.
* `OnlyOrderedLinesCleared`: a line leaves a cart by an edit or by the commit of an
  order that has it, so that one added during a checkout is still in the cart.
* `RedemptionStaysCovered`: between the check of the points and the commit nobody
  takes them away, although awards are written unlocked.
* `ClosedOnlyWhenUsedUp`: lost updates of `uses_count` never close a coupon early
  (they leave it open too long, see section 4).
* `CheckoutsEnd`, `RequestsEnd`: deadlocks are resolved and every request ends.
* `SlotWithinCapacity`, `FulfilledTogether`: what the locks of warehouse and
  delivery protect. `OnlyDispatchSetsBack`: a delivery never goes back, except
  through one overwriting step.
* `CapturedWasPaid`, `EventsTellTheStatus`, `RefundsAccounted`: repeated, late and
  reordered webhooks and lost calls do no more harm than the provider's orphaned
  intents and refunds, which are counted. The second states what the outbox tells,
  which is less than what is documented: nothing of a failure (finding 4).
* `BroadcastsAccounted`, `RoutedEventsAtLeastOnce`: workers never repeat each
  other, and `Relay` implements `AtLeastOnce` for the events it routes.
* `OnlyTheGapIsMissed`, `LiveClientsHear`: a client misses only what was broadcast
  between its snapshot and its subscription, and while its forwarder lives it is
  sent everything that was not broadcast before.
* `OneActivePerFamily`, `ReuseLeavesOnlyRacers`: the second is as much as holds: a
  rotation that commits behind the snapshot of the revocation survives it, which
  the documents rule out (finding 5).
* `OrdersMatchTheCart`, `OrderedOncePerLock`: a party order is the consolidated
  cart, now and later, and a second order needs the host to lock again.
* `ChargedAsShown`, `OneMembershipUnlessRaced`, `EndedStaysEnded`: orders charge
  what was shown; two memberships come only from racing subscriptions; no late
  write of an extension brings an ended membership back.
* `OneDefault`: the lock on the user's row suffices. `MinorsNeverBuy`: no document,
  however submissions mix, lets a minor order. `OrdersSuitTheirAddress`: an order
  that no edit overtook comes from the best location that covers its address.

Fairness. A started checkout, a started request and a started refresh go on (weak
fairness of `Progress` in `Checkout` and of `Continue` in `Sessions`, strong
fairness of `Continue` in `Fulfillment`, where a row may be taken and given back
by others again and again): the server runs a coroutine to its end and PostgreSQL
queues the waiters of a row. A forwarder that lives forwards (`Gateway`). The
relay's workers go on as well; that a batch once taken is finished follows from
the code, that the task is started again is what its docstring ("Periodic Celery
task") and `docs/realtime-tracking-and-events.md:59` say and no schedule in the
repository does, so `LiveClientsHear` speaks about a deployment that has one.
Nothing forces a customer, a courier, a commit or a failure to happen. Deadlock
checking is off where a run may stop because its bounded requests are used up
(all but `inventory` and `fulfillment`).

## 4. Findings

`PROJECT.json` quotes the statements of the repository that these contradict. The
first three are runs that TLC refutes. The last two are read off a property that
holds: it says exactly what the code does instead of what is documented.

1. `release_reservation` works on an object loaded before the lock: two releases
   give one hold back twice and the stock is sold twice (`inventory_oversell`).
2. The checkout does not lock the cart: its lines are ordered twice
   (`checkout_twice`).
3. The payment route never commits (`payment_route`).
4. No event tells that a payment failed, although `docs/orders.md:144,151` and ADR
   0008 (line 20) say that every mutation emits one in its transaction:
   `confirm_payment` writes status and event and then raises, which rolls both back
   (`payments/service.py:123-133`), and the failure webhooks write the status alone
   (`payments/webhooks.py:72,122`). In `payment`, `EventsTellTheStatus` shows every
   failed order with the event of its initiation only (`History.failed`).
5. A reuse does not revoke all active sessions of its family, as
   `docs/authentication.md:22` and ADR 0002 (line 16) say: a rotation that commits
   while the revoking `UPDATE` waits for its row leaves a replacement that the
   `UPDATE` never saw (`auth/service.py:94`). In `sessions`,
   `ReuseLeavesOnlyRacers` shows that such replacements are all that is left; with
   `ActiveIn(f) = {}` in its place TLC finds one after eight steps: a login, a
   rotation, a second rotation and a reuse of the first token that begin, the
   snapshot of the reuse, the commit of the rotation, the commit of the reuse.

Observed while modelling and visible in the models, without a run of their own:

* `uses_count` is read unlocked, so that concurrent checkouts use a coupon beyond
  its cap (`promotions/service.py:139`; ADR 0010, line 40); the count per customer
  likewise (`:108`). The party checkout validates a coupon and never records it.
* The dispatch sets a delivered delivery back to `picked_up`
  (`warehouse/service.py:446`).
* Delivery events without an `order_id` in the payload are crossed off without
  having been broadcast (`outbox_relay.py:53`; ADR 0009, line 36).
* A delivered alcohol order needs no verified handover
  (`delivery/service.py:244`; ADR 0011, line 33), and anybody may verify a
  handover, repeatedly. The party checkout makes no compliance check.
* Two submissions of a document mix in one row (`compliance/service.py:85`); that
  the age on file is one that was submitted is the reason `MinorsNeverBuy` holds.
* An ordered party can be locked and ordered again (`party/service.py:486`), an
  item's participant is looked up by id only, and the spending limit is read by
  nothing.
* Of two concurrent extensions of a membership one is lost
  (`memberships/service.py:126`).
* An order keeps its address by id, so that a later edit moves it; the location is
  resolved from the postal code the session read.
* A WebSocket keeps a database session for its life, and a forwarder that died
  leaves its socket open (`orders/websocket.py:142`).

## 5. What is proved

All theorems hold for every value of the constants, from the named assumptions of
each module alone (finite sets, natural bounds, model values that are no member of
the sets they stand beside). Each safety theorem goes through an inductive
invariant that TLC checked first: `Init` gives it, every action keeps it (one
lemma or step per action, and under it one step per conjunct the action can
disturb), and it gives the property.

**Inventory** (`InventoryProofs`, which begins with the lemmas on sums: the pairs
of a total are finite, a total splits over a predicate, is zero on zeros, is one
entry on a single one, and changes by the difference under an update).

* `TypeCorrect`, `ReservedStaysWithinStock`, `LedgerIsComplete`,
  `HoldsAreAccounted`: the four invariants of the run.
* `IdempotentReleaseNeverOversells`: under the assumption that releases are
  idempotent (`[]ReleaseIsIdempotent`), live holds never exceed the stock. With
  the first finding this says that the stale release is the *only* way to oversell.
* `ConsumedStaysConsumed`: `Spec => ConsumedIsFinal`.

`StockInv` adds one strengthening: a hold that a release saw active is never
consumed afterwards, it can only have been given back. Without it `ReleaseCommit`
could give back the quantity of an order's hold.

**Checkout** (`CheckoutProofs`). `TypeCorrect`, `ClosedOnlyWhenUsedUpHolds`,
`RedemptionStaysCoveredHolds`, `OnlyOrderedLinesClearedHolds` and
`StockTakenAtomicallyHolds` (the refinement of `AtomicOrders`), all five from one
invariant. `Tx(t)` says what a running checkout may rely on between two of its
steps. `HoldsLine`: the balance of a line it has reserved is still its own and has
room for the line, which is what makes the commit a step of `AtomicOrders`.
`HoldsAccount`: an account that is redeemed from is locked and still covers the
points, and one that the flush has written is locked until the commit; without the
second half the award of another checkout, written from an unlocked read, could
undo the redemption. `HoldsOnly`: it holds nothing else, so that nobody else's
commit touches its rows. The coupon needs a bound in one direction only: neither
`uses_count` nor what any checkout has read of it exceeds the orders that used the
coupon (`CouponCounted`), because lost updates can only make it smaller.

* `CartsStayProper`: no cart ever has two lines of one variant, and an id names one
  line. It is what the code's loop over the lines and the quantities of an order
  rest on, and says that the unique constraint of `cart_items` is never needed.
* `WaitsAreForTheRunning`: a checkout that cannot take its next row waits, and only
  for other checkouts that are running; no row stays locked by one that is over.
  This is the part of `CheckoutsEnd` that needs no fairness.
* `CirclesHaveAReason`: whenever checkouts wait in a circle, either no ranking of the
  variants agrees with all their carts (the balances are locked in cart order), or
  two checkouts of one customer cross with the account and the coupon. Both happen
  in the instance of `checkout`; locking the balances in a fixed order of variants
  would leave the second only. It needs to know that lines are reserved in the order
  of their numbers, which no two lines of an order share (`InSequence`); of a circle
  of checkouts that all wait for balances, the one whose next variant ranks highest
  has nobody to wait for (`CirclesHaveACause`).

**Payments** (`PaymentProofs`). `TypeCorrect`, `CapturedWasPaidHolds`,
`EventsTellTheStatusHolds`, `RefundsAccountedHolds`. The strengthening says what a
call may rely on while it waits for the provider (`Held`: its order is locked by
it and by nobody else; `Due`: the order still has the status it found), that
references are the order's own (`OwnRefs`; without it the refund of one order
could be counted for another) and that nothing is refunded before a capture
(`Unrefunded`). `MoneyFrame` and `HookFrame` keep the money for the steps that
only pass by.

**Token sessions** (`AccountProofs`, second half). `SessionTypeCorrect`,
`OneActiveHolds`, `ReuseRevokesAllButRacers`. The invariant says that a family and an answered reuse
name rows that exist (`Named`, `Known`), that a request in the middle of its work
and the rows it has found exist (`Holding`), that a session that is being rotated
is still active, because its row is locked (`Rotating`), and that what a
revocation has found covers the active sessions of the family but for the racing
ones (`Found`). `SessionsNeverDeadlock`: requests never wait in a circle. A request
holds the row of its own token alone (`LockedByToken`), one that answers a reuse
holds a revoked row (`Answering`) and waits for active ones, so that it never waits
for another that waits (`NoNewCircle`). The `UPDATE` of a family could still lock
one of its rows while it waits for the next; it has one row at most to wait for,
because a family has one active session at most (`OneActiveHolds`).

**Customers** (`AccountProofs`, first half). `TypeCorrect`, `OneDefaultHolds`,
`MinorsNeverBuyHolds`, `OrdersSuitTheirAddressHolds`. `Prepared`: a request that is
about to write a default has all other defaults in what it will clear, because it
has held the user's row since it looked. `Sober`: the age on file, and every age a
request carries, was submitted, however the columns of two submissions mix.
`Suited`: an order in progress that is not marked stale still has the address it
read and, once it has a location, no better one covers its postal code; each step
either disturbs neither or marks the order (`UnmarkedCall`, `UnmarkedOrder`).

**Relay and tracking** (`GatewayProofs`). `TypeCorrect`,
`BroadcastsAccountedHolds`, `RoutedEventsAtLeastOnceHolds` (every step of relay and
clients is a step of `AtLeastOnce` or a stutter) and `OnlyTheGapIsMissedHolds`.
`Taken` and `Disjoint`: what a worker has locked is committed, not crossed off and
no other's, which is why two workers repeat nothing; `Routed`: only such events
are on the channel. For a client, `SnapshotCovers` says what its snapshot shows of
what was broadcast before, `SubscriptionCovers` what it has been sent since. That a
batch is no longer than its limit rests on `LeastExists` and `OldestBounded`.

**Fulfillment** (`FulfillmentProofs`). `TypeCorrect`, `SlotWithinCapacityHolds`,
`FulfilledTogetherHolds`, `OnlyDispatchSetsBackHolds`. `Relies` says, lock by lock,
what a request that waits for its next row may still count on: what it read of a row
it has locked is still so (`Scheduling`, `PlaceKept`: the counted place of the slot
is still free, `Delivering`, `Dispatching`). `OnlyTheCrossingDeadlocks`: a circle of
waiting requests always contains a `mark_delivered` and a dispatch of one order.
`OnlyOwned` tells from how far a request is which rows it holds, and `Waits` whom it
can therefore wait for; a `schedule_delivery` waits only for one that is about to
commit, and two orders never wait for each other. The crossing itself is real (the
run `fulfillment` takes it) and is left to PostgreSQL to break.

**Party mode** (`PartyProofs`). `TypeCorrect`, `OrdersMatchTheCartHolds`,
`OrderedOncePerLockHolds`, `StockTakenAtomicallyHolds` (the refinement of
`AtomicOrders`). `Working`: what a call read under the party's lock is still so.
`ClosedOnceOrdered`: a party that has an order is locked or ordered, and since only
active parties are edited its cart stays what was ordered. `OrdersCounted`: the
orders of a party are bounded by how often it was locked again. `EmptySeats` keeps
carts of free seats empty, so that who joins later adds nothing to an old order. The
refinement needs one more part, `Reserving`: the balance of every line a checkout has
reserved is locked by that checkout and still has room for the line. Commits of other
parties keep it, because what they write they have locked themselves; without it the
commit, which looks at no stock, would be no step of `AtomicOrders`.

**Prices, amounts and memberships** (`BillingProofs`). First the operators of
`Totals`: `CouponWithinSubtotal`, `TotalCoversTaxAndFee`, `BurnedPointsBounded`,
`TaxWithinAmount`: no coupon takes off more than the subtotal, no order costs less
than tax and delivery, points that lower nothing are worth at most tax and fee, and
the four rounded parts of a tax stay within the amount. Then `TypeCorrect` (which
needs them), `OneMembershipUnlessRacedHolds`, `EndedStaysEndedHolds` and
`ChargedAsShownHolds`. `LineAsShown`: the snapshot of the line, also the copy a
checkout has read, is the price that was shown. `NothingOverlooked`: unless
subscriptions raced, what a request has read names every active row there is to
supersede.

Only model-checked: liveness (`CheckoutsEnd`, `RequestsEnd` of `Fulfillment` and of
`Sessions`, `LiveClientsHear`) and the fairness it needs, which are out of the
prover's reach. `WaitsAreForTheRunning`, `OnlyTheCrossingDeadlocks` and
`SessionsNeverDeadlock` prove the safety that the first three rest on, and
`CirclesHaveAReason` tells which deadlocks `CheckoutsEnd` leaves to PostgreSQL. Every other
property of a passing run is a theorem.

## 6. What is not modelled

* Catalog and search: they only read; ranking and matching of text are outside
  what a model of states says anything about.
* Configuration, the application shell, the exceptions' wording, the mapping
  between rows and answers.
* The points ledger and tiers, the creation of carts, accounts, slots, couriers,
  bins and coupons; two creations of one such row at once end in a unique
  violation, which is a refused request.
* The rate that applies to an order's taxes (an input), currencies other than the
  one of the order, and the snapshots of names an order keeps.
* Amounts, signatures and pages of payments; passwords, devices and contents of
  tokens; litres, which the checkout never passes to the compliance check.
* Cancelled orders and deliveries, which no code produces.
* That party checkouts end: `Party` has the deadlock of two of them on their balances
  and its roll-back, but states no liveness. Party mode and the ordinary checkout are
  not composed; on a balance they meet as two parties do.

## 7. Plan

1. Loyalty tiers and the points ledger beside the balance they should explain.
2. The two reasons of a deadlock between checkouts for the party checkout as well,
   which locks its balances in the order of a dictionary of variants.

## 8. Running it

`tlc -workers 2 -config MCInventory.cfg MCInventory` and likewise for each run
(`tracking` is `MCGateway`; the runs of section 4 are the configurations
`MCInventoryOversell`, `MCCheckoutTwice` and `MCPaymentRoute` of their modules).
`tlapm InventoryProofs.tla`, and likewise for the other modules with proofs.
The longest run (`party`) takes about a minute and a half on two workers.
