# Verification of the THOR backend: orders, money and stock

This directory holds TLA+ models of the parts of the THOR backend that decide
who gets a unit of stock, what an order costs, whether a payment becomes an
order, and whether an event that was recorded is acted on. TLC model-checks the models on small
instances; TLAPS proves the most important properties for all values of the
constants. Paths below are relative to the repository root (the program itself
is in `src/`).

Contents: 1 the system, 2 the modules, 3 the runs, 4 what the runs found,
5 fairness, 6 the proofs, 7 what is only model-checked, 8 what is not modelled,
9 the plan.

## 1. The system

THOR is an Express/TypeScript shop backend on MongoDB (a replica set in
production, hence multi-document transactions), Redis (locks, caches, rate
limits), BullMQ queues and the Razorpay gateway. Two processes run the same
code base: the API (`src/index.ts`) and the worker (`src/worker.ts`: pollers,
cron jobs and queue consumers). Every handler is `async`: between two awaits
any other request, any job and any gateway callback may run, in the same
process or in the other one. What keeps them apart are conditional updates
(`findOneAndUpdate` with a guard), transactions, and Redis keys with a TTL.

| Component | State it keeps | Operations | Talks to |
|---|---|---|---|
| Checkout intents and payment finalization (`checkoutService`, `paymentVerificationService`, `paymentRecoveryJob`, `razorpayWebhookController`) | `CheckoutPaymentIntent`: `consumedAt`, `stockHeld`, `orderId`, `expiresAt`; the gateway's orders | open an intent with a soft hold, verify, webhook, recovery, release | stock, orders, Razorpay, auto-cancel job |
| Orders and their reservation (`adminOrderService`, `adminOrderController`, `criticalJobsService`) | `Order`: `status`, `paymentStatus`, `razorpayOrderId`, `inventoryReserved` | place, pay, cancel (customer, admin, job), change status, ship, refund, delete | stock, Razorpay, order outbox, carrier |
| Stock (`inventoryService`) | `Product.variants[].stock` | conditional decrement, increment, all-lines restore | everyone above |
| Checkout requests (`checkoutController`, `checkoutConcurrency`) | Redis keys `checkout:lock:<user>` and `checkout:idemp:<key>` | lock, replay, checkout, release | cart, orders, intents |
| Counter and B2B sales (`adminOfflineOrderController`) | an `Order` and a customer lead, written without a transaction | check, take line by line, create, record, roll back | stock |
| Cart (`services/cart/*`) | `Cart`: `items`, `version`; Redis key `lock:cart:<user>` | add, update, remove, clear, coupon, hydrate/reprice, order | checkout |
| Outboxes (order, cart, inventory, coupon, gifting, push) | one row per `dedupeKey`: `status`, `attempts`, `nextAttemptAt` | record, claim, side effect, outcome, poll, dead-letter, replay | queues, caches, push |
| Scheduled blog publishing (`blogController`, `blogPublishOutboxService`, `blogPublishJob`) | `Blog`: `isPublished`, `scheduledPublishAt`; one `BlogPublishOutbox` row per post | create, update, delete; record, cancel, backfill, claim, publish | poller lock |
| Coupon redemption (`couponRedemptionService`, `couponCacheService`, `couponAdminService`) | `Coupon`: its terms, `usedCount`, `usedBy`; `CouponRedemption`; the Redis copy by code | validate a copy, redeem with the order, edit, remove, purge | checkout, finalization |
| Pricing (`salePriceService`, `promotionBusinessRules`, `couponBusinessRules`, `cartHydrationService`, `cartRevalidationService`, `orderService`) | campaigns, promotions, coupons, the prices stored on cart lines | hydrate a cart, revalidate it, preview, price the order | cart, checkout |
| Job scheduling (`pollerLock`, `scheduledRunner`) | Redis poller locks, batch cursors | tick, expire, page | all pollers |
| Caches (`cachedFetch`, `cacheMutex`, `inFlightCoalesce`, `orderCacheService`, `orderReadService`) | Redis envelopes with a soft and a hard TTL, a version per user, a mutex; fills in flight in each process | fetch, refresh, store, increment, delete | read paths, cancellation, payment |
| Purchasing and adjustment (`purchaseInvoiceService`, `inventoryAdjustmentService`, `inventoryReconciliationService`, the product form of `productController`) | `PurchaseInvoice`: `status`, `idempotencyKey`; `Product.totalStock`, `updatedAt` | record and void an invoice, adjust, save the form, repair the total | stock |
| Shipping (`delhiveryAdminController`, `delhiveryTrackingSyncService`) | carrier state on `Order` | create a shipment, sync its tracking | orders |
| Gifting (`giftingQuoteService`, `giftingOrderService`, `giftingWorkflow`) | `GiftingRequest`: `status`, `linkedOrderId`, `quotedPrice` | request, quote, cancel, reject, accept into an order | orders, gifting outbox |

The remaining parts (accounts, catalogue and search, analytics, AI assistance,
review workflows, e-mail and WhatsApp channels, infrastructure) are
listed in `PROJECT.json` with the reason each is left out.

What is hard in this code, and what makes each part correct:

* **One payment, three finalizers, one releaser.** The client's verify call, the
  webhook and the recovery job finalize the same captured payment; the
  auto-cancel job releases the hold of what it takes for an abandoned checkout.
  Correct means: one order at most, the units of a hold end up in exactly one
  order or back on the shelf, and no hold lasts for ever.
* **Many restockers, one flag.** Two kinds of cancellation, the refund and the
  job put back the stock of one order; an online payment of an existing order
  takes stock again. Correct means: a reservation is put back once, a paid order
  is not failed, a cancelled order does not sit on stock.
* **Locks that end before their holder.** The checkout lock (15 s, no owner
  token) and the cart lock (8 s, owner token, get-then-delete) expire whatever
  their holder is doing. Correct means: what the lock is there for holds as long
  as the lock lasts, and a dead holder shuts nobody out.
* **At-least-once events.** An outbox row is worked on by an immediate dispatch,
  the poller and replays, and the dead-letter job moves rows by ids it read
  before. Correct means: nothing recorded is dropped, nobody works twice on one
  row at a time, retries are bounded.
* **One price, computed five times.** The cart view, its revalidation, the
  buy-now preview, the checkout and the order's line builder price the same units
  with code of their own while campaigns start and end. Correct means: the
  customer pays what was shown or is told that it changed, the parts of an order
  add up, and the best offer applies.
* **A promise made from a copy.** Checkout validates a coupon that may have been
  cached ten minutes ago and counts its use when the order is placed, for an
  online payment much later. Correct means: limits hold at the moment of the
  count, counters and records agree, and nobody is denied without a reason.
* **A schedule in two documents.** A post's date is written to the post and then
  to its one outbox row, while a poller may be publishing it. Correct means: it is
  published, not before the date that was set last, and by one poller.
* **A copy that outlives what it shows.** Fills of a key overlap each other, the
  write they should show and its announcement; the lock runs out, the process
  dies. Correct means: what was announced is shown, an old value gets no new
  life, and a request ends.
* **Absolute writes beside relative ones.** Sales add and subtract; the product
  form and the repair of `totalStock` store what they computed from an earlier
  read. Correct means: no writer undoes another, and a total that drifted comes
  back.
* **A status saved from an old read.** Admins and the customer save a gifting
  request over whatever it has become while an acceptance makes its order.
  Correct means: one request, one order.
* **Hand-made rollbacks.** The offline sale and the job's restock run line by
  line outside a transaction and may fail or die between two lines.

`PROJECT.json` lists these hazards at their lines with the properties that
watch it, or the reason none does yet.

## 2. The modules

| Module | Models | Lines it answers to |
|---|---|---|
| `StockLedger` | the abstract promise about stock: a unit is on the shelf or claimed by one party, and no step creates one | what `decrementVariantStock`/`incrementVariantStock` are used for |
| `CheckoutIntents` | online checkout from the hold to the order or the release | `checkoutService`, `paymentVerificationService`, `paymentController`, `razorpayWebhookController`, `paymentRecoveryJob`, `criticalJobsService` |
| `OrderReservation` | orders from placement to shipment, cancellation, refund, deletion | `adminOrderService`, `adminOrderController`, `inventoryService`, `criticalJobsService`, `paymentVerificationService`, `delhiveryAdminController`, `delhiveryTrackingSyncService` |
| `GiftOrders` | a gifting request from the quote to its order, and that order's life | `giftingRequestService`, `giftingQuoteService`, `giftingOrderService`, `giftingWorkflow`, `giftingService` |
| `CheckoutRequests` | concurrent checkout requests of one account | `checkoutController`, `checkoutConcurrency` |
| `Outbox` | the protocol that six outbox services repeat | `orderEventOutboxService` and its five siblings, `outboxDeadLetter`, `outboxReplayService`, `criticalJobsService`, the queue modules |
| `OfflineOrder` | counter and B2B sales | `adminOfflineOrderController` |
| `ProductStock` | those sales together with the other writers of a product's stock | `productController`, `models/Product`, `inventoryAdjustmentService`, `purchaseInvoiceService`, `stockBulkService`, `inventoryReconciliationService` |
| `Cart` | concurrent requests on one cart | `services/cart/*` |
| `CouponRedemption` | one coupon from the promise to the counted use | `services/coupon/*`, `orderService`, `paymentVerificationService` |
| `Pricing` | the rules as operators: campaigns, promotions, coupons, hints, totals | `salePriceService`, `saleScopeResolver`, `promotionBusinessRules`, `couponBusinessRules`, `couponLineScopeService`, `orderService` |
| `CheckoutPricing` | the order in which a checkout applies them, and what changes in between | `cartHydrationService`, `cartRepricingService`, `cartRevalidationService`, `checkoutService`, `checkoutController`, `orderService` |
| `BlogSchedule` | one scheduled post, its outbox row, the poller and its lock, the dead-letter job and replays | `blogController`, `blogPublishOutboxService`, `blogPublishJob`, `pollerLock`, `criticalJobsService`, `outboxReplayService` |
| `CachedFetch` | the cached list and detail of a customer's orders | `cachedFetch`, `cacheEnvelope`, `cacheMutex`, `inFlightCoalesce`, `orderCacheService`, `orderReadService` |
| `Totals` | the total of a function over a finite set | sums of amounts and units throughout |
| `MC*` | the instances TLC explores | |
| `*Proofs` | theorems about the modules they extend: `TotalsProofs` about `Totals`, `CheckoutPricing` and `ProductStock`, `CheckoutRequestsProofs` about `CheckoutRequests` and `CouponRedemption`, `StorefrontProofs` about `CachedFetch` and `Cart`, `OrderReservationProofs` about `OrderReservation` and `GiftOrders`, the others about the module of their name | |

Composition: `CheckoutIntents` and `OrderReservation` each instantiate
`StockLedger` under a refinement mapping (`LedgerSpec`). They share the stock
only through the two ledger operations, so each is modelled alone, with the
other one's effect limited to taking units or putting back units it owns.
`ProductStock` extends `OfflineOrder` and composes the two over one shelf: every
step of a sale (`SaleStep`) also moves `totalStock` and changes `updatedAt` when
it changes a stock.
`GiftOrders` extends `OrderReservation`: its initial states have a gifting request
or none, and an order made from a quote is an order like any other.
`CheckoutPricing` extends `Pricing` and gives its operators the moments at which
the code evaluates them.

### Conventions

* A Mongo transaction is one step; a write conflict retries the transaction and
  so leaves no trace. Outside a transaction every awaited write is a step of its
  own, and so is every read whose result is used after an await.
* A line's quantity is one unit. What matters is which lines were taken and put
  back, not how many units a line has; `OfflineOrder`, where one sale may name a
  variant twice, keeps sequences of lines.
* Time is a band or a flag, never a clock: `Age` of an intent, `due` of an outbox
  row, `LockExpires`.
* A crash forgets what a process held in memory and nothing else. Where an error
  leaves behind what a crash would (a second transaction or a last update that
  throws), an action of its own says so, and the two share one bound.
* Auxiliary variables (`lost`, `called`, `cut`, `early`, `overtaken`, `late`, `added`,
  `taken`, `apart`, `ousted`, `moved`, `blind`, and the coupon's `rev` with what is derived from it) record
  history for a property and never guard an action.

### CheckoutIntents

`intent` is the document: `held` is `stockHeld`, `consumed` is `consumedAt`,
`linked` is `orderId`, `age` the time since `createdAt` in four bands, `doc` says
whether it is stored or removed by the collection's TTL index. `orders` counts
the orders with the intent's `razorpayOrderId`, `paid` is what the gateway knows,
`calls` the finalizations past their own first checks, `owed` what the running
job has claimed and not yet put back, `lost` what a dead worker forgot.

The bands are under 15 minutes; 15 to 30, where the recovery job looks; 30 to 35,
where the auto-cancel cutoff has passed but the hold window
(`CHECKOUT_STOCK_HOLD_MS`, 35 minutes) has not; and past `expiresAt`. Making the
third band visible is the point: a customer may still pay there, and the job may
already have released the hold.

`VerifyPayment`, `HandleRazorpayWebhook` and `RunPaymentRecoveryJob` are the first
half of each caller, with the checks that caller makes; `FinalizePaymentIntent`
is the transaction they share. Between the two anything may happen. The
payment-verify lock is left out since it expires after 45 seconds and is
released without a token; nothing proved relies on it. `ReleaseHold` and
`PutBackLine` are the job's claim and its restock line by line,
`CloseUnheldIntent` its `updateMany`, `DropExpiredIntent` the TTL index.
`Legacy` intents are stored without a hold, as those written before holds
existed; finalizing one takes its stock then.

### OrderReservation

`order` is the document (`reserved` is `inventoryReserved`, `link` whose gateway
order it carries, `payId` whether a payment id is recorded). `edits`,
`cancelling` and `refunding` are requests between their read and their write;
`job` is the auto-cancel job's place with each order and `owed` the lines it
still has to put back; `captured` is what the gateway holds.

Each handler is split where the code awaits without a transaction:
`OpenStatusEdit`/`SaveStatusEdit`, `CustomerCancel`/`CustomerRestock`,
`StartRefund`/`CommitRefund`, `CheckUnpaid`/`AutoCancel`/`AutoRelease`/`PutBackLine`,
`SwitchToRazorpay`/`LinkRazorpayOrder`, `OpenShipment`/`SaveStatusEdit` and
`OpenTracking`/`SaveTracking`. A shipment, and the delivery of an order read as
cash on delivery, save the same fields as an admin's edit and share its save;
the tracking of any other order leaves the payment alone. `RestoreAnd` is
`claimAndRestoreOrderStock` together with the document the same transaction
writes. `RequestFails` is a cancellation or a refund whose second transaction
throws: the first one, or the gateway, has done its part, the request answers
with an error, and nobody makes up for the rest.

Three consequences of these splits are worth knowing although no text of the
repository contradicts them:

* a status edit that was accepted before a cancellation is saved after it and
  revives the order, whose stock is then on the shelf (`SaveStatusEdit`, and
  likewise a shipment or a delivery the carrier reported, `SaveTracking`;
  the stock itself stays right, which is what `NoStockMinted` says);
* a customer's cancellation does not look at the payment, so an order that was
  paid between its placement and its cancellation is cancelled and restocked
  while the gateway keeps the money;
* a refund that reached the gateway and lost its process before `CommitRefund`
  leaves an order that looks paid and cannot be refunded again there.

### GiftOrders

`gift` is the request (`order` is `linkedOrderId`), `call` what each update or
answer in flight is going to save, `made` how many orders were made. The admin's
update and the customer's rejection check the status they read and save it later
(`OpenUpdate`/`SaveUpdate`, `OpenAnswer`/`SaveRejection`); a save writes the status
only if it differs from the one read. An acceptance looks for an order that was
linked before (`FindLinkedOrder`) and then makes one in a transaction that reads
the request again (`AcceptQuote`). `GiftDoc` has lines of the SKU `Custom`, which no
product has: it holds no stock, and `FinalizeDirectOrder` finds none for it.

### CheckoutRequests

`phase` is where each request is between its arrival and its answer, `lock` who
set the Redis key (the key's value is just `"1"`), `stored` whose answer the
idempotency key holds, `ordered` the cart a request read. `releaseCheckoutLock`
deletes the key whoever set it and `LockExpires` may happen at any time, so a
slow checkout loses its lock and later deletes the next one's. `early` remembers
that this has happened; the safety properties are about behaviours in which it
has not.

### Outbox

`status`, `attempts` and `due` are the row's fields, `phase`, `target` and
`tries` a dispatch call and what its claim returned, `found` the ids the
dead-letter job has read and not yet written. `Claim` is the conditional
`findOneAndUpdate`; `Complete`, `Fail` and `MarkDead` write by `_id` alone, over
whatever the row has become.

`SideEffect` says that the call came back (`called`), not that it did what it
should: all six services are told nothing of it. The invalidations of an inventory
row, the notifications and mails of a gifting row, the pushes and the cart
metrics catch their errors; an order row needs a queue that is never made
(`queuesMade`: the queue modules are imported before Redis is up), and the mails of
a coupon row without one are not awaited. What a side effect can throw comes from
the users it reads first, for coupon and gifting rows (`Throws`).

`CutShort` ends a dispatch between its claim and its outcome: its process dies,
the answer to the claim is lost, or the update in the catch block throws as well
(`orderEventOutboxService.ts:110`), which the caller only logs. The row stays in
`processing`, which the poller skips, the claim skips and the dead-letter job
only takes from the fifth attempt on: below that it stays until the TTL
index deletes it. `cut` names such rows; `EventNeverForgotten` and `EventSettles`
allow it of the row whose own dispatch was cut short and of no other.

### OfflineOrder

`decremented` is the array the catch block rolls back, `reservation` whether the
order exists and still has its flag, `late` whether a sale failed after its order was
created. `CheckLines` is the check of every line against the stock it reads,
`TakeLine`, `CreateOrder`, `RecordSale` and `UndoLine` the rest of the handler;
`CancelOrder` is the only operation of another module that meets these orders.

### ProductStock

`total` is `totalStock`. `form` is the admin's product form: the stocks it was
loaded with (`saw`) and sends (`typed`), whether it sends `updatedAt` (`dated`) and
whether the product still has that `updatedAt` (`current`). `Touch` says that any
write changes it, so two writes within one millisecond are not told apart.
`UpdateProduct` is the conditional update of `updateProduct`, whose filter has
`updatedAt` only if the form sent it. `receipt` is where each of the requests for
one delivery is, `invoice` whether an active invoice records it and whether its
key is in the unique index, which voiding an invoice does not free. The two
reads before the transaction (by key, by number) are one step, since a request
that passes them still meets both indexes inside (`Indexed`). `job` is the
reconciliation of the product between finding a drift, reading the variants and
storing their sum. An adjustment and a recorded invoice are a transaction each;
both save the whole document and so recompute the total.

`moved` adds up what adjustments, forms and deliveries meant to add, and `blind`
notes that a form without `updatedAt` was saved over a newer product: from then on
the stock is what that form says. A `Scenario` is which sales and deliveries take
part, whether the total has drifted, and how many changes admins make.

### Cart

`cart` is the document, with a line's quantity as the set of requests it adds
up, so that a lost update shows. The lines are a set: which of them comes first
matters only to `items.$`, when an item has two, and either may then be first. `IncLine`/`PushLine` are the two updates of
`addItem`; `ReadVersion`/`Swap`/`Conflict` are `bumpCartVersion`; `DeleteEmpty`
is the delete after the last line is gone; `WriteBack` is the unlocked and
unversioned repricing of `hydrateTotals`; `ReadCart`/`OrderCart` is a checkout;
`Release`/`Unlock` are the get and the delete of the lock's release. `overtaken`
remembers a write-back or an order of a cart that had changed.

### CouponRedemption

`coupon` is the document, with `rev` counting its writes; `cache` the copy stored
under its code, `fetched` the copies that readers have read and not yet stored,
`purges` the invalidations under way. A checkout is promised the discount from a
cached code (`EvaluateCachedCode`), a fresh read (`FindCouponByCode`,
`SetCachedCouponByCode`) or the coupon on the cart (`EvaluateCartCoupon`), and
redeems it in the transaction that places its order (`CreateCodOrder`,
`FinalizePaymentIntent`, the latter after `CreateRazorpayIntent`). `raced` notes
that the coupon or the day had changed since the copy of the promise. The user's
checkout lock is not relied on, so one user's checkouts overlap here.

### Pricing and CheckoutPricing

An amount is a number of hundredths of a paisa: prices are whole paise, `Percent`
of one is then exact, and `Round` is the code's `Math.round(x * 100) / 100`, which
some places apply and others leave out. What floating point does to a value that
lies exactly between two paise is not modelled, and names are equal or not,
without the code's trimming and lower-casing. `Winner` compares campaigns on the
product's base price and `SellPrice` applies the winner to the variant's, as the
code does; `named` is whether the caller looked up ids for the names of a legacy
product.

In `CheckoutPricing`, `shown` is the cart the customer saw (prices are stored on
its lines), `quote` what the checkout has computed so far, `order` what it
stores. Every await between two computations is a stage at which a campaign, a
promotion or a coupon may start or end and a quantity may change.

### BlogSchedule

`blog` is the post (`state` stands for `isPublished`), `row` its outbox row with
`due` for `nextAttemptAt`, `edit` the admin requests between their read, their
write of the post and their write of the row, `tick` the poller's ticks, `lock`
the Redis key and `start` the backfill of a starting worker. A `Caller` is a tick, or
the dispatch a `Replay` starts without the lock. `FindStuck` and `MarkDead` are the
dead-letter job, which writes by the `_id` it read before (`found`) and also
takes a row in `processing`, from its fifth attempt on. A request compares
the date with the clock twice, for the post and for the row; the model keeps
both. A tick's release is one step: a delete that comes late looks to the others
like an expiry, which may happen at any time. `Stop` is a process that dies or a
write of the outcome that throws. `apart` notes that two writers met, that the
write of a row failed or that a row was replayed before the post's date;
`NeverBeforeSchedule` is about behaviours in which none of these has happened.
`ousted` notes that a row was replayed while a caller still had it, up to which
`ClaimedOnce` holds. A post without a date (`NoDate`) is no day's, and
`NeverBeforeSchedule` says nothing of it: section 4 does. The announcement of a
post is left out.

### CachedFetch

The order is the number of writes it has seen (`db`; 0 before it exists), so a
value is old or new by comparison. `envelope` is what Redis holds under each
key; it turns stale and goes at any time after, in that order. `fill` is each
process's map of fetches in flight, with `began` the order's state when a fill
started; `request` a followed request, with `floor` the last write whose version
increment was done (`told`) when it read the version; other requests only appear
as the fills they start (`LookupElsewhere`), from whatever version they read.
`LockAndCheck`, `Fetch`, `Poll`, `FetchAlone` and `Store` are `computeAndStore`.
The mutex is won or not whatever the others do: it runs out after ten seconds at
most, is deleted by whoever finishes and outlives a dead holder. `Bump` and
`DeleteDetail` are the two steps of an invalidation, which may fail at either.

## 3. The runs

Passing runs with a liveness property check `FairSpec` (`Spec` and fairness), so
one run covers safety and liveness; `Cart`, `CouponRedemption` and
`CheckoutPricing` check `Spec`. `CHECK_DEADLOCK FALSE` is set because these systems do come to rest:
the bounded requests are answered, the intents consumed, the rows completed.

| Run | Instance | Distinct states | Properties |
|---|---|---|---|
| `CheckoutIntents` | 2 intents (one legacy), 2 variants, stock 1 and 2 | 172,687 | `UnitsAccounted`, `OneOrderPerPayment`, `OpenIntentHoldsStock`, `FateIsFinal`, `LedgerSpec`, `EveryCheckoutSettles`, `ReleasedUnitsReturn` |
| `GiftOrders` | 1 order, 2 variants of 2 units, 2 edits in flight; or 1 gifting request with 2 updates, 2 answers and 1 edit; 1 crash or failing request | 547,092 | `NoStockMinted`, `CancelledIsReleased`, `GiftOrderedOnce`, `PaidIsOnlyRefunded`, `LedgerSpec`, `CancelledStockReturns` |
| `CheckoutRequests` | 3 requests (2 COD, 1 buy-now, 2 keyed), 2 carts, 1 crash | 39,902 | `OneCheckoutWithinTTL`, `CartOrderedOnce`, `ReplayStandsForOrder`, `AccountNotShutOut` |
| `Outbox` | 2 rows (a gifting and an order row), 2 dispatch calls, 3 attempts, dead-letter at 2, 1 replay, 1 fault | 292,779 | `EventNeverForgotten`, `SingleDispatch`, `AttemptsBounded`, `EventSettles` |
| `ProductStock` | 3 scenarios over 2 variants: 3 sales, one naming a variant twice; 1 sale, 1 change and a drift; 2 requests for one delivery, 2 changes and a drift; 1 failing increment and 1 crash | 101,772 | `StockIsExplained`, `FailedSaleEnds`, `DriftIsFixed` |
| `Cart` | 3 requests in 6 scenarios, 2 items, 1 reprice, 1 checkout, 1 crash | 149,734 | `OneLinePerItem`, `AddedUnitsStay` |
| `CouponRedemption` | 3 checkouts of 2 users, limits of 0 to 2, 2 days, 1 edit | 1,608,492 | `UsageAccounted`, `CountedWithinLimits`, `DeniedOnlyByChange` |
| `CheckoutPricing` | bags of up to 2 units of 3 SKUs, every set of 2 campaigns, 3 promotions and 2 coupons, 1 change | 130,096 | `ShownIsCharged`, `OrderAddsUp`, `BestPromotionApplied`, `HintUnlocks`, `RefusedExactlyWhenDue` |
| `BlogSchedule` | 1 post, 2 requests, 2 dispatch calls, 3 days, 2 attempts, dead-letter at 1, 1 fault or replay | 1,000,795 | `ClaimedOnce`, `NeverBeforeSchedule`, `PendingIsServed` |
| `CachedFetch` | 2 processes, 1 followed request, 1 write, list and detail keys | 43,585 | `ListShowsAnnouncedWrites`, `StoredWasCurrent`, `EveryRequestEnds` |

The type invariants are theorems, not runs (`CheckoutPricing` has none of its own:
`OrderInv` types what its theorem needs); for the stock they say that no interleaving drives a variant
below zero.

What they show:

* `UnitsAccounted`, `OneOrderPerPayment`, `OpenIntentHoldsStock`, `FateIsFinal`:
  the `consumedAt` claim decides once between order and release. Whatever is
  missing from the shelf is held, sold or being put back, by one intent; only a
  crash during a release puts units in nobody's hands (`lost`).
* `NoStockMinted`, `CancelledIsReleased`, `CancelledStockReturns`: claiming
  `inventoryReserved` makes all restocks of an order exclude each other, and
  without a crash or a restock that throws somebody is always responsible for a
  cancelled order's stock and puts it back.
* `PaidIsOnlyRefunded`: although the job asks the gateway first and cancels
  later, it never fails an order that was paid in between.
* `GiftOrderedOnce`: the link, which no stale save touches and a deleted order does
  not clear, keeps a request that is quoted again from being ordered again.
* `LedgerSpec` (twice): every step of checkout, payment, cancellation and release
  is a step the abstract ledger allows.
* `EveryCheckoutSettles`, `ReleasedUnitsReturn`: no checkout keeps stock for ever.
* `OneCheckoutWithinTTL`, `CartOrderedOnce`: as long as no checkout outlives the
  15 seconds. `ReplayStandsForOrder` and `AccountNotShutOut` hold without that
  condition, the former within the 24 hours for which an answer is stored.
* `SingleDispatch`, `AttemptsBounded`: the writes by `_id` do no harm without a
  replay, because a row in `processing` can only be moved to `dead_letter` by
  anyone else. `EventNeverForgotten`, `EventSettles`: with replays too, a row is lost
  from sight only if its own dispatch was cut short, and every other one is
  completed, after its side effect was called, or set aside for an admin.
* `StockIsExplained` and `FailedSaleEnds`: the decrement's own condition makes up
  for the sale's line-by-line check, the rollback gives back exactly what was
  taken, a dated form never undoes a sale, and a delivery adds its units exactly
  as often as an invoice for it is recorded. `DriftIsFixed`: the job repairs the
  total in the end, although a pass that is overtaken can spoil it.
* `OneLinePerItem`, `AddedUnitsStay`: the cart lock gives what its comment
  promises as long as it lasts and no stale cart is written back.
* `UsageAccounted`, `CountedWithinLimits`: the conditional update inside the
  order's transaction makes up for a promise made from an old copy, so the
  limits hold for every counted use. `DeniedOnlyByChange`: a coupon for everybody
  is denied late only if it was used, edited or outlived meanwhile.
* `ShownIsCharged`, `OrderAddsUp`: the five computations agree when nothing
  changes, and an order's parts agree even when something does.
  `BestPromotionApplied` compares the single walk of `pickBestPromotion` and the
  sorted units of buy-some-get-some with what the terms say; `HintUnlocks` follows
  each hint; `RefusedExactlyWhenDue` compares the two pricings of a cart line.
* `ClaimedOnce`: the row's claim keeps two pollers apart when the lock does not,
  also when the dead-letter job takes the row from one of them, until it is
  replayed. `NeverBeforeSchedule`: retries, new dates, backfills, dead workers, the
  dead-letter job and replays after the date bring no date forward.
  `PendingIsServed`: a lock nobody deleted does not stop the poller.
* `ListShowsAnnouncedWrites`: a key with the version in it makes up for every
  late or lost fill. `StoredWasCurrent`: nothing an older fill, a lock that ran
  out or a stale envelope leaves behind is stored as new. `EveryRequestEnds`:
  neither a dead lock holder nor a missing order keeps a request waiting.

The other two runs, each checking one property under `Spec`, are those of
section 4.

### Why the bounds are enough

* Two intents are needed to compete for a unit and to mix a held with a legacy
  intent. The finalizers, the job and the TTL race for *one* intent, and all
  three sources are there for each. With stock 1 and 2 a second cart of the
  scarce variant must fail, and it also finds the unit a release put back.
  Whatever the size, the safety properties are proved (section 6).
* One order is enough in `GiftOrders`: no handler touches two orders, and
  stock is shared through the ledger's two operations only. Two units of each
  variant let the order take its stock twice, which is what the direct payment
  does. Two edits in flight let one edit, shipment or delivery overtake another;
  an order that such a race takes back from `shipped` is not tracked any more. `NoStockMinted` is
  proved for any number of orders.
* Two updates and two answers: the second of each comes late, over what the first
  one did. What matters of a second order is only that it would be counted.
* Two dispatch calls are needed to collide; the limits 3 and 2 keep the order of
  the real ones (6 or 8, and 5): the dead-letter job acts before a service gives up.
* Three requests: two compete for the lock while a third finds what they left
  behind; this is how a late release deletes somebody else's lock.
* One crash of each kind per run. A second crash meets states that one crash
  can already produce, with less left to forget. `CheckoutIntents` has as many
  crashes as there are releases to interrupt.
* Two checkouts of one user and one of another compete for a user's last use and
  for the coupon's; one edit is enough to make every copy stale, and the limits 0
  to 2 contain "no limit", the first use and the second.
* Two units give every kind of bag that a rule tells apart: one set of
  buy-one-get-one with a dearer and a cheaper unit, the pair another promotion
  asks for, two products of one category of which one has only its name, sums on
  both sides of each minimum and of free shipping. All subsets of the offers are
  initial states, and the change may come at any stage.
* Two requests create a post and move its date; three days have a date that was
  set, an earlier and a later one. A fault is a replay, a dispatch cut short or a
  lost row write: one replay after the dead-letter job is enough to bring a second
  caller to a row that a slow one has. The limits 2 and 1 keep the order of 6 and 5.
* One write divides what was cached before from what was cached after it, and a
  fill in each process, one for the followed request and `MaxFills` others, lets
  an old fill store after a new one and after the delete.
* A form, an adjustment or a pass of the job is overtaken by one sale as by many;
  a delivery needs two requests, with and without the key, and two changes to
  void its invoice and do one thing more. Three sales compete for the stocks 2
  and 1 of the two variants.
* `bumpCartVersion` gives up after 8 conflicts; an instance allows fewer writes
  than that, so the 409 it would answer does not occur in the model.

## 4. What the runs found

Two runs end in a counterexample: the code does something a line of the
repository says it does not. `PROJECT.json` quotes the lines.

| Run | What happens |
|---|---|
| `CheckoutIntents_CapturedPaymentIsRecoverable` | The auto-cancel cutoff (30 minutes) is shorter than the hold window (35), and the job releases without asking the gateway. A payment captured in the window is then left with a consumed intent, which neither the webhook nor the recovery job turns into an order. |
| `BlogSchedule_IntentIsDurable` | The upsert of a post's row sets its status only when it inserts it. A post that was published, by the poller or by hand, and is scheduled again is withdrawn, and its row stays `completed`: nothing publishes it. |

Further consequences of the code that no line of the repository contradicts, or
that no run is spent on:

* A stale envelope is answered and refreshed in the background, but the refresh
  looks again under the lock and returns any envelope that is still valid
  (`cachedFetch.ts:60`), so nothing is replaced before its hard TTL. A null from
  under the lock is taken for a lock that was not won (line 71): a request for an
  order that does not exist polls for two seconds and then asks again. The
  admin's handlers, the jobs and cash-on-delivery checkouts never announce a
  write, and a fill of the detail that read before a write and stores after the
  delete brings the old order back: lists and details may then be as old as the
  hard TTL. The version key has a TTL of its own (30 days), after which counting
  starts over.
* An online payment of an order that already holds its reservation takes its
  stock a second time (`finalizeDirectOrderVerification`, after
  `SwitchToRazorpay`), and the one flag later gives back one of the two. The
  shelf then shows too little for good; `NoStockMinted` says it never shows too
  much.
* A product form that does not send `updatedAt` stores every variant's stock as it
  was loaded and undoes the sales made since (`productController.ts:1289`).
* Voiding a purchase invoice leaves its units on the shelf, as its comment says.
  A second submission of the delivery then adds them again, unless it carries
  the key of the voided invoice: that key passes the check, meets the index and
  is answered with "this invoice number already exists".
* The repair of `totalStock` reads and writes in two calls without a session; a
  sale between them makes the total drift, until a later pass. The job looks at
  the first 50 products the query returns, without a cursor, so a product behind
  them is never repaired.
* The payment of a gift order is captured and can never be recorded: its lines name
  a SKU that no product has, so every verification ends with a 409
  (`paymentVerificationService.ts:337`). The refund asks for a recorded payment id.
* A gifting update that was checked before an acceptance and is saved after it
  takes an accepted request back to `price_quoted`, or to rejected or cancelled
  while its order stands; cancelling a request never touches its order.
  Repeating an acceptance with its key after it succeeded is refused with 400,
  because `assertCanAcceptQuote` comes before the lookup by key. The order takes
  the price read in the transaction, the mails the one read before it, and the
  mail of a second quote has the first one's `dedupeKey` and is not sent.
* Clearing a post's date, or withdrawing it, leaves its row pending, and the
  poller publishes whatever post it finds unpublished: the row is cancelled only
  when a request publishes the post (`blogController.ts:351` and 484), although the comment at
  `blogPublishOutboxService.ts:71` says "Cancel pending outbox entry when schedule is
  cleared or blog is published immediately". An edit that overlaps a
  dispatch can withdraw a post that was just published, with its row completed.
  A date that passes between an update's two looks at the clock gets no row until
  a worker starts. A hook that fails after the save is never called again.
* A replay of a blog row makes it due at once (`outboxReplayService.ts:48-83`): if
  the admin has given the post a later date since the row was dead-lettered, it is
  published before that date. The dead-letter job also takes a row in
  `processing` (`criticalJobsService.ts:561-575`), so a replay may let a second
  caller in while a slow one still has the row.
* No outbox row learns whether its side effect worked. All six services complete
  rows whose effect was swallowed: the cache invalidations
  (`productCacheService.ts:96-111`, `inventoryCacheService.ts:12-29`), the in-app
  notifications (`notificationService.ts:30-105`), the mails (`emailQueue.ts:191-206`;
  those of a coupon are not even awaited, lines 131-141), the pushes, the cart
  metrics and the order events. The comment at `giftingNotificationService.ts:265`
  says "emails via outbox for retry", but a mail that fails is not retried.
* If the update in a dispatcher's catch block throws, the caller logs it
  (`orderEventOutboxService.ts:70-76`) and the row stays in `processing`. Below five
  attempts nothing picks it up again, with no process having died; the same
  follows when the process dies between claim and outcome.
* A customer's cancellation commits before the transaction that restocks. When
  that one throws, the order stays cancelled with its reservation, nobody is in
  charge of it, and a repeated cancellation is answered as already done; the comment at
  `adminOrderService.ts:157` says "no partial state on failure".
* The order's transaction validates a coupon again without the lines of the bag
  and without the customer's history (`couponRedemptionService.ts:102`). A coupon
  with a scope or for returning customers is then refused: the order fails (cash
  on delivery) or keeps a discount that is not counted (paid online), although
  nothing raced. `DeniedOnlyByChange` therefore leaves
  targeted coupons out. Nothing gives a use back when an order is cancelled.
* A product that has only the name of its category is priced by a category's
  campaign in the cart and without it in the revalidation: the cart is refused
  (409) on every attempt, or an ended campaign goes unnoticed.
* A small coupon can take an order below the free-shipping threshold and raise
  what the customer pays. A percentage coupon on a percentage sale leaves a
  fraction of a paisa in the amount sent to the gateway. The hint of a
  buy-some-get-some promotion ignores its minimum order. Promotion and coupon
  together may exceed the subtotal; the total stops at zero, the stored discount
  does not. The id of a promotion that ended stays on the order without its
  discount. A campaign wins on the base price and is applied to the variant's.
* The cart's repricing writes back a cart it read earlier, without looking at the
  version. The order queue is made, if at all, before Redis is up; what is
  enqueued is then only logged, and its outbox row completed.

## 5. Fairness

* Handlers: `WF` on the steps of a request that has begun. Node runs a resolved
  continuation, and every awaited call returns or throws within its driver's
  timeout; a failing step is a step too (`Throw`, `CallFails`, `Fail`). Nothing
  says that a client makes, repeats or finishes anything.
* Jobs: `WF` on `ReleaseHold` and `CloseUnheldIntent`, because the auto-cancel
  job runs every 15 minutes and pages through all candidates with a cursor; on
  its later steps, because a pass that began goes on; on `FindStuck` and
  `MarkDead` (of `Outbox` and of `BlogSchedule`), by their timer. No fairness for the
  recovery job: its batch of 25 has neither order nor cursor, and no liveness
  property needs it.
* `Reconcile` of `ProductStock` has `WF` by its hourly timer, for a product among
  the 50 the job looks at.
* `GiftOrders` keeps the fairness of `OrderReservation`; nobody has to quote or to
  answer.
* Clocks and TTLs: `WF` on `TimePasses`, `LockExpires`, `BackoffOver`, and on
  `Expire` and `NextDay` of `BlogSchedule`, whose callers have `WF` because a timer
  starts a tick every minute and a dispatch that has begun goes on. Its requests,
  replays and dead workers have none.
* `CachedFetch`: `WF` on a request's lookup and on the steps of a fill, for as
  long as their process lives; none on writes, announcements, TTLs and crashes.
* `SF` on `Poll` of each row: the poller fires again and again, and a row of a
  batch only ever waits because the model bounds the dispatch calls in flight.
* No fairness on crashes, payments, webhooks, edits and retries.

## 6. The proofs

The assumptions are the named `ASSUME`s on the constants: a finite number of
intents and orders, naturals as stock and bounds, subsets where the
configuration selects some, and null values outside the sets they extend. Of the
stored offers they say what the schemas validate: no negative discount, cap,
minimum or price, a promotion asks for one piece at least and gives one, kinds
and scopes are those of the enums, and documents have ids of their own. The
catalogue and the promotions are finite. TLC evaluates them in every run.

Totals over finite sets (units held by all sales, amounts of all lines) need an
induction, and the library's induction theorems cannot be used (section 7). The
first part of `TotalsProofs` does without: the strict subsets of a finite set are
well-founded, which is a theorem about a relation and not about an operator, so
every non-empty collection of its parts has a least member (`Least`), and a
collection that has `{}` and grows by single elements has the set itself (`Grown`).
Stated of collections instead of predicates this is induction, and it gives
that the recursive function behind the fold exists (`AddsExists`) and is unique
(`AddsOnce`), that a total does not depend on the order of its elements
(`TotalSplit`), and what changing, adding and bounding values does to it
(`TotalMoves`, `TotalPlus`, `TotalMonotone`, `TotalPart`).

**CheckoutIntentsProofs.** `TypeCorrect`, then `Invariant`: the inductive
invariant `IInv` is `TypeOK`, `OneOrderPerPayment` and `OpenIntentHoldsStock` with
three facts they are not inductive without. `UnstoredIsClean` (an intent that was
never stored has no flags, order or payment) is needed when it is created;
`ReturnsAreConsumed` (units on their way back belong to a consumed intent, and
are there once) when an order is created from a hold; `CallsArePaid` (a
finalization in flight saw a captured payment) because the transaction itself
does not ask again. From `IInv` follow `OneOrder`, `HoldsStock` and the action
property `Fate`. `Conservation` proves `UnitsAccounted` by describing each step
as a move of claims: a step adds, removes or keeps the pairs in `Claims`, and the
cardinality of a variant's owners changes by what the shelf loses or gains.
`ImplementsLedger` uses the same moves to map each action to a ledger step:
creating an intent, or an order from an intent without a hold, is `Take`, putting
a line back is `Return`, everything else leaves shelf and claims alone.

**StockLedgerProofs.** `LedgerKeepsUnits`: what the abstract ledger promises, and
with it everything that implements it (under `LedgerAssumption`, the instances'
own assumptions on stock and claimants).

**OrderReservationProofs.** Every theorem but the last is about `Spec` and
`GiftSpec` at once, through `AnySpec`, whose steps are those of `Next` and the one
a gifting request adds, an order that reserves nothing (`GiftSteps`). Beside
`TypeCorrect`:

* `OInv`, the inductive invariant: an order that is not placed yet has no payment
  and no stock (`Untouched`), and what the job has cancelled or owes is of orders
  whose payment is no longer `pending`, so it never cancels one of them again
  (`JobSettled`). `PaidRefunded` and `CancelledReleased` follow step by step: the job's
  own write is conditional on a pending payment, and whoever cancels an order with
  stock is in `cancelling` or is the job.
* `ImplementsLedger`: each action is one of a few ledger steps (`TakesForOrder`,
  `ReturnsOrders`, `HandsToJob`, `JobReturns`, `LosesUnits`, or a write that moves no
  unit), with an order and the job's debt to it as the two claimants.
* `NothingMinted` is inherited: the module instantiates `StockLedgerProofs` under
  the same mapping (`Kept`), cites the ledger's theorem, and shows that the
  ledger's count of owners is this module's sum (`LedgerBound`).
* `OrderedOnce` rests on `Linked`: once an order was made, the request has a link,
  whatever its status.

**OutboxProofs.** `OneDispatcher` and `Bounded` share the invariant that, before
any replay, a row somebody works on is `processing` or `dead_letter` and that its
worker knows the current count of attempts (`Exclusive`), and that a pending row
has attempts left (`AttemptsRemain`). This is why an outcome written by `_id`
alone is harmless. `NothingForgotten` rests on `Accounted`, which adds to it that a
dispatcher past the side effect has had its call come back: so a row is completed
only after one, and is in `processing` only while a dispatcher works on it or if
its own was cut short. It needs no condition on replays, and any row may be one
whose side effect throws.

**CheckoutRequestsProofs, requests.** `OneCheckout` from `HoldsLock` (while no lock ended
early, a request past the lock holds it) and `CartOnce` from `CartUsed` (a COD
request that has read a cart still finds it; one that has ordered it has used it
up). `ReplayStands` from `AnswersBacked`: a request that is about to store its answer has
made its order.

**CheckoutRequestsProofs, redemption.** `CouponTyped`, then `UsageIsAccounted`: a step either
redeems for one order (`RedeemEffect`) or leaves counters, records and counted
orders alone (`OtherSteps`), and the cardinalities follow. `UsesStayWithinLimits`
reads the limits off the conditional update. `DenialsHaveAReason` needs
`CopiesAreDated`: every copy and every promise has a revision no later than the
document's, and one with the current revision and day is of a coupon that is
valid now, for that user and in total; so a denied order's promise is older.

**TotalsProofs, pricing.** `CampaignNeverRaises` (a campaign's price lies between
nothing and the price it is given) and `NeverAboveList`, from the arithmetic of
`Round` and `Percent` and from `WinnerIsLive`, whose `CHOOSE` has a value because a
non-empty set of numbers has a least one. `RevalidationIsExact` proves
`RefusedExactlyWhenDue` for every shop: a filed product has the same scope with
and without the looked-up names (`FiledScope`), so the same price (`FiledPrice`).
`ChargesWhatItShows` proves `ShownIsCharged` from `ChargeInv`: at every stage of an
undisturbed checkout, what is shown and what has been quoted so far are the lines
(`LinesNow`), the promotion and the coupon's worth that bag and offers give at that
moment. It needs no fact about the sums, only that both sides compute the same
ones, and that a coupon takes off something or nothing (`CouponWorth`): the cart
drops the coupon in the second case, and the checkout then asks no more for it.

**TotalsProofs, the order.** `OrderSums` proves `OrderAddsUp`. An order is built from
the quote alone, at stages at which bag and offers may have changed, so `OrderInv`
keeps where the quote came from: its lines are those of some bag at the prices
some offers gave (`QuoteIsPriced`), the live ones as long as no offer changed, and it names
a coupon exactly when that takes something off (`CouponIsNamed`, which needs that
the customer types a coupon of the shop or none). That the sale discount is
exactly the difference to the list prices needs two sums: no line costs more than
its list price (`NeverAboveList`, `TotalMonotone`), so the code's `Math.max(0, ...)`
is never reached, and both sums are whole paise (`TotalPaise`), so its rounding
changes nothing.

**TotalsProofs, the hints.** `CouponHintsKept`: what the fitting units of a bag are
worth (`Worth`) grows by the value of each unit added (`WorthGrows`), and with it
the two sums a coupon's rules compare (`CouponSums`). So the amount of a hint,
rounded up to rupees, covers the missing minimum, and a unit above a fixed price
makes the coupon valid. `HintsOfOrdinaryShop` proves all of `HintUnlocks` for
an `OrdinaryShop`: promotions are percentages or fixed amounts above zero, their caps
are whole paise, and no SKU sells for less than a rupee. At prices of some paise a
percentage may round to nothing and a hint be followed in vain; `HintUnlocks` is not a
fact about every shop. The hint of a cart is one of a promotion's (`HintIs`), since the
cross multiplication by which `pickPromotionHint` compares is an order of the
promotions (`Quotients`, `NearestOf`).

**TotalsProofs, the best promotion.** `BestOfPlainPromotions` proves
`BestPromotionApplied` for shops without buy-some-get-some offers whose caps are
whole paise (`PlainPromotions`; a cap between two paise would be rounded by the code and
not by the terms). The walk of `pickBestPromotion` ends with a promotion that comes before
every other (`FirstOf`, `BestIs`), each takes off what its terms say (`TermsKept`),
and until an offer or the bag changes what the cart shows is what pricing finds
(`BestInv`).

**TotalsProofs, the stock.** `StockTyped`: no interleaving of sales, forms,
adjustments, deliveries and the reconciliation makes the stock of a variant
negative. `StockExplained` proves `StockIsExplained`; `StockInv` adds to it and the types
what it is not inductive without. `TakenInOrder`: until its order exists, a sale
has taken the beginning of its lines, so that an order stands for exactly the
units taken, and is undone afterwards only if `late`. `FormFresh`: an open form
that nobody overtook shows the stock as it is, so that saving it adds what the
admin meant. A step of a sale moves units between the shelf and what that sale
holds (`SaleMoves`, from `HeldMoves` and what appending and dropping do to `Count`);
a step of anyone else changes the shelf by what it adds to `moved` (`DeskMoves`).

**BlogScheduleProofs.** `TypeCorrect` and `OneClaim`: until a held row is replayed
(`ousted`), a caller that holds the row finds it in `processing` or `dead_letter`
(`HeldIsNotOpen`). No request, backfill or other caller makes such a row pending, and
the dead-letter job only moves it on, so no second caller can claim it. The lock is not used.
`NotEarly` proves `NeverBeforeSchedule` from `ScheduleInv`: while no two writers have
met, no row was lost and none was replayed early (`~apart`), one request or backfill at most is about to
write the row (`LoneWriter`), and carries the date the post has
(`CarriesItsDate`); when none is, an open row is not due before the post's date and
a row that some caller has (`InHand`) is of a date that has come (`RowNotEarly`). The
status cannot say the latter, since the dead-letter job may have taken the row. `Unborn`: nobody
writes a row for a post that does not exist.

**StorefrontProofs, the cache.** `ListIsCurrent` and `StoredCurrent` from `CacheInv`.
`Counted`: the version counts at most the writes, however many increments are
still to come, so the key with the version a request reads was never used before
(`Versions`), and whatever is or will be stored under the current version has seen
every announced write. A followed request carries its own bound with it
(`Floors`). `Began`: a fill that has read a value read one no older than the
order was when the fill began. The effects of each action on single fills,
envelopes and requests are lemmas (`FillStepMoves`, `LookupMoves`, `WritersStep`),
and the invariants are proved from them.

**StorefrontProofs, the cart.** `OneLine` and `UnitsStay` from `CartInv`. `LockHeld`:
while no lock ended under a live request, its owner is the only request between
two of its calls. So what a request found in the cart is still there (`AsFound`:
no line of the item it is about to push, no line at all in the cart it is about
to delete). `Copies` deals with those that take no lock: a cart that was read
for a write-back or a checkout is no younger than the stored one, and holds the
same lines if it has its version (ids of deleted carts are not used again).

## 7. What is only model-checked

* All liveness properties: they need fairness and `ENABLED`, which this prover
  does not handle.
* `BestPromotionApplied` and `HintUnlocks` with buy-some-get-some offers. Their
  discount sorts the units with `SortSeq` of the module `TLC`, of which the proof
  system knows no definition. The runs have such an offer.
* Hints to promotions in a shop that sells below a rupee, for which they may fail.
* What a recursive definition gives for every input, other than totals: the
  library's induction theorems take an operator as a parameter, which no
  installed prover can instantiate.
* The counterexamples of section 4, which need one instance each.

## 8. What is not modelled

* Within the modelled parts: quantities above one in the stock models; the
  storefront's lists of offers and the admin checks of their terms; a post's
  content, comments and announcement; the end of a stored checkout answer, whose
  key lives 24 hours (`checkoutConcurrency.ts:16`), after which its request is a
  new one; the payment-verify lock; notifications and audit logs; the TTL
  indexes of the outboxes; returns (they write only `returnStatus`
  and `returnRequest`) and admin edits of an order's content; the carrier's interface;
  guest carts and cart merging; the prices, mails and attachments of gifting
  requests, those of visitors without an account, and their index on
  `acceptIdempotencyKey` and `user`; sold counts, cost prices, the stock log, edits of
  an invoice and variants that a product form adds or removes; the other users of `cachedFetch` and the scans
  that delete catalogue keys.
* A Redis outage: locks and caches are modelled with Redis up, and any call may
  throw; the fallbacks without Redis are not modelled.
* The remaining components, each with its reason in `PROJECT.json`:
  search, analytics, AI, e-mail and infrastructure keep no protocol of
  their own; access control is outside this project's subject.

## 9. The plan

Order of work, the most important behaviour first. Steps 1 to 13, 15 and 16 are done.

1. `StockLedger` and `CheckoutIntents`: the abstract promise and the payment race.
2. `OrderReservation`: the second implementation of the ledger.
3. `Outbox`: one protocol for six services.
4. `CheckoutRequests`: lock and idempotency around both.
5. `OfflineOrder`: the rollback made by hand.
6. `Cart`: optimistic versions under a lock with a TTL.
7. `CouponRedemption`: limits under concurrent orders, copies and edits.
8. `Pricing` and `CheckoutPricing`: the rules, compared with reference
   definitions, and the moments at which the code applies them.
9. `BlogSchedule`: the outbox that is upserted and cancelled, under the lock.
10. `CachedFetch`: soft and hard TTL, the mutex, the coalescing and the
    invalidation of a customer's orders.
11. Shipping and tracking as further writers of `OrderReservation`.
12. `ProductStock`: purchasing, adjustments, the product form and the repair of
    the total, composed with the counter sales.
13. `GiftOrders`: gifting requests composed with the orders they become.
14. Composition of intents and orders over one shelf.
15. Proofs: the cache (`ListIsCurrent`, `StoredCurrent`), the cart (`OneLine`,
    `UnitsStay`), the schedule (`NotEarly`), the replayed answer (`ReplayStands`), what is
    shown and charged (`ChargesWhatItShows`), and `OrderReservation` as an
    implementation of the ledger, with what it inherits.
16. Totals as something to prove about (`Least`, `TotalSplit`), and with them the
    explained stock (`StockExplained`), the order that adds up (`OrderSums`), the
    hints (`CouponHintsKept`, `HintsOfOrdinaryShop`) and the best promotion
    (`BestOfPlainPromotions`).
17. A sort with a definition that TLC and the proof system share, and with it the
    units that buy-some-get-some offers reduce.
