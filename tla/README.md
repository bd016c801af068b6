# Verification of the e-commerce services

TLA+ models, TLC runs and TLAPS proofs for the Go services in this repository
(`src/`). The services are an online shop: Catalog, Basket, Discount, Ordering
and Payment behind a Gateway, a storefront, and a worker that publishes
Ordering's outbox. What is hard about them is not any one request. It is what
happens between a database and a message broker when calls fail, processes stop
and several instances share one table. That is what is modelled first.

Contents: 1 the system, 2 the models, 3 the runs, 4 fairness, 5 the proofs,
6 where the code and its documentation disagree, 7 what is not modelled, 8 the plan.

## 1. The system

| Component | State it keeps | Operations | What it must get right |
|---|---|---|---|
| **Ordering outbox and worker** `internal/ordering/outbox`, `cmd/ordering-worker` | `OutboxMessages` (append-only), its CDC change table with a retained range, `OutboxCdcCheckpoints` (one row per consumer name), `OutboxPublishFailures` | the polling loop: load the checkpoint, read bounds, read changes, and per message look up its failures, publish, count, give up, and save the position at the end of a group | every committed message reaches the broker at least once, in commit order, or is given up on after a bounded number of attempts; a stuck worker shows in its health check |
| **Basket** `internal/basket` | one PostgreSQL row per user, a Redis entry per user, `basket_outbox_messages` | get, store, delete, check out; a cache in front of the repository | a basket is charged once; what a checkout empties is what it announces; a basket that is gone is not served |
| **Basket relay** `internal/basket/outbox` | the same outbox table with `attempts`, `next_attempt_on_utc`, `poisoned_on_utc` | poll due rows, publish, delete, postpone, give up; one relay per instance of the service | nothing recorded is lost; retries end |
| **RabbitMQ publisher and subscriber** `internal/platform/messaging/rabbitmq`, `messaging/subscriber.go` | queue, error queue, unacknowledged deliveries per channel | confirmed publish; subscribe with a prefetch count; acknowledge, requeue after a pause, discard, copy to the error queue; resubscribe | a message leaves the queue only when it has been dealt with |
| **Consumer inbox and checkout handler** `messaging/inbox`, `internal/ordering/mssql/inbox.go`, `internal/ordering/orders/checkout.go` | `InboxMessages` (claimed, finished), orders | claim, ask for the state, place the order, mark as finished | a repeated delivery does not become a second order |
| **Kafka publisher and subscriber** `messaging/kafka` | offsets of a consumer group | publish, fetch, commit, set aside | the same promises as RabbitMQ's, on committed offsets |
| **Broker selection** `messaging/broker`, `cmd/ordering` | none: the environment | choose the provider, check its settings, build its subscriber or publisher | a service runs against one broker with an address, or does not come up |
| **Messaging seam** `messaging`, `basketv1`, `orderingv2` | the registry of contracts | wrap and unwrap an envelope | an unknown contract is refused, not lost |
| **Orders** `internal/ordering/orders`, `domain`, `mssql` | orders, lines, customers, products, staged events | create, update, delete, place; save replaces every line and stages events in one transaction | an order and its events agree; no update is lost silently |
| **Ordering queries** `orders/get_*.go`, `view.go`, `mssql/scan.go` | none of their own | one order, a customer's orders, a page of all: each a few queries, beside the commands | an answer shows orders whole; a client that pages sees each order once |
| **Seed data and migrations** `mssql/seed.go`, `migrate.go` | none of their own | set-up on the first start | |
| **Catalog** `internal/catalog` | products | create, update, delete, list | an update does not bring a deleted product back |
| **Discount** `internal/discount` | coupons | get, create, update, delete over gRPC | |
| **Payment** `internal/payment` | card tokens | tokenize: validate, store under a random token | Luhn and expiry are computed as defined |
| **Gateway** `internal/gateway` | a request count per caller and window | rate limit, sweep, proxy | a caller stays within its limit |
| **Platform library** `internal/platform` | none | validation, problems, paging, configuration | |
| **Storefront** `web` | none beyond cookies | calls the services through the gateway | |

How they interact. A checkout in Basket deletes the row of the basket and records
a message in one PostgreSQL transaction; the relay publishes the message to
RabbitMQ or Kafka; Ordering's subscriber hands it to the inbox, which calls the
checkout handler; the handler writes the order, its lines and its events to
SQL Server in one transaction; capture copies the event rows to a change table;
the ordering worker reads them there and publishes them. Each arrow can be
crossed twice and broken off before, during or after the crossing. Calls that
take effect and report an error are the rule at a broken connection, not the
exception.

The behaviours that are hard to test, each with its line and with the properties
that cover it, are the `hazards` in `PROJECT.json`.

## 2. The models

Each call a process makes to a database, a cache or a broker is one action.
Whatever else is running may come between any two calls; a failure may end the
work at any of them. Local computation between two calls belongs to the action
before it. Payloads are absent: a message or a basket is its identity, plus the
few facts that a branch of the code looks at.

### Outbox worker

`OutboxWorker` models `internal/ordering/outbox` and the tables it works on.

| In the model | In the code |
|---|---|
| `written`, `lastLsn`, `Commit(n)` | rows of `dbo.OutboxMessages`; a transaction with `n` of them. A position is a number; a message is the pair of its transaction's position and its place in it, which is the order `__$start_lsn, __$seqval` of the query |
| `captured`, `minLsn`, `Capture`, `Cleanup` | `fn_cdc_get_max_lsn`, `fn_cdc_get_min_lsn`, and the two SQL Server jobs that move them. External: modelled as the reader uses them |
| `checkpoint`, `Load`, `Save` | `CheckpointStore`. `Save` is the unconditional upsert the code has |
| `attempts`, `poisoned`, `GetFailure`, `RecordFailure`, `MarkPoisoned` | `FailureStore` |
| `ReadBounds`, `ReadRefused`, `ReadChanges`, `ReadBatch` | `Reader.Read`: two queries, the batch limit plus one row, and the group that straddles the limit dropped or fetched whole |
| `pc`, `start`, `from`, `to`, `batch`, `group` | where `ProcessOnce` is, and its locals |
| `streak` | `Worker.consecutiveFailures`, counted up to the threshold of `Health` |
| `CallFails`, `Stop` | an error from any call; a crash or a shutdown at any point |
| `base` | history: the highest floor at which a worker without a checkpoint began, below which `Reader.Read` skips by design |

`OutboxStream` is the abstract promise: a log, an in-order at-least-once
delivery that may abandon a message in its turn, and a position that covers
settled messages only. `OutboxRefinement` maps the worker to it.

`OutboxOperations` adds the operator's recovery from an expired position, as the
runbook spells it out: with the workers stopped, republish what fell out of the
retention window (`Gap`), set the position to the oldest retained one, start again.

### Basket

`BasketCheckout` models the handlers of `internal/basket/carts`, the PostgreSQL
repository and the cached repository in front of it, for one user. Users share
no row and no entry, so one user is enough. A basket is its `version` (the code
draws a fresh random one for every store) and whether it has lines; a message is
the version the checkout read, because `CheckoutID` derives the id from user and
version. `lookup`, `fetch`, `fill` are the three calls of a read through the
cache; `discount`, `write`, `refresh` those of a store; `delete`, `evict` and
`commit`, `evict` those of a delete and of a checkout. `BreakOff` is a failed
call, a client that hangs up, or a crash; `Expire` is the end of an entry's time
to live. Requests overlap freely. The history `crossed` tells whether a store
ever overlapped another request, for the one property that needs a client which
waits for its answers (`AcknowledgedIsOrdered`).
`MCBasketCheckout` adds the symmetry of the requests.

### Checkout delivery

`CheckoutRelay` models `internal/basket/outbox` and the outbox store. Time is
reduced to whether a row is due: backoff and jitter decide when, not whether. A
relay remembers the attempts it read with the batch (`read`), as the code decides
on those, while other relays move the row.

`CheckoutConsumer` models the RabbitMQ subscriber, `KeepSubscribed`, the inbox
and the checkout handler. `body` is the sequence of copies that arrived, `ready`
and `held` say where the broker has each, `hand` is the copy a consumer works
on; a dropped connection returns what was held while the consumer goes on with
its copy, so a late acknowledgement goes nowhere. A message's `kind` is what the
code will find out: good, contradicting (rejected by the handler and set aside),
unreadable (discarded), refused by the database every time, or carrying the nil
id, which the inbox turns down.

`CheckoutPipeline` composes the two: it extends `CheckoutConsumer` and instantiates
`CheckoutRelay` as `R`. A publish that the broker takes is the arrival of a copy, in
one step (`Handover`), and everything else interleaves. Both faces of a failed
publish are there: refused, and taken without an answer.

`CheckoutSubscription` models how `cmd/ordering` gets its subscriber: the settings
of the environment (`Environments`), `ConfigFromEnv` and `Config.validate`
(`Selected`: RabbitMQ, Kafka, or the refusal to start), and then the consumers of
the broker that was selected, `CheckoutConsumer` or an instance of `KafkaConsumer`.
The other broker stands still.

### Kafka

`KafkaConsumer` models `internal/platform/messaging/kafka/subscriber.go` for one
partition and the consumers of its group, whose constants are in `KafkaGroup`.
A message is its offset. The group has
one `committed` offset, and the owner's reader has a `position` of its own, which
only a rebalance or a restart takes back to the committed offset: that difference
is what the module is about. `Fetch`, `Deliver`, `SetAside` and `Commit` are the
calls of the loop, in its order; `DeliverFails` and `SetAsideFails` continue
without a commit, and `CommitFails` logs and goes on, as the code does. A consumer
that loses the partition in `Rebalance` is not interrupted: it finishes its
message, and its late commit may be refused or may overwrite the offset. Kinds of
messages are those of `CheckoutConsumer`.

### Orders

`OrderLifecycle` models the commands of `internal/ordering/orders` and the
repository below them. `Create` and `Place` write a new order; `LoadOrder`,
`LoadLines` and `SaveUpdate` are the calls of an update; `Delete` is one
statement. A save is one transaction over the order's row, its lines and its
events. Two saves or deletes of one order wait for each other on the row, so each
is one action; a load is two queries outside any transaction, so a save or a
delete may come between them. What an update writes over is told by the number
of its commit, except for the lines: those are the ones it loaded, at the price
that the column `DECIMAL(18, 2)` keeps (`Cent`), and an event carries them as the
aggregate has them (the contract of an update has the total in their place). A delete announces nothing, and takes the lines along by the
cascade. Whether a new order is announced is a setting that instances may
disagree on.

`OrderQueries` extends it with the three reads, query by query: the count, the page,
then the lines of one order after the other. Every query sees what is committed when
it runs, which is the isolation level the connection has by default; the row locks
that make a query wait for a commit are not represented. `listed` is the one order
of `newestFirst`: new rows go anywhere in it, as ids break the ties of equal
times, and those listed keep their places. One client is followed: it reads single
orders, the orders of one customer (`Mine`), or walks through the pages until the
count of the last answer says that there are no more. `shown`, `repeats`,
`enduring`, `inserts`, `late` and `deletes` are the history of that walk.

### Gateway

`RateLimiter` models `internal/gateway/ratelimit.go`. A request reads the clock
(`Arrive`) before it gets the lock (`Allow`), so requests are counted in another
order than that of their times, and the sweep of one may come between the two steps
of another. Under the lock everything is one action: the sweep if one is due
(`Swept`), a new window (`OpensWindow`) or the count. `watched` picks an arbitrary
caller and interval at the start; `inside` and `since` count what gets through there,
and `held` how many of the caller's requests wait for the lock as it begins.
`MCRateLimiter` adds the symmetry of callers and slots.

### The shop

`Shopping` models what the services say to each other through a shopper, whose
storefront (`web`) is the only thing that knows them all.

| In the model | In the code |
|---|---|
| `catalog`, `used`, `CreateProduct`, `LoadProduct`, `UpdateProduct`, `DeleteProduct` | Catalog's documents and handlers; an update is a load and, later, a store that inserts or replaces |
| `coupon`, `CreateCoupon`, `UpdateCoupon`, `DeleteCoupon`, `AmountFor` | Discount's table, its gRPC server, and the zero answered for a product without a coupon |
| `cards`, `Tokenize` | Payment: a card is stored, then its token is answered |
| `OpenProduct`, `ReadCart`, `LookUp`, `StoreBasket` | the page of a product; "add to cart" reads the basket, merges the line and posts all lines; Basket looks up one coupon per line, then stores |
| `RemoveBasket`, `Checkout` | emptying the cart; the checkout page, which has the card tokenized and then posts the checkout |
| `PlaceOrder`, `Acceptable` | Ordering's `CheckoutHandler`: an order, or the error queue |
| `CallFails` | the gateway turns a call away or cannot reach a service, a look-up fails, the shopper leaves |

A product's name is its id here, so a coupon belongs to a product; products are
not renamed. Coupons have positive amounts: no code demands it, and one with a
negative amount would be a surcharge. `StoreBasket` and `Tokenize` may take
effect without being answered. The basket is one value read and written at
once and a checkout reaches Ordering once, because what the cache, the relay
and the broker do to that is the business of the modules above. `MCShopping`
adds the symmetry of products and pages.

## 3. The runs

Every bound is a constant of its module and named in the `.cfg`.

| Run | Instance | What it shows |
|---|---|---|
| `outbox_one` | 1 worker, batch of 1, up to 2 messages per transaction, 3 transactions, 3 messages, 2 attempts, 1 fault, under fairness | at-least-once (`CheckpointCovers`), commit order (`InOrder`), retries end (`AttemptsBounded`); every step is a step of the abstract stream (`StreamSpec`); every committed message is settled or the position has expired (`Delivery`); an expired position shows in `Health` (`StuckIsReported`) |
| `basket_free` | 3 requests, 3 stores, 1 failure | what was announced is gone (`AnnouncedIsGone`), is never an empty basket (`OnlyFilledAnnounced`), announcements never outnumber removed baskets (`OrdersNeverOutnumberBaskets`), and a basket whose store reported success and that a checkout removed was announced, as long as no store overlapped another request (`AcknowledgedIsOrdered`) |
| `relay` | 1 relay, batch of 2, 3 checkouts, 2 attempts, 1 break-off, under fairness | nothing lost, retries end, only refused checkouts are overtaken, each is sent or given up on |
| `subscription` | RabbitMQ: 1 consumer, prefetch 2, 2 messages of any kinds, 3 copies, 1 fault. Kafka: 2 consumers, 3 messages of any kinds, 2 faults. Every environment; under fairness | RabbitMQ: no copy leaves the queue undealt with (`NothingLost`), repeats make no orders by themselves (`RepeatsAreAbsorbed`), the queue drains unless hopeless messages fill the window (`QueueDrains`). Kafka: the committed offset passes over nothing but messages that a consumer failed on (`OnlyFailuresAreSkipped`), effects come in the order of the partition but for those (`InPartitionOrder`), no message stops it (`PartitionMovesOn`) |
| `pipeline` | 2 relays, 1 checkout, 1 consumer, up to 3 copies, 1 fault on each side, under fairness | a recorded checkout is always somewhere (`CheckoutSurvives`), a good one becomes an order in the end (`OrderedInTheEnd`) |
| `orders` | 1 update at a time, 3 orders, 1 product, 1 price, 3 changes, pages of 1 | an order keeps its lines (`WholeOrders`), its last event tells its state (`EventsTellTheState`), one that is deleted with no update in progress stays gone (`FinallyGone`); answers show orders whole, or without lines when deleted meanwhile (`ViewsAreWhole`); a walk through the pages repeats an order only for an insert (`RepeatsNeedInserts`) and misses one only for a delete, or for an insert after the last count (`MissesNeedDeletes`) |
| `shop` | 2 pages, 2 products at a price of 2, coupons of 1, 1 update under way, 2 changes, 2 stores, 1 card | prices charged were shown, less coupons (`PricedAsShown`); what Basket accepts Ordering rejects only for a line that a coupon made free or a text of blanks (`OnlyFreeIsRejected`); a checkout's card is stored (`PaidByCard`); adding drops nothing (`NothingDropsOut`); deleted products stay gone (`GoneForGood`) |
| `gateway` | 2 callers, 2 requests at a time, limit of 2, window of 2 ticks, 5 ticks | a caller is refused only for its own requests (`RefusedOnlyOverLimit`), in an interval as long as a window fewer than twice the limit pass if none waits for the lock as it begins, else fewer than three times the limit and those that wait (`BurstBounded`), the map forgets (`MapIsSwept`) |
| `basket_race`, `kafka_again`, `shop_discount`, `outbox_recovery` | the smallest instance that shows it | what the documentation or a comment says and the code does not do; section 6 |

Why the bounds are enough for these questions. In `outbox_one` a transaction of
two messages exceeds the batch of one, so a group is dropped from a batch and
fetched whole, and three transactions leave a group before and behind a retried
one; a limit of two attempts has both a counted and a final refusal; a position can
expire only with a third transaction. In `basket_free` three requests give two racing checkouts and a store or reader
between them. In `relay`, three checkouts exceed the batch of two, so one waits
outside a batch while others are refused. In `subscription`, three copies of two
messages hold a repeat next to another message, and exceed the window of two.
On Kafka, a consumer
that lost the partition can hold one message while the new owner fails on a second and
commits a third. In `orders`, three orders on pages of one leave an order before and
behind the page that is read, and three changes give a delete between the load and
the save of an update and an insert or delete between two pages; the price is not
in whole cents. Updates that overlap each other are left to the proofs, which hold
for any number of them. In `gateway`, five ticks are two windows and a boundary in an
interval that starts anywhere, and two requests at a time let one be overtaken, or held up over
the start of the interval; both bounds of `BurstBounded` are reached.
In `shop`, two stores with a
coupon of half the price are what makes a line free, two changes are a delete and
the store of an update around it, and two pages race to store.
The proofs of section 5 remove the bounds for the invariants they cover.

`StreamSpec` is about one worker: with several, the upsert of the position lets it go
back, which is by design and no step of the stream; the deployment runs one. The
at-least-once, order and attempt bounds hold for several, by proof. The type
invariants of relay, basket and orders are proved and not run.

Where a system rests for good (every checkout bounded by the instance recorded
and dealt with), a stuttering `Rest` action says so in `CheckoutRelay`,
`CheckoutConsumer`, `CheckoutPipeline` and `KafkaConsumer`. Deadlock is checked in
every run but `orders`, `gateway`, `shop` and `shop_discount`: their systems have
requests only, which stop at the bounds, and clients may stop asking.

## 4. Fairness

- Worker: weak fairness of each worker's steps and of the capture job. The loop
  in `worker.go` ends only with its context, and an operator or the platform
  starts a stopped worker again. That is an assumption about the deployment: the
  compose file gives the data stores a restart policy and the worker none. Calls
  are assumed to return, with an answer or an error; the code sets no deadline of
  its own for them, nor for the wait for a publisher confirm (see the hazard at
  `rabbitmq.go:85`).
- Relay: weak fairness of each relay's steps, and of time for each postponed row.
- Consumer: weak fairness of its steps and of the broker's pushes. A copy that is
  put back goes to the head of the queue, so a consumer can be handed the same
  hopeless copy again and again while another waits. Between taking and requeueing
  the code pauses for a second (`redeliveryDelay`) with room in the window, and
  the broker is assumed not to miss every such pause: strong fairness of
  `DeliverInPause`.
- Kafka: weak fairness of each consumer's loop, whose calls are assumed to return,
  and of the group, which gives a free partition to someone. Rebalances are not
  forced.
- `CheckoutSubscription` assumes the fairness of the broker that is in use, and
  `CheckoutPipeline` that of its two parts.
- The runs of `BasketCheckout`, `OrderQueries`, `RateLimiter` and `Shopping` check
  safety only and assume no fairness.
- Nothing makes a broker accept a message, a client send a request, a transaction
  commit or the cleanup job run. Faults are never forced, and are bounded in
  number: liveness says what happens once they stop.

## 5. The proofs

All theorems hold for every number of workers, relays, consumers, requests and
callers, and every batch size, attempt limit, prefetch count, page size, rate limit,
window and bound. They assume only the named assumptions of their modules: options
are positive, bounds are natural numbers, prices are natural numbers, `Nobody` is no
consumer and `NoOne` no caller, there are finitely many workers, relays,
consumers and requests at the gateway, and at least one relay, and transactions may stage at least one message
(`MaxPerTx`). TLC evaluates the assumptions in the runs. One theorem has a hypothesis
besides: `OneWorkerStreams` is about one worker.

**`OutboxWorkerProofs`**: `OutboxTypeCorrect`, `OutboxAtLeastOnce`
(`CheckpointCovers`), `OutboxInOrder` (`InOrder`), `OutboxRetriesEnd`
(`AttemptsBounded`), `OneWorkerStreams` (`StreamSpec`). `CheckpointCovers` is not
inductive: saving a position is right only because of what the worker did since
it loaded. `IInv` says so: `Positions` (no position runs ahead of what was
captured, so nothing commits below one) and, for each worker, `Accounted` (each
message that its reading went past is in its hands or settled, and when it is
about to save, nothing of that group is in its hands). The heart of it is
the lemma that a batch is closed downwards and never holds part of a group, whatever the
limit cut. `base` covers what a reader without a checkpoint skips. Since
`Accounted` speaks of one worker and the shared facts only grow, another
worker's unconditional save of an older position does no harm. `InOrder` follows
from the invariant, as a worker publishes heads of its batch. The bound on attempts
is an invariant of its own (`Counted`): from the limit on, each refusal that was
counted has a worker about to give up, or one that a failure kept from it; once one
has given up, nobody new gets past `failures.Get`, and each that is past it counts
at most once more.

`OneWorkerStreams` shows that every step of `OutboxWorker` with a single worker
(`OneWorker`) is a step of `OutboxStream` under the mapping of `OutboxRefinement`, or a
stutter. `Accounted` is not enough for it, as the stream also forbids what several
workers may do: to move the position back, and to send a message that was given up on.
`Sole` says what a worker that is alone can rely on, at each of its calls: it reads
and holds only what lies past the stored position, and the message in its hands has
not been given up on. With two workers both are false, and so is `StreamSpec`. That a
worker takes messages in their turn comes from `Accounted` again (`HeadInTurn`).

**`BasketCheckoutProofs`**: `BasketTypeCorrect`, `BasketCheckedOutOnce`
(`AnnouncedIsGone`, `OnlyFilledAnnounced`), `BasketAnnouncedHasLines`
(`OnlyFilledAnnounced`), `BasketNeverChargedTwice` (`OrdersNeverOutnumberBaskets`),
`BasketOrdersWhatWasStored` (`AcknowledgedIsOrdered`). `CheckedLines` carries the handler's test across
the gap to the transaction: lines never change under a version. `RemovedIsGone`
says that a removed version does not come back, so each announcement, which
comes with a removal, adds a new element to `removed`; the sets are counted with
the lemmas on finite sets. For the client that waits, `InStep` relates cache, readers
and row: only when the row's version was acknowledged do they have to agree, as a store
that failed half way may have left an older entry behind, and then what is announced
instead was not acknowledged.

**`CheckoutRelayProofs`**: `RelayTypeCorrect`, `RelayInvariant`,
`RelayLosesNothing` (`NothingLost`), `RelayRetriesEnd` (`AttemptsBounded`),
`RelayKeepsOrder` (`OnlyRefusedAreOvertaken`).
`Deleting` says that what is about to be deleted was accepted. The bound on attempts
needs a count: relays that read a low number may each count one more refusal
without giving up (`Stale`). Once a row is one short of the limit, no relay joins
them, and each that counts leaves, so attempts plus stale relays do not grow
(`Bounded`). The order holds for any number of relays, while the run has one. `Earlier`
is why: what was recorded before a row of a batch and still waits is in that batch, or
was refused. It survives what other relays do to the table, as they only delete,
postpone or give up on rows. A batch is chosen oldest first (`OldestFirst`), and what
is not due, or was given up on, was refused (`Waited`).

**`CheckoutConsumerProofs`**: `ConsumerTypeCorrect`, `ConsumerInvariant`,
`ConsumerLosesNothing` (`NothingLost`), `ConsumerAbsorbsRepeats`
(`RepeatsAreAbsorbed`). `Established` records what a consumer knows at each call
and that only placed orders are marked as finished. The count of orders needs
`Absorbed`: until a message is marked, every order beyond the faults has its
consumer on the way to marking it; once it is marked, nobody joins those already
about to place. The type invariant is itself more than a shape here: it holds
that no copy is in two places and that the consumer's copy heads its channel.

**`OrderLifecycleProofs`**: `OrderTypeCorrect`, `OrderInvariant`,
`OrdersKeepTheirLines` (`WholeOrders`), `OrdersAreAnnounced`
(`EventsTellTheState`), `DeletedInPeaceIsGone` (`FinallyGone`). `InHand` gives
`WholeOrders` for the lines that an update has loaded, which it will write back;
rounding them a second time changes nothing (`CentOnce`). `Released` says that no
update holds an order that was deleted in peace, and `Past` that no event is
newer than the row's last save, with the announced lines when it is that save.
`QueriesChangeNothing` shows that `OrderQueries` implements `OrderLifecycle`, and
`ReadOrdersKeepTheirLines` carries the three properties over.

What readers see has an invariant of its own, `QueryInvariant`, for
`ReadersSeeWholeOrders` (`ViewsAreWhole`), `WalksRepeatOnlyInserts`
(`RepeatsNeedInserts`) and `WalksMissOnlyDeletes` (`MissesNeedDeletes`). `Found` says
that an order whose row was read is there or was deleted, so its lines are whole or
none. The two properties of a walk compare sets of orders before and behind a position
of the list, and the invariant keeps account of both: `Again` counts the orders past
the position that were shown already, `Missed` those up to it that have been there all
along and were not. At each position that the walk still depends on, `Again` and the
repeats so far are covered by the inserts (`RepeatsArePaid`), and `Missed` by the
deletes (`MissesArePaid`). An insert can push one shown order past a position and a
delete can pull one unseen order in front of it, which is the lemma `CommandCounts`, about
any command and any position; reading a page moves the position by the page, which is
`PageRead`'s part of the account. The facts about sequences that this needs (what an
insertion, a removal, a page and a tail leave where) are lemmas of the module, proved
without induction from the definition of a sequence as a function.

**`CheckoutCompositionProofs`**: Kafka's group and the two compositions.

Of the group, as `CheckoutSubscription` instantiates it: `KafkaTypeCorrect`,
`KafkaInvariant`, `KafkaSkipsOnlyFailures` (`OnlyFailuresAreSkipped`), `KafkaKeepsOrder`
(`InPartitionOrder`). `OnlyFailuresAreSkipped` speaks of the committed offset
only. `Behind` says the same of whatever a consumer has in hand: everything below
it was settled, because its reader started at a committed offset and went
through the messages one by one, and what is settled stays settled, so it holds of a consumer
that lost the partition too. `Reading` says it of the owner's position while the
owner is between two messages.

The compositions follow from the theorems about their parts. `SubscriptionIsQueue` and `SubscriptionIsGroup` show that a behaviour of the
service is one of the RabbitMQ consumers and one of the Kafka group;
`SubscriptionLosesNothing`, `SubscriptionSkipsOnlyFailures` and
`SubscriptionKeepsOrder` follow. `PipelineIsRelay` and `PipelineIsQueue` do the same
for `CheckoutPipeline`. For `PipelineLosesNothing` (`CheckoutSurvives`) the parts are
not enough: `Arrived` says what neither of them can, that what the broker accepted
from a relay arrived at the queue or met none. With it, the relay's `NothingLost`
leads from the record to the arrival, and the consumer's from there to the order.

**`RateLimiterProofs`**: `LimiterTypeCorrect`, `LimiterInvariant`, `LimiterIsolates`
(`RefusedOnlyOverLimit`), `LimiterBoundsBursts` (`BurstBounded`), `LimiterForgets`
(`MapIsSwept`). `Fresh` dates the windows against the latest time a request had read,
`Counted` ties the counter of the watched caller to what was let through since the
interval began, and `Burst` is the account behind the bound, by where the caller's window
ends: before the interval, inside it (opened by a request that came before it, so one
short of the limit; a sweep lets a second one of the kind follow, `Bonus`, and only if a
request waited for the lock when the interval began, `Extra`), or at its end or later.
The account is kept of `Came`: what passed, less the waiting requests that have had the
lock since.

**`ShoppingProofs`**: `ShoppingTypeCorrect`, `ShoppingInvariant`, and one theorem for
each property of the run: `ShoppingPricedAsShown`, `ShoppingOnlyFreeIsRejected`,
`ShoppingPaidByCard`, `ShoppingGoneForGood` and, for the step of adding a product,
`ShoppingNothingDropsOut`. The properties are about what has arrived at Ordering or in
the basket; the invariant follows the same values through the pages on their way there.
`Priced` says of the lines on a page, and of the product it shows, what `PricedAsShown`
says of the basket, with the coupons that were ever offered. `Announced` has the total
of a message as the sum of its lines, which is the sum Ordering compares it with
(`TotalsAgree`). `Paid` ties a page that checks out to the token it was given, `Gone` keeps a
product that was deleted in peace out of every update's hands, and `Held` says that a
page that nobody has overtaken holds all lines of the basket it is about to replace.

Every safety property and every action property that a passing run checks is proved.
Only model-checked:
- liveness (`Delivery`, `StuckIsReported`, `QueueDrains`, `OrderedInTheEnd`,
  `PartitionMovesOn`): liveness under fairness is beyond the prover;
- the counterexamples of section 6.

Two limits shape what can be proved at all: induction over data (the library's
induction theorems take an operator as a parameter) and `RECURSIVE` operators.
None of the proved modules uses either.

## 6. Where the code and its documentation disagree

Each is a run that TLC ends with a counterexample, and a finding in
`PROJECT.json` with the lines on both sides.

- `basket_race`: "the basket is emptied and the message is certain to go out, or
  neither happens". A store between a checkout's read and its transaction is
  removed, while the message announces the basket read before.
- `kafka_again`: "not committed, so the group reads it again" (the comment in
  `kafka/subscriber.go`, and the architecture document). The reader has moved past
  the message, and the commit of the next one covers it. It is read again only
  after a restart or a rebalance that comes before that commit.
- `shop_discount`: Basket takes a coupon off the price a client sends, and the
  storefront sends back the discounted prices it read. Each further product added
  to the basket therefore discounts the lines already in it once more, although
  `Cart.tsx` says that "the price already has any discount applied". Enough adds
  make a line free, and Ordering rejects free lines: the shopper is told that the
  checkout succeeded, and it ends in the error queue. `PricedAsShown` and
  `OnlyFreeIsRejected` say how far this goes and no further.
- `outbox_recovery`: the runbook's recovery from an expired checkpoint sets it to the
  oldest retained position, after what fell into the gap was republished. A stored
  position counts its own transaction as done, as reading starts after it, but that
  one is not in the gap, and nobody published it: its messages never go out.

More statements were met that no run is spent on; they are among the hazards.

- The order and the product are loaded before an update since "writing straight
  away would resurrect" a deleted one. A delete between the load and the save is
  still undone by the save. `FinallyGone` and `GoneForGood` say when a deleted one
  is safe from it, and `WholeOrders` with which lines an order returns.
- The runbook says that a checkpoint expires when the worker was stopped too long
  or the checkpoint was moved by hand. An idle outbox saves no checkpoint while
  cleanup advances, so it can expire under a running worker.
- A checkout "clears the basket and its cache entry". A reader that was already
  past its database call puts the old entry back; `AnnouncedIsGone` shows this
  to be harmless for the money.
- "The inbox is what keeps one checkout from becoming two orders". Two instances
  with a copy each of one checkout both pass it; `RepeatsAreAbsorbed` states what
  the inbox does guarantee.
- The runbook has a poisoned message retried by clearing its record and rewinding the
  checkpoint. `Save` overwrites the row with the position of the cycle under way, so
  a rewind under a running worker may be undone.
- "Up to twice the limit across a boundary" (`ratelimit.go`). That holds of an interval
  that begins with no request of the caller between the clock and the lock. Requests
  held up there have older times: with a limit of 2, pairs that read the clock more than
  a window apart from each other can all pass at once, each pair in a window of its own,
  and a sweep can drop the window of a later time before they get the lock. All that
  waited may pass, and `3 * limit - 2` besides; that bound is reached. A window that
  ends at the very time of a request still counts for it.
- `Repository` says that an order is loaded "as one unit". Its row and its lines are two
  queries: `ViewsAreWhole` says that a deleted order can be shown without lines.
- `card.go` says that the Luhn check catches "two swapped neighbours"; it does not see
  09 for 90.
- The offset of a page is `pageIndex * pageSize` with no bound on the index: for an
  index near the largest integer it overflows and the database refuses it.

## 7. What is not modelled

- The Luhn sum and the expiry of a card: they decide only whether a card is
  refused, and keep no state.
- Seed data and migrations: they run before a service answers. Seeding is several
  transactions, and one that fails half way is not taken up again.
- What becomes of messages that wait at one broker when the services are switched to
  the other: they stay there until it is selected again.
- Within the modelled parts: names and addresses but for being blank; prices
  outside `Shopping` and `OrderLifecycle` (elsewhere no branch depends on them,
  except that a bad line makes a message contradicting); the
  content of events and envelopes; the delays of backoff, polling and
  redelivery; the connection a publisher caches; the separate channel for
  rejected messages, which is one with the connection; an operator's rewind of
  the checkpoint; users other than the one; the proxy's forwarding, which keeps no
  state.
- A checkout's id that is recorded again after its row was published and deleted. It
  takes two checkouts that read the same basket and removed two later ones
  (`basket_race`), and makes one more copy of the message, which to the consumer is a
  repeat. `Record` records an id once.
- Adding more than one piece at a time: in `Shopping` a page adds one, and quantities
  grow by repetition.
- The storefront's other pages, the lists of Catalog, platform helpers, deployment and
  generated code keep no state of the system or change none.

## 8. Plan

What is left, in the order of its worth.

1. `CheckoutPromise`: the abstract promise of a checkout from the recorded row
   to the order, implemented by `CheckoutPipeline`, and with Kafka in
   RabbitMQ's place.
2. Operations: rewinding the checkpoint under a running worker, retrying poisoned
   messages; a publish that never returns against the health check.
3. Pure algorithms against reference definitions: Luhn and card expiry, envelopes.

## Running

    tlc -workers 2 -config OutboxOne.cfg OutboxRefinement.tla
    tlapm CheckoutRelayProofs.tla

Each run's module and configuration are listed in `PROJECT.json`. The longest
takes about two minutes and has some seven million states; each proof module takes
a few minutes at most from nothing.
