# Algo-Trading: TLA+ verification project

This directory holds TLA+ specifications of the services under `src/`, the TLC
configurations that model-check them on small instances, and proofs, checked by
TLAPS, of their most important properties for every value of the constants.

`PROJECT.json` is the machine-readable index: which lines of the source every
definition models (`map`), the runs, the mutants that show that each property
can fail, the hazards of the code with the properties aimed at them, and the
theorems.

1. [The system](#1-the-system)
2. [Modules and the code they model](#2-modules-and-the-code-they-model)
3. [Runs](#3-runs)
4. [Proofs](#4-proofs)
5. [Where code and documents disagree](#5-where-code-and-documents-disagree)
6. [Abstractions and assumptions](#6-abstractions-and-assumptions)
7. [Not modelled](#7-not-modelled)
8. [Plan](#8-plan)

## 1. The system

The program trades on news. A user defines strategies; the rules engine matches
news against them and emits signals; trade-execution turns signals into orders
at one broker (Indira) and manages their exits.

```
 user --> gateway --> user-config --(strategies + execution_outbox, PostgreSQL)
                          |
                          | outbox worker --> Kafka user-config-events
                          v                            |
 MongoDB --> data-ingestion --> Kafka news --> rules-engine (config store, matcher)
                                                       |
                                     trade_signals + Kafka trade-signals
                                                       v
                                  trade-execution: signal processor
                                   |        |         |           |
                              OCO manager  multi-   price      executor / paper
                              + trailing   level    monitor        |
                                   \________|_________|____________/
                                            v
                     broker REST API  <-->  orders (PostgreSQL)
                     broker WebSocket --> status service --> managers
```

### Components, state, operations

| Component | State | Operations | Interacts with | What is hard | What makes it correct |
|---|---|---|---|---|---|
| user-config repository and outbox (`user-config/internal/repository`, `worker`, `scheduler`) | `strategies` rows with a version and `deleted_at`; `execution_outbox` rows | create, update (optimistic lock), activate, deactivate, delete, end-of-day deactivation; poll, translate, publish, mark processed | PostgreSQL transaction per change; Kafka producer without key partitioning | publish and mark are not atomic; overlapping transactions; rows that cannot be translated | no committed change is lost; the outbox drains |
| rules-engine config store (`configstore`) | active and paused maps (copy-on-write snapshot); versions and tombstones of the writer | upsert, pause, resume, delete, bulk load | config consumer (writer), matcher (readers) | late, repeated, reordered messages; restart | deleted strategies stay away; never an older version; one copy |
| config consumer and bootstrap (`kafka/config_consumer.go`, `startup`) | consumer position and committed offset; pages read | fetch and handle; commit every second; paged bulk load over gRPC | Kafka, user-config gRPC, store | commit lags behind the handler; rows move between pages | when all is delivered the store agrees with the database |
| matching and signals (`rules-engine/internal/engine`, `consumer/handler.go`, `kafka/news_consumer.go`) | window of duplicates, rows of `trade_signals`, offset | fetch with retries, match an event, check slot and cap, build the order, save and publish | store snapshot, Redis prices, PostgreSQL, Kafka | save and publish run in parallel and either may fail; edits while a match is processed; the window evicts and a restart empties it | one entry per strategy, stock and day; caps hold; no event blocks the rest |
| signal processor and consumer (`trade-execution/internal/executor/signal_processor.go`, `consumer`) | worker pool, offsets, `haltedStrategies`, order rows | consume, insert the order idempotently, route | Kafka, repository, managers | out-of-order commits; crash between insert and placement; adoption after placement | each signal is entered at most once; a fill finds the manager of its exits |
| executor (`executor/executor.go`) and broker client (`internal/indira`) | attempt, last error, order row | place with retries, check the order book after a timeout, background write, cancel | broker REST, repository | a timeout does not say whether the order exists; background write races events | one broker order per order; nothing erased |
| status service (`statusservice`) | one mutex per broker ID, order rows | handle an event: find, second lookup after 500 ms, average the price, write, notify managers; reconcile at start | broker WebSocket, repository, OCO, multi-level | a goroutine per event; events before the row has the broker ID; cumulative quantities | the row says what was traded, at a credible price |
| OCO manager (`oco/manager.go`, `types.go`) | groups: state, filled quantity, legs' broker IDs, confirmations; partial-fill timer | create or adopt, entry events, leg events, place legs, modify quantities, cancel leg, cancel group, timer, cleanup, reload | status service (events), broker REST, repository | goroutines with and without the group's mutex | one exit cancels the other; exits cover the position and never exceed it |
| trailing monitor (`oco/trailing.go`) | trigger, highest price; price client's connection, subscriptions, cache; watched groups | connect, subscribe, tick, poll Redis, evaluate, modify the stop | market WebSocket, Redis, OCO manager | two price sources; evaluation and modification are separate critical sections; rounding to ticks; restart | the stop never crosses the market and only tightens |
| multi-level exits (`multilevel`) | levels with quantities and broker IDs, one stop-loss | place levels, level fills, rebalance, replace the stop, square off, reload | status service, broker REST | rebalances of two fills overlap | open exits never exceed the position; every share has an exit |
| price monitor (`scheduler/price_monitor.go`) | watched entries, trigger flags | watch, evaluate, overshoot, trigger, retry, cancel, reload | market WebSocket, Redis, executor | several workers evaluate one order; trigger races cancel; retries | an entry is triggered at most once, not after a cancel, and every watch ends |
| paper trading (`paper`, `executor/paper_executor.go`) | simulated positions, price subscriptions, WebSocket clients | fill, tick, exit, force exit, broadcast | Redis prices, multi-level manager | several goroutines may exit one position | each position is exited once |
| square-off schedulers (`scheduler/auto_square_off.go`, `position_check.go`) | last run per day and per user | daily and per-user square-off, catch-up after a restart | broker's book, executor, paper | the book is read once and used later; other closers sell the same row; crash in the middle of a run | what is due is sold, and sold once |
| strategy events consumer (`consumer/strategy_events_consumer.go`) | offsets, halted strategies | on deactivation: cancel waiting entries and orders, close positions | price monitor, managers, executor | a signal or a square-off under way | no position is sold twice or left open |
| broker WebSocket client (`pkg/indira`) | connection, reconnect counters, subscriptions | connect, reconnect, token expiry, deliver or drop events | status service | full channel, expired token | it comes back when credentials do |
| risk management | limits and counters in Redis | pre-trade checks | Redis | check and registration are separate calls | limits hold |
| data ingestion (`data-ingestion/internal`) | processed IDs, semaphore, cached company master in Redis | watch the change stream, validate, enrich, publish; load the master; replay | MongoDB, Redis, Kafka | events shown again; a full semaphore; stale master data; stops | a document is published once, with recent details, or dropped for a cause |
| API gateway | none | translate HTTP to gRPC | gRPC | | |

## 2. Modules and the code they model

| Module | Models | Built on |
|---|---|---|
| `ConfigStore` | the engine's in-memory store: `configstore/store.go`, `config_store.go` | |
| `ConfigDelivery` | **abstract specification**: what the store may rely on (numbered changes; events late, repeated, reordered or lost; restarts) and what it then promises | `ConfigStore` |
| `ConfigPipeline` | repository transactions, outbox worker, Kafka, consumer, paged bootstrap, restart; implements `ConfigDelivery` | `ConfigStore`, `ConfigDelivery` |
| `OcoBroker` | external: the broker as trade-execution uses it for the three orders of a group | |
| `OcoGroup` | one OCO group with its goroutines | `OcoBroker` |
| `TrailingStop` | the trailing stop of one group, its price feed and its restart | |
| `OrderExecution` | one live order: executor, broker, status service, cancel, restart, reconciliation | |
| `PaperPosition` | one paper position: paper executor and monitor, the paper side of the multi-level manager, forced exits, square-off, the closing of its strategy, restart | |
| `PriceMonitor` | the price monitor's entries: watch, evaluation, trigger, cancel, reload | |
| `SignalPath` | Kafka consumer, worker pool, idempotent insert, every route, adoption, deactivation, restart; composes the price monitor with the executor's results | `PriceMonitor` |
| `RulesMatching` | pure: the match conditions, sizing and exit prices of an order | |
| `RulesSignals` | the rules engine from a news event to a saved and published signal | `RulesMatching` |
| `SquareOff` | live positions among everything that may close them on a trading day | |
| `NewsIngestion` | the news watcher, enrichment and its caches, the replay tool | |
| `*Proofs` | theorems about `ConfigDelivery` and `ConfigPipeline` (`ConfigProofs`), `TrailingStop` and `SquareOff` (`LiveExitProofs`), `OcoGroup`, `OrderExecution`, `PaperPosition`, `SignalPath`, `RulesSignals`, `NewsIngestion` | |
| `MC*` | the instances TLC checks | |

**ConfigStore.** `active`, `paused`, `versions` and `tombstones` are the four
maps; a strategy's value is its version and 0 means that it has no entry. Every
operation is one action because `ConfigStore.mu` is held throughout and readers
see immutable snapshots.

**ConfigDelivery.** `issued` and `deletedAt` stand for the database. `Deliver`
hands the store any event of any version issued so far, any number of times:
this is all Kafka, retries and offset commits may do. `Bootstrap` loads versions
that were in the database at some time.

**ConfigPipeline.** `Transaction` is one PostgreSQL transaction: row and outbox
row change together. `Insert` places the outbox row up to `Overlap` positions
back, because `created_at` is the transaction's start. The worker's batch is
taken row by row (`Publish`, `PublishFails`, `TranslateFails`), and marked at its
end (`MarkProcessed`) or not at all (`Abandon`). A message goes to any partition
(`LeastBytes` balancer). `Consume` is `config_consumer.go`'s loop body,
`CommitOffsets` the commit interval, `FetchPage`/`FetchLastPage` the bulk load.
`ConfigDelivery`'s state is read off this module's state directly (`issued <-
version`): property `ImplementsDelivery`.

**OcoGroup.** Handlers that hold the group's mutex for their whole body are one
action (`HandleBrokerUpdate`, `CancelGroup`, `ModifySLLeg`). Goroutines are split
where they release the mutex or call the broker: `placeOCOLegs` is `BuildLegs`,
`PlaceLeg` (once per leg, concurrently), `FinishPlacing`,
`StartPartialFillTimer`; `modifyLegsQty` is `ReadLegs`, `ModifyLeg`, `RecordQty`;
`cancelLeg` is `CancelLeg`. `placeLegWithRetry` sends a leg again after any error,
also one that leaves open whether the broker has the order, and does not look in the
book: `lost` are the orders of such attempts, up to `Attempts` of each leg, which the
group never knows of and which trade or end like any other. Their events have an ID that no
row has, and when one executes the status service takes it for a manual exit and
cancels the group (`handleManualExitDetection`, part of `HandleBrokerUpdate`).
`ModifyLeg` may fail at the broker; `RecordQty` follows all the same, as in
`modifyLegsQty`. `Environment` names what market, users and network do in an
instance, so that one module serves orderly and hostile instances.

**TrailingStop.** A price is evaluated in one critical section and applied in
another (`calls` holds what is in between, one slot for the WebSocket and one for
the Redis poll). Prices are integers in units of 1/`Unit` paisa and percentages basis
points, so the arithmetic is exact: the market moves in ticks of 5 paise, but
`EntryFillPrice` is the average of the fills, which nobody rounds (`manager.go:538`,
`service.go:457`), and may be any positive price. `roundNSE` rounds as the code does.
A subscription may be lost in two ways: a first one (`"lost subscription"`), when the
token has no cached price, and one after a reconnect (`"lost resubscription"`), when it
has. `Restart` rebuilds the group from what was stored, which is the trigger of the
placement. `best` is a history variable.

**OrderExecution.** Attempt *n* of `ExecuteOrder` creates broker order *n* at
most. `Other` is an order of somebody else with the same stock, side and quantity,
which `FindRecentOrder` (`indira/client.go:296`) cannot tell from our own: in the
scenario `"other order"` it is in the book from the start, and `Retry` may take it.
`events` is the set of status events whose goroutine has not got the mutex
of their broker ID; `waiting` is the goroutine inside its 500 ms pause, which
keeps that mutex. `row` is the database row; `copy` the row as `CancelOrder` was
given it. `scenario`, chosen initially, is the set of things that may go wrong in
a behaviour.

**PaperPosition.** `row` is the entry's row and `partial` the units in rows of
partial exits; `order` is the object that `orderCache`, the trailing code and
`exitPosition` share by pointer; `group` is the multi-level group with its levels.
The quantity of the position is thus kept in three places, and `recordPaperExit`
updates them in five steps (`recordPaperExit`, `WorkerPartialExit`,
`WorkerUpdateFilledQty`, `WorkerUpdateCache`, `WorkerFinish`), split at the
database calls and where a mutex is released. `exitPosition` is `ExitBegin`,
`ExitWrite`, `ExitClean` and may run once per source: WebSocket, Redis poll, user,
scheduler. Forced exits claim the position (`ClaimExit` is `LoadOrStore` on
`exiting`), book what is left of the group (`CancelGroupForExit`,
`AdminPartialExit`, `AdminUpdateFilledQty`) and then exit. `closing` is
`closeStrategyPositions` step by step. `Route` gives the order of the entry's
steps: a signal registers its group before the fill, an entry of the price monitor
after it, and a plain one has no group. Prices lie on a logarithmic scale in the
direction of the trade, so a percentage is a distance and both sides are one; a
P&L is represented by the number of units it stands for.

**PriceMonitor** and **SignalPath.** `PriceMonitor` has the orders that wait for
a price: the watch list and its entries with their trigger flags, the jobs in
`evalCh` and in the workers' hands (`looking`), and `triggerOrder` (`trig`) split
at its calls. Prices are *zones* relative to the order's target and maximum, which
is all the evaluation compares. `SignalPath` puts the Kafka reader, the worker pool
and `ProcessSignal` in front: insert, route (executor, OCO, multi-level, price
monitor, paper), execute, adopt. A message is committed by the worker that
finishes it, so commits are out of order; a restart resumes at the committed
offset and reloads the watch list from the rows. `lost` counts entries whose result
was never recorded, `excuse` says why a fill may find no manager.

**RulesMatching** and **RulesSignals.** `IsFullMatch` is `evaluateOne`'s chain of
conditions, `OrderRequest` the order of all three cases with its rounding to the
tick. `RulesSignals` is the single consumer goroutine: `Fetch`, `Evaluate`
(duplicates, match and market data), then per match `Skip` or `Build`, the two
parallel goroutines `SaveTradeSignal` and `PublishTradeSignal`, and `Published`
(`pubWg.Wait`). `Held` is what the store holds of a strategy: a configuration
event and the bootstrap keep different fields. The clock behind the comparison of
`UpdatedAt` and `created_at` is the number of configuration events. `day` and `clock`
are the date and the half hour in India. `CreatedDate` is what
`(created_at AT TIME ZONE 'Asia/Kolkata')::date` makes of a row: the column is a
`TIMESTAMP` without zone, filled with the wall clock of the process (`ProcessLag` half
hours behind India), read as an Indian time and turned into a date in the zone of the
session (`SessionLag`). The date is thus `Lag = ProcessLag + SessionLag` behind.

**SquareOff.** The clock runs through six phases of the day (trading, the
consumer's window 15:00–15:04, 15:05, 15:06–15:10, late, closed). `job` has one
closer per goroutine: the scheduler, the strategy events consumer and each force
exit; a closer reads its rows and the book (`FetchOpenPositions`), then places
reverse orders one at a time (`Place`, `ForceExitOrder`). `reversed` are the entries
with a square-off row, `net` the net quantity of the broker's book, `since` who
sold what after a closer read the book.

**NewsIngestion.** `stream` is what the change stream still has to show;
`processed` the window of IDs; a goroutine per document (`task`) holds a place in
the semaphore and reads Redis, then MongoDB, then publishes. The company master
is loaded at the start of a day and at the watcher's start, and fetched lazily;
a key of `cache` lapses after `TTLDays`. A day begins at 08:00.

Definitions whose comment begins with *Faulty variant* are not part of any
specification. Each is a plausible mistake in one definition (a dropped guard, a
missing reset); substituted for it, it must make a property fail. `PROJECT.json`
lists which under `mutants`.

## 3. Runs

`tlc -config <run>.cfg <module>`; the module of `MCConfigPipelineRestart` is
`MCConfigPipeline`, that of `MCOcoRaces` is `MCOcoGroup`, the others have the run's
name. All properties hold.

| Run | Properties |
|---|---|
| `MCConfigDelivery` | `DeletedStaysDeleted`, `VersionsMonotone` |
| `MCConfigPipeline` | `NoChangeLost`, `ActiveRowsServed`, `StoredNeverRegresses`, `OutboxDrainsOrBlocks` (liveness) |
| `MCConfigPipelineRestart` | `ImplementsDelivery` (refinement) |
| `MCOcoGroup` | `NoOrphanLeg`, `LegsCoverPosition`, `TerminalIsFinal`, `ExitEndsGroup`, `FillLeadsToLegs` (liveness) |
| `MCOcoRaces` | `LegsWithinPosition` |
| `MCTrailingStop` | `StopBehindMarket`, `WatchedGroupHasPrices`, `StopNeverLoosens` |
| `MCOrderExecution` | `FilledWasTraded`, `PricedEvents`, `OneOrder`, `NoFillErased`, `FillsReachRow` (liveness) |
| `MCPaperPosition` | `QuantitiesAgree`, `EveryUnitBooked`, `FirstExitWins`, `StopNeverLoosens`, `SquareOffCloses` (liveness) |
| `MCSignalPath` | `SecondEntryOnlyAfterLostResult`, `FillFindsManager`, `CancelledStaysOut`, `WatchEnds` (liveness) |
| `MCRulesSignals` | `OneEntryPerStock`, `CapHonoured`, `OrderSound`, `NewsHandled` (liveness) |
| `MCSquareOff` | `NoneForgotten`, `SchedulerClosesOnce`, `ShortNeedsCause` |
| `MCNewsIngestion` | `NewsOnce`, `DetailsRecent`, `NewsPublished` (liveness) |

What some of them show:

- `NoOrphanLeg`: beside an exit that traded, also one that the manager has lost sight
  of, no leg it knows stays open. `ExitEndsGroup`: such an exit, when it executes,
  ends the group, through the detection of manual exits, and the known legs are
  cancelled. (That a lost order itself is never cancelled is in section 5.)
- `WatchedGroupHasPrices`: the connection serves a watched group or Redis is polled for
  it, also if the subscription of a token that has had no tick is lost.
  `StopBehindMarket`: with a fill price off the tick, a step of the stop never reaches
  the market.
- `SecondEntryOnlyAfterLostResult`: redelivery, retries, racing ticks and a crash
  give a signal a second entry only if no result of the first was ever recorded
  (a failed background write of the row counts as a lost result).
  `FillFindsManager`: a fill that finds no manager of its exits had no credentials,
  was reloaded after a restart, or came before the call that registers it.
  `CancelledStaysOut`: an order cancelled before a placement has passed its look at
  the row is never opened, if the row can be read. `WatchEnds`: while the market
  stays at the target a watched order is placed or given up.
- `OneEntryPerStock` and `CapHonoured`: only a row that was never saved, or one created
  before the hour from which its date is right (`x.time < Lag`: before 11:00 if process
  and database run in UTC, never if both run in IST), lets a strategy enter a stock
  twice or exceed its daily limit. `OrderSound`: sizing and
  exits survive rounding to the tick. `NewsHandled`: no event holds up the others.
- `NoneForgotten`: a position open at 15:05 is taken up, also after a restart,
  unless the process is down to the end, starts within 15:05 or is busy past it, or
  cannot read the rows. `SchedulerClosesOnce`: restarts and catch-ups never make the
  scheduler sell a row twice. `ShortNeedsCause`: a position goes short only
  if a force exit repeats another exit, an exit order was left resting, the book
  could not be read, an entry was partly closed while it was still filling (the book
  only tells flat from not flat, and the closers sell the whole row), or two closers
  had looked before either sold, which the window rules out for the consumer and
  the run at 15:05.
- `NewsOnce`: while an ID is remembered its document is published once.
  `DetailsRecent`: published details were in the master at most two days before.
  `NewsPublished`: a valid document that the stream shows is published or dropped
  for a cause.

### Bounds, and why they are enough

- **ConfigDelivery**: 2 strategies, 4 versions each. Four versions allow a change,
  a delete, a repeated delete and an old event in every position; strategies do
  not influence each other in the store. The proofs remove the bound.
- **ConfigPipeline**: 1 strategy and 3 transactions with a failed call, over 2
  partitions and batches of 2, for safety and liveness; 2 strategies, 3
  transactions, pages of 1 and one restart for the refinement. Two partitions are
  what it takes for messages of a strategy to overtake each other; pages of 1 make
  rows move between pages; a batch of 2 can be half published.
- **OcoGroup**: quantity 2, the smallest with a partial fill. A group is
  independent of others. `MCOcoGroup` (172,583 states) has one attempt of each leg, which
  is placed, refused or accepted without an answer; `MCOcoRaces` (1,483,373 states) has
  two, so that both may be lost, or one lost and one answered: the leg is there twice.
  `Orderly` excludes the races of section 5 (events
  that overtake the placement of the legs, timeout, failed cancels and modifications);
  `AllRaces` has every one of them, with partial fills, cancels, trailing and lost
  answers. With two attempts and without rejections, trailing and user cancels
  (`LostAnswers`) the properties of `MCOcoGroup` about lost answers hold as well
  (475,172 states). With quantity 3 two `modifyLegsQty` can overlap, which
  `Orderly` excludes too ("fill while placing": the entry trades again while legs are
  placed or resized, or while an entry event is unhandled). The safety properties also
  hold at quantity 3 (1,585,426 states), and the proofs have every quantity.
- **TrailingStop**: a share at 10.00 with a stop at 1%, where a tick is half a
  percent, so every step rounds; filled one third at 10.00 and two thirds at 10.05,
  at 10.0333 on average (`Unit = 3`); six prices, including one 5% up and one below
  the entry; all 32 combinations of two sources, resizing, the two lost subscriptions
  and a restart. 101,254 states; `OrderSide = "SELL"` passes as well.
- **OrderExecution**: quantity 2, prices 1.00 and 1.04, limit 1.05, two
  attempts; every single failure and six combinations (`Mixed`), the last with an equal
  order of somebody else in the book. A third attempt
  or a third share adds no new kind of step; the proofs cover every number of
  both.
- **PaperPosition**: 4 units, so that shares of 35, 40, 50 and 65 percent round in
  both directions and up to three levels hold units; the fill at 5 and ticks at 2,
  4, 6 and 8, below and above every stop and target, and one between two targets.
  Five exit configurations (`Single`, `Levels`, `Trailing`, `Late`, `Plain`), each
  with a few combinations of what may happen besides ticks (`MCCases`): at most
  one request per actor, one failed database call, one restart. `EvalBuf = 1` job
  of the group waits in `evalCh`; the channel may be full at any time because it is
  shared with other groups. A source exits one position at a time.

- **SignalPath**: two orders of one strategy and two workers, so that a commit can
  overtake another; every kind of order that takes a route of its own, once with
  the hazards that depend on the kind, and one live order each way with all
  others in pairs (`MonitorHazards`, `WorkerHazards`); a topic with a repeated and a
  malformed message (`Redelivered`). `EvalCap = 1`, so `evalCh` is full at times; two
  trigger attempts, so that one is retried and one is the last. 46,737 states.
- **RulesSignals**: a message that cannot be parsed, an event with a price and one
  without, of different stocks; a strategy with a range, budget, limit and window
  and one that matches everything with a quantity; one configuration change, one
  restart, `DedupMaxEntries` of 1 so that fresh entries are evicted. `Moments` are 9:30
  and 11:30 of a day and 11:30 of the next, one on each side of the hour from which a
  date is right. Process and session are in UTC, as in the repository's containers
  (alpine images without `TZ`). 1,189,652 states.
- **SquareOff**: one entry of size 2, so that it can be closed in part, with a pair of
  exit orders, one force exit, one event of its strategy, and one out of a crash, a
  failed call, a changed time and a request; times before, at and after 15:05. The
  six phases contain every order of clock and closers. 774,334 states; with
  `MaxTotal = 2`, two of those events, the same properties hold (8,029,611 states,
  longer than a run should take). A second entry adds a second symbol and no new
  interaction: closers treat rows one by one; the proofs have any number of entries
  of any size.
- **NewsIngestion**: two documents of one company, a semaphore of one place (so
  that it is full), three days (a key may lapse from the second and is gone before
  the third) and two events out of failures, repeated events, master updates,
  replays and stops. 583,797 states.

`CHECK_DEADLOCK FALSE` is given where the modelled system stops by itself: users
have made their `MaxTx` changes and all is delivered, a group has ended, an order
is done, a position is closed, all signals and all news are handled, or the day
is over. `MCConfigDelivery` and the trailing run have no such end.

### Fairness

Fairness is assumed of the program's own loops and goroutines only, never of
users, market, faults, restarts or timers.

- **ConfigPipeline**: weak fairness of the worker (a ticker calls `processOutbox`),
  of the bootstrap's loop, and per partition of consuming and of committing
  (`CommitInterval`). `PublishFails` and `Abandon` are not fair and are bounded:
  the database and Kafka eventually answer.
- **OcoGroup**: weak fairness of event handling (a goroutine per event), of the
  placement goroutine, of `modifyLegsQty`, of `cancelLeg` and of the timer's
  cancel call: started goroutines run to their end.
- **PaperPosition**: weak fairness of the entry's goroutine, of a tick that is being
  handled, of the level worker, of every `exitPosition`, of a forced exit and of
  the closing of a strategy once they have begun. Ticks, polls and requests are
  not fair.
- **SignalPath**: weak fairness of the evaluation workers, of `triggerOrder` and of
  the goroutine that drops an overshot order, and, for `WatchEnds`, strong fairness
  of a price at the target: the market stays there, and the 100 ms poll offers it
  again whenever `evalCh` has room.
- **RulesSignals**: weak fairness of the consumer's goroutine, whose calls all
  return.
- **NewsIngestion**: weak fairness of the `Run` loop (one goroutine) and of each
  document's goroutine. `Publish` has a timeout of 10 s; MongoDB's `FindOne` has no
  deadline of its own, so the model assumes that the server answers.
- **OrderExecution**: weak fairness of `ExecuteOrder` and of the status service's
  goroutines. `FillsReachRow` is claimed when nothing but missing prices and an
  incomplete book goes wrong (`Reliable`), because lost events, failed writes,
  restarts and cancels really lose fills.

## 4. Proofs

TLAPS checks every leaf; nothing is taken on trust. Every safety property that a run
checks, invariant or action property, is proved for all values of the constants; where a
theorem carries a hypothesis, its table or paragraph below says so. Liveness
(`OutboxDrainsOrBlocks`, `ExitEndsGroup`, `FillLeadsToLegs`, `FillsReachRow`,
`SquareOffCloses`, `WatchEnds`, `NewsHandled`, `NewsPublished`) is out of the prover's
reach and stays with TLC. The library's induction theorems cannot be used with this
prover, because they take an operator as a parameter; where a proof needs induction (which
rows a filtered outbox keeps, which signal is handled first, what a sum over a finite set
of levels is) it takes the least counterexample instead (`WFMin`,
`NatLessThanWellFounded`).

None of the invariants below is inductive as the runs state it; each paragraph names
the strengthening and the reason for it.

**`ConfigProofs`** — first the abstract delivery, for every set of strategies and every
bound on versions: `DeletedNeverResurrected` (`DeletedStaysDeleted`), `StoreHoldsIssued`
(`OnlyIssued /\ OneCopy`, which no run lists any more), `VersionsNeverRegress`
(`VersionsMonotone`). An upsert is refused because of the *versions* map as well as the
tombstone, so the inductive invariant adds `VersionOrder`: without a tombstone the last
version is that of a live change, with one both maps hold a delete's version.

Then the pipeline, for any number of strategies, partitions, transactions, failed calls
and restarts and any batch and page size:

| Theorem | Property | Argument |
|---|---|---|
| `OutboxLosesNothing` | `NoChangeLost` | `PendingOrPublished`: every version is in the outbox or in Kafka; rows of the batch up to `sent` are in Kafka (`SentPublished`), so marking the batch drops nothing, wherever `Insert` placed newer rows meanwhile |
| `PipelineDelivers` | `ImplementsDelivery` | rows and messages only carry versions that the database issued, a delete only that of its strategy (`RowsSound`, `MessagesSound`), and so do the pages of the bulk load (`FetchedSound`); every step is a step of `ConfigDelivery` or leaves its state alone |
| `PipelineNeverResurrects` | `DeletedStaysDeleted` | the refinement carries the theorem over |
| `StoreNeverGoesBack` | `StoredNeverRegresses` | step by step from the same invariant |
| `ActiveRowsAreServed` | `ActiveRowsServed`, while `restarts = 0` | the current version of an active row is on its way in a row or a message that upserts it (`ActiveIsCarried`, `SentIsCarried`) or already applied, what is applied is served (`AppliedIsServed`), and no pause of the current version exists (`NoCurrentPause`) |

After a restart `ActiveRowsServed` is false for three reasons (section 5); the theorem
says exactly the part that holds for all instances, and `MCConfigPipeline` has no restart
either.

**`OcoGroupProofs`** — for every quantity and set of enabled legs:

| Theorem | Property | Hypotheses | Argument |
|---|---|---|---|
| `GroupTypeCorrect` | `TypeOK` | none | |
| `ExitsNeverExceedPosition` | `LegsWithinPosition` | none | the bound must hold of everything from which a leg's quantity is later computed: the quantities in events (`EventsHonest`), `filledQty`, `legQty` and every `modifyLegsQty` in flight (`QuantitiesBounded`); `HasQuantity` excludes the fallback to the full order quantity when `filledQty` is 0 |
| `EndedStaysEnded` | `TerminalIsFinal` | `CalmPlacing` | `placeOCOLegs` writes the state without reading it, so it must not run in a group that has ended: `PhaseInv` ties the goroutine to PLACING_LEGS, `EntryInv` says that an entry ends once and that no end is reported of an entry whose complete fill started the placement |
| `OneCancelsTheOther` | `NoOrphanLeg` | `CalmPlacing`, `NoTimeout`, `CancelsSucceed` | every open leg has a stored ID (`LegsKnown`); a leg that traded has an event on its way or the group is ending (`TradeTold`), and so has a lost order that executed (`LostTold`); an ending group has a cancel under way for every open leg (`EndingCancels`) |
| `PositionIsCovered` | `LegsCoverPosition` | `CalmPlacing`, `NoTimeout`, `CalmFilling`, `ModifiesSucceed`, a stop-loss leg | while every placement is answered (`AnsweredSeen`), what the entry traded is carried by an event, by the placement or by a resize until the legs have it (`FillCarried`, `PlacingCovers`, `ResizeCovers`); the stop-loss is open (`StopLossStands`) |

The hypotheses name the races of section 5 and nothing else: `CalmPlacing` no cancel and
no leg event while legs are being placed, `NoTimeout` no partial-fill timeout,
`CancelsSucceed` no failed cancel, `ModifiesSucceed` no failed change of a leg's quantity,
`CalmFilling` no further fill and no end of the entry while a fill is on its way to the
legs, no fill without a price, no adoption. Everything else (placements that fail or whose
answer is lost, trailing, partial fills of legs, user cancels, failed cancels in the last
theorem, failed modifications in the others) may happen. Of a group with a lost answer
`LegsCoverPosition` itself says nothing: its leg may be there twice. None of the hypotheses
can be dropped: without any one of them TLC finds a counterexample. The environment of
`MCOcoGroup` satisfies them.

**`LiveExitProofs`** — the two modules about live exits, which share one proof module;
the names of `TrailingStop` carry a prefix (`StopSpec`, `StopNext`) so that it can extend
both. Of `TrailingStop`: `StopStaysBehind` (`StopBehindMarket`) for every price
set, every average fill price in any unit, side, percentage and number of restarts, and
`StopOnlyTightens` (`StopNeverLoosens`). The core is arithmetic: scaling a trigger by
`ltp / highest` and rounding twice leaves it behind `ltp`. As long as the highest price
is the fill, which may be off the tick, being behind is not enough for this; the
trigger must be `Apart`: half a tick away for a BUY, a tick for a SELL (whose prices
fall, so that the distance may halve). From the first step on both are multiples of the
tick, and the invariant carries it through the calls in flight and the trigger a
`modifyLegsQty` holds. `WatchedGroupIsFed` (`WatchedGroupHasPrices`): a token that is
watched or has shown a price is subscribed, and a healthy connection serves one that has
shown a price (`FeedInv`), through reconnects, refreshes, restarts and lost first
subscriptions. Assumptions, all named in `TrailingStop`: the prices of the market are
multiples of 5 paise (`TickAssumption`; nothing is assumed of the fill but that it is
positive) and all are within a factor of two of each other (`BandAssumption`: exchange
price bands), a limit order does not fill at a worse price than its limit
(`LimitAssumption`), and the stop was placed at a positive price `Apart` from the fill
(`StopAssumption`; `placeOCOLegs` refuses less, see section 5).

Of `SquareOff`, for any number of entries of any size, requests, restarts and
failed calls. `SchedulerSellsOnce` (`SchedulerClosesOnce`): selling writes the square-off
row first and nothing removes one (`SoldReversed`), so a later query cannot list the
row; `ListUnsold` says that what a run still has on its list was not sold and is
on it once. `DueIsTakenUp` (`NoneForgotten`): `ServedInv`, every row due is covered or
still on the run's list, and `ClockInv`/`OutcomeInv`, at which times a run can have
which outcome. `ShortHasCause` (`ShortNeedsCause`): no closer has more of an
entry on its list than has traded (`QtyInv`), what the book showed a closer is so still
unless something traded since (`BookInv`), and the window keeps the consumer and the run at
15:05 apart (`WindowInv`). `SquareOffAssumption` keeps the names of closers apart.

**`OrderExecutionProofs`** — for every quantity, price set, limit price, number of
retries and set of scenarios:

| Theorem | Property | Argument |
|---|---|---|
| `RowNeverOverclaims` | `FilledWasTraded` | every event in flight and every copy of the row claims at most what the book has; the book only grows (`Grown`), so `Carried` holds across every broker step |
| `PriceIsCredible` | `PricedEvents` | a weighted average, rounded to the nearest integer, of two prices stays between them (`WeightedAverage`); a row with fills and no price exists only when the order has ended, so a NULL is never averaged in |
| `FillsAreKept` | `NoFillErased` | as long as the executor has a write to make the row has no broker ID (`NoIdYet`), hence no fills to erase |
| `RetryCreatesNoSecondOrder` | `OneOrder` | while a placement may still be made the book has no order of this executor, whatever others it has, unless the last attempt timed out and the book will be asked (`SingleOrder`) |

The only assumption is `OrderAssumption` (positive quantity and prices).

**`PaperPositionProofs`** — for every quantity, any number of levels with any shares, every
set of exit configurations and scenarios, and every bound:

| Theorem | Property | Argument |
|---|---|---|
| `PaperTypes` | `TypeOK` | a worker never takes off more than is left, because a level's share is part of a sum that equals it (`LevelInv`) |
| `LevelsAndCopiesAgree` | `QuantitiesAgree` | `LevelInv` says what each side sums up to at every step of `recordPaperExit`: its own side has already lost the level's units, the other side keeps them until it is rebalanced; `AgreeInv` says by how much the row and the monitor's order lag behind the group |
| `NoUnitDisappears` | `EveryUnitBooked` | every copy of the open quantity, together with what is recorded, makes up at least the whole position: the row, the order, the group, each exit, each forced exit and the closing (`RowCovered`, `GroupCovered`, `ExitsCovered`, `AdminsCovered`, `ClosingCovered`), so whoever writes the last exit row writes enough; `DropCovered` is the property before all is quiet |
| `FirstExitStays` | `FirstExitWins` | the guards on the exit price, in every action that writes the row |
| `PaperStopOnlyTightens` | `StopNeverLoosens` | `StopInv`: the stop is not above what any active target would set, and the target a worker is at comes before the active ones; `validateLevels` has ordered the targets |

The inductive invariant `Inv` has fifteen parts, and each action has one lemma
(`<Action>Keeps`) with one step per part. Beside the parts above it needs `EntryInv` (how
far the entry is), `GroupInv`, `CancelledInv` (a row is emptied only after its group was
cancelled, so that a row which disagrees belongs to no active group), `AskedInv`,
`ClosedInv` (an exit closed the row before it drops the order) and `PricedInv`. Two notions
of what is recorded are necessary: units in the hand of a worker (decremented, not
yet in a row) count for the group, which has them no more, but for copies that survive a
restart only if a forced exit or closing is possible, and then `MayLoseUnits` excludes
the restart. TLC checked every part on the states of `MCPaperPosition` first.

The arithmetic stands by itself: sums over finite sets (`SumFunctionOnSet` unfolds at any
element, is monotone, is unchanged by a change outside the set), `InitialSum` (the
shares of `computeInitialExitQtys` sum up to the fill) and `RebalancedSum` (rounding half up
and correcting by the difference gives back exactly the remaining quantity: the difference
is at most the number of levels that can be corrected, and no share becomes
negative). Assumptions, all in `PaperPosition`: positive quantity and prices, shares of
1 to 100 percent, which need not sum up to 100, a stop not above the fill, targets not
below it and in order (`ConfigAssumption`).

**`SignalPathProofs`** — for any orders, workers, messages and bounds, with
`SignalAssumption` and `MonitorAssumption` (the types of the constants):

| Theorem | Property | Argument |
|---|---|---|
| `OneSignalOneEntry` | `SecondEntryOnlyAfterLostResult` | `Balanced`: an order has at most one entry more than lost results. An attempt is only under way while the last result is lost (`AttemptIsDue`); one worker at most routes an order, because the insert is idempotent (`RoutedOnce`); an entry whose result was recorded is over: its row is closed, or its flag is set and never given back (`SpentIsOver`, `FlagHeld`) |
| `CancelledIsNeverOpened` | `CancelledStaysOut` | from `EntryInv`: after the cancel only an attempt that had passed its look at the row goes on |
| `FillIsManaged` | `FillFindsManager` | `ExitInv`: who placed an order still holds the call that registers its manager (`PlacedByMonitor`, `PlacedByWorker`), or the manager is there |

**`RulesSignalsProofs`** — `EnteredOnce` (`OneEntryPerStock`) and `LimitKept`
(`CapHonoured`) for any strategies, news, bounds, hours and lags of process and session.
A signal is counted before it is saved, and counts against others only afterwards.
`DateOfRow` is the arithmetic of the dates: the date that the query sees is today's
exactly for rows of today from the hour `Lag` on, so those are the rows that hold a slot,
and `Clocked` says that no row is of the future. With a lag of 0 the theorems say what the
code's comments say.
`Numbered` gives the signals the numbers below their count and `NewestPending` says
that the one still to be saved is the newest: its row can come too late only for
signals that do not exist yet. The consumer's single goroutine is what makes this
true, not the lock per strategy. `OrdersAreSound` (`OrderSound`) for all integer prices,
ticks, percentages and budgets: lemmas bound the quantity computed from 98% of the
budget and the rounding to a tick, and `InHand` carries the match from the snapshot to
the signal. The property itself excludes bases of so few ticks that the percentage is
less than half a tick.

**`NewsIngestionProofs`** — for any number of documents, companies, days, places of the
semaphore, repeated events, failures, replays and restarts. `PublishedOnce` (`NewsOnce`):
a document must have no second way to the topic. `OneWay` says that it waits, is in work
or is sent, one of them; `Remembered` that a running loop has the ID of whatever it has
taken, or that its stream was opened after the document and cannot show it; `Numbered`
and `Stopped` tie both to the collection and to stops of the process.
`DetailsAreRecent` (`DetailsRecent`): what the master gave is dated along its way from
a load or a lazy fetch (`MasterNow`, `LoadNow`) through the cached key (`CacheRecent`:
at most two days old) to the task (`TaskRecent`) and the message.

## 5. Where code and documents disagree

The runs check what holds. The following does not hold; each line can be
reproduced with the same modules by setting the constants and checking the
property (`InactiveRowsIdle`, `OutboxDrains`, `ExecutedExitEndsGroup`, `NoLostOrphan`,
`SLOnlyMovesUp`, `PriceIsAverage`, `BookedOnce`, `ClosedTakesNoSignal` and
`NeverDoubleExits` are in the modules for this).

| Property | Instance | What happens |
|---|---|---|
| `InactiveRowsIdle` | `MCConfigPipeline` | a strategy created inactive, or edited while inactive, is served as active: a CREATED or UPDATED message always upserts with `Active = true` (`config_consumer.go:56`; `docs/Project_Requirements_Document.md:300`: "INACTIVE: Strategy exists but does not trigger any trades") |
| `InactiveRowsIdle` | `MCConfigPipeline`, `Operations <- ToggleOperations`, 1 partition | an activate and a deactivate within one poll leave the strategy served: the ACTIVATED row is published with the later version (`outbox_worker.go:184`), the DEACTIVATED row behind it is stale |
| `OutboxDrains` | `DeleteOperations`, `FairSpec` | an ACTIVATED row of a strategy deleted since cannot be translated and blocks the outbox of every user (`outbox_worker.go:80`: "return error so the outer loop retries later") |
| `ActiveRowsServed` | `ToggleOperations`, `MaxRestarts = 1` | the bulk load seeds no versions, so an old pause redelivered after a restart is applied (`store.go:108`) |
| `DeletedRowsGone` | `CreateDelete`, 2 partitions, `MaxRestarts = 1` | tombstones are in memory only: an update redelivered after a restart brings a deleted strategy back (`store.go:104`) |
| `ActiveRowsServed` | 2 strategies, `PageSize = 1`, `MaxRestarts = 1` | a row deleted between two pages of the bulk load moves another past the offset (`strategy_repository.go:21`: "for stable pagination") |
| `ActiveRowsServed` | `AmountBased = {s1}`, `MaxRestarts = 1` | strategies sized by amount have quantity 0 and are skipped by `validateStrategyConfig` (`bootstrap.go:90`; `strategy_service.go:324` allows them) |
| `NoOrphanLeg` | `MCOcoGroup`, `Environment <- Timeout` | when the partial-fill timer has cancelled the rest of the entry, the broker's CANCELLED event fails the group although its legs are open (`manager.go:1220`: "the SL/TP legs remain active") |
| `NoOrphanLeg` | `MCOcoGroup`, `Environment <- CancelWhilePlacing` | a cancel in PLACING_LEGS cancels nothing and the legs are placed afterwards (`manager.go:1743`) |
| `NoOrphanLeg` | `LegWhilePlacing` | a leg that executes before its ID is stored is dropped; the other stays open (`manager.go:477`) |
| `TerminalIsFinal` | `RejectWhilePlacing` | FAILED is overwritten by the end of `placeOCOLegs` (`types.go:30`: "Terminal.") |
| `LegsCoverPosition` | `QuickFill` | `modifyLegsQty` reads the broker IDs too early and modifies nothing (`manager.go:521`) |
| `LegsCoverPosition` | `QuickFill`, `Quantity = 3` | two `modifyLegsQty` goroutines end in the wrong order (`manager.go:614`) |
| `LegsCoverPosition` | `"entry ends partly filled"`, `Quantity = 3` | a CANCELLED event of the entry that overtakes a PARTIAL one ends the handling of fills: the later one is dropped and the legs stay short |
| `LegsCoverPosition` | `PlaceFailure`, `Enabled <- OnlyTP` | a TP-only group stays ACTIVE when its only leg could not be placed (`manager.go:1013`) |
| `ExecutedExitEndsGroup` | `LegPartialFill`, `Enabled <- OnlySL`, `FairSpec` | a stop-loss that executes in two parts never ends an SL-only group (`manager.go:685`) |
| `NoLostOrphan`, `LegsCoverPosition` without its condition `AllAnswered` | `Unheard` | `placeLegWithRetry` repeats a placement after any error, a timeout or an answer without an ID included, and never looks in the book (`manager.go:1121-1157`): a leg is live twice, or live and recorded as failed, and nobody cancels the unknown order when the position is closed (`docs/Project_Requirements_Document.md:494`: "When SL fills → cancel TP. When TP fills → cancel SL.") |
| `TerminalIsFinal`, `ExitEndsGroup` | `UnheardWhilePlacing` | an unknown order that executes while legs are being placed cancels the group, and the end of `placeOCOLegs` makes it ACTIVE again with its legs open |
| `LegsCoverPosition` | `ModifyFailure` | a failed change of quantity is only logged and the new quantity is recorded (`manager.go:1288-1290`, `1311-1313`): the legs stay short (`manager.go:521`: "Modify SL and TP legs to full quantity") |
| `NoOrphanLeg` | `CancelFailure` | COMPLETED is set after the last failed cancel too (`manager.go:1362`) |
| `LegsCoverPosition` | `Adopted` | a fill before the adoption finds no group: the position has no stop-loss (`manager.go:1936`) |
| `SLOnlyMovesUp` | `MCTrailingStop` with a restart | trailing changes are not persisted (`repo.Update` writes neither trigger nor highest price), so after a restart the next high moves the order at the broker back (`manager.go:1400`; `docs/Project_Requirements_Document.md:538`: "never moves down, only up") |
| `WatchedGroupHasPrices` without its exclusion | `MCTrailingStop` | a token that has shown a price and is resubscribed in vain gets no ticks, and the poll of Redis skips it because the old price is in the cache (`trailing.go:672-674`): the stop stands still, although the poll is there for symbols that "receive no ticks (subscription silently dropped)" (`trailing.go:515-517`) and for subscriptions that "silently fail to deliver data" (`trailing.go:642-645`) |
| `StopBehindMarket` | `Unit = 1`, `EntryFillPrice = 1001`, `SLPercent = 10`, a price of 10.10, without the second part of `StopAssumption` | `placeOCOLegs` refuses only a stop at or beyond the fill (`manager.go:861`). At an average fill of 10.01 a stop of 0.1% is placed at 10.00, and the first new high of 10.10 moves it to 10.10: rounding has carried it to the market |
| `OneEntryPerStock`, `CapHonoured` without their exemption | `MCRulesSignals` | in UTC rows created before 11:00 IST get yesterday's date, hold no slot and are not counted: a strategy enters a stock twice and exceeds its limit with saved rows (`trade_signal_repository.go:115-116`, `136-137`; `migrations/001`: `created_at TIMESTAMP`; `models/order.go:146`: `time.Now()`; the comment at `:105-106`: "signal for this stock on today's IST date"). `orders.created_at` of trade-execution is a `TIMESTAMPTZ`, so the same expression is right in the queries behind `SquareOff` |
| `PriceIsAverage` | `MCOrderExecution` | a fill without a price leaves NULL, and the next fill averages it in as 0 (`service.go:457`; `service.go:424`: "VWAP formula") |
| `ClosedTakesNoSignal` | `MCSignalPath`, `Cases <- Deactivation` | nothing ever halts a strategy: `SetStrategyHalter` is called nowhere and `main.go:867` leaves the loader nil, so a signal processed after the closing of its strategy opens a position (`signal_processor.go:142`: "Reject signals for strategies that have been deactivated") |
| `NeverDoubleExits` | `MCSquareOff` | a force exit after the scheduler or the closing of the strategy has sold a row sells it again (`order_repository.go:989`: "safe to retry and never double-exits a position"; the query at `:991` asks for neither square-off rows nor the status) |
| `BookedOnce` | `MCPaperPosition` | a forced exit, a square-off or the closing of a strategy books the remaining units of a multi-level paper position as a partial exit and then the whole quantity it had read before on the entry's row; and a tick at the target of a paper trade with one fixed target is exited by the monitor and by a level worker. The units count twice in the P&L (`monitor.go:991`: "cannot place further partial exits on a position that is already being closed") |

And in `OrderExecution`, visible in the scenarios that the properties exclude:
a last attempt that times out ends in FAILED while the order is live
(`"timeout"`, `FillsReachRow`); after a timeout any order of the same stock (compared as
a substring), side and quantity is taken for this one, which is then never placed, or is
live unknown, while the row has the fills of the other (`"other order"`); a connection reset is retried without asking the
book (`"reset"`, `OneOrder`); `CancelOrder` writes an old copy over newer fills
(`"cancel"`, `NoFillErased`); an old PENDING event takes an executed order back to
PENDING (`Updated`); the reconciliation compares the status and not the quantity.

In `PaperPosition`, `EveryUnitBooked` excludes two cases in which units really
leave the books: a database call that failed after its retries, and a restart in
the middle of a forced exit or a closing, when a worker had taken units off the
group and not yet recorded them. Also seen in the code: after a restart paper
groups are not reloaded (their levels never fire again), a stop moved by a target
and one rescaled to the fill are not stored, and a deactivation between
`RegisterEntry` and the fill leaves a position open.

In `SignalPath` and `PriceMonitor`, behind the excuses of their properties: a
failed `ExecuteOrder` has written FAILED, so the retry of `triggerOrder` finds the
row terminal; an overshoot sets the flag by a plain store; when `GetByID` fails
`triggerOrder` goes on; a reload loses the maximum price and the adoption
(`onAfterFill`), does not reload paper entries, and watches an order without a
target at target 0 although its signal had failed; a failed message is not retried
in the process and a later commit covers it; `AdoptOrder` runs after
`ExecuteOrder` (`manager.go:1936`: "Register in memory BEFORE any WS event can
arrive"); without credentials there is no adoption at all.

In `RulesSignals`: the bootstrap drops caps, budget, trade window and exit levels
(`protoToModel`), so after a restart a limit no longer holds and a strategy sized by
amount is not loaded; the consumer's retry of a failed event finds it a duplicate
of itself and drops it; no code sets the status of a signal, so a failed trade keeps
the daily slot although the query excludes FAILED and CANCELLED; any edit of a
strategy moves `UpdatedAt` and frees its slots; the re-check of the percentage
change looks at the maximum only; exits are computed from the last price or the
target ("SL and TP are always computed from the final buying price"); for prices of
a few ticks rounding can put the stop at the price; above its limit the window of
duplicates evicts a fresh entry; the risk check is compiled out (`if false`).

In `SquareOff`: a deactivation in the window skips the square-off, and its bulk
cancel sets filled rows to CANCELLED, which the query at 15:05 leaves out; a start
within 15:05, or a tick that comes late, misses the run, whose guard is set before
the rows are read; a square-off row is written before the order, so a failed order
is never tried again; the scheduler leaves exit orders resting, and a deactivation
those of the multi-level manager; the book check takes a short position for open,
is per symbol and passes when the book cannot be read; a force exit without a token
marks rows exited without an order; filled rows of exit legs are exitable
themselves; the rest of a partly filled entry may fill afterwards; a strategy event
that failed is tried again only after a restart; a catch-up after 15:10 may race the
consumer, which has no limit at 15:30.

In `NewsIngestion`: a load skips an inactive company without deleting its key (a
comment in `redis_manager.go`: "both are not active then we dont process their
news"), so its news is published for another day; a lazy fetch may overwrite a newer
load; any error of `FindOne` counts as "company not found"; an error of the cursor
ends a load as if it were complete; after an error of the stream the process stays
up and reads nothing; the resume token is in memory and `Run` is called once, so news
inserted while the process is down is never read
(`docs/KT/DATA_INGESTION_SERVICE_KT.md:533`: "Resume capability to continue from
where you left off after disconnection"); a stop does not wait for documents in
work; a failed publication is not repeated though the ID is marked; the replay
neither validates nor looks for duplicates.

## 6. Abstractions and assumptions

- Payloads, names, logging, metrics and notifications are left out. A strategy's
  configuration is its version; the store's decisions depend on nothing else.
- One process of each service. `deploy-pm2.sh:41-42` starts two of rules-engine and of
  trade-execution, which share a Kafka consumer group. The models are of one: with two,
  the check and the insert of a daily slot (`RulesSignals`), the mutexes and maps of the
  OCO manager, the price monitor, the paper monitor and the status service, and the
  guards of the square-off scheduler are no longer in one place, and nothing here says
  that the properties then hold. Rows protected by the database alone (the idempotent
  insert of an order, the square-off row, the outbox) are the same for both.
- A broker or database call with its internal retries is one step that succeeds
  or fails as a whole. Where a failed call may have taken effect both outcomes are
  modelled for publishing (`PublishFails`), placing an order (`PlaceFails`) and placing
  a leg (`PlaceLeg`, which is one step per attempt); a failed cancel or change of a leg
  has had no effect.
- `OCOGroup.State` is written by `cancelLeg` without the mutex: a data race. The
  model lets the write that survives be either one.
- `float64` arithmetic is exact in the model; `filled_price DECIMAL(15,2)` rounds.
- The status service looks an order up a second time after 500 ms. The model
  assumes the executor's background write is faster unless `"slow write"` is in
  the scenario.
- Events of the status service reach the OCO manager in any order (a goroutine per
  event), each exactly once in `OcoGroup`; `OrderExecution` has lost events.
- PostgreSQL row locks and transactions are atomic steps; `created_at` order is
  bounded by `Overlap`.
- In `PaperPosition` reading the price for a forced exit always succeeds
  (`resolveExitPrice` falls back to the stop or the entry price); the rows that
  `createReverseExitOrder` adds for the trade history (`is_square_off_order`) are
  left out: the queries of open positions exclude them. (The query of
  `ForceExitByStrategy`, `order_repository.go:948`, does not, and takes such a row
  for a position of its own; that needs a second row in the model.) A failed `closeStrategyPositions` is one request, its
  redelivery another.
- `RulesSignals` evaluates all strategies in one step (the snapshot is immutable),
  leaves out the per-strategy lock (one goroutine) and the score, and lets the
  calendar and the market hours answer anything when they are asked. No event is
  handled across midnight, and the hour does not change while one is handled. Dates are
  to the half hour, which the offset of India needs.
- In `SquareOff` a closer's row changes are seen at once, each entry has a symbol of
  its own, a closing begun before 15:00 is over by 15:05, and the day ends at 15:30.
- In `NewsIngestion` nothing that is begun on a day lasts past it. A TTL of 25 h means
  that a key may lapse from the next day and is gone before the one after. Ages are
  minutes when the document is inserted; `dt_tm` holds an Indian clock reading as UTC
  (330 minutes). Copies made by retries inside the Kafka writer are not told apart.
- `News`, `Config` and the other constant sets of an instance are states the program
  can be in; a document or a strategy that fails validation is one of them.
- Every bound on counters (`MaxTx`, `MaxFaults`, `MaxRestarts`, `MaxVersion`,
  `MaxRetries`, `MaxChanges`, `Moments`, `MaxDays`, `MaxEvents`, `MaxOf`) is a constant.

## 7. Not modelled

- **Live multi-level exits** (`multilevel/manager.go`). The manager inserts no row in
  `orders` for its exit orders, so `handleStatusUpdate` (`service.go`, about 320–348)
  drops the fills of the IDs it knows and takes the others for manual exits:
  `onMultiLevelFilled` and `onSingleSLFilled` cannot be reached as the program is
  wired, and with them the live branch of `evaluateTPLevels`, `replaceSLWithReducedQty`
  and `replaceSLTrailing`. A model of the code as it is would have nothing but the
  placement; one of the code as intended would not be faithful. Seen while reading:
  the single stop is not resized (`types.go:19` says it is); an empty stop-loss mode
  is taken for FIXED with 0 %, which places the stop at the fill price; a multi-level
  stop with a fixed target places no target; broker IDs are not stored, so a reload
  cannot find the orders, and its remaining quantity is wrong. Where these orders
  matter to others (resting at the broker) they are legs of `SquareOff`.
- **Market feed clients** (`marketws/client.go`, `paper/market_client.go`): `TrailingStop`
  has the price client of the OCO manager; the other two differ in reference counts
  (which `Subscribe` updates under another mutex than the subscription) and feed
  modules in which a price may come or not come at any time.
- **Broker WebSocket client** (`pkg/indira`): reconnecting and token expiry. Its effect,
  events that are lost or delayed, is in `OrderExecution`.
- **OCO reload** (`inferState`, `reconstructGroup`): only its effect on the trailing stop
  is in `TrailingStop`.
- **Risk management**: independent comparisons whose only state is the duplicate
  window; the rules engine does not call it.
- Field validation and conversion in user-config and the gateway (pure functions of
  a request); formatting of broker requests; the paper WebSocket server and the P&L
  it broadcasts; metrics, logging, health checks; database migrations; generated
  protobuf code.

## 8. Plan

What is left, in this order:

1. `OcoReload`: what a restart in every state of `OcoGroup` leaves behind.
2. A composition of `OrderExecution` and `OcoGroup` for manual-exit detection: a fill of
   our own *entry* whose ID is not stored in time is taken for a manual exit. (`OcoGroup`
   has the detection for legs whose answer was lost.)
3. `WSClient`: reconnect and token expiry; it must come back.
4. Two instances of rules-engine or trade-execution on one database.

An abstract specification worth stating is a *position* (traded entry quantity minus
traded exit quantity, never negative) that `OcoGroup`, `PaperPosition` and, up to the
causes of section 5, `SquareOff` implement.
