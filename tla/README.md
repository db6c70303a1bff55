# AetherX: TLA+ models and proofs

This directory models the trading backend in `src/backend/src` (TypeScript, Redis
Streams, PostgreSQL, one worker thread) and the part of the trading terminal in
`src/frontend/src` that keeps state of its own. TLC checks the models on small instances; the
TLA+ proof system proves the theorems for every value of the constants. Paths below are
relative to `src/backend/src` unless they start with `src/`.

## 1. Inventory

The backend is one Node process. Its components talk through Redis Streams
(`services/eventBus.ts`), through PostgreSQL tables, and, for matching, through
`postMessage` to a worker thread.

| Component | State it keeps | Operations | Talks to | What makes it correct |
|---|---|---|---|---|
| Matching worker, `services/matchingWorker.ts` | per symbol: levels (linked FIFO queues with a running volume), sorted price arrays, `orderMap` | ADD_ORDER, CANCEL_ORDER, GET_DEPTH, matching loop | posts TRADE_EXECUTED and DEPTH_UPDATE to the main thread | indexes agree; not crossed; price-time priority; quantity conserved; the loop ends |
| Event bus, `services/eventBus.ts` | Redis streams; per subscriber a loop with `lastSeenId` | publish, subscribe, unsubscribe | everybody | order, at-most-once, no gaps, no lost backlog |
| Event store, `services/eventStore.ts` | table `event_store` with unique idempotency keys | append, appendBatch | OMS, matching engine, trigger engine | all-or-nothing batches, one event per key |
| OMS, `services/omsEngine.ts` | table `orders` (projection) | processIntent, processCancel, projectEvent | risk engine, event store, bus | one outcome per intent; rows follow events; every accepted order is activated |
| Matching engine, `services/matchingEngine.ts` | worker handle, depth cache | feed from `order.events`, storing trades | worker, event store, bus | feed order; no trade dropped; depth fresh |
| Order controller, `controllers/order.ts` | none | placeOrder, cancelOrder, queries | bus, table `orders` | only the owner cancels; cancelled orders do not trade |
| Trigger engine, `services/triggerEngine.ts` | stop and take-profit buckets in memory | load, add, remove, evaluate | bus, event store | a stop fires once, at its price, and is not lost |
| Risk engine, `services/riskEngine.ts` | none (reads balances and positions) | validateOrder, evaluateDrawdown (no caller) | positions, `accounts` | exposure never exceeds equity |
| Position engine, `services/positionEngine.ts` | in-memory positions, `isDirty` flags, table `positions` | handleTradeExecution, markToMarket, flushToDB, init | bus | sizes sum to zero; PnL equals cash flow; the table catches up |
| Ledger, `services/ledgerEngine.ts` | tables `accounts`, `transactions`, `ledger_entries` | lockEscrow, releaseEscrow, settleTrade (callers: tests), runReconciliationJob | PostgreSQL row locks | money conserved, balances not negative, double entries balance |
| Reconciliation worker, `services/reconciliationWorker.ts` | none | verifyInvariants every minute | ledger tables | alarms exactly when the books are wrong |
| Retry queue, `services/retryQueue.ts` (no caller) | Redis sorted set and dead-letter list | enqueue, processDueJobs, processJob, sendToDeadLetter | Redis, PostgreSQL | no job lost, bounded attempts |
| Idempotency store, `services/idempotencyStore.ts` (no caller) | Redis cache and table | check, record, cleanup | Redis, PostgreSQL | one result per key |
| Market ingestion, `services/marketIngestion.ts` | socket, heartbeat, reconnection timer, synthetic intervals, last prices | start, socket callbacks, heartbeat, reconnection, synthetic ticks | Binance, bus (one topic per symbol) | one connection; a source for every symbol; ticks keep coming |
| AruAlgo service, `services/aruAlgoService.ts` | open candle and indicator per symbol | seeding, tick, candle close and publication, getLatestIndicators | bus, gateway | candles in order, each closed once; reads do not change state |
| AruAlgo indicator, `services/aruAlgo.ts` | last candles, running averages, trailing stop, last levels | processCandle | AruAlgo service | averages in range; signals where the price crosses the stop |
| Analytics, observability, service registry | statistics, metrics, health | pure functions and counters | little | - |
| Boot and WebSocket bridge, `index.ts` | rooms of the sockets | boot order; subscribe, unsubscribe, forwarding of ticks, indicators and order events | bus, terminals | a terminal is in the room of its symbol and in no other |
| Auth, wallet, stats, market controllers | tables | registration with an opening deposit, queries | PostgreSQL | deposit balances |
| Terminal hook, `src/frontend/src/hooks/useWebSockets.ts` | socket per selected symbol, last tick, order book | connect, disconnect, subscribe, messages, cleanup | WebSocket | rooms follow the selection |
| Chart, `src/frontend/src/components/TVChart.tsx` | history, active candle, latest time, replay mode; indicator formulas over a series | load, tick and indicator effects, replay, timeframe | hook, market history | data are of the selected symbol; agrees with the server's indicators |
| Other views, `src/frontend/src` | view state | display, order form | hook, REST | - |

Hard behaviours: every `await` lets another handler run; three consumers read
`order.events` at their own pace; publication can fail after a commit; a restart loses
everything in memory; `"$"` moves while a subscriber is idle; trades are stored
concurrently; clients repeat intents and ioredis repeats commands whose answer was lost; a timer starts a poll while the last one runs;
errors, closes, timers and a heartbeat race each other in the feed; ticks carry two
clocks; answers and messages for an earlier selection of the terminal arrive late.
`PROJECT.json` lists each of these as a hazard at its line, with the properties that cover
it or the reason why none does.

## 2. What is modelled

### OrderBook (and PriceTimeExchange, OrderBookProofs)

`OrderBook.tla` is one symbol's book in `matchingWorker.ts`. One iteration of the inner
loop of `matchOrder` is a step, because a trade is posted there: `FillMaker` when the
maker is used up (`queue.shift`, `orderMap.delete`, the level is deleted when empty),
`FillTaker` when the taker is. `AddOrder` is the head of `addOrder`; `Rest` and `Leave`
are its end, with `insertResting` and `broadcastDepth`. `CancelOrder` is `cancelOrder`.
`taker` is the order between two iterations, 0 when the worker waits for a message.
Prices and quantities are integers (ticks and lots): the rounding of JavaScript numbers
is not modelled. The sorted arrays are sets with a best member, and doubly linked queues
are sequences.

`QuantitiesAgree` joins three facts about quantities: the running volume of a level
is the sum of its queue (`VolumeMatches`), the depth last broadcast is the book's
(`DepthFresh`), and what was added is resting, traded or cancelled (`Conservation`). Two
checks speak of code outside the worker: `DepthFresh` is what `getOrderBookDepth`
serves, and `TradeOncePerPair` is what makes the idempotency key
`taker-maker` in `matchingEngine.ts:44` harmless.

`PriceTimeExchange.tla` is the promise of `src/README.md` (price-time priority, FIFO): a
set of open orders, and a trade with the open order that has priority. The refinement
maps `open` to `orderMap` and `left` to the open quantities; `PriceTimePriority` is the
abstract specification as a property of `OrderBook`.

### EventBus (and MarketDataProofs)

`EventBus.tla` is one stream and the loops of its subscribers. XADD numbers messages, so
a stream ID is a number. `Block`, `ReadBacklog`, `Timeout`, `Receive`, `Handle`,
`ConnectionLost` and `Retry` are the places between two awaits of the loop. Redis
answers waiting readers in the step of `Publish`; the reply may still be lost with the
connection. `Handle` stands for a callback that returns and for one that throws: both
advance the cursor. `seen`, `runStart` and `since` are history.

### OrderLifecycle (and LifecycleProofs)

`OrderLifecycle.tla` composes the controller, the OMS, the event store, the projection,
the feed of the worker and the storing of trades; each is a handler with one step per
await. It uses the bus through a read index per subscriber. What justifies the index is
`GapFreeAfterFirst` and `AtMostOnceInOrder` (proved in `MarketDataProofs`): after a first
message a loop handles the stream in order and without gaps. A restart moves the indexes to
the end. Matching is reduced to a choice: the new order trades with some opposing orders,
at most one of them keeps something, and the order rests if it has a price and something
left. `OrderBook.tla` has the details; it takes each order once, and a doubled feed is a matter of
`OrderLifecycle.tla`, whose `Match` keeps a node per copy. `Fault` alternatives are failed database
or Redis calls, with what the catch blocks do about them; a failing call of the trade
handler is a rejection nobody handles, and ends the process (`FailTrade`).

Two properties of the transport reach the handlers, and the model has both:

* `LandUnanswered`. `config/redis.ts` keeps ioredis's default of sending an unanswered command
  again: XADD lands, its reply is lost with the connection, and the caller goes on waiting for
  the second one. Any of the four publications may be on the stream more than once;
  `unanswered` marks the copies whose reply was lost. A doubled ORDER_CREATED is activated
  twice, because ORDER_ACTIVATED is stored without a key, and the order is then fed to the book
  twice. A `Node` of the book is an order with its place in the feed, and `orderMap` knows the last
  copy only, as in `matchingWorker.ts:130`: a cancellation takes out that one, and a filled
  copy takes the id out of the map whichever copy it knew. Doubled intents and cancellations
  are `PlaceOrder` of the same order and `ResendCancel`.
* `Skip`. A loop that has handled no message reads from `"$"`, which is resolved again at each
  XREAD (`eventBus.ts:58`). What was published since the last one is lost to it, without any
  failure. `since` is the number of messages a loop had missed when it had handled none.

Left out because it has no effect in this commit: linked take-profit and stop-loss orders
(`<uuid>-tp` is not a UUID, so the projection's INSERT fails and is logged), take-profit
orders (`orders.type` is VARCHAR(10)), ORDER_TRIGGERED and ORDER_FILLED (ticks are
published to one topic per symbol and never to `market.ticks`, where the trigger engine
listens; nobody publishes ORDER_FILLED).

### LedgerEngine (and AtomicLedger, MCLedgerEngine, LedgerProofs)

`LedgerEngine.tla` runs `lockEscrow`, `releaseEscrow`, `settleTrade` and `register` as
lists of SQL statements, each call in a transaction on its own pooled connection. The
connections interleave between statements. PostgreSQL is external and modelled by what
the code relies on: row locks until the end of the transaction, a private version of a
written row, the CHECK constraint, and a deadlock detector that aborts a member of a
cycle. `seen` keeps the balance that came with the lock, because the code verifies funds
with it several awaits later. An UPDATE and the INSERT of its entry are one step; nothing
can observe the state between them, and a failure of either rolls both back.

Amounts are in grains and columns in units of their last decimal, `Grain` grains each.
The amount that a call passes to `balance - $1` and to the entry's INSERT is the same, but
each column rounds what is assigned to it (`Rounded`: to the nearest unit, a half away from
zero): the balance that is left, and the amount of the entry. They differ when a debit ends
in exactly half a unit. Then the entry says a unit more than the account lost. An entry
that rounds to zero violates its CHECK (`Vanishes`).
`RunReconciliationJob` and `VerifyInvariants` are the two reconciliation jobs; `alarms`
is what they have reported.

`AtomicLedger.tla` is the promise of `services/ledgerEngine.ts:173`: each call is one
funded movement of money, made at once or not at all, in whole units (`Given`, `Taken`: a half is
decided in favour of the holder). The refinement maps `balance` to the committed balances. `MCLedgerEngine.tla` gives the opening balances of the instance:
two users in the middle of trading, a third who is not registered, and an exchange that
can pay for one registration, and amounts of three units and of one and a half.

### PositionEngine (and PositionProofs)

`PositionEngine.tla` is one symbol. `ProcessSide` is `processSide` in exact fractions
(the code has doubles); `HandleTrade` applies it to the buyer and then to the seller,
without an await. The flush is a step per await: the values of a row are taken when its
UPSERT is sent (`sent`), and the flag is cleared when it returns. `cash` and `raced` are
history. Margin and liquidation price are functions of the size and the entry price;
`markToMarket` never runs, because nothing publishes to `market.ticks` itself. Two simplifications:
flushes do not overlap, and the pool gives BEGIN, UPSERT and COMMIT one connection.

### MarketFeed (and MarketDataProofs)

`MarketFeed.tla` is `marketIngestion.ts`: `FetchSpotPrice` and `Start` are the boot,
`OnOpen`, `OnTrade`, `OnOtherMessage`, `OnError` and `OnClose` the callbacks of the socket,
`Heartbeat`, `Reconnect` and `SyntheticTick` the timers. `timers` counts pending
reconnections, so that a second one would be seen. A price is known by where it came from
and a tick by its clock. Two delays of the code matter and are kept: the heartbeat acts
after a silence (`stale`), and the fifteen seconds of a reconnection outlast the tenth of
a second of every interval (`overdue` holds the intervals that fire before). The sizes of the
random steps are left out.

### CandleService, AruAlgo, ChartIndicators, Fractions (and MarketDataProofs)

`AruAlgo.tla` has `aruAlgo.ts` as operators: `ProcessCandle` takes an instance and a candle
and gives the instance afterwards and the result. An instance is split into what its
fields refer to (`shared`) and the numbers they hold (`own`), since the copy made in
`getLatestIndicators` is shallow. `CandleService.tla` is the handler of a symbol's ticks
in `aruAlgoService.ts`, with its one await (`CloseCandle`, then `Published`) and
`GetLatestIndicators` at any moment between. The seeds are a walk from the base price, each step
with a close and with wicks of its own; multipliers are in tenths. `ChartIndicators.tla` has the formulas that
`TVChart.tsx` applies to a whole series. All three compute in exact fractions
(`Fractions.tla`) where the code has doubles: rounding is not modelled. The chart's running
averages are one recursive function over the series (`Smoothed`), whose step `Mix` is the
formula `alpha * value + (1 - alpha) * previous`.

The formulas are kept whole, periods and thresholds being constants. Two facts of the code
are assumptions on them (`CandleAssumption`): the seeds are enough to warm up the RSI (100 seeds, a
period of 14), so that every RSI that is published compares full averages, and the series kept is
longer than the RSI's period. `MaxLen` is small enough in the run that old candles are
dropped. What the properties say of the formulas holds for the first values, at the boundary
where an average is completed, after candles were dropped, and for divisions by a zero
loss or range.

### Terminal (and TerminalProofs)

`Terminal.tla` joins the gateway's rooms (`index.ts`), the hook that makes a socket for each
selected symbol (`useWebSockets.ts`) and the chart (`TVChart.tsx`). `up` and `down` are the
messages under way of each socket, `loads` the history requests not yet answered; answers come
in any order. A selection (`SelectSymbol`) runs the cleanup of the old socket, makes the
next one and a new chart in one step, as React runs effects. `Connect` sends as many
subscriptions as the code does: one from the handler of `connect`, one from the effect
of `connected`, and one more that socket.io has held back when the hook was connected before
(each of them makes the gateway run `getLatestIndicators`). The gateway notices
a lost connection only when a ping is not answered in time: until `PingTimeout` its rooms are `ghosts`,
to which it goes on sending. Messages are kept by symbol and interval only. `blame` is history: it names the two ways in which the chart can show
another symbol's data, so that `ChartOfSymbol` can say there is no third.

`BridgeOrderEvent` tells nobody about a change of the book: the bridge reads `evt.type`,
and the events have an `eventType`.

### RetryQueue (and RetryQueueProofs)

`RetryQueue.tla` is `retryQueue.ts`, which no code calls yet. A member of the sorted set is
a job with its number of attempts, as in its JSON. Each poll has a step per await; `Poller`
bounds the polls that overlap, since the interval starts one whether or not the last
one has ended. ioredis sends a command again when the connection breaks before the
answer: `ClaimResent` (the second ZREM answers 0, and the job is in no place) and a
doubled LPUSH in `Bury`. A Redis error in a poll is an unhandled rejection, which ends
the process: `Crash`. `runs` and `outcome` are history.

## 3. Runs

| Run | Instance | Question |
|---|---|---|
| `orderbook` | 4 orders, 2 prices, market orders, sizes 1-2, depth 1 | do the book's structures agree, is nothing lost, is priority kept, does the loop end |
| `eventbus` | 2 subscribers, 3 messages, 1 fault, 1 crash | order, at-most-once, no gaps, backlog handled |
| `lifecycle` | a buy and a stop sell with prices, 2 intents, 2 cancellations, 1 upset: an event sent again, a message missed, a failed call or a crash | one outcome per intent, copies of events, causal order, cancellation, projection, dropped trades, nothing stuck |
| `lifecycle_cancel` (violation) | 1 order, 1 cancellation | does a cancelled order stay out of the book |
| `ledger` | 2 connections, 2 calls of 3 units of cash and 1.5 of the asset, 3 users and the exchange, 1 failing statement | balances and entries agree, all or nothing, deadlocks, progress |
| `positions` | 2 users, 2 trades, 2 prices, sizes 1-3, 2 failing statements, 1 restart | cash flow, entry prices, zero sum, rows reach the table |
| `positions_flush` (violation) | 2 trades | is a clean position in the table |
| `indicators` | 2 prices, 2 seeds, 3 intervals, 2 ticks per candle, 5 candles kept, stamps one interval late, 1 upset: a dry run or a failed publication | ranges, server against chart, order of candles, repeated signals |
| `indicators_dry_run` (violation) | the same | does a dry run leave the indicator alone |
| `market_feed` | 2 symbols, with and without a WebSocket in the runtime | one connection, a source for every symbol, mixing, ticks keep coming |
| `terminal` | 2 symbols, 2 selections, 1 lost connection, 1 new interval or change of a book, 1 message under way to each socket | chart of the selected symbol, rooms |
| `retry` | 2 jobs, 2 polls, 2 attempts, batches of 1, 1 resent command, 1 crash | one place per job, budget, every job ends |

Why the bounds are enough. Four orders give two makers at one price (FIFO), makers at two
prices (priority), a taker that empties a level and goes on to the next, a partial fill
on either side, and a cancellation in the middle of a queue; sizes 1 and 2 give equal and
unequal matches; depth 1 truncates with two prices. Three messages give a loss before the
first message, a backlog of two, and a fault in the middle of it. Two intents give either a
repeated intent, before, during and after the first, or two orders that trade, one of them a stop. Two
cancellations give a repeated one, or one of each order. One upset is enough for every
exception that the properties name: a creation sent again is activated twice, hence two copies in the
book, of which a cancellation finds one, and which trade with the same order twice. Without the
exceptions each of these properties is violated in this instance. A market buy against two sells, with
two trades stored concurrently, is `OrderLifecycleMakers.cfg`, which checks the same
properties without cancellations.
Two calls at a time give every pair of ledger transactions in every interleaving, hence two
withdrawals of the same funds and every deadlock of two; the opening balances let one of two
competing calls run out of money, and half a unit in the asset gives both directions of
rounding. Two trades of sizes 1 to 3 give scaling in at two prices (a fractional average), a
partial reduction, a close and a flip, and a trade during every step of a flush; two failures
give one that rolls a cleared flag back and one in the flush that repeats it. Two seeds and a period of two warm the averages up just before the
first published candle, so that the first values, the first running values and the values after
are all reached; three intervals give two publications after that; two prices give rises, falls and
no movement at all, hence zero losses and zero ranges; a late stamp falls in the interval
of the open candle or before it. Two symbols make "some intervals" different from "all"
in the feed, whose state space is finite without other bounds. Two selections give a response and messages
of an earlier selection during the present one, back to back with a lost connection
before, between or after. Two polls and batches of one give a member read by both and
claimed by one; two attempts give a retry and an exhausted budget; a dead letter list of one is
trimmed by the second burial.

`CHECK_DEADLOCK FALSE` appears where the bounded inputs run out; the event bus, the feed,
the terminal and the retry queue never stop.

Every property of a passing run is paired with a slip a maintainer could make (a
definition commented `Slip:` beside the definition it would replace); the property fails
when the slip is put in place of the original. The slips are not part of the models.

Fairness. The worker never stops in the middle of a message (`WF` on the matching
steps); the event loop goes on running a subscriber's loop and callbacks end (`WF` on
each loop); awaited calls return on each ledger connection and in the flush, whose timer
fires; PostgreSQL resolves deadlocks. The event loop serves every handler of the lifecycle (`WF`
on each of the five); its runs check safety only, and `QuietMeansDone` says of a state
where no handler can go on that it is a finished one. In the feed, fetches and connection
attempts end, timers and intervals fire, an error is followed by a close and time passes;
no trade has to come. In the terminal, messages arrive, requests are answered and
connection attempts succeed, and the gateway's pings go on. In the retry queue, time passes, the interval fires while
the worker is started, Redis and PostgreSQL answer, and handlers end. Nothing is assumed of clients,
faults, timeouts, lost connections or crashes.

Seven more configurations belong to no run. `OrderLifecycleMakers.cfg` checks the lifecycle on
an instance with three orders. The others reproduce claims of the documentation that the code does not
keep: each shows a counterexample to the property it names.

| Configuration | Claim | What TLC shows |
|---|---|---|
| `EventBusTail.cfg` (`EventBus`, `StartsAtTail`) | `services/eventBus.ts:57`: the loop starts from the tail at initialisation | `"$"` goes to every XREAD until a message was handled, so what is published between two polls is lost |
| `OrderLifecycleStop.cfg` (`OrderLifecycle`, `WaitingStaysOut`) | `models/migrations/003_advanced_orders.sql:35-36`: a stop enters the book on its trigger | the feed adds every activated order, and a waiting stop is activated with status TRIGGER_WAITING |
| `OrderLifecycleReplay.cfg` (`OrderLifecycle`, `BookIsReplayed`) | `src/README.md:125`: matching workers replay the event stream | they start empty, at the end of the stream |
| `LedgerReconciliation.cfg` (`MCLedgerEngine`, `AlarmIsTrue`) | `services/reconciliationWorker.ts:24`: it checks the double-entry sum | it sums amounts without their signs and reports an imbalance as soon as there is an entry |
| `LedgerRounding.cfg` (`MCLedgerEngine`, `BooksExact`) | `models/schema.sql:57-58`: every movement has two matching legs | the legs match each other, but a debit of one and a half units takes one from the balance and says two in its entry |
| `TerminalDepth.cfg` (`Terminal`, `DepthReachesTerminal`) | `index.ts:149`: order books are updated for all subscribers on a depth change | nobody is told; a book is only sent in answer to a subscription |

## 4. What the runs show

The order book does what it promises, including price-time priority as a refinement. The
bus delivers at most once, in order and without gaps from the first message on. In the
lifecycle a repeated or half-failed intent never has two outcomes (the rejection shares
the idempotency key of the creation), trades follow the activations of both sides, and a
system that has come to rest without failures has answered every intent.

How often a message arrives is where the code gives less than it seems to, and the properties
say how much less. An event is on the stream twice only if ioredis sent it again, or if it is an activation of an
order whose creation was sent again (`PublishedOnce`): the idempotency keys cover everything
but the transport and ORDER_ACTIVATED. An order that was fed twice may keep a copy in the book after its
cancellation (`CanceledLeavesBook`) and may lose a trade to the key taker-maker
(`NoTradeDropped`), and nothing else makes either happen. A message that a loop misses before its first is
never handled: an intent then stays without an answer, and an order stays without a row, for
good; `QuietMeansDone` and `RowIsProjection` say that all others are handled.

The ledger does what it promises but for its last decimal: balances agree with entries, except that
each debit that ends in exactly half a unit leaves a unit more in the account than the
entries say (`BalanceMatchesEntries`); the two legs of a movement always agree, so that no job
notices. A reader never sees half a movement, and although settlements and escrow calls lock in opposite orders, two calls
deadlock only when a user trades with himself. (Four calls can deadlock without that: two
settlements between the same users in opposite roles, and an escrow call of each.) Cash
that a buyer saved by a better price than his limit stays in escrow, since nothing
releases it; and the comment at `services/ledgerEngine.ts:188` about market buys
describes no code. Positions account for all money through any sequence of trades. A row that is
dirty reaches the table with its latest values unless a trade, a failure or a crash comes in
between, which starts the wait anew (`DirtyReachesTable`); the one case left out is a position that
changed while its own UPSERT was in flight, whose flag is cleared by the older values.

The feed keeps one connection and a source for every symbol through any order of
errors, closes, timers and silences. Two limits of it show in the properties: live and
synthetic ticks are mixed after a silence until the socket closes
(`MixedOnlyAfterSilence`), and the heartbeat watches the whole stream, so that one
active symbol, or messages that are no trades, keep a silent symbol without ticks
(the second alternative of `TicksKeepComing`). The server's indicators and the chart's
stay in range and agree on RSI; a candle is closed once and in order, whatever the stamps.

The terminal ends up in the room of the symbol selected last, and in no other once its
messages are handled. Its chart shows the selected symbol except in two ways, which the
model names: a history requested for an earlier selection is answered last ("overtaken"),
and the effect of a tick runs again with the tick of the symbol selected before ("stale
tick"), which stays in the hook until a tick of the new one comes. The same stale tick is
what the order form reads.

In the retry queue overlapping polls neither share nor drop a job, because only the
answer of ZREM decides; a crash, or an answer lost with the connection, loses the job in
hand. After a crash a job that is due before its handler is registered again is
dead-lettered with budget left. `models/migrations/002_resilience.sql:56` mentions a
`RetryQueue.requeueFromDLQ` that does not exist.

Three claims are refuted by runs:

* `lifecycle_cancel`: `controllers/order.ts:78` says a pending order is cancelled. If
  ORDER_CANCELED is published after the row is inserted and before ORDER_ACTIVATED, the
  book ignores the first and adds the order on the second, and the row becomes ACTIVE.
* `positions_flush`: `services/positionEngine.ts:15` calls `isDirty` the flag for DB sync.
  The flag of a position that changes while its UPSERT is in flight is cleared by the
  older values. A second way, which the run would find with a fault: a failure rolls back
  rows that are already marked clean. `SyncedUnlessRaced` shows that there is no third.
* `indicators_dry_run`: `services/aruAlgoService.ts:178` says the state is cloned for a
  temporary run. `Object.assign` copies references, so the open candle is pushed into
  the live series and the live averages move, with every subscription of a client.

## 5. Proofs

`OrderBookProofs.tla` proves, for any numbers of orders, prices and quantities, that the
book is well typed (`BookTyped`), that its indexes agree (`BookIndexed`), that it is never
crossed (`BookNeverCrossed`) and that no pair trades twice (`BookTradesOnce`). The first
three need each other, so the inductive invariant `BookInv` is their conjunction: the
head of the best queue exists and is an order of the other side with something left only
because queues, price lists and `orderMap` agree; and a resting order keeps the book
uncrossed only because the loop ran until the best price no longer matched
(`LoopExhausted`). `BookTradesOnce` adds `TradesSpent`: every posted trade has used up one
of its two orders, and quantities never grow. The lemmas `ShiftQueue`, `PushQueue` and
`RemoveFromQueue` say what the three queue operations do to the members and the order of
a queue; `HasBest` says that a finite set of prices has a best one. `BookPriceTime` is the
refinement: `Spec => PriceTimePriority`. Under `BookInv` every order the taker could trade
with waits at a listed price (`CounterpartiesRest`), so the head of the best queue has
priority over all of them (`MakerHasPriority`), and the loop stops only when there are none
or nothing is left (`StopsForAReason`). `FillMaker` and `FillTaker` are then the abstract
execution, `Rest` and `Leave` its close (`BookImplements`).

`BookQuantities` proves `QuantitiesAgree`. The invariant `QuantityInv` has it as it stands, with
`BookInv`, for every iteration of the matching loop; what has to be shown is that each change of
a queue changes the sums as it changes `volume` and `left`. The sums are over sets of positions
and of orders, and the community's operator for them is a recursive function that takes
the elements in whatever order CHOOSE gives. `Arithmetic.tla` shows that the order does not
matter: a family of subsets of a finite set that is not empty has a member with no smaller
one in it (the strict subset ordering is well founded), which gives an induction over finite sets that
needs no operator as a parameter. From it follow the lemmas that the proofs about
volumes, balances and positions cite: the sum of a function with one value changed, of a set with
one more element, of a function that is zero, of two functions.

`MarketDataProofs.tla` has the bus and the feed. Of the bus it proves the type invariant,
`AtMostOnceInOrder` and `GapFreeAfterFirst` for any number of subscribers, messages, faults and crashes. The
invariant `Sound` relates what a subscriber has handled, its cursor, its batch and the
end of the stream: handled < batch <= last, and a batch starts right after the cursor
once there is one.

Of the feed it proves the three safety properties for any finite set of
symbols. They support each other: a reconnection finds the feed synthetic because a
pending timer means that every interval runs, and an opened socket may stop the intervals
because no timer is pending beside it. The invariant `FeedInv` adds that the intervals are
all there or none is.

Of the candles it proves `CandlesInOrder`, whatever the order of the time stamps. `CandleInv` says that the
candle that is open, or whose publication is awaited, is later than every candle in the series
but the seeds (`Newest`), which all lie in the past: the community's FoldLeft, with which the seeds are
fed to the indicator, is a recursive function whose values are followed seed by seed.

Of the indicators it proves `IndicatorsInRange`, `RsiAgreesWithChart` and `NoRepeatedBuy`, for any
periods, thresholds, prices, stamps and reads, from one invariant, `IndicatorInv`, that adds three parts to
`CandleInv`. `Running`: every average the instance keeps lies between the extremes of what it
averages (`SharedInRange` and `OwnInRange`). A processed candle preserves this, a dry run included, which is
the point: `getLatestIndicators` changes the averages, but never takes them out of range.
`Awaiting`: while a result is being published the candle it is about is the last of the
series, and a dry run pushes that candle again. Its close has not moved, so the average gain
and the average loss shrink by the same factor and their ratio in lowest terms stays (`RsiSteady`,
with `RatioScales` and `GcdScales`). That is why the RSI that is published agrees
with the chart's although the averages behind it have changed. `Arrows`: after a buy arrow the
last close is above the trailing stop, and the next arrow needs a close that was not (`Follows`).
The chart's lines are recursive functions of the whole series. `SmoothedWithin` looks at the
least place where a running average would leave its range, and `SumBounds` bounds the two
sums of the VWAP term by term.

`TerminalProofs.tla` proves `RoomsWhenSettled` and `ChartOfSymbol` for any symbols and any
number of selections, lost connections and messages. `RoomInv` describes the sockets by
age: the one in use has only subscriptions of its symbol under way, and is in that room
once it has none; one given up ends with the message that ends its connection; one not made yet has
nothing. The rooms of lost connections (`ghosts`) are apart from those of the sockets: that the server's
timeout empties them is part of `EventuallyInRoom`, which is TLC's. `ChartInv` adds that only a connected socket has messages for the
terminal (hence only the one in use, whose symbol is the selected one), that a request of
the present selection is for the selected symbol, and that the candle is of that symbol
once the request is answered and nothing is blamed.

`RetryQueueProofs.tla` proves `OnePlace` and `BudgetKept` for any numbers of jobs, polls,
attempts, crashes and resent commands. `RetryInv` says what a poll has in hand at each
place of `processJob`, that two polls have different jobs in hand, and that a job in hand is not
in the set.

`LifecycleProofs.tla` proves `StoreSound`, `PublishedOnce`, `CausalOrder`,
`CanceledLeavesBook` and `NoTradeDropped` for any number of orders, repeated intents,
cancellations, events sent again, messages missed, failed calls and crashes. They need each
other (`LifeInv`). The store takes a key once (`KeysApart`), so that the copies of an event that
a handler is about to publish are all unanswered (`ToPublish`, `IntentInHand`, `CancelInHand`).
An order is activated once more only if its creation was sent again, since the projection's
index passes each copy once (`ToActivate`). A pair of orders trades once more only if one of them was
fed once more (`TradesInHand`, `FedOnce`), and the map loses sight of a node only if
its order was activated once more (`Mapped`). `Known` adds that a row is there for whatever was
activated or canceled. A restart drops what is in hand and moves the indexes to the ends, which only
weakens what the invariant demands.

`LifecycleRows` proves `RowIsProjection`. `RowInv` extends it to every moment of the projection's
handler: a row repeats the newest event about its order (`Told`, `StatusOf`) among those
after the missed ones (`since`) and up to where the table has come (`Reached`). That is one event ahead
of the read index once the handler has begun, since the row is inserted before the activation is
stored and published. What carries it is in `LifeInv`: an order is activated or canceled only when it has a row,
so that an UPDATE finds one and an INSERT that finds none comes first, and a second copy
of a creation leaves the row alone. Both the invariant and the property suppose that no call has
failed and nothing was restarted: the code needs it, because the handler catches a failed
statement and goes on.

`LifecycleAnswered` is the part of `QuietMeansDone` that needs no ENABLED: under the same
suppositions, once all is handled every intent that the OMS has not missed is rejected, or created
and, unless the projection has missed the creation, has a row that has left PENDING. `DoneInv`
follows an order from its intent to its activation: an intent handled after `since` has an outcome in
the store (`Answered`: a repetition is rejected as a duplicate only because the first try has
one), a stored creation is published unless its intent is in hand (`Announced`), and a creation
that the projection has passed after `since` is activated (`Passed`). With `RowInv` the newest event about the
order is then its activation or cancellation. A message that falls between two XREADs of a loop
which has handled none is really lost, so nothing stronger holds of the code.

`LedgerProofs.tla` proves, for any users, prices, quantities, connections, calls and faults,
that no balance, committed or not, is ever negative and that a row has one writer
(`LedgerTyped`), and the refinement `AllOrNothing` of `AtomicLedger` (`LedgerAtomic`). The
invariant `LedgerInv` says of each transaction how far it has come in its program (`Fits`):
which rows it has locked, that what it has read is what is committed, which checks have
held, and that the versions it has written are the committed balances plus what the
statements so far have moved (`Moved`). Every call is a program that locks a row before it
checks or writes it and locks nothing after its first write (`WellFormed`, `Programs`).
That is why the invariant survives the steps of others: a commit publishes only rows that
its own transaction has locked (`OthersCommit`). At its own commit the checks still hold of
the committed balances, so the sum of the program is a funded transfer. A program
has at most ten statements, so `Moved` is a sum of ten terms and needs no induction.

`LedgerBalances` proves `BalancesHold`: the stored balances are what the entries add up to, and
the nightly job has nothing to report. `BooksInv` adds to `LedgerInv` that every transaction has an
id of its own and has written exactly the entries of the statements it has run (`OwnEntries`), and
that committed entries come in whole transactions that sum to zero (`WholeEntries`). At a
commit every program is shown to be one or two movements of money (`Movement`), whose
entries explain every change of a balance they make (`Explains`).

Rounding is settled once, for any `Grain`. A balance gains `Given(amount)` and loses
`Taken(amount)`, which part only when the amount ends in exactly half a unit (`GivenNat`,
`GivenShift`). The entry has `Given(amount)` in both cases, which is what `Kept` allows for. Below zero
`Rounded` mirrors, but a debit that would get there is stopped by the CHECK, so one that
passes takes `Taken(amount)` (`RoundedDebit`).

`LedgerDeadlocks` proves `DeadlockNeedsSelfTrade`. A transaction holds rows of the statements it has
run (`Holding`) and waits for the row of the next one, so that each of two deadlocked calls
has locked the row the other waits for before it waits for its own (`WaitsInOrder`). The two
calls then lock the same two rows in opposite orders, and comparing the lock orders of the
programs row by row shows that this takes a settlement with the same user on both sides
(`OppositeOrders`).

`PositionProofs.tla` proves all four properties of the position engine for any users,
prices, quantities, crashes and failed flushes. `PositionInv` says that every position accounts for
its cash (`Settled`), that sizes sum to zero, and that rows in the table or on their way to it have
their entry price in range, since a restart loads them. The work is in the arithmetic of
`Fractions.tla` (its lemmas are in `Arithmetic.tla`): that a gcd exists is shown by exhibiting the greatest common divisor as a solution of
the recursion, and that it divides both arguments by looking at the least argument for which
it would not. From there a fraction is an integer over a common denominator (`Means`), and
scaling in, reducing, closing and flipping are identities of integers.
`EntryPriceInRange` is that a weighted average lies between what it averages. For
`SyncedUnlessRaced`, `SyncInv` says what a flush in flight owes as long as nothing has
raced or failed (`InFlight`): it has exactly the dirty positions still to write, what it
sends and has written is what memory has now, and every other position is in the table.

Assumptions: `BookAssumption`, `BusAssumption`, `FeedAssumption`, `TerminalAssumption`,
`RetryAssumption`, `LifecycleAssumption`, `LedgerAssumption`, `PositionAssumption`,
`AruAlgoAssumption` and `CandleAssumption` (the
bounds are natural numbers, some of them positive, as are prices and quantities; the users of
the position engine are finitely many; the symbols of the feed are a finite set that is not empty;
no idempotency key is the word of the cancellation keys, since keys are UUIDs; every
owner has all four wallets or none, and the exchange has them; periods are positive, prices are
finitely many positive numbers, more than two candles are kept and more than the RSI's period,
and the seeds reach that period).

Only model-checked: `QuietMeansDone`, which says ENABLED (that no handler can take a step before all is
handled is left to TLC, what then holds is `LifecycleAnswered`), and every liveness property. Both are
out of the prover's reach.

## 6. Not modelled

* Idempotency store: no code calls it. What it would protect, repeated intents, is
  deduplicated by the event store (`PublishedOnce`).
* Trigger engine: its evaluator listens to `market.ticks` and ticks are published to one topic
  per symbol, so that no trigger is ever evaluated; a trigger added from the bus has
  no id either. The waiting stop itself is in `OrderLifecycle`.
* The arithmetic of the risk engine: `validateOrder` passes or fails freely in
  `OrderLifecycle`. It reads a balance and locks nothing, and no later code depends on
  what it has read.
* Service registry, observability, `microstructureAnalytics.ts` and `analytics.ts`:
  bookkeeping and floating-point statistics on which no other state depends, most of
  them without a caller.
* Controllers that only query; login; connection set-up.
* The views of the frontend that display what the server sent, the order form, and the
  replay's paper engine, to which nothing ever adds an order.

Further work that the models are laid out for: the trigger engine joined to the lifecycle, once
ticks reach it.
