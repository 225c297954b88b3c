# Specifications of the MMA trading bot

MMA is a market-making bot for one spot pair on Bybit. This directory holds TLA+
models of it, the TLC configurations that check them, and TLAPS proofs.
File names below are relative to the root of the repository; line numbers are in
`PROJECT.json` (`map`), definition by definition.

## 1. The system

Five threads and a tokio runtime, started by `cli/src/main.rs` (`run`):

| component | state it keeps | operations | talks to |
|---|---|---|---|
| public websocket (`exchange/src/bybit/public_ws.rs`) | the order book | snapshot, delta | strategy (triple buffer), recorder (queue of capacity 1) |
| strategy (`strategy/src/lib.rs`, `simple/mod.rs`) | the latest inventory | every second: read inventory and book, ask for a buy and a sell | OMS (unbounded channel of commands) |
| OMS (`oms/src/lib.rs`) | slab of orders, index by link id, id generator, executions seen, metrics | `forward_orders`, `order_response` | gateway (call), strategy (queue of capacity 1) |
| risk manager (`oms/src/risk.rs`) | none | `evaluate_order` | called by the OMS |
| metrics (`oms/src/metrics.rs`) | net and gross inventory, average entry price | `update` | called by the OMS |
| order gateway (`exchange/src/bybit/order.rs`) | none; one task per request | `submit_order`, `amend_order`, `repay_liability`, `cancel_all` (which has no caller) | Bybit (HTTP), OMS (channel of events) |
| private websocket (`exchange/src/bybit/private_ws.rs`) | none | `process_response` | OMS (same channel of events), recorder (channel) |
| recorder (`recorder/src/lib.rs`) | pending markouts | `update_trades`, `process_order_book` | log |
| startup (`cli/src/main.rs`, `threads.rs`) | none persisted | configuration, then one thread after the other, then join | everything |
| wallet, market data, signing | constants of a session | three blocking requests at startup | OMS and strategy, before they run |
| configuration (`configuration/src/lib.rs`) | none | `load` | startup |

The loop the bot lives on:

    public websocket --books--> strategy, recorder

    strategy --commands--> OMS --requests--> gateway tasks --HTTP--> Bybit
       ^                    ^                     |                    |
       +----- inventory ----+<---- events --------+                    |
                            +<---- events ---- private websocket <-----+
                                                   +--> recorder

What is hard about it:

- **Concurrency.** The OMS serves two channels with `select!`, in any order. Requests
  run in tasks of their own and are not ordered with each other; the report of a
  failed submission comes from such a task, the reports of the exchange from the
  websocket. A book is published to its two readers in two steps. Threads start while
  earlier ones already run, and one may end while the others go on.
- **Ambiguity.** A server timeout, an internal error, a broken connection or an answer
  that does not parse are reported as a failed submission, though the order may be
  live (`report_submission_outcome`; the reconciliation is a TODO). What becomes of an
  amendment is not reported at all.
- **Ordering.** Order updates carry a time in milliseconds, and an older one is
  discarded; executions carry an id, and a repeated one is discarded. Two amendments
  of an order can overtake each other.
- **Crash.** The release build aborts on a panic, nothing is persisted and no order is
  cancelled on the way out or at the start. A new session knows the wallet and the
  clock.

What makes each component correct:

- *OMS*: the index names the right records; no report goes back in time; an execution
  counts once; the inventory follows the wallet; the strategy gets the latest inventory.
- *Risk manager with OMS and gateway*: one working order per side; hence a bound on the
  position; amendments only of orders the exchange has; quotes are reached in the end.
- *Metrics*: the average entry price is what the position cost.
- *Strategy*: its two prices keep their distance from each other and stay on their side
  of the book; inventory pushes them the right way; none makes the gateway panic.
- *Gateway*: every submission that ends without an acceptance is reported, once, and
  nothing else is.
- *Private websocket*: every item of the bot reaches the OMS, every execution the
  recorder, whatever else a message carries.
- *Public websocket*: the local book is that of the exchange, and the latest one
  reaches both readers.
- *Recorder*: a data point is of the first book at its horizon; a markout per execution.
- *Startup and configuration*: no thread with an unusable configuration; no thread waits
  for another for ever; the strategy works with the inventory of the OMS.
- *Restart*: nothing is counted twice, no id is mistaken for another order.

## 2. Modules

    Orders     Accounting                        Settlement (abstract)
       |        |      |                             :
      Risk      |    Metrics   Quotes   Gateway      : refined by
         \      |         \      |      /            :
           Oms  |          +--- Desk --+             :
          /   \                                      :
    OmsOpen    Trading . . . . . . . . . . . . . . . .
                |     \
                |    Requote          OrderBook  PrivateStream  Recorder
                |                            \        |         /
           TradingRestart                     +---- Feeds -----+

    Configuration --- Startup

The theorems are in modules of their own, one beside each module that closes a system:

    OmsProofs (handlers) --- OmsOpenProofs
        |
    TradingProofs (types, accounts) --- TradingOrdersProofs (one order per side, views,
        |                               ordered delivery, exposure)
    TradingRestartProofs (sessions)

    DeskProofs        FeedsProofs        StartupProofs

`Orders` has the vocabulary of `exchange/src/lib.rs`; `Risk` is `evaluate_order` as
three predicates, of which exactly one holds of a command; `Accounting` is the effect of
an execution on the inventories.

`Oms` is the order management system, one operator per function of `oms/src/lib.rs`,
with the channels and tasks it shares. It has no `Next`: two modules close it.

- `OmsOpen` lets an arbitrary environment send any command and any event. What holds
  there depends on the OMS alone.
- `Trading` adds the strategy, the gateway, the private websocket, and the exchange.
  Bybit is external: its actions are what `order.rs` and `private_ws.rs` provide for, and
  what the simulated exchange of the integration tests does, made nondeterministic
  (partial fills, cancellations of its own, amendments with no effect, refusals).

`TradingRestart` adds a restart to `Trading`, and `Requote` a strategy whose quote changes
a few times and then settles, in a market that does not trade. `Settlement` is the abstract
specification of the accounts: executions happen, and each is settled once, at some
later time, and by nothing else.

The parts of the loop that `Trading` has only the outside of have modules with their inside:

- `Quotes`: `compute_orders` and `execute` in exact arithmetic, from the text of the tick
  size to the printed price, and the assertion a price meets at the gateway.
- `Gateway`: each request from its body to the classification of its answer, with the
  panics, and what the exchange did meanwhile.
- `Metrics`: both inventories and the average entry price, which the OMS only logs.
- `OrderBook`: snapshots and deltas against the book of the exchange, and the publication
  to the two readers step by step.
- `PrivateStream`: a message item by item, between whose two sends the process may die.
- `Recorder`: the cycle of the markout engine, with the exchange's time.
- `Startup`: configuration (`Configuration`), the five threads as they are spawned,
  initialise themselves from the wallet, the instrument and the last trade, run, end and
  are joined. The metadata of an instrument is usable or not, that is, parsed and accepted
  by the assertions of `InstrumentInfo::new`, or a panic.

`Desk` (`Quotes`, `Gateway`, `Metrics`) and `Feeds` (`OrderBook`, `PrivateStream`,
`Recorder`) put three of these beside each other. They share no state; the other end of
each channel is already as free in a module as its neighbour could make it, so nothing
new could come of interleaving their steps. A behaviour of `Desk` or `Feeds` therefore
moves one of the three while the other two are in their initial states, which is a
choice for the size of the state space and not an assumption on the code.

Definitions under a comment that begins with "Defect:" are no part of a specification.
Each is a variant of the definition after it with a plausible mistake; that a property is
violated with it shows that the property looks at that code.

### State and actions against the code

| model | code |
|---|---|
| `from_strategy`, `from_order_handler` | the two unbounded channels, as sequences |
| `to_strategy` | `ArrayQueue` of capacity 1, as a sequence of at most one element |
| `strategy_inventory` | local variable of `StrategyRunner::cycle` |
| `orders`, `id_map`, `id_generator`, `processed_executions` | fields of `OrderManagementSystem`; the slab is a sequence, since nothing is ever removed from it |
| `inventory` | `metrics.net_inventory` |
| `tasks` | the tokio tasks of the gateway, each with its request or idle |
| `RecvFromStrategy`, `RecvFromOrderHandler` | the two arms of `select!`; each takes one message and runs the whole handler |
| `StrategyCycle` | one turn of the loop: pop the inventory, send the commands |
| `ExchangeAccepts`, `ExchangeAcceptsUnheard`, `ExchangeRefuses`, `TaskReportsFailure` | a submission task: the exchange's decision, the outcome the task sees, and the event it sends if that is not `Accepted` |
| `ExchangeAmends`, `RequestEnds` | an amendment or repayment task; its outcome is dropped |
| `Deliver`, `DeliverTwice` | `process_response` for one item of a message |
| `Restart` | a new process, up to the first `cycle` of the OMS |
| `Gateway`: `requests`, `exchange`, `outcome`, `failures` | the tasks, what the exchange made of each, the `RequestOutcome`, the `SubmissionFailed` events |
| `Gateway`: `Dispatch`, `TaskEnds` | the body and `spawn`; `send_request`, `classify_response` and, for a submission, `report_submission_outcome` |
| `PrivateStream`: `SkipUnlinked`, `PanicOnText`, `SendToOms`, `SendToRecorder` | the loop bodies of `process_response` |
| `OrderBook`: `UpdateOrderBook`, `Publish`, `ForcePushToRecorder` | the three parts of `process_orderbook_response` |
| `Recorder`: `TakeBook` / `PanicOnEmptySide` / `NoBook`, then `TakeEvent` / `Timeout` / `Return` | one turn of `MarkoutEngine::cycle` |
| `Quotes`: `Execute`, `ExecuteInvalid` | `SimpleStrategy::execute` |
| `Startup`: `LoadConfiguration`, `SpawnThread`, `SpawnFails`, `JoinThread` | `run` |
| `Startup`: `OmsReadsWallet`, `OmsReadsTrades`, `StrategyStarts`, `...Panics` | the thread closures of `threads.rs` up to `cycle` |

One handler is one action in `Trading`: the OMS is a single thread and shares nothing but
its channels, so the interleaving is between handlers and never inside one. A request is
split where the world can change: between its dispatch and the exchange, and between
the answer and the event to the OMS. A turn of the strategy reads the inventory and sends
both commands in one action; another thread cannot tell it from two sends, except by
serving a command before the second is in the channel, and no handler looks at the
length of a channel. Where a handler writes to more than one channel, as the websockets do,
each send is an action of its own (`OrderBook`, `PrivateStream`).

### What is abstracted

In `Trading`, prices and quantities are members of small sets (no decision of the OMS does
arithmetic on a price). Symbols, order types, `filled_price`, the times of executions and
the wording of the log are left out. The time of an update is a small number; time 0 is the
`updated_time` of a record no report has reached. The float comparisons of metrics with
1e-8 are comparisons with zero of whole numbers. `Quotes` computes with fractions; where
the nearest printed price is a tie, either is possible, which covers what the float makes
of it. A text of the configuration is the class its parser puts it in, an answer of an HTTP
request is its return code and the fields the code looks at. A book in the recorder is its
time and whether both sides have a level: the data point is a function of the book. The id
generator does not wrap.

## 3. Runs

All are in `PROJECT.json`; `tlc -workers 2 -config X.cfg M` repeats one. `pass` runs explore
their whole state space.

| run | specification | question | states |
|---|---|---|---|
| `oms_open` | `OmsOpen!Spec` | does the OMS keep its own invariants, whatever it is sent? | 436 k |
| `trading_ordered` | `Trading!Spec`, answers trusted, reports in order, changes within one millisecond | is one order per side kept, does it bound the exposure, and does no view stay old? | 546 k |
| `trading_faults` | `Trading!Spec`, lost answers, any order, one duplicate, fees | is every execution settled once (refinement of `Settlement`), the view right in the end, and no closed order revived? | 1.05 M |
| `trading_liveness` | `Trading!FairSpec`, lost answers, any order | is every submission resolved and every execution counted? | 78 k |
| `restart_accounts` | `TradingRestart!RestartSpec`, two quotes | after a crash, does the inventory differ from the wallet by exactly what the session could not know? | 1.83 M |
| `requote` | `Requote!RequoteSpec` | do the orders reach a quote that settles, though amendments are dropped and overtake each other? | 20 k |
| `desk` | `Desk!DeskSpec` | are quotes usable, are submissions without an acceptance and nothing else reported, is the average the cost of the position? | 80 k |
| `feeds` | `Feeds!FeedsSpec` | is the book that of the exchange, is every item forwarded, is every markout sampled, completed and logged as it should? | 439 k |
| `startup` | `Startup!FairSpec` | what does a session start with, in any environment, and does it come up or end? | 468 k |
| `trading_ambiguous` | `Trading!Spec`, lost answers | violation of `OneWorkingOrderPerSide` | |
| `restart_wallet` | `TradingRestart!RestartSpec` | violation of `InventoryIsWallet` | |
| `metrics_fees` | `Metrics!MetricsSpec` with fees | violation of `AverageWithinEntryPrices` | |

**Bounds and why they are enough.**

- *Trading.* Two tasks (a create and an amendment, a create and a repayment, or two
  creates, in flight at once) and two orders: one of each side, or one and its successor
  on the same side, which is where a failure reported late or a second order on the side
  would show. Two executions: a partial fill and the fill that completes it, or one of each
  side. One duplicate. Two bids in `trading_ordered`, so that an order can be amended while
  it is reported, filled or cancelled. Streams of two or three reports per order, one event
  and two commands in the channels: longer channels only delay what is in them, and a full
  one blocks its sender in the model, so each sender is still interleaved with everything
  else. The limits (long only, or two either way) are reached within two executions.
- *Requote.* Three tasks, so that two amendments of an order and one of another are under
  way at once; two changes of the quote, so that an amendment of the first can arrive after
  that of the second. `MaxTime` does not bind there: no state reaches it.
- *Quotes.* Five texts of a tick size: three from the unit test, one that is not a
  power of ten and one above 1; books of distance one tick and more, empty sides, sizes that weigh
  all on one side; inventories on both sides of the limits, at them, and far beyond, where
  the skew is larger than the price.
- *Gateway.* Three requests, enough for two of one order and one of another; every class of
  answer. *Metrics.* Four executions: open,
  extend, reduce and cross, in any order.
- *OrderBook.* Three prices on each side, deltas of up to two levels in either order,
  two messages, one under way: a message is a function of the book before it, and all books
  are reached by the first message. *PrivateStream.* Messages of up to three items, five in
  all. *Recorder.* Horizons 1, 2 and 3, two executions at times 0 and 1, one repeated,
  books up to time 4: two markouts that complete with one book, with different books, or not.
- *Startup.* A usable environment and every one that differs from it in one variable of one
  source or lacks a file; every kind of answer; two executions and two turns' commands.

The bounds are constants named `Max...` or `...Bound`, guards of the actions that would
exceed them. Tasks are interchangeable, so the safety runs use symmetry; runs with liveness
do not. Deadlock is checked in all runs of `OmsOpen`, `Trading`, `TradingRestart` and
`Requote` (the strategy can always take its inventory, so a stop of the other parts
shows as a violated property and not as a deadlock). `desk` and `feeds` stop after a panic,
or when requests, messages or executions are used up; `startup` stops when the process has
ended; `metrics_fees` when its executions are used up: there it is switched off.

**What each property assumes.**

- `OneWorkingOrderPerSide` needs answers that can be trusted. `ExposureBounded` also needs
  an execution to be delivered before the report that closes its order, because the limits
  are checked against the inventory alone: that is the "ordered" delivery, and the bound it
  gives is one order beyond the limit.
- `ClosedStaysClosed` is about orders that a report of the exchange has closed. One marked
  `Rejected` by a report of failure may come back, and should: the exchange had accepted it.
  It needs distinct times where reports are reordered; with equal ones the last to arrive
  wins, which is right in `trading_ordered`, where the order topic keeps its order.
- `ViewConverges` and the refinement of `Settlement` hold under all faults together, except
  equal times with reordering.
- `RecordsAreOwnOrders` needs a clock that is not set back between two sessions. A session
  numbers its orders from the microseconds the wall clock shows when it begins
  (`create_oms_thread`), and nothing is persisted that would tell it of the ids handed out
  before. `FirstIdsOfSession` is any id the clock may show that has passed those, which is
  an assumption of the model; the property then says that an order the session has recorded
  is not one the exchange had when the session began (`left_behind`).
- `OnlySubmissionsFail` speaks of the outcome the task of a submission saw. An answer that is
  lost, or a server error, is no acceptance, though the exchange may have taken the order:
  this is what `trading_ambiguous` is about.
- `SubmittedIsResolved` assumes that every request is answered or fails (see Fairness): it
  shows that no answer is lost between the task and the record, not that one comes.
- `QuoteIsReached` has one quantity, so an amendment changes the price or nothing.
- `FirstLevelsAreBest` says of every book a reader can find that it is sorted, without empty
  levels and not crossed, and of the book between two messages, with no message under way,
  that its first levels are the best of the exchange. `LatestBookReachesReaders` also says
  that what a reader finds is never older than what it has read.
- `NothingStartsMisconfigured` looks at the first source that sets a variable, if only to
  nothing: a text in a later file does not make up for a blank one in the environment.
- `AverageWithinEntryPrices` and `AverageConservesValue` hold without fees (the run `desk`).
- `NotThroughTheBook` allows a price to reach the other side: the rounding comes after the
  clamp and can undo it, and a post-only order there is cancelled by the exchange.
  `AcceptedPricesArePositive` is about books whose best bid is above `DeepestBid(drift)`:
  eight ticks if the strategy works with the inventory of the OMS, and one more for every
  hundred units of the asset its inventory is ahead of it. The run lets the two differ by a
  whole order either way.
- `EachDeliveryOnce` and `LogInFillOrder` say what a repeated execution is allowed to do:
  the recorder, unlike the OMS, does not discard it. If its markout has been logged it is
  recorded again. What is pending when an empty side of the book makes the recorder panic
  is lost, in the code and in the model; no property forbids it.

**Fairness.**

- `Trading!FairSpec`: weak fairness of the arm of `select!` that receives events
  (`select!` picks a ready arm at random, and the OMS thread never blocks elsewhere); of
  every task (the runtime runs it, and the exchange answers: the HTTP client has no
  timeout, so an answer that never comes would leave the order `Submitted` for ever, and
  this is an assumption and not something the code ensures); and of the delivery of every
  stream (the websocket thread reads as long as the connection lives). Nothing is assumed of
  the strategy or of the market.
- `Requote!RequoteSpec`: the strategy takes its turn every second; strong fairness of both
  arms of `select!`, which chooses at random among those that are ready; every task goes on;
  and strong fairness of the effect of an amendment, that is, the exchange does not drop
  every amendment of an order for ever. The last is about the exchange, and it is
  what "re-updated with the next refresh" in `amend_order` counts on.
- `Gateway`: every task ends, as above. `OrderBook` and `PrivateStream` need none.
- `Recorder`: the exchange's time passes, books with two sides keep coming, executions are
  delivered, and the engine thread runs.
- `Startup`: the main thread and the recorder run, and the requests of the threads that
  start are answered one way or the other. Nothing is assumed of the websockets.

### Disagreements between the code and what it says

Shown by a run:

- `trading_ambiguous`: a submission accepted by the exchange whose answer is lost is marked
  `Rejected`; the strategy's next command for that side is submitted as a new order while
  the first one works. `risk.rs` says there is only one active order per side.
  The state repairs itself in the view (`ViewConverges`), not at the exchange.
- `restart_wallet`: `metrics.rs` calls the net inventory "the actual inventory in the
  wallet"; an order of a dead session that executes later makes them differ for good.
- `metrics_fees`: gross and net inventory drift apart by the fees of the buys, and the case
  "existing position is closed" tests the gross one, against the comment that says why net
  must be used. Buying a quantity and selling it again leaves the bot short by the fee, with
  an average entry price of 0. Only the log shows the average.

Met while reading, and without a run of their own:

- `order.rs:129` "always populate price and qty even if they don't change": the body
  (`order.rs:136`) leaves out what has not changed. `AmendOrderBody` and `NoChange` follow
  the code, and `QuoteIsReached` holds of it.
- `main.rs:92` "Start the strategy last, after everything else has initialized": it is
  spawned last, but nothing waits for the OMS thread to have read the wallet, and the
  strategy may take turns with an inventory of 0. In `Startup` the threads come up in any
  order; `StrategyCatchesUp` says what holds all the same.

## 4. Proofs

The theorems hold for every value of the constants: any sets of prices, quantities,
quotes, commands and messages, any limits, any number of tasks, orders, executions and
requests, any horizon and tick size. All are safety: invariants, action properties and one
refinement. What they rest on is the named assumptions of the modules (`...Assumption`,
which TLC evaluates in every run) and, where the table says so, a hypothesis on a constant
that selects the environment the property is about.

| theorem | states | hypothesis |
|---|---|---|
| **`OmsOpenProofs`**: `OmsOpen!Spec` => | | |
| `TypeCorrect` | `[]TypeOK`: in particular every place the index names is in the slab | |
| `IndexAlwaysConsistent` | `[]IndexConsistent` | |
| `InventoryReachesStrategy` | `[]LatestInventoryReachesStrategy` | |
| `AmendsAcknowledgedOrders` | `[]AmendsOnlyAcknowledged` | |
| `RecordsNeverGoBack` | `NeverBackInTime` | |
| `ExecutionsCountedOnce` | `CountedOnce` | |
| **`TradingProofs`**: `Trading!Spec` => | | |
| `TypeCorrect` | `[]TypeOK` | |
| `OnlyKnownOrders` | `[](ReportsGenuine /\ RequestsKnown /\ XOrdersKnown)`: reports, requests and orders at the exchange are of orders the OMS has recorded | |
| `InventoryFollowsWallet` | `[]InventoryCatchesUpWithWallet` | |
| `ImplementsSettlement` | `SettlesExactlyOnce`, the refinement of `Settlement` | |
| **`TradingOrdersProofs`**: `Trading!Spec` => | | |
| `OneOrderWorks` | `[]OneWorkingOrderPerSide` | `~AmbiguousOutcomes` |
| `ViewsConverge` | `[]ViewConverges` | `~SameMillisecond` |
| `ClosedOrdersStayClosed` | `ClosedStaysClosed` | `~SameMillisecond` |
| `ViewsConvergeInOrder` | `[]ViewConverges` | `Delivery = "ordered"` |
| `ExposureStaysBounded` | `[]ExposureBounded` | `~AmbiguousOutcomes`, `Delivery = "ordered"`, `StartsWithinLimits`, `FeesAreCovered` |
| **`TradingRestartProofs`**: `TradingRestart!RestartSpec` => | | |
| `SessionsTypeCorrect` | `[]TypeOK` | |
| `SessionsKeepAccounts` | `[]SessionAccounts` | |
| `SessionsKeepTheirOrders` | `[]RecordsAreOwnOrders` | |
| **`FeedsProofs`**: | | |
| `FeedsTypeCorrect` | `FeedsSpec => []TypeOK`, every variable of the three | |
| `BookIsExchangeBook` | `BookSpec => []BookFollowsExchange` | |
| `FirstLevelsStayBest` | `BookSpec => []FirstLevelsAreBest` | |
| `LatestBookIsFound` | `BookSpec => []LatestBookReachesReaders` | |
| `LinkedItemsForwarded` | `StreamSpec => []LinkedItemsAreForwarded` | |
| `SamplesFirst` | `RecorderSpec => []SamplesAreFirstElapsed` | |
| `NoneLostOrDoubled` | `RecorderSpec => []EachDeliveryOnce` | |
| `LogIsInFillOrder` | `RecorderSpec => []LogInFillOrder` | |
| **`DeskProofs`**: `Desk!DeskSpec` => | | |
| `SpreadIsAlwaysKept` | `[]SpreadIsKept` | |
| `NeverThroughTheBook` | `[]NotThroughTheBook` | |
| `InventoryAlwaysLowersQuotes` | `[]InventoryLowersQuotes` | |
| `AcceptedPricesAlwaysPositive` | `[]AcceptedPricesArePositive` | |
| `OnlySubmissionsEverFail` | `[]OnlySubmissionsFail` | |
| `AverageStaysWithinPrices` | `[]AverageWithinEntryPrices` | `Fees \subseteq {0}` |
| `AverageAlwaysConservesValue` | `AverageConservesValue` | `Fees \subseteq {0}` |
| **`StartupProofs`**: `Startup!Spec` => | | |
| `NeverStartsMisconfigured` | `[]NothingStartsMisconfigured` | |
| `AlwaysCatchesUp` | `[]StrategyCatchesUp` | |

**The hypotheses**, and why the code needs them:

- The clock (`SessionsKeepTheirOrders`): not a hypothesis but part of `RestartSpec`, whose
  sessions begin with an id of `FirstIdsOfSession`, see section 3.
- `~AmbiguousOutcomes`: no submission is reported as failed that the exchange has accepted.
  With ambiguous answers the conclusion is false, as the run `trading_ambiguous` shows.
- `~SameMillisecond`, or `Delivery = "ordered"`: an update is discarded if its time is
  earlier than that of the record, so two updates with one time that overtake each other
  leave the older one recorded. Either hypothesis alone is enough for `ViewConverges`.
- `StartsWithinLimits`: the wallet at startup is within one order of the limits; nothing in
  the code brings it there. `FeesAreCovered`: no execution costs more of the asset than it
  brings in, else each buy would lower the inventory.
- `Fees \subseteq {0}`: with fees the two figures drift apart (the run `metrics_fees`).

**The arguments.**

*OMS.* `Inv` is the conjunction of the four invariants and is inductive. `TypeOK` is needed
for every lookup; `IndexConsistent` for `AmendsOnlyAcknowledged`, because an amendment names
an id and the property looks its record up again, and because a new order must not take a
place that an amendment in flight refers to. The lemmas go through one notion,
`SlabAdvances`: an event leaves the slab with the same places, each holding a record with
the same id and side, a time no earlier, and a status that never returns to `Submitted`.
`ExistingOrderIsOpen` shows that the `CHOOSE` in `ExistingOrder` finds an open order of the
side, by the well-foundedness of the naturals. `OmsProofs` has these lemmas, and `Trading`
uses them too.

*Trading, types and accounts.* `Base` ties everything in the channels, the tasks and the
streams to orders the OMS knows: `TypeOK` is not inductive, since a report of an order with
no record would be looked up in vain. `AccountsInv` says that the executions not yet counted
are on their way, and that they are the difference between the wallet and the inventory.
A sum over a set is defined by recursion, so the difference is written as the existence
of a table of partial sums along the execution ids (`Accumulates`), with one entry changed by
an execution and another by its settlement. `InventoryFollowsWallet` and
`ImplementsSettlement` follow: each step of the loop is `Execute`, `Settle` or a stutter.

*Trading, orders.* `OrdersInv` has what `OneWorkingOrderPerSide` needs to be inductive: an
order is submitted once; the OMS closes a record only if the exchange has closed the order,
or (with answers that can be trusted) never placed it; hence a new order is submitted for a
side only when no other of it is live. `ViewsInv` bounds the reports on their way and the
records by the time of the order at the exchange, and keeps its last report either under
way or recorded.

*Trading, ordered delivery.* `QueuesInv` orders the reports of an order along channel and
stream (`InOrder`), so that the last one to arrive is the latest (`LastIsLatest`), also
within one millisecond, and no record is closed before its executions are counted
(`ClosedIsCounted`). `ExposureInv` then bounds, for each live order, the wallet after what
the order may still trade. When an order is opened, the inventory that is checked lacks only
executions of the other side, which take the position away from the limit.

*Trading with restarts.* `Base` is false after a restart: the streams carry reports of
orders the new session does not know. `SessionBase` says instead what survives: ids are
handed out once, and the session's own orders are those numbered from `FirstId` on
(`NumbersOwn`, `RequestsOwn`, `SidesAgree`); everything executed, and every order at the
exchange, has an id already handed out (`ExecutionsMade`, `XOrdersMade`); and what the
wallet and the exchange contained at the start of the session is of ids below `FirstId`
(`SessionStart`). A restart moves `FirstId` to the id the clock shows, which is no lower.
So an execution that is counted, being of a known order, is one of those that are missing.
`SessionAccounts` states a sum over a set, which the library defines by recursion:
`SumWith`, that one element more adds its own weight, is shown from the existence of a
sum that does not depend on the order (`AdditiveExists`), and that from the least
cardinality of a set without one.

*Order book.* `IsSide` says of one side of a book that it is strictly sorted and has
exactly the levels of the exchange. `process_delta` is a fold; that it turns the side
before the delta into the one after it is shown from the first entry for which it would
fail (`FoldOfItems`, `FoldSets`), not by the induction theorems. `BookInv` says that the feed
leads from the local book to that of the exchange, and that whatever a reader can find was
the exchange's book at its time. `BookTimes` orders the times along the way of a book, from
the readers over the queue and the buffer to the local book, the feed and the exchange's
clock: what a reader finds is never older than what it has read. `SideHasBestFirst` finds
the best level of the exchange in the first place of a sorted side with the same levels.

*Feeds together.* `FeedsNext` is written as a step of one of the three with the others
unchanged, so a behaviour of the three is one of each (`FeedsAreIndependent`, a lemma with
no more in it than that); it carries the types proved of each to `FeedsTypeCorrect`.

*Private websocket.* `StreamInv` divides what was received into what is done and what is
left: what was sent is a function of the first part, but for the execution that has come
half way.

*Recorder.* `SamplesFirst` compares each data point with the books the engine processed
while the execution was pending. `NoneLostOrDoubled` counts the places an execution is in
and preserves the sum. `FlowInOrder` puts log, map, channel and what is to come in one
order of fill times, which is why the log is sorted whatever the books do.

*Quotes.* `QuotesInv` only says that a quote is a result of `compute_orders` on a book that
is not crossed; the rest is arithmetic, of prices as multiples of a unit and of what it
means to be the nearest multiple of the unit or of the tick (`IsNearest`). `PriceFacts` collects
what the clamps leave.
*Gateway.* `GatewayInv` relates each request to its outcome and its report, place by place.
*Metrics.* `AverageInv` keeps net and gross inventory equal and the average between two
prices of entry.

*Startup.* `StartedInv`: no thread is born before the configuration is loaded, and none
before the one spawned ahead of it. `InventoryAtHand`: the last inventory of the OMS is in
the queue, or the strategy has it.

**What was changed for the proofs.** Operators of the libraries that the prover does not
know (`SelectSeq`, `SortSeq`, `:>` and `@@`) were replaced in the modules by functions that
say the same, such as `OnlyOf` and `Sorted`. Powers of ten are known to `Quotes` through
`PowersAssumption`, which TLC evaluates. `DeepestBid` takes the drift as its parameter: the
property says how much deeper a book must be when the strategy's inventory is behind.

**Only model-checked.**

- Liveness (`SubmittedIsResolved`, `ExecutionsSettle`, `QuoteIsReached`, `RefusedIsHeardOf`,
  `MarkoutsComplete`, `ComesUpOrEnds`, `RecorderEndsWithWebSocket`) rests on fairness and
  `ENABLED`, which the prover does not handle.
- The three properties that are violated.

## 5. Not modelled, and why

- The signature of a request: a pure function of a library.
- JSON and HTTP: an answer is the part of it the code looks at, or one that does not parse.
- The inside of the triple buffer and of the queues, which are libraries: a reader finds
  the last value published whole.
- The debt `repay_liability` pays back: the request is modelled as a task, its effect is
  outside the account the bot reads.
- A request of a dead session that reaches the exchange after the new one has started.
- The wrap-around of the id generator (2^64 ids, counted from the clock in microseconds), and the
  growth of the slab and of the set of executions: nothing is ever removed, which is
  modelled, and no memory runs out.
- The rate limit that `send_request` logs, and formatting everywhere.

## 6. Plan

1. `Requote`: that amendments never make two orders of a side (the safety half of
   `QuoteIsReached`).
