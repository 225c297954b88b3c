------------------------------- MODULE Trading ------------------------------
(***************************************************************************)
(* The whole trading loop: the strategy (strategy/src/lib.rs), the OMS,    *)
(* the tasks of the order gateway (exchange/src/bybit/order.rs), the       *)
(* exchange, and the private websocket that carries the exchange's reports *)
(* back (exchange/src/bybit/private_ws.rs).                                *)
(*                                                                         *)
(* The exchange is not part of the repository: it is modelled as the code  *)
(* uses it and as the simulated exchange of the integration tests behaves. *)
(***************************************************************************)
EXTENDS Oms, SequencesExt, FiniteSetsExt

CONSTANTS
    Quotes,              \* pairs <<bid, ask>> the strategy may quote
    OrderSize,           \* SimpleStrategy.size
    Fee,                 \* fee of an execution: of a buy in the traded asset, of a sell
                         \* in the quote asset
    AmbiguousOutcomes,   \* can the answer to an accepted request be lost or be an error?
    SameMillisecond,     \* can two changes of an order carry the same time?
    Delivery,            \* how the reports about an order are delivered, see Deliverable
    Absent,              \* no order of that id at the exchange
    MaxTime,             \* bound: an order is not amended after this time
    MaxExecutions,       \* bound: executions in a behaviour
    MaxDuplicates,       \* bound: reports delivered twice
    StreamBound          \* bound: reports about an order under way

ASSUME TradingAssumption ==
    /\ \A quote \in Quotes : quote[1] \in Prices /\ quote[2] \in Prices
    /\ OrderSize \in Quantities
    /\ Fee \in Nat
    /\ AmbiguousOutcomes \in BOOLEAN
    /\ SameMillisecond \in BOOLEAN
    /\ Delivery \in {"ordered", "any"}
    /\ MaxExecutions \in Nat

VARIABLES
    xorders,      \* the orders of the bot at the exchange, by link id
    stream,       \* reports about each order the websocket has not delivered
    executed,     \* every execution of the exchange (history)
    next_exec_id, \* id of the next one
    wallet,       \* balance of the traded asset in the account
    duplicates,   \* reports delivered twice so far
    recorded      \* executions sent to the recorder

trades == <<executed, next_exec_id, wallet>>
exchange_vars == <<xorders, trades>>
websocket_vars == <<stream, duplicates, recorded>>
trading_vars == <<vars_of_oms, exchange_vars, websocket_vars>>

\* What no step between a task and the exchange touches.
others_of_gateway == <<from_strategy, from_order_handler, to_strategy, strategy_inventory,
                       book, accounts>>

Ids == InitialOrderLinkId .. InitialOrderLinkId + MaxOrders - 1

TradingInit ==
    /\ OmsInit
    /\ xorders = [id \in Ids |-> Absent]
    /\ stream = [id \in Ids |-> <<>>]
    /\ executed = {}
    /\ next_exec_id = 1
    /\ wallet = InitialInventory
    /\ duplicates = 0
    /\ recorded = {}

-----------------------------------------------------------------------------
\* The strategy: both sides of a quote, or nothing when the book is empty or invalid.

Quote(bid, ask) == <<[side |-> "Buy", price |-> bid, qty |-> OrderSize],
                     [side |-> "Sell", price |-> ask, qty |-> OrderSize]>>

StrategyQuotes(quote) ==
    /\ StrategyCycle(Quote(quote[1], quote[2]))
    /\ UNCHANGED <<exchange_vars, websocket_vars>>

StrategySeesNoBook ==
    /\ StrategyCycle(<<>>)
    /\ UNCHANGED <<exchange_vars, websocket_vars>>

-----------------------------------------------------------------------------
\* The exchange.

\* Orders that can still trade.
Working(id) == xorders[id] # Absent /\ xorders[id].order_status \in {"New", "PartiallyFilled"}

XOrders == [side : Sides, price : Prices, qty : Quantities, filled_qty : Nat,
            order_status : OrderStatuses, updated_time : Nat]

ASSUME AbsentAssumption == Absent \notin XOrders

Remaining(id) == xorders[id].qty - xorders[id].filled_qty

\* Times the next change of an order may carry, in milliseconds.
LaterThan(time) == IF SameMillisecond THEN {time, time + 1} ELSE {time + 1}

\* The report of an order as it is at the exchange.
Report(id, xorder) ==
    [type |-> "OrderUpdate", order_link_id |-> id, order_status |-> xorder.order_status,
     price |-> xorder.price, qty |-> xorder.qty, filled_qty |-> xorder.filled_qty,
     updated_time |-> xorder.updated_time]

Emit(id, reports) ==
    /\ Len(stream[id]) + Len(reports) <= StreamBound
    /\ stream' = [stream EXCEPT ![id] = @ \o reports]

\* An order changes at the exchange; the change is reported after these other reports.
Change(id, xorder, before) ==
    /\ xorders' = [xorders EXCEPT ![id] = xorder]
    /\ Emit(id, Append(before, Report(id, xorder)))

\* A new order is taken; its task goes on with what the answer made of it.
Accept(t, answered) ==
    LET request == tasks[t]
    IN /\ request \in CreateRequests
       /\ Change(request.order_link_id,
                 [side |-> request.side, price |-> request.price, qty |-> request.qty,
                  filled_qty |-> 0, order_status |-> "New", updated_time |-> 1], <<>>)
       /\ tasks' = [tasks EXCEPT ![t] = answered]
       /\ UNCHANGED trades

\* The failure of a submission, still to be reported by its task.
Failed(t) == [kind |-> "failed", order_link_id |-> tasks[t].order_link_id]

\* Return code 0: the task has nothing more to do.
ExchangeAccepts(t) ==
    /\ Accept(t, Idle)
    /\ UNCHANGED <<others_of_gateway, duplicates, recorded>>

\* The order is live, but the task sees a server timeout (10000), an internal error (10016)
\* or no intelligible answer at all (Unknown).
ExchangeAcceptsUnheard(t) ==
    /\ AmbiguousOutcomes
    /\ Accept(t, Failed(t))
    /\ UNCHANGED <<others_of_gateway, duplicates, recorded>>

\* The order is refused, or the request never arrives.
ExchangeRefuses(t) ==
    /\ tasks[t] \in CreateRequests
    /\ tasks' = [tasks EXCEPT ![t] = Failed(t)]
    /\ UNCHANGED <<others_of_gateway, exchange_vars, websocket_vars>>

\* The fields an amendment carries replace those of the order, if that changes it.
ExchangeAmends(t) ==
    LET request == tasks[t]
        id == request.order_link_id
        price == IF request.price = NoChange THEN xorders[id].price ELSE request.price
        qty == IF request.qty = NoChange THEN xorders[id].qty ELSE request.qty
    IN /\ request \in AmendRequests
       /\ Working(id)
       /\ <<price, qty>> # <<xorders[id].price, xorders[id].qty>>
       /\ qty > xorders[id].filled_qty
       /\ xorders[id].updated_time < MaxTime
       /\ \E time \in LaterThan(xorders[id].updated_time) :
              Change(id, [xorders[id] EXCEPT !.price = price, !.qty = qty,
                                             !.updated_time = time], <<>>)
       /\ tasks' = [tasks EXCEPT ![t] = Idle]
       /\ UNCHANGED <<others_of_gateway, trades, duplicates, recorded>>

\* An amendment that has no effect, and a repayment: the answer is dropped.
RequestEnds(t) ==
    /\ tasks[t] \in AmendRequests \cup RepayRequests
    /\ tasks' = [tasks EXCEPT ![t] = Idle]
    /\ UNCHANGED <<others_of_gateway, exchange_vars, websocket_vars>>

\* What an execution brings into the account.
Traded(side, qty) == IF side = "Buy" THEN qty - Fee ELSE -qty

\* Someone trades with the order: the execution is reported, then the order.
ExchangeFills(id, qty) ==
    /\ Working(id)
    /\ qty <= Remaining(id)
    /\ next_exec_id <= MaxExecutions
    /\ LET execution ==
               [type |-> "ExecutionUpdate", order_link_id |-> id,
                order_side |-> xorders[id].side, exec_id |-> next_exec_id, exec_qty |-> qty,
                exec_fee |-> Fee]
           status == IF qty = Remaining(id) THEN "Filled" ELSE "PartiallyFilled"
       IN /\ executed' = executed \cup {execution}
          /\ wallet' = wallet + Traded(xorders[id].side, qty)
          /\ \E time \in LaterThan(xorders[id].updated_time) :
                 Change(id, [xorders[id] EXCEPT !.filled_qty = @ + qty, !.updated_time = time,
                                                !.order_status = status], <<execution>>)
    /\ next_exec_id' = next_exec_id + 1
    /\ UNCHANGED <<vars_of_oms, duplicates, recorded>>

\* The exchange cancels: a post-only order that would trade, self-match prevention, the
\* user interface.
ExchangeCancels(id) ==
    /\ Working(id)
    /\ LET status == IF xorders[id].filled_qty = 0 THEN "Cancelled"
                                                   ELSE "PartiallyFilledCanceled"
       IN \E time \in LaterThan(xorders[id].updated_time) :
              Change(id, [xorders[id] EXCEPT !.order_status = status,
                                             !.updated_time = time], <<>>)
    /\ UNCHANGED <<vars_of_oms, trades, duplicates, recorded>>

-----------------------------------------------------------------------------
\* Defect: the task of a failed submission ends without a report.
TaskForgetsFailure(t) ==
    /\ tasks[t] \in FailedRequests
    /\ tasks' = [tasks EXCEPT ![t] = Idle]
    /\ UNCHANGED <<others_of_gateway, exchange_vars, websocket_vars>>

\* The task of a submission that was not accepted (report_submission_outcome).
TaskReportsFailure(t) ==
    /\ tasks[t] \in FailedRequests
    /\ SendToOms(SubmissionFailed(tasks[t].order_link_id))
    /\ tasks' = [tasks EXCEPT ![t] = Idle]
    /\ UNCHANGED <<from_strategy, to_strategy, strategy_inventory, book, accounts,
                   exchange_vars, websocket_vars>>

\* The private websocket (process_response).  The reports about an order come in the order
\* they were made, or in any order.
Deliverable(id, i) ==
    \/ Delivery = "any"
    \/ Delivery = "ordered" /\ i = 1

\* An event goes to the OMS, an execution to the recorder as well.
ProcessResponse(event) ==
    /\ SendToOms(event)
    /\ recorded' = IF event.type = "ExecutionUpdate" THEN recorded \cup {event} ELSE recorded
    /\ UNCHANGED <<from_strategy, strategy_inventory, oms_vars, exchange_vars>>

Deliver(id, i) ==
    /\ Deliverable(id, i)
    /\ ProcessResponse(stream[id][i])
    /\ stream' = [stream EXCEPT ![id] = RemoveAt(@, i)]
    /\ UNCHANGED duplicates

DeliverTwice(id, i) ==
    /\ duplicates < MaxDuplicates
    /\ Deliverable(id, i)
    /\ ProcessResponse(stream[id][i])
    /\ duplicates' = duplicates + 1
    /\ UNCHANGED stream

OmsRecvFromStrategy == RecvFromStrategy /\ UNCHANGED <<exchange_vars, websocket_vars>>

OmsRecvFromOrderHandler ==
    RecvFromOrderHandler /\ UNCHANGED <<exchange_vars, websocket_vars>>

-----------------------------------------------------------------------------
StrategyStep == StrategySeesNoBook \/ \E quote \in Quotes : StrategyQuotes(quote)

OmsStep == OmsRecvFromStrategy \/ OmsRecvFromOrderHandler

\* Progress of a request in a task, up to its answer.
TaskStep(t) ==
    \/ ExchangeAccepts(t)
    \/ ExchangeAcceptsUnheard(t)
    \/ ExchangeRefuses(t)
    \/ ExchangeAmends(t)
    \/ RequestEnds(t)
    \/ TaskReportsFailure(t)

MarketStep ==
    \E id \in Ids : ExchangeCancels(id) \/ \E qty \in 1 .. OrderSize : ExchangeFills(id, qty)

WebsocketStep ==
    \E id \in Ids : \E i \in DOMAIN stream[id] : Deliver(id, i) \/ DeliverTwice(id, i)

Next ==
    \/ StrategyStep
    \/ OmsStep
    \/ \E t \in Tasks : TaskStep(t)
    \/ MarketStep
    \/ WebsocketStep

Spec == TradingInit /\ [][Next]_trading_vars

\* The OMS thread keeps receiving (select! serves either channel sooner or later), every
\* request is answered, and the websocket delivers what it was sent.
Fairness ==
    /\ WF_trading_vars(OmsRecvFromOrderHandler)
    /\ \A t \in Tasks : WF_trading_vars(TaskStep(t))
    /\ \A id \in Ids : WF_trading_vars(\E i \in DOMAIN stream[id] : Deliver(id, i))

FairSpec == Spec /\ Fairness

-----------------------------------------------------------------------------
\* Every variable of the loop has its type.
TypeOK ==
    /\ OmsTypeOK
    /\ from_strategy \in Seq(Builders)
    /\ from_order_handler \in Seq(OrderEvents)
    /\ xorders \in [Ids -> XOrders \cup {Absent}]
    /\ stream \in [Ids -> Seq(OrderUpdates \cup Executions)]
    /\ executed \subseteq Executions
    /\ next_exec_id \in Nat
    /\ wallet \in Int
    /\ duplicates \in Nat
    /\ recorded \subseteq executed

\* The executions the OMS has counted, and the settlement they make up.
Settled == {e \in executed : ExecutionKey(e) \in processed_executions}

\* Every execution that can happen within the bounds.
PossibleExecutions ==
    [type : {"ExecutionUpdate"}, order_link_id : Ids, order_side : Sides,
     exec_id : 1 .. MaxExecutions, exec_qty : 1 .. OrderSize, exec_fee : {Fee}]

ASettlement == INSTANCE Settlement WITH
                   Executions <- PossibleExecutions, InitialBalance <- InitialInventory,
                   settled <- Settled, balance <- inventory

\* Whatever is delivered twice, late or out of order, the inventory of the OMS moves by
\* each execution of the exchange exactly once, and by nothing else.
SettlesExactlyOnce == ASettlement!Spec

\* Reports about an order that the OMS has not seen yet.
Underway(id) == Range(stream[id]) \cup Range(from_order_handler)

\* The inventory is that of the wallet once every execution is counted, and those that
\* are not counted yet are on their way: none is lost, none is invented.
InventoryCatchesUpWithWallet ==
    /\ executed = Settled => inventory = wallet
    /\ \A e \in executed \ Settled : e \in Underway(e.order_link_id)
    /\ processed_executions = {ExecutionKey(e) : e \in Settled}

\* The view the OMS has of an order catches up: with no report of it under way, it is
\* what the exchange has, even if the submission was reported as failed.
ViewConverges ==
    \A id \in Ids :
        (xorders[id] # Absent /\ \A e \in Underway(id) : ~ /\ e.type = "OrderUpdate"
                                                           /\ e.order_link_id = id)
            => Report(id, xorders[id]) = Report(id, RecordOf(id))

\* The exchange never works two orders of the bot on one side: the "only one active order
\* per side at a time" that evaluate_order assumes.
OneWorkingOrderPerSide ==
    \A id1, id2 \in Ids :
        Working(id1) /\ Working(id2) /\ xorders[id1].side = xorders[id2].side => id1 = id2

\* What is still to be traded by the orders of a side.
OpenQuantity(side) ==
    MapThenSumSet(Remaining, {id \in Ids : Working(id) /\ xorders[id].side = side})

\* The limits of the risk manager bound the position, although they are checked against
\* the inventory alone: no execution takes it further than one order beyond them.
ExposureBounded ==
    /\ wallet + OpenQuantity("Buy") < MaxInventory + OrderSize
    /\ wallet - OpenQuantity("Sell") > MinInventory - OrderSize

\* An order that a report has closed stays closed: a late report never revives it.  One
\* whose submission was reported as failed may come back: the exchange had its own view.
ClosedStaysClosed ==
    [][\A i \in DOMAIN orders :
           ~IsOpen(orders[i].order_status) /\ orders[i].order_status # "Rejected"
               => ~IsOpen(orders'[i].order_status)]_trading_vars

\* An order does not stay "Submitted" for ever, which would block its side for good.
SubmittedIsResolved ==
    \A i \in 1 .. MaxOrders :
        i \in DOMAIN orders /\ orders[i].order_status = "Submitted"
            ~> i \in DOMAIN orders /\ orders[i].order_status # "Submitted"

\* Every execution is counted in the end.
ExecutionsSettle ==
    \A n \in 1 .. MaxExecutions :
        (\E e \in executed : e.exec_id = n) ~> (\E e \in Settled : e.exec_id = n)
=============================================================================
