-------------------------------- MODULE Oms --------------------------------
(***************************************************************************)
(* The order management system (oms/src/lib.rs) with what it shares with   *)
(* its neighbours: the two channels it receives from, the one-place queue  *)
(* that carries the inventory to the strategy, and the tokio tasks that    *)
(* carry its requests to the exchange.                                     *)
(*                                                                         *)
(* This module has no Next: OmsOpen closes it with an arbitrary            *)
(* environment, Trading with the gateway, the exchange and the strategy.   *)
(***************************************************************************)
EXTENDS Risk, Accounting

CONSTANTS
    InitialInventory,     \* OmsConfig.inventory, read from the wallet at startup
    InitialOrderLinkId,   \* OmsConfig.initial_order_link_id, the clock at startup
    Tasks,                \* bound: requests that can be in flight at once
    Idle,                 \* a task that carries no request
    MaxOrders,            \* bound: orders submitted in a behaviour
    CommandBound,         \* bound: commands waiting in the channel from the strategy
    EventBound            \* bound: events waiting in the channel to the OMS

ASSUME OmsAssumption ==
    /\ InitialInventory \in Int
    /\ InitialOrderLinkId \in Nat
    /\ MaxOrders \in Nat

VARIABLES
    from_strategy,         \* channel of commands, strategy -> OMS
    from_order_handler,    \* channel of events, websocket and gateway -> OMS
    to_strategy,           \* ArrayQueue of capacity 1, OMS -> strategy
    strategy_inventory,    \* local variable of StrategyRunner::cycle
    orders,                \* the Slab; nothing is ever removed from it
    id_map,                \* order link id -> place in the slab
    id_generator,          \* next order link id
    inventory,             \* metrics.net_inventory
    processed_executions,  \* keys of the executions already counted
    tasks                  \* the request each task carries

book == <<orders, id_map, id_generator>>
accounts == <<inventory, processed_executions>>
oms_vars == <<book, accounts, to_strategy, tasks>>
vars_of_oms == <<oms_vars, from_strategy, from_order_handler, strategy_inventory>>

-----------------------------------------------------------------------------
\* What the OMS asks the exchange for; a failed request still has to be reported.
CreateRequests == [kind : {"create"}, order_link_id : Nat, side : Sides,
                   price : Prices, qty : Quantities]
AmendRequests == [kind : {"amend"}, order_link_id : Nat,
                  price : Prices \cup {NoChange}, qty : Quantities \cup {NoChange}]
RepayRequests == [kind : {"repay"}]
FailedRequests == [kind : {"failed"}, order_link_id : Nat]
Requests == CreateRequests \cup AmendRequests \cup RepayRequests \cup FailedRequests

ASSUME IdleAssumption == Idle \notin Requests

CreateRequest(id, builder) ==
    [kind |-> "create", order_link_id |-> id, side |-> builder.side,
     price |-> builder.price, qty |-> builder.qty]

AmendRequest(amendment) ==
    [kind |-> "amend", order_link_id |-> amendment.order_link_id,
     price |-> amendment.price, qty |-> amendment.qty]

RepayRequest == [kind |-> "repay"]

\* tokio::spawn: the request runs in a task of its own, unordered with the others.
Spawn(request) ==
    \E t \in Tasks :
        /\ tasks[t] = Idle
        /\ tasks' = [tasks EXCEPT ![t] = request]

-----------------------------------------------------------------------------
OmsInit ==
    /\ from_strategy = <<>>
    /\ from_order_handler = <<>>
    /\ to_strategy = <<InitialInventory>>
    /\ strategy_inventory = 0
    /\ orders = <<>>
    /\ id_map = <<>>
    /\ id_generator = InitialOrderLinkId
    /\ inventory = InitialInventory
    /\ processed_executions = {}
    /\ tasks = [t \in Tasks |-> Idle]

\* ArrayQueue::force_push on a queue of capacity 1 replaces what is in it.
\* Defect: push, which leaves a full queue as it is.
PushUnlessFull(value) == to_strategy' = IF to_strategy = <<>> THEN <<value>> ELSE to_strategy

ForcePush(value) == to_strategy' = <<value>>

-----------------------------------------------------------------------------
\* forward_orders: one command of the strategy.

\* Defect: the index names the slot before the one the order is stored in.
InsertNewOrderOffByOne(builder) ==
    /\ orders' = Append(orders, Build(builder, id_generator))
    /\ id_map' = [id \in DOMAIN id_map \cup {id_generator} |->
                      IF id = id_generator THEN Len(orders) ELSE id_map[id]]
    /\ id_generator' = id_generator + 1

\* Defect: the id is read but not advanced.
InsertNewOrderSameId(builder) ==
    /\ orders' = Append(orders, Build(builder, id_generator))
    /\ id_map' = [id \in DOMAIN id_map \cup {id_generator} |->
                      IF id = id_generator THEN Len(orders) + 1 ELSE id_map[id]]
    /\ UNCHANGED id_generator

InsertNewOrder(builder) ==
    /\ orders' = Append(orders, Build(builder, id_generator))
    /\ id_map' = [id \in DOMAIN id_map \cup {id_generator} |->
                      IF id = id_generator THEN Len(orders) + 1 ELSE id_map[id]]
    /\ id_generator' = id_generator + 1

SubmitNewOrder(builder) ==
    /\ IsNewOrder(orders, builder, inventory)
    /\ id_generator < InitialOrderLinkId + MaxOrders
    /\ InsertNewOrder(builder)
    /\ Spawn(CreateRequest(id_generator, builder))

\* Defect: the record takes over the amendment before the exchange has reported it.
AmendExistingOrderOptimistically(builder) ==
    LET existing == ExistingOrder(orders, builder.side)
    IN /\ IsAmendOrder(orders, builder, inventory)
       /\ Spawn(AmendRequest(Amendment(builder, existing)))
       /\ orders' = [orders EXCEPT ![id_map[existing.order_link_id]].price = builder.price,
                                   ![id_map[existing.order_link_id]].qty = builder.qty]
       /\ UNCHANGED <<id_map, id_generator>>

AmendExistingOrder(builder) ==
    /\ IsAmendOrder(orders, builder, inventory)
    /\ Spawn(AmendRequest(Amendment(builder, ExistingOrder(orders, builder.side))))
    /\ UNCHANGED book

IgnoreOrder(builder) ==
    /\ IsDoNothing(orders, builder, inventory)
    /\ UNCHANGED <<book, tasks>>

ForwardOrders(builder) ==
    /\ \/ SubmitNewOrder(builder)
       \/ AmendExistingOrder(builder)
       \/ IgnoreOrder(builder)
    /\ UNCHANGED <<accounts, to_strategy>>

-----------------------------------------------------------------------------
\* order_response: one event of the exchange or of the gateway.

IsKnown(id) == id \in DOMAIN id_map

RecordOf(id) == orders[id_map[id]]

\* Defect: an update that carries the recorded time is discarded as well.
IsStaleOrSimultaneous(update, order) == update.updated_time <= order.updated_time

\* Defect: updates are taken in the order they arrive.
NeverStale(update, order) == FALSE

IsStale(update, order) == update.updated_time < order.updated_time

\* The fields of the record an update overwrites.
Updated(order, update) ==
    [order EXCEPT !.price = update.price, !.qty = update.qty,
                  !.order_status = update.order_status, !.filled_qty = update.filled_qty,
                  !.updated_time = update.updated_time]

HandleOrderUpdate(update) ==
    LET id == update.order_link_id
    IN /\ orders' = IF IsKnown(id) /\ ~IsStale(update, RecordOf(id))
                    THEN [orders EXCEPT ![id_map[id]] = Updated(@, update)]
                    ELSE orders
       /\ UNCHANGED <<id_map, id_generator, accounts, to_strategy, tasks>>

\* Defect: an execution is counted whenever its order is known.
IsCountedAgain(execution) ==
    /\ execution.exec_id # EmptyExecId
    /\ IsKnown(execution.order_link_id)

\* Defect: an execution that comes after the report that closed its order is dropped.
IsCountedWhileOpen(execution) ==
    /\ execution.exec_id # EmptyExecId
    /\ IsKnown(execution.order_link_id)
    /\ IsOpen(RecordOf(execution.order_link_id).order_status)
    /\ ExecutionKey(execution) \notin processed_executions

\* Defect: executions of orders of an earlier session are counted as well.
IsCountedOfAnyOrder(execution) ==
    /\ execution.exec_id # EmptyExecId
    /\ ExecutionKey(execution) \notin processed_executions

\* An execution changes the accounts once, and only for an order of this session.
IsCounted(execution) ==
    /\ execution.exec_id # EmptyExecId
    /\ IsKnown(execution.order_link_id)
    /\ ExecutionKey(execution) \notin processed_executions

\* The short position is closed: what was borrowed can be repaid.
CrossesToLong(before, after) == before < 0 /\ after >= 0

CountExecution(execution) ==
    LET after == NetAfter(inventory, execution)
    IN /\ IsCounted(execution)
       /\ processed_executions' = processed_executions \cup {ExecutionKey(execution)}
       /\ inventory' = after
       /\ IF CrossesToLong(inventory, after) THEN Spawn(RepayRequest) ELSE UNCHANGED tasks
       /\ ForcePush(after)
       /\ UNCHANGED book

DiscardExecution(execution) ==
    /\ ~IsCounted(execution)
    /\ UNCHANGED oms_vars

HandleExecutionUpdate(execution) ==
    \/ CountExecution(execution)
    \/ DiscardExecution(execution)

\* Defect: a reported failure rejects the order whatever is known about it.
RejectsAnyOrder(id) == IsKnown(id)

\* The exchange has not been heard of: only then a reported failure is believed.
RejectsOrder(id) == IsKnown(id) /\ RecordOf(id).order_status = "Submitted"

HandleSubmissionFailure(id) ==
    /\ orders' = IF RejectsOrder(id)
                 THEN [orders EXCEPT ![id_map[id]].order_status = "Rejected"]
                 ELSE orders
    /\ UNCHANGED <<id_map, id_generator, accounts, to_strategy, tasks>>

OrderResponse(event) ==
    \/ event.type = "OrderUpdate" /\ HandleOrderUpdate(event)
    \/ event.type = "ExecutionUpdate" /\ HandleExecutionUpdate(event)
    \/ event.type = "SubmissionFailed" /\ HandleSubmissionFailure(event.order_link_id)

-----------------------------------------------------------------------------
\* The two arms of the select! in OrderManagementSystem::cycle.

RecvFromStrategy ==
    /\ from_strategy # <<>>
    /\ from_strategy' = Tail(from_strategy)
    /\ ForwardOrders(Head(from_strategy))
    /\ UNCHANGED <<from_order_handler, strategy_inventory>>

RecvFromOrderHandler ==
    /\ from_order_handler # <<>>
    /\ from_order_handler' = Tail(from_order_handler)
    /\ OrderResponse(Head(from_order_handler))
    /\ UNCHANGED <<from_strategy, strategy_inventory>>

\* One turn of StrategyRunner::cycle that sends these commands.
StrategyCycle(builders) ==
    /\ Len(from_strategy) + Len(builders) <= CommandBound
    /\ strategy_inventory' = IF to_strategy = <<>> THEN strategy_inventory
                                                   ELSE Head(to_strategy)
    /\ to_strategy' = <<>>
    /\ from_strategy' = from_strategy \o builders
    /\ UNCHANGED <<from_order_handler, book, accounts, tasks>>

\* The websocket thread or a task of the gateway puts an event in the channel.
SendToOms(event) ==
    /\ Len(from_order_handler) < EventBound
    /\ from_order_handler' = Append(from_order_handler, event)

-----------------------------------------------------------------------------
\* The variables of the OMS have their types; the places the index names are places of
\* the slab.
OmsTypeOK ==
    /\ to_strategy \in Seq(Int) /\ Len(to_strategy) <= 1
    /\ strategy_inventory \in Int
    /\ orders \in Seq(Orders)
    /\ id_map \in [DOMAIN id_map -> 1 .. Len(orders)]
    /\ id_generator \in Nat
    /\ inventory \in Int
    /\ processed_executions \subseteq Nat \X Nat
    /\ tasks \in [Tasks -> Requests \cup {Idle}]

\* Every order of the slab can be found by its link id, and no two share one: the ids
\* handed out so far, the index and the slab agree (insert_new_order).
IndexConsistent ==
    /\ DOMAIN id_map = InitialOrderLinkId .. id_generator - 1
    /\ Len(orders) = id_generator - InitialOrderLinkId
    /\ \A i \in DOMAIN orders : /\ orders[i].order_link_id \in DOMAIN id_map
                                /\ id_map[orders[i].order_link_id] = i

\* The queue of capacity 1 loses values but never the latest: once the strategy has
\* taken what is in it, it works with the inventory the OMS has (force_push, cycle).
LatestInventoryReachesStrategy ==
    IF to_strategy = <<>> THEN strategy_inventory = inventory
                          ELSE Head(to_strategy) = inventory

\* The exchange is asked to amend an order only after it has reported that order: an
\* amendment in flight is never of an order that may not exist there.
AmendsOnlyAcknowledged ==
    \A t \in Tasks : tasks[t] \in AmendRequests =>
        /\ IsKnown(tasks[t].order_link_id)
        /\ RecordOf(tasks[t].order_link_id).order_status # "Submitted"
=============================================================================
