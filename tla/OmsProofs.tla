------------------------------ MODULE OmsProofs -----------------------------
(***************************************************************************)
(* What the handlers of the OMS do, for every value of the constants and   *)
(* whatever surrounds them: the lemmas the proofs about OmsOpen rest on.   *)
(***************************************************************************)
EXTENDS Oms, SequenceTheorems, WellFoundedInduction, TLAPS

\* A set of natural numbers that is not empty has a least member.
LEMMA LeastMember ==
    ASSUME NEW S, S \subseteq Nat, S # {}
    PROVE  \E i \in S : \A j \in S : i <= j
<1>1. ASSUME NEW j \in Nat, NEW i \in Nat, j < i
      PROVE  <<j, i>> \in OpToRel(<, Nat)
  BY <1>1, Zenon DEF OpToRel
<1>2. PICK i \in S : \A j \in S : ~ (<<j, i>> \in OpToRel(<, Nat))
  BY WFMin, NatLessThanWellFounded
<1>3. \A j \in S : ~ (j < i)
  BY <1>1, <1>2
<1>4. QED
  BY <1>3

\* The order evaluate_order finds is an open order of the slab, on the side asked for.
LEMMA ExistingOrderIsOpen ==
    ASSUME NEW slab \in Seq(Orders), NEW side \in Sides,
           ExistingOrders(slab, side) # {}
    PROVE  \E i \in DOMAIN slab : /\ ExistingOrder(slab, side) = slab[i]
                                  /\ IsOpen(slab[i].order_status)
                                  /\ slab[i].side = side
<1> DEFINE S == ExistingOrders(slab, side)
<1>1. S \subseteq Nat
  BY LenProperties DEF ExistingOrders
<1>2. \E i \in S : \A j \in S : i <= j
  BY <1>1, LeastMember
<1>3. (CHOOSE i \in S : \A j \in S : i <= j) \in S
  BY <1>2
<1>4. QED
  BY <1>3 DEF ExistingOrders, ExistingOrder

-----------------------------------------------------------------------------
\* A task slot that takes a request leaves the others alone, and keeps its type.
LEMMA SpawnType ==
    ASSUME tasks \in [Tasks -> Requests \cup {Idle}],
           NEW request \in Requests,
           Spawn(request)
    PROVE  /\ tasks' \in [Tasks -> Requests \cup {Idle}]
           /\ \A t \in Tasks : tasks'[t] = tasks[t] \/ tasks'[t] = request
BY DEF Spawn

\* A command that becomes a new order: the slab grows by one record, at the place the
\* index names for its id.
LEMMA SubmitNewOrderType ==
    ASSUME OmsTypeOK, NEW builder \in Builders, SubmitNewOrder(builder)
    PROVE  /\ orders' \in Seq(Orders)
           /\ orders' = Append(orders, Build(builder, id_generator))
           /\ Len(orders') = Len(orders) + 1
           /\ id_map' \in [DOMAIN id_map' -> 1 .. Len(orders')]
           /\ DOMAIN id_map' = DOMAIN id_map \cup {id_generator}
           /\ \A id \in DOMAIN id_map' :
                 id_map'[id] = IF id = id_generator THEN Len(orders) + 1 ELSE id_map[id]
           /\ id_generator' = id_generator + 1
           /\ id_generator' \in Nat
           /\ tasks' \in [Tasks -> Requests \cup {Idle}]
           /\ \A t \in Tasks : \/ tasks'[t] = tasks[t]
                               \/ tasks'[t] = CreateRequest(id_generator, builder)
<1>1. Build(builder, id_generator) \in Orders
  BY DEF OmsTypeOK, Build, Orders, Builders, OrderStatuses, OpenStatuses
<1>2. /\ orders' = Append(orders, Build(builder, id_generator))
      /\ orders' \in Seq(Orders)
      /\ Len(orders') = Len(orders) + 1
      /\ Len(orders) \in Nat
  BY <1>1 DEF OmsTypeOK, SubmitNewOrder, InsertNewOrder
<1>3. CreateRequest(id_generator, builder) \in Requests
  BY DEF OmsTypeOK, CreateRequest, Requests, CreateRequests, Builders
<1>4. /\ tasks' \in [Tasks -> Requests \cup {Idle}]
      /\ \A t \in Tasks : \/ tasks'[t] = tasks[t]
                          \/ tasks'[t] = CreateRequest(id_generator, builder)
  BY <1>3, SpawnType DEF OmsTypeOK, SubmitNewOrder
<1>5. /\ DOMAIN id_map' = DOMAIN id_map \cup {id_generator}
      /\ \A id \in DOMAIN id_map' :
            id_map'[id] = IF id = id_generator THEN Len(orders) + 1 ELSE id_map[id]
      /\ id_map' \in [DOMAIN id_map' -> 1 .. Len(orders')]
  BY <1>2 DEF OmsTypeOK, SubmitNewOrder, InsertNewOrder
<1>6. id_generator' = id_generator + 1 /\ id_generator' \in Nat
  BY DEF OmsTypeOK, SubmitNewOrder, InsertNewOrder
<1>7. QED
  BY <1>2, <1>4, <1>5, <1>6

\* A command that amends an order: the request it becomes is about an order of the slab
\* that is open and acknowledged.
LEMMA AmendExistingOrderType ==
    ASSUME OmsTypeOK, NEW builder \in Builders, AmendExistingOrder(builder)
    PROVE  \E i \in DOMAIN orders :
               /\ IsOpen(orders[i].order_status)
               /\ orders[i].order_status # "Submitted"
               /\ LET request == AmendRequest(Amendment(builder, orders[i]))
                  IN /\ request.order_link_id = orders[i].order_link_id
                     /\ tasks' \in [Tasks -> Requests \cup {Idle}]
                     /\ \A t \in Tasks : tasks'[t] = tasks[t] \/ tasks'[t] = request
<1>1. /\ ExistingOrders(orders, builder.side) # {}
      /\ ExistingOrder(orders, builder.side).order_status # "Submitted"
  BY DEF AmendExistingOrder, IsAmendOrder
<1>2. PICK i \in DOMAIN orders :
          /\ ExistingOrder(orders, builder.side) = orders[i]
          /\ IsOpen(orders[i].order_status)
  BY <1>1, ExistingOrderIsOpen DEF OmsTypeOK, Builders
<1> DEFINE request == AmendRequest(Amendment(builder, orders[i]))
<1>3. orders[i] \in Orders
  BY LenProperties, ElementOfSeq DEF OmsTypeOK
<1>4. request \in Requests /\ request.order_link_id = orders[i].order_link_id
  BY <1>3 DEF AmendRequest, Amendment, Requests, AmendRequests, Builders, Orders
<1>5. Spawn(request)
  BY <1>2 DEF AmendExistingOrder
<1>6. /\ tasks' \in [Tasks -> Requests \cup {Idle}]
      /\ \A t \in Tasks : tasks'[t] = tasks[t] \/ tasks'[t] = request
  BY <1>4, <1>5, SpawnType DEF OmsTypeOK
<1>7. QED
  BY <1>1, <1>2, <1>4, <1>6

\* Handling a command keeps the types.
LEMMA ForwardOrdersType ==
    ASSUME OmsTypeOK, NEW builder \in Builders, ForwardOrders(builder),
           UNCHANGED strategy_inventory
    PROVE  OmsTypeOK'
<1>1. CASE SubmitNewOrder(builder)
  BY <1>1, SubmitNewOrderType DEF OmsTypeOK, ForwardOrders, accounts
<1>2. CASE AmendExistingOrder(builder)
  BY <1>2, AmendExistingOrderType DEF OmsTypeOK, ForwardOrders, accounts, book,
                                      AmendExistingOrder
<1>3. CASE IgnoreOrder(builder)
  BY <1>3 DEF OmsTypeOK, ForwardOrders, accounts, book, IgnoreOrder
<1>4. QED
  BY <1>1, <1>2, <1>3 DEF ForwardOrders

-----------------------------------------------------------------------------
\* What an event may make of a record: it stays the record of the same order, never goes
\* back in time, and an acknowledged order stays acknowledged.
Advances(before, after) ==
    /\ after \in Orders
    /\ after.order_link_id = before.order_link_id
    /\ after.side = before.side
    /\ after.updated_time >= before.updated_time
    /\ before.order_status # "Submitted" => after.order_status # "Submitted"

\* The slab after an event: the same places, each with a record that has advanced.
SlabAdvances ==
    /\ orders' \in Seq(Orders)
    /\ Len(orders') = Len(orders)
    /\ \A i \in DOMAIN orders : Advances(orders[i], orders'[i])
    /\ UNCHANGED <<id_map, id_generator>>

\* The status the exchange reports is one of its own.
IsExchangeReport(event) == event.type = "OrderUpdate" => event.order_status # "Submitted"

\* A slab that is left alone advances trivially.
LEMMA SlabUnchangedAdvances ==
    ASSUME OmsTypeOK, UNCHANGED book
    PROVE  SlabAdvances
<1>1. \A i \in DOMAIN orders : orders[i] \in Orders
  BY LenProperties, ElementOfSeq DEF OmsTypeOK
<1>2. \A i \in DOMAIN orders : Advances(orders[i], orders[i])
  BY <1>1 DEF Advances, Orders
<1>3. QED
  BY <1>2 DEF OmsTypeOK, book, SlabAdvances

\* One record replaced by one that has advanced.
LEMMA SlabUpdateAdvances ==
    ASSUME OmsTypeOK, NEW i \in DOMAIN orders, NEW record,
           Advances(orders[i], record),
           orders' = [orders EXCEPT ![i] = record],
           UNCHANGED <<id_map, id_generator>>
    PROVE  SlabAdvances
<1>1. /\ orders \in Seq(Orders)
      /\ DOMAIN orders = 1 .. Len(orders)
      /\ record \in Orders
  BY LenProperties DEF OmsTypeOK, Advances
<1>2. /\ orders' \in Seq(Orders)
      /\ Len(orders') = Len(orders)
      /\ \A j \in DOMAIN orders : orders'[j] = IF j = i THEN record ELSE orders[j]
  BY <1>1, ExceptSeq
<1>3. \A j \in DOMAIN orders : orders[j] \in Orders
  BY <1>1, ElementOfSeq
<1>4. \A j \in DOMAIN orders : Advances(orders[j], orders[j])
  BY <1>3 DEF Advances, Orders
<1>5. QED
  BY <1>2, <1>4 DEF SlabAdvances

\* An update that is not stale advances the record it is applied to.
LEMMA UpdatedAdvances ==
    ASSUME NEW order \in Orders, NEW update \in OrderUpdates,
           IsExchangeReport(update), ~IsStale(update, order)
    PROVE  Advances(order, Updated(order, update))
<1>1. Updated(order, update) \in Orders
  BY DEF Updated, Orders, OrderUpdates
<1>2. /\ Updated(order, update).updated_time = update.updated_time
      /\ Updated(order, update).order_status = update.order_status
      /\ Updated(order, update).order_link_id = order.order_link_id
      /\ Updated(order, update).side = order.side
  BY DEF Updated, Orders
<1>3. update.updated_time >= order.updated_time
  BY DEF IsStale, Orders, OrderUpdates
<1>4. update.order_status # "Submitted"
  BY DEF IsExchangeReport, OrderUpdates
<1>5. QED
  BY <1>1, <1>2, <1>3, <1>4 DEF Advances

\* handle_order_update only advances the slab: a stale update is discarded.
LEMMA HandleOrderUpdateAdvances ==
    ASSUME OmsTypeOK, NEW update \in OrderUpdates, IsExchangeReport(update),
           HandleOrderUpdate(update)
    PROVE  SlabAdvances
<1> DEFINE id == update.order_link_id
<1>1. CASE IsKnown(id) /\ ~IsStale(update, RecordOf(id))
  <2> DEFINE i == id_map[id]
  <2>1. i \in DOMAIN orders /\ orders[i] \in Orders
    BY <1>1, LenProperties, ElementOfSeq DEF OmsTypeOK, IsKnown
  <2>2. Advances(orders[i], Updated(orders[i], update))
    BY <1>1, <2>1, UpdatedAdvances DEF RecordOf
  <2>3. orders' = [orders EXCEPT ![i] = Updated(orders[i], update)]
    BY <1>1 DEF HandleOrderUpdate
  <2>4. QED
    BY <2>1, <2>2, <2>3, SlabUpdateAdvances DEF HandleOrderUpdate
<1>2. CASE ~(IsKnown(id) /\ ~IsStale(update, RecordOf(id)))
  BY <1>2, SlabUnchangedAdvances DEF HandleOrderUpdate, book
<1>3. QED
  BY <1>1, <1>2

\* handle_submission_failure only advances the slab: it touches submitted orders alone.
LEMMA HandleSubmissionFailureAdvances ==
    ASSUME OmsTypeOK, NEW id \in Nat, HandleSubmissionFailure(id)
    PROVE  SlabAdvances
<1>1. CASE RejectsOrder(id)
  <2> DEFINE i == id_map[id]
             record == [orders[i] EXCEPT !.order_status = "Rejected"]
  <2>1. i \in DOMAIN orders /\ orders[i] \in Orders
    BY <1>1, LenProperties, ElementOfSeq DEF OmsTypeOK, IsKnown, RejectsOrder
  <2>2. Advances(orders[i], record)
    BY <2>1 DEF Advances, Orders, OrderStatuses, ClosedStatuses
  <2>3. orders' = [orders EXCEPT ![i] = record]
    BY <1>1, <2>1 DEF HandleSubmissionFailure
  <2>4. QED
    BY <2>1, <2>2, <2>3, SlabUpdateAdvances DEF HandleSubmissionFailure
<1>2. CASE ~RejectsOrder(id)
  BY <1>2, SlabUnchangedAdvances DEF HandleSubmissionFailure, book
<1>3. QED
  BY <1>1, <1>2

\* Whatever the exchange or the gateway reports, the slab only advances.
LEMMA OrderResponseAdvances ==
    ASSUME OmsTypeOK, NEW event \in OrderEvents, IsExchangeReport(event),
           OrderResponse(event)
    PROVE  SlabAdvances
<1>1. CASE event.type = "OrderUpdate" /\ HandleOrderUpdate(event)
  <2>1. event \in OrderUpdates
    BY <1>1 DEF OrderEvents, OrderUpdates, Executions, SubmissionFailures
  <2>2. QED
    BY <1>1, <2>1, HandleOrderUpdateAdvances
<1>2. CASE event.type = "ExecutionUpdate" /\ HandleExecutionUpdate(event)
  BY <1>2, SlabUnchangedAdvances
     DEF HandleExecutionUpdate, CountExecution, DiscardExecution, oms_vars
<1>3. CASE event.type = "SubmissionFailed" /\ HandleSubmissionFailure(event.order_link_id)
  <2>1. event.order_link_id \in Nat
    BY DEF OrderEvents, OrderUpdates, Executions, SubmissionFailures
  <2>2. QED
    BY <1>3, <2>1, HandleSubmissionFailureAdvances
<1>4. QED
  BY <1>1, <1>2, <1>3 DEF OrderResponse

\* An execution leaves the accounts as they are, or moves the inventory and remembers the
\* execution; the new inventory is in the queue to the strategy, and at most a repayment
\* is asked for.
LEMMA HandleExecutionUpdateAccounts ==
    ASSUME OmsTypeOK, NEW execution \in Executions, HandleExecutionUpdate(execution)
    PROVE  /\ \/ UNCHANGED <<accounts, to_strategy>>
              \/ /\ ExecutionKey(execution) \notin processed_executions
                 /\ ExecutionKey(execution) \in Nat \X Nat
                 /\ processed_executions'
                        = processed_executions \cup {ExecutionKey(execution)}
                 /\ inventory' = NetAfter(inventory, execution)
                 /\ inventory' \in Int
                 /\ to_strategy' = <<inventory'>>
           /\ tasks' \in [Tasks -> Requests \cup {Idle}]
           /\ \A t \in Tasks : tasks'[t] = tasks[t] \/ tasks'[t] = RepayRequest
<1>1. CASE CountExecution(execution)
  <2>1. NetAfter(inventory, execution) \in Int
    BY DEF OmsTypeOK, NetAfter, Executions
  <2>2. ExecutionKey(execution) \in Nat \X Nat
    BY DEF ExecutionKey, Executions
  <2>3. /\ tasks' \in [Tasks -> Requests \cup {Idle}]
        /\ \A t \in Tasks : tasks'[t] = tasks[t] \/ tasks'[t] = RepayRequest
    <3>1. RepayRequest \in Requests
      BY DEF RepayRequest, Requests, RepayRequests
    <3>2. QED
      BY <1>1, <3>1, SpawnType DEF CountExecution, OmsTypeOK
  <2>4. QED
    BY <1>1, <2>1, <2>2, <2>3 DEF CountExecution, IsCounted, ForcePush
<1>2. CASE DiscardExecution(execution)
  BY <1>2 DEF DiscardExecution, oms_vars, OmsTypeOK, accounts
<1>3. QED
  BY <1>1, <1>2 DEF HandleExecutionUpdate

\* Handling an event keeps the types.
LEMMA OrderResponseType ==
    ASSUME OmsTypeOK, NEW event \in OrderEvents, IsExchangeReport(event),
           OrderResponse(event), UNCHANGED strategy_inventory
    PROVE  OmsTypeOK'
<1>1. /\ orders' \in Seq(Orders)
      /\ id_map' \in [DOMAIN id_map' -> 1 .. Len(orders')]
      /\ id_generator' \in Nat
  BY OrderResponseAdvances DEF SlabAdvances, OmsTypeOK
<1>2. CASE event.type = "ExecutionUpdate" /\ HandleExecutionUpdate(event)
  <2>1. event \in Executions
    BY <1>2 DEF OrderEvents, OrderUpdates, Executions, SubmissionFailures
  <2>2. CASE UNCHANGED <<accounts, to_strategy>>
    BY <1>1, <1>2, <2>1, <2>2, HandleExecutionUpdateAccounts DEF OmsTypeOK, accounts
  <2>3. CASE ~ UNCHANGED <<accounts, to_strategy>>
    <3>1. /\ inventory' \in Int
          /\ to_strategy' = <<inventory'>>
          /\ ExecutionKey(event) \in Nat \X Nat
          /\ processed_executions' = processed_executions \cup {ExecutionKey(event)}
          /\ tasks' \in [Tasks -> Requests \cup {Idle}]
      BY <1>2, <2>1, <2>3, HandleExecutionUpdateAccounts
    <3>2. to_strategy' \in Seq(Int) /\ Len(to_strategy') <= 1
      BY <3>1
    <3>3. QED
      BY <1>1, <3>1, <3>2 DEF OmsTypeOK
  <2>4. QED
    BY <2>2, <2>3
<1>3. CASE UNCHANGED <<accounts, to_strategy, tasks>>
  BY <1>1, <1>3 DEF OmsTypeOK, accounts
<1>4. QED
  BY <1>2, <1>3 DEF OrderResponse, HandleOrderUpdate, HandleSubmissionFailure

-----------------------------------------------------------------------------
\* A slab that advances keeps the index in step with it.
LEMMA SlabAdvancesKeepsIndex ==
    ASSUME OmsTypeOK, IndexConsistent, SlabAdvances
    PROVE  IndexConsistent'
<1>1. DOMAIN orders' = DOMAIN orders
  BY LenProperties DEF OmsTypeOK, SlabAdvances
<1>2. \A i \in DOMAIN orders : orders'[i].order_link_id = orders[i].order_link_id
  BY DEF SlabAdvances, Advances
<1>3. QED
  BY <1>1, <1>2 DEF IndexConsistent, SlabAdvances

\* A new order gets an id no other has, and the index finds it in its place.
LEMMA SubmitNewOrderKeepsIndex ==
    ASSUME OmsTypeOK, IndexConsistent, NEW builder \in Builders, SubmitNewOrder(builder)
    PROVE  IndexConsistent'
<1> DEFINE n == Len(orders)
<1>1. /\ n \in Nat
      /\ DOMAIN orders = 1 .. n
      /\ DOMAIN orders' = 1 .. n + 1
  BY SubmitNewOrderType, LenProperties DEF OmsTypeOK
<1>2. /\ \A i \in 1 .. n : orders'[i] = orders[i]
      /\ orders'[n + 1] = Build(builder, id_generator)
  BY <1>1, SubmitNewOrderType DEF OmsTypeOK
<1>3. /\ DOMAIN id_map = InitialOrderLinkId .. id_generator - 1
      /\ n = id_generator - InitialOrderLinkId
      /\ id_generator \in Nat /\ InitialOrderLinkId \in Nat
  BY OmsAssumption DEF IndexConsistent, OmsTypeOK
<1>4. DOMAIN id_map' = InitialOrderLinkId .. id_generator' - 1
  <2>1. id_generator' - 1 = id_generator /\ InitialOrderLinkId <= id_generator
    BY <1>1, <1>3, SubmitNewOrderType
  <2>2. DOMAIN id_map' = DOMAIN id_map \cup {id_generator}
    BY SubmitNewOrderType
  <2>3. (InitialOrderLinkId .. id_generator - 1) \cup {id_generator}
            = InitialOrderLinkId .. id_generator
    BY <1>3, <2>1
  <2>4. QED
    BY <1>3, <2>1, <2>2, <2>3
<1>5. Len(orders') = id_generator' - InitialOrderLinkId
  BY <1>1, <1>3, SubmitNewOrderType
<1>6. ASSUME NEW i \in DOMAIN orders'
      PROVE  /\ orders'[i].order_link_id \in DOMAIN id_map'
             /\ id_map'[orders'[i].order_link_id] = i
  <2>1. CASE i = n + 1
    <3>1. orders'[i].order_link_id = id_generator
      BY <1>2, <2>1 DEF Build
    <3>2. QED
      BY <2>1, <3>1, SubmitNewOrderType
  <2>2. CASE i \in 1 .. n
    <3>1. orders'[i].order_link_id = orders[i].order_link_id
      BY <1>2, <2>2
    <3>2. /\ orders[i].order_link_id \in DOMAIN id_map
          /\ id_map[orders[i].order_link_id] = i
      BY <1>1, <2>2 DEF IndexConsistent
    <3>3. orders[i].order_link_id # id_generator
      BY <1>3, <3>2
    <3>4. QED
      BY <3>1, <3>2, <3>3, SubmitNewOrderType
  <2>3. QED
    BY <1>1, <1>6, <2>1, <2>2
<1>7. QED
  BY <1>4, <1>5, <1>6 DEF IndexConsistent

\* Handling a command keeps the index consistent.
LEMMA ForwardOrdersKeepsIndex ==
    ASSUME OmsTypeOK, IndexConsistent, NEW builder \in Builders, ForwardOrders(builder)
    PROVE  IndexConsistent'
<1>1. CASE SubmitNewOrder(builder)
  BY <1>1, SubmitNewOrderKeepsIndex
<1>2. CASE UNCHANGED book
  BY <1>2, SlabUnchangedAdvances, SlabAdvancesKeepsIndex
<1>3. QED
  BY <1>1, <1>2 DEF ForwardOrders, AmendExistingOrder, IgnoreOrder

-----------------------------------------------------------------------------
\* The two kinds of request are told apart by their kind.
LEMMA RequestKinds ==
    ASSUME NEW id, NEW builder
    PROVE  /\ CreateRequest(id, builder) \notin AmendRequests
           /\ RepayRequest \notin AmendRequests
BY DEF CreateRequest, RepayRequest, AmendRequests

\* A slab that advances leaves every amendment in flight about an acknowledged order.
LEMMA SlabAdvancesKeepsAcknowledged ==
    ASSUME OmsTypeOK, AmendsOnlyAcknowledged, SlabAdvances,
           \A t \in Tasks : tasks'[t] = tasks[t] \/ tasks'[t] \notin AmendRequests
    PROVE  AmendsOnlyAcknowledged'
<1> SUFFICES ASSUME NEW t \in Tasks, tasks'[t] \in AmendRequests
             PROVE  /\ IsKnown(tasks[t].order_link_id)'
                    /\ (RecordOf(tasks[t].order_link_id).order_status # "Submitted")'
  BY DEF AmendsOnlyAcknowledged
<1> DEFINE id == tasks[t].order_link_id
<1>1. tasks'[t] = tasks[t] /\ IsKnown(id) /\ RecordOf(id).order_status # "Submitted"
  BY DEF AmendsOnlyAcknowledged
<1>2. id_map[id] \in DOMAIN orders
  BY <1>1, LenProperties DEF OmsTypeOK, IsKnown
<1>3. orders'[id_map[id]].order_status # "Submitted"
  BY <1>1, <1>2 DEF SlabAdvances, Advances, RecordOf
<1>4. QED
  BY <1>1, <1>3 DEF SlabAdvances, IsKnown, RecordOf

\* A new order leaves the records of the others alone.
LEMMA SubmitNewOrderKeepsAcknowledged ==
    ASSUME OmsTypeOK, IndexConsistent, AmendsOnlyAcknowledged,
           NEW builder \in Builders, SubmitNewOrder(builder)
    PROVE  AmendsOnlyAcknowledged'
<1> SUFFICES ASSUME NEW t \in Tasks, tasks'[t] \in AmendRequests
             PROVE  /\ IsKnown(tasks[t].order_link_id)'
                    /\ (RecordOf(tasks[t].order_link_id).order_status # "Submitted")'
  BY DEF AmendsOnlyAcknowledged
<1> DEFINE id == tasks[t].order_link_id
<1>1. tasks'[t] = tasks[t]
  BY SubmitNewOrderType, RequestKinds
<1>2. id \in DOMAIN id_map /\ orders[id_map[id]].order_status # "Submitted"
  BY <1>1 DEF AmendsOnlyAcknowledged, IsKnown, RecordOf
<1>3. id # id_generator
  BY <1>2, OmsAssumption DEF IndexConsistent, OmsTypeOK
<1>4. id \in DOMAIN id_map' /\ id_map'[id] = id_map[id]
  BY <1>2, <1>3, SubmitNewOrderType
<1>5. id_map[id] \in 1 .. Len(orders)
  BY <1>2 DEF OmsTypeOK
<1>6. orders'[id_map[id]] = orders[id_map[id]]
  BY <1>5, SubmitNewOrderType DEF OmsTypeOK
<1>7. QED
  BY <1>1, <1>2, <1>4, <1>6 DEF IsKnown, RecordOf

\* An amendment is of an order that was found open and acknowledged.
LEMMA AmendExistingOrderKeepsAcknowledged ==
    ASSUME OmsTypeOK, IndexConsistent, AmendsOnlyAcknowledged,
           NEW builder \in Builders, AmendExistingOrder(builder)
    PROVE  AmendsOnlyAcknowledged'
<1>1. PICK i \in DOMAIN orders :
          /\ orders[i].order_status # "Submitted"
          /\ LET request == AmendRequest(Amendment(builder, orders[i]))
             IN /\ request.order_link_id = orders[i].order_link_id
                /\ \A t \in Tasks : tasks'[t] = tasks[t] \/ tasks'[t] = request
  BY AmendExistingOrderType
<1>2. UNCHANGED book
  BY DEF AmendExistingOrder
<1>3. /\ IsKnown(orders[i].order_link_id)
      /\ RecordOf(orders[i].order_link_id).order_status # "Submitted"
  BY <1>1 DEF IndexConsistent, IsKnown, RecordOf
<1>4. ASSUME NEW t \in Tasks, tasks'[t] \in AmendRequests
      PROVE  /\ IsKnown(tasks'[t].order_link_id)
             /\ RecordOf(tasks'[t].order_link_id).order_status # "Submitted"
  BY <1>1, <1>3, <1>4 DEF AmendsOnlyAcknowledged
<1>5. QED
  BY <1>2, <1>4 DEF AmendsOnlyAcknowledged, IsKnown, RecordOf, book

\* Handling a command keeps amendments to acknowledged orders.
LEMMA ForwardOrdersKeepsAcknowledged ==
    ASSUME OmsTypeOK, IndexConsistent, AmendsOnlyAcknowledged,
           NEW builder \in Builders, ForwardOrders(builder)
    PROVE  AmendsOnlyAcknowledged'
<1>1. CASE SubmitNewOrder(builder)
  BY <1>1, SubmitNewOrderKeepsAcknowledged
<1>2. CASE AmendExistingOrder(builder)
  BY <1>2, AmendExistingOrderKeepsAcknowledged
<1>3. CASE IgnoreOrder(builder)
  BY <1>3, SlabUnchangedAdvances, SlabAdvancesKeepsAcknowledged DEF IgnoreOrder
<1>4. QED
  BY <1>1, <1>2, <1>3 DEF ForwardOrders

\* Handling an event spawns no amendment.
LEMMA OrderResponseTasks ==
    ASSUME OmsTypeOK, NEW event \in OrderEvents, OrderResponse(event)
    PROVE  \A t \in Tasks : tasks'[t] = tasks[t] \/ tasks'[t] \notin AmendRequests
<1>1. CASE event.type = "ExecutionUpdate" /\ HandleExecutionUpdate(event)
  <2>1. event \in Executions
    BY <1>1 DEF OrderEvents, OrderUpdates, Executions, SubmissionFailures
  <2>2. QED
    BY <1>1, <2>1, HandleExecutionUpdateAccounts, RequestKinds
<1>2. CASE UNCHANGED tasks
  BY <1>2
<1>3. QED
  BY <1>1, <1>2 DEF OrderResponse, HandleOrderUpdate, HandleSubmissionFailure
=============================================================================
