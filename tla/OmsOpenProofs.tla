--------------------------- MODULE OmsOpenProofs ----------------------------
(***************************************************************************)
(* Theorems about the OMS in an arbitrary environment (OmsOpen): for every *)
(* set of commands, events, prices and quantities, every limit, every      *)
(* number of tasks and every length of the channels.                       *)
(***************************************************************************)
EXTENDS OmsOpen, OmsProofs

\* What the steps of the OMS rely on, each part of it kept by every step.
Inv ==
    /\ TypeOK
    /\ IndexConsistent
    /\ LatestInventoryReachesStrategy
    /\ AmendsOnlyAcknowledged

\* The arms of select! take a command the strategy may send and an event the exchange
\* may report, and hand them to their handler.
LEMMA Received ==
    ASSUME TypeOK
    PROVE  /\ RecvFromStrategy =>
                  \E builder \in Builders :
                      /\ ForwardOrders(builder)
                      /\ from_strategy' \in Seq(Commands)
                      /\ UNCHANGED <<from_order_handler, strategy_inventory>>
           /\ RecvFromOrderHandler =>
                  \E event \in OrderEvents :
                      /\ IsExchangeReport(event)
                      /\ OrderResponse(event)
                      /\ from_order_handler' \in Seq(Events)
                      /\ UNCHANGED <<from_strategy, strategy_inventory>>
<1>1. ASSUME RecvFromStrategy
      PROVE  /\ Head(from_strategy) \in Builders
             /\ from_strategy' \in Seq(Commands)
  BY <1>1, HeadTailProperties, EnvironmentAssumption DEF TypeOK, RecvFromStrategy
<1>2. ASSUME RecvFromOrderHandler
      PROVE  /\ Head(from_order_handler) \in OrderEvents
             /\ IsExchangeReport(Head(from_order_handler))
             /\ from_order_handler' \in Seq(Events)
  BY <1>2, HeadTailProperties, EnvironmentAssumption
     DEF TypeOK, RecvFromOrderHandler, IsExchangeReport
<1>3. QED
  BY <1>1, <1>2 DEF RecvFromStrategy, RecvFromOrderHandler

\* What the steps of the environment leave alone.
LEMMA EnvironmentSteps ==
    ASSUME TypeOK
    PROVE  /\ (\E command \in Commands : StrategySends(command)) \/ StrategySendsNothing =>
                  UNCHANGED <<from_order_handler, book, accounts, tasks>>
           /\ (\E event \in Events : EventArrives(event)) =>
                  UNCHANGED <<from_strategy, strategy_inventory, oms_vars>>
           /\ \A t \in Tasks : TaskEnds(t) =>
                  /\ tasks' = [tasks EXCEPT ![t] = Idle]
                  /\ UNCHANGED <<from_strategy, from_order_handler, strategy_inventory,
                                 book, accounts, to_strategy>>
BY DEF StrategySends, StrategySendsNothing, StrategyCycle, EventArrives, TaskEnds

-----------------------------------------------------------------------------
\* The initial state satisfies the invariant.
LEMMA InitInv == OmsInit => Inv
<1> SUFFICES ASSUME OmsInit PROVE Inv
  OBVIOUS
<1>1. OmsTypeOK
  <2>1. /\ to_strategy \in Seq(Int) /\ Len(to_strategy) <= 1
        /\ strategy_inventory \in Int
        /\ inventory \in Int
        /\ id_generator \in Nat
    BY OmsAssumption DEF OmsInit
  <2>2. /\ orders \in Seq(Orders)
        /\ id_map \in [DOMAIN id_map -> 1 .. Len(orders)]
    BY DEF OmsInit
  <2>3. /\ processed_executions \subseteq Nat \X Nat
        /\ tasks \in [Tasks -> Requests \cup {Idle}]
    BY DEF OmsInit
  <2>4. QED
    BY <2>1, <2>2, <2>3 DEF OmsTypeOK
<1>2. TypeOK
  BY <1>1 DEF TypeOK, OmsInit
<1>3. IndexConsistent
  BY OmsAssumption DEF IndexConsistent, OmsInit
<1>4. LatestInventoryReachesStrategy
  BY DEF LatestInventoryReachesStrategy, OmsInit
<1>5. AmendsOnlyAcknowledged
  BY IdleAssumption DEF AmendsOnlyAcknowledged, Requests, OmsInit
<1>6. QED
  BY <1>2, <1>3, <1>4, <1>5 DEF Inv

-----------------------------------------------------------------------------
\* A turn of the strategy keeps the types.
LEMMA StrategyCycleType ==
    ASSUME TypeOK, NEW builders \in Seq(Commands), StrategyCycle(builders)
    PROVE  TypeOK'
<1>1. from_strategy' \in Seq(Commands)
  BY ConcatProperties DEF TypeOK, StrategyCycle
<1>2. to_strategy' \in Seq(Int) /\ Len(to_strategy') <= 1
  BY DEF StrategyCycle
<1>3. strategy_inventory' \in Int
  <2>1. CASE to_strategy = <<>>
    BY <2>1 DEF TypeOK, OmsTypeOK, StrategyCycle
  <2>2. CASE to_strategy # <<>>
    BY <2>2, HeadTailProperties DEF TypeOK, OmsTypeOK, StrategyCycle
  <2>3. QED
    BY <2>1, <2>2
<1>4. QED
  BY <1>1, <1>2, <1>3 DEF TypeOK, OmsTypeOK, StrategyCycle, book, accounts

\* Every step keeps the types.
LEMMA NextType ==
    ASSUME TypeOK, [Next]_vars_of_oms
    PROVE  TypeOK'
<1>1. ASSUME NEW command \in Commands, StrategySends(command)
      PROVE  TypeOK'
  <2>1. <<command>> \in Seq(Commands)
    OBVIOUS
  <2>2. QED
    BY <1>1, <2>1, StrategyCycleType DEF StrategySends
<1>2. CASE StrategySendsNothing
  <2>1. <<>> \in Seq(Commands)
    OBVIOUS
  <2>2. QED
    BY <1>2, <2>1, StrategyCycleType DEF StrategySendsNothing
<1>3. ASSUME NEW event \in Events, EventArrives(event)
      PROVE  TypeOK'
  <2>1. from_order_handler' \in Seq(Events)
    BY <1>3, AppendProperties DEF TypeOK, EventArrives, SendToOms
  <2>2. QED
    BY <1>3, <2>1 DEF TypeOK, OmsTypeOK, EventArrives, oms_vars, book, accounts
<1>4. ASSUME NEW t \in Tasks, TaskEnds(t)
      PROVE  TypeOK'
  BY <1>4 DEF TypeOK, OmsTypeOK, TaskEnds, book, accounts
<1>5. CASE RecvFromStrategy
  BY <1>5, Received, ForwardOrdersType DEF TypeOK
<1>6. CASE RecvFromOrderHandler
  BY <1>6, Received, OrderResponseType DEF TypeOK
<1>7. CASE UNCHANGED vars_of_oms
  BY <1>7 DEF TypeOK, OmsTypeOK, vars_of_oms, oms_vars, book, accounts
<1>8. QED
  BY <1>1, <1>2, <1>3, <1>4, <1>5, <1>6, <1>7 DEF Next

-----------------------------------------------------------------------------
\* Every step keeps the index in step with the slab.
LEMMA NextIndex ==
    ASSUME Inv, [Next]_vars_of_oms
    PROVE  IndexConsistent'
<1>1. CASE UNCHANGED book
  BY <1>1, SlabUnchangedAdvances, SlabAdvancesKeepsIndex DEF Inv, TypeOK
<1>2. CASE RecvFromStrategy
  BY <1>2, Received, ForwardOrdersKeepsIndex DEF Inv, TypeOK
<1>3. CASE RecvFromOrderHandler
  BY <1>3, Received, OrderResponseAdvances, SlabAdvancesKeepsIndex DEF Inv, TypeOK
<1>4. CASE UNCHANGED vars_of_oms
  BY <1>1, <1>4 DEF vars_of_oms, oms_vars
<1>5. QED
  BY <1>1, <1>2, <1>3, <1>4, EnvironmentSteps DEF Next, Inv, oms_vars

\* Every step keeps the latest inventory on its way to the strategy.
LEMMA NextLatestInventory ==
    ASSUME Inv, [Next]_vars_of_oms
    PROVE  LatestInventoryReachesStrategy'
<1>1. ASSUME NEW builders, StrategyCycle(builders)
      PROVE  LatestInventoryReachesStrategy'
  BY <1>1 DEF Inv, LatestInventoryReachesStrategy, StrategyCycle, accounts
<1>2. CASE UNCHANGED <<accounts, to_strategy, strategy_inventory>>
  BY <1>2 DEF Inv, LatestInventoryReachesStrategy, accounts
<1>3. CASE RecvFromStrategy
  BY <1>2, <1>3, Received DEF Inv, ForwardOrders
<1>4. CASE RecvFromOrderHandler
  <2>1. PICK event \in OrderEvents : /\ OrderResponse(event)
                                    /\ UNCHANGED strategy_inventory
    BY <1>4, Received DEF Inv
  <2>2. CASE event.type = "ExecutionUpdate" /\ HandleExecutionUpdate(event)
    <3>1. event \in Executions
      BY <2>2 DEF OrderEvents, OrderUpdates, Executions, SubmissionFailures
    <3>2. \/ UNCHANGED <<accounts, to_strategy>>
          \/ to_strategy' = <<inventory'>>
      BY <2>2, <3>1, HandleExecutionUpdateAccounts DEF Inv, TypeOK
    <3>3. QED
      BY <1>2, <2>1, <3>2 DEF LatestInventoryReachesStrategy
  <2>3. CASE UNCHANGED <<accounts, to_strategy>>
    BY <1>2, <2>1, <2>3
  <2>4. QED
    BY <2>1, <2>2, <2>3 DEF OrderResponse, HandleOrderUpdate, HandleSubmissionFailure
<1>5. CASE UNCHANGED vars_of_oms
  BY <1>2, <1>5 DEF vars_of_oms, oms_vars
<1>6. QED
  BY <1>1, <1>2, <1>3, <1>4, <1>5
     DEF Next, StrategySends, StrategySendsNothing, EventArrives, TaskEnds, oms_vars

\* Every step keeps amendments in flight to acknowledged orders.
LEMMA NextAmendments ==
    ASSUME Inv, [Next]_vars_of_oms
    PROVE  AmendsOnlyAcknowledged'
<1>1. CASE UNCHANGED <<book, tasks>>
  BY <1>1 DEF Inv, AmendsOnlyAcknowledged, IsKnown, RecordOf, book
<1>2. ASSUME NEW t \in Tasks, TaskEnds(t)
      PROVE  AmendsOnlyAcknowledged'
  <2>1. SlabAdvances
    BY <1>2, SlabUnchangedAdvances DEF Inv, TypeOK, TaskEnds
  <2>2. \A u \in Tasks : tasks'[u] = tasks[u] \/ tasks'[u] \notin AmendRequests
    BY <1>2, IdleAssumption DEF Inv, TypeOK, OmsTypeOK, TaskEnds, Requests
  <2>3. QED
    BY <2>1, <2>2, SlabAdvancesKeepsAcknowledged DEF Inv, TypeOK
<1>3. CASE RecvFromStrategy
  BY <1>3, Received, ForwardOrdersKeepsAcknowledged DEF Inv, TypeOK
<1>4. CASE RecvFromOrderHandler
  BY <1>4, Received, OrderResponseAdvances, OrderResponseTasks,
     SlabAdvancesKeepsAcknowledged DEF Inv, TypeOK
<1>5. CASE UNCHANGED vars_of_oms
  BY <1>1, <1>5 DEF vars_of_oms, oms_vars
<1>6. QED
  BY <1>1, <1>2, <1>3, <1>4, <1>5, EnvironmentSteps DEF Next, Inv, oms_vars

\* The invariant is inductive.
LEMMA NextInv == Inv /\ [Next]_vars_of_oms => Inv'
<1> SUFFICES ASSUME Inv, [Next]_vars_of_oms PROVE Inv'
  OBVIOUS
<1>1. TypeOK'
  BY NextType DEF Inv
<1>2. IndexConsistent' /\ LatestInventoryReachesStrategy' /\ AmendsOnlyAcknowledged'
  BY NextIndex, NextLatestInventory, NextAmendments
<1>3. QED
  BY <1>1, <1>2 DEF Inv

\* The invariant holds in every behaviour.
LEMMA AlwaysInv == Spec => []Inv
<1>1. QED
  BY InitInv, NextInv, PTL DEF Spec

-----------------------------------------------------------------------------
\* The variables of the OMS always have their types, and the index never names a place
\* outside the slab: the lookups of order_response cannot panic.
THEOREM TypeCorrect == Spec => []TypeOK
<1>1. Inv => TypeOK
  BY DEF Inv
<1>2. QED
  BY <1>1, AlwaysInv, PTL

\* The ids, the index and the slab always agree (insert_new_order).
THEOREM IndexAlwaysConsistent == Spec => []IndexConsistent
<1>1. Inv => IndexConsistent
  BY DEF Inv
<1>2. QED
  BY <1>1, AlwaysInv, PTL

\* The latest inventory is always what the strategy has or what waits for it in the
\* queue of capacity 1 (force_push).
THEOREM InventoryReachesStrategy == Spec => []LatestInventoryReachesStrategy
<1>1. Inv => LatestInventoryReachesStrategy
  BY DEF Inv
<1>2. QED
  BY <1>1, AlwaysInv, PTL

\* The exchange is never asked to amend an order it has not reported (evaluate_order).
THEOREM AmendsAcknowledgedOrders == Spec => []AmendsOnlyAcknowledged
<1>1. Inv => AmendsOnlyAcknowledged
  BY DEF Inv
<1>2. QED
  BY <1>1, AlwaysInv, PTL

-----------------------------------------------------------------------------
\* No step takes a record back to an older report (handle_order_update).
THEOREM RecordsNeverGoBack == Spec => NeverBackInTime
<1> DEFINE Forward == \A i \in DOMAIN orders : orders'[i].updated_time >= orders[i].updated_time
<1>1. ASSUME Inv, [Next]_vars_of_oms
      PROVE  Forward
  <2>1. CASE SlabAdvances
    BY <2>1 DEF SlabAdvances, Advances
  <2>2. CASE UNCHANGED book
    BY <1>1, <2>1, <2>2, SlabUnchangedAdvances DEF Inv, TypeOK
  <2>3. ASSUME NEW builder \in Builders, SubmitNewOrder(builder)
        PROVE  Forward
    <3>1. orders \in Seq(Orders) /\ DOMAIN orders = 1 .. Len(orders)
      BY <1>1, LenProperties DEF Inv, TypeOK, OmsTypeOK
    <3>2. orders' = Append(orders, Build(builder, id_generator))
      BY <2>3 DEF SubmitNewOrder, InsertNewOrder
    <3>3. \A i \in DOMAIN orders : orders'[i] = orders[i] /\ orders[i] \in Orders
      BY <3>1, <3>2, ElementOfSeq
    <3>4. QED
      BY <3>3 DEF Orders
  <2>4. CASE RecvFromStrategy
    BY <1>1, <2>2, <2>3, <2>4, Received
       DEF Inv, ForwardOrders, AmendExistingOrder, IgnoreOrder
  <2>5. CASE RecvFromOrderHandler
    BY <1>1, <2>1, <2>5, Received, OrderResponseAdvances DEF Inv, TypeOK
  <2>6. CASE UNCHANGED vars_of_oms
    BY <2>2, <2>6 DEF vars_of_oms, oms_vars
  <2>7. QED
    BY <1>1, <2>2, <2>4, <2>5, <2>6, EnvironmentSteps DEF Next, Inv, oms_vars
<1>2. QED
  BY <1>1, AlwaysInv, PTL DEF Spec, NeverBackInTime

\* No step counts an execution a second time, moves the inventory without one, or forgets
\* what it has counted (handle_execution_update).
THEOREM ExecutionsCountedOnce == Spec => CountedOnce
<1> DEFINE Counts ==
        /\ processed_executions \subseteq processed_executions'
        /\ inventory' # inventory => processed_executions' # processed_executions
<1>1. ASSUME Inv, [Next]_vars_of_oms
      PROVE  Counts
  <2>1. CASE UNCHANGED accounts
    BY <2>1 DEF accounts
  <2>2. CASE RecvFromStrategy
    BY <1>1, <2>1, <2>2, Received DEF Inv, ForwardOrders
  <2>3. CASE RecvFromOrderHandler
    <3>1. PICK event \in OrderEvents : OrderResponse(event)
      BY <1>1, <2>3, Received DEF Inv
    <3>2. CASE event.type = "ExecutionUpdate" /\ HandleExecutionUpdate(event)
      <4>1. event \in Executions
        BY <3>2 DEF OrderEvents, OrderUpdates, Executions, SubmissionFailures
      <4>2. QED
        BY <1>1, <2>1, <3>2, <4>1, HandleExecutionUpdateAccounts DEF Inv, TypeOK
    <3>3. QED
      BY <2>1, <3>1, <3>2 DEF OrderResponse, HandleOrderUpdate, HandleSubmissionFailure
  <2>4. CASE UNCHANGED vars_of_oms
    BY <2>1, <2>4 DEF vars_of_oms, oms_vars
  <2>5. QED
    BY <1>1, <2>1, <2>2, <2>3, <2>4, EnvironmentSteps DEF Next, Inv, oms_vars
<1>2. QED
  BY <1>1, AlwaysInv, PTL DEF Spec, CountedOnce
=============================================================================
