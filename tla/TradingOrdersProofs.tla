------------------------ MODULE TradingOrdersProofs -------------------------
(***************************************************************************)
(* The orders of the trading loop: what the records of the OMS have to do  *)
(* with the orders of the exchange, and why one order works on a side.     *)
(* Then the loop with the reports about an order delivered as they were    *)
(* made: no view stays old, even of changes within one millisecond, no     *)
(* record is closed before its executions are counted, and the limits of   *)
(* the risk manager bound the exposure.                                    *)
(***************************************************************************)
EXTENDS TradingProofs

\* Statuses of an order that has ended at the exchange, and of a record.
XClosed == {"PartiallyFilledCanceled", "Filled", "Cancelled"}

RecordStatuses == XStatuses \cup {"Submitted", "Rejected"}

\* A record has a status the exchange gives, or one of the OMS itself.
RecordsGenuine == \A id \in Ids : IsKnown(id) => RecordOf(id).order_status \in RecordStatuses

Submitting(t, id) == tasks[t] \in CreateRequests /\ tasks[t].order_link_id = id

\* An order is submitted once, and before it is at the exchange.
SubmittedOnce ==
    /\ \A t \in Tasks : tasks[t] \in CreateRequests =>
           xorders[tasks[t].order_link_id] = Absent
    /\ \A t, u \in Tasks : /\ tasks[t] \in CreateRequests /\ tasks[u] \in CreateRequests
                           /\ tasks[t].order_link_id = tasks[u].order_link_id
                           => t = u

\* The OMS takes an order for closed only when the exchange has closed it.
ClosedAtExchange ==
    /\ \A e \in Pending : GenuineUpdate(e) /\ e.order_status \in XClosed =>
           xorders[e.order_link_id] # Absent /\ ~Working(e.order_link_id)
    /\ \A id \in Ids : IsKnown(id) /\ RecordOf(id).order_status \in XClosed =>
           xorders[id] # Absent /\ ~Working(id)

\* An order whose submission was reported as failed.
NeverPlaced(id) ==
    /\ xorders[id] = Absent
    /\ \A t \in Tasks : ~Submitting(t, id)

FailedAreNotPlaced ==
    /\ \A t \in Tasks : tasks[t] \in FailedRequests => NeverPlaced(tasks[t].order_link_id)
    /\ \A e \in Pending : e \in SubmissionFailures => NeverPlaced(e.order_link_id)
    /\ \A id \in Ids : IsKnown(id) /\ RecordOf(id).order_status = "Rejected" => NeverPlaced(id)

\* An order that trades, or may yet.
Live(id) == Working(id) \/ \E t \in Tasks : Submitting(t, id)

OneLivePerSide ==
    \A id1, id2 \in Ids :
        Live(id1) /\ Live(id2) /\ RecordOf(id1).side = RecordOf(id2).side => id1 = id2

OrdersInv ==
    /\ RecordsGenuine
    /\ SubmittedOnce
    /\ ClosedAtExchange
    /\ ~AmbiguousOutcomes => FailedAreNotPlaced /\ OneLivePerSide

-----------------------------------------------------------------------------
\* What an event does to the records.
EventEffect(event) ==
    /\ event \in Pending
    /\ Pending = Pending' \cup {event}
    /\ UNCHANGED exchange_vars
    /\ \A t \in Tasks : tasks'[t] = tasks[t] \/ tasks'[t] = RepayRequest
    /\ \A id : IsKnown(id)' <=> IsKnown(id)
    /\ \A id : IsKnown(id) =>
           \/ RecordOf(id)' = RecordOf(id)
           \/ /\ GenuineUpdate(event) /\ event.order_link_id = id
              /\ ~IsStale(event, RecordOf(id))
              /\ RecordOf(id)' = Updated(RecordOf(id), event)
           \/ /\ event \in SubmissionFailures /\ event.order_link_id = id
              /\ RecordOf(id).order_status = "Submitted"
              /\ RecordOf(id)' = [RecordOf(id) EXCEPT !.order_status = "Rejected"]
    /\ \A id : IsKnown(id) /\ GenuineUpdate(event) /\ event.order_link_id = id
                   /\ ~IsStale(event, RecordOf(id)) =>
           RecordOf(id)' = Updated(RecordOf(id), event)

\* What a report taken from the stream makes of the records.
LEMMA ReceivedRecords ==
    ASSUME Base, NEW event \in OrderEvents, event \in Pending, IsExchangeReport(event),
           OrderResponse(event), Pending = Pending' \cup {event}, UNCHANGED exchange_vars
    PROVE  EventEffect(event)
<1>1. /\ event \in Pending
      /\ IsExchangeReport(event)
      /\ OrderResponse(event)
      /\ Pending = Pending' \cup {event}
      /\ UNCHANGED exchange_vars
  OBVIOUS
<1>2. \A t \in Tasks : tasks'[t] = tasks[t] \/ tasks'[t] = RepayRequest
  BY <1>1, OrderResponseSpawns DEF Base, TypeOK
<1>3. \A id : IsKnown(id)' <=> IsKnown(id)
  BY <1>1, OrderResponseAdvances, AdvancedRecord DEF Base, TypeOK
<1>4. \/ event \in Executions /\ event.type = "ExecutionUpdate"
      \/ event \in OrderUpdates /\ event.type = "OrderUpdate" /\ GenuineUpdate(event)
      \/ event \in SubmissionFailures /\ event.type = "SubmissionFailed"
  BY <1>1 DEF Base, TypeOK, ReportsGenuine, GenuineUpdate, Executions, OrderUpdates,
              SubmissionFailures
<1>5. CASE event.type = "ExecutionUpdate"
  <2>1. UNCHANGED book
    BY <1>1, <1>5 DEF OrderResponse, HandleExecutionUpdate, CountExecution, DiscardExecution,
                      oms_vars
  <2>2. ~GenuineUpdate(event)
    BY <1>5 DEF GenuineUpdate, OrderUpdates
  <2>3. QED
    BY <1>1, <1>2, <1>3, <2>1, <2>2, SameBook DEF EventEffect
<1>6. CASE event \in OrderUpdates /\ GenuineUpdate(event)
  <2>1. HandleOrderUpdate(event)
    BY <1>1, <1>6 DEF OrderResponse, OrderUpdates
  <2>2. \A id : IsKnown(id) =>
            RecordOf(id)' = IF id = event.order_link_id /\ ~IsStale(event, RecordOf(id))
                            THEN Updated(RecordOf(id), event)
                            ELSE RecordOf(id)
    BY <1>6, <2>1, UpdateRecord
  <2>3. QED
    BY <1>1, <1>2, <1>3, <1>6, <2>2 DEF EventEffect
<1>7. CASE event \in SubmissionFailures
  <2>1. HandleSubmissionFailure(event.order_link_id)
    BY <1>1, <1>7 DEF OrderResponse, SubmissionFailures
  <2>2. \A id : IsKnown(id) =>
            RecordOf(id)' = IF /\ id = event.order_link_id
                               /\ RecordOf(id).order_status = "Submitted"
                            THEN [RecordOf(id) EXCEPT !.order_status = "Rejected"]
                            ELSE RecordOf(id)
    BY <2>1, FailureRecord
  <2>3. ~GenuineUpdate(event)
    BY <1>7 DEF GenuineUpdate, OrderUpdates, SubmissionFailures
  <2>4. QED
    BY <1>1, <1>2, <1>3, <1>7, <2>2, <2>3 DEF EventEffect
<1>8. QED
  BY <1>4, <1>5, <1>6, <1>7

\* What an event makes of the records, a report or a failure.
LEMMA EventRecords ==
    ASSUME Base, EventStep
    PROVE  \E event \in OrderEvents : EventEffect(event)
BY ReceivedRecords DEF EventStep

\* What a command does to the records and to the tasks: a new order and its submission.
SubmitEffect(builder, new, t) ==
    /\ ~LimitReached(builder.side, inventory)
    /\ ExistingOrders(orders, builder.side) = {}
    /\ new \in Ids /\ ~IsKnown(new)
    /\ \A id : IsKnown(id)' <=> IsKnown(id) \/ id = new
    /\ \A id : IsKnown(id) => RecordOf(id)' = RecordOf(id)
    /\ RecordOf(new)' = Build(builder, new)
    /\ CreateRequest(new, builder) \in CreateRequests
    /\ tasks[t] = Idle
    /\ tasks' = [tasks EXCEPT ![t] = CreateRequest(new, builder)]

\* Or no more than an amendment.
AmendEffect(builder) ==
    /\ UNCHANGED book
    /\ \A t \in Tasks : \/ tasks'[t] = tasks[t]
                        \/ tasks'[t] \in AmendRequests /\ tasks'[t].qty \in {NoChange, builder.qty}

\* What a command of the strategy makes of the records.
LEMMA CommandRecords ==
    ASSUME Base, CommandStep
    PROVE  /\ Pending' = Pending
           /\ UNCHANGED <<exchange_vars, accounts>>
           /\ \E builder \in Builders :
                  /\ builder = Head(from_strategy) /\ from_strategy # <<>>
                  /\ \/ \E new \in Ids, t \in Tasks : SubmitEffect(builder, new, t)
                     \/ AmendEffect(builder)
<1>1. PICK builder \in Builders :
          /\ builder = Head(from_strategy) /\ from_strategy # <<>>
          /\ ForwardOrders(builder) /\ Pending' = Pending /\ UNCHANGED exchange_vars
  BY DEF CommandStep
<1>2. ASSUME SubmitNewOrder(builder), NEW new, new = id_generator
      PROVE  new \in Ids /\ \E t \in Tasks : SubmitEffect(builder, new, t)
  <2>1. /\ new \in Ids
        /\ ~IsKnown(new)
        /\ IsKnown(new)'
        /\ RecordOf(new)' = Build(builder, new)
        /\ \A id : IsKnown(id) => IsKnown(id)' /\ RecordOf(id)' = RecordOf(id)
        /\ \A id : IsKnown(id)' => IsKnown(id) \/ id = new
    BY <1>2, SubmitRecord
  <2>2. PICK t \in Tasks :
            tasks[t] = Idle /\ tasks' = [tasks EXCEPT ![t] = CreateRequest(new, builder)]
    BY <1>2 DEF SubmitNewOrder, Spawn
  <2>3. CreateRequest(new, builder) \in CreateRequests
    BY <2>1, OmsAssumption DEF CreateRequest, CreateRequests, Builders, Ids
  <2>4. ~LimitReached(builder.side, inventory) /\ ExistingOrders(orders, builder.side) = {}
    BY <1>2 DEF SubmitNewOrder, IsNewOrder
  <2>5. QED
    BY <2>1, <2>2, <2>3, <2>4 DEF SubmitEffect
<1>3. ASSUME AmendExistingOrder(builder)
      PROVE  AmendEffect(builder)
  <2>1. PICK i \in DOMAIN orders :
            LET request == AmendRequest(Amendment(builder, orders[i]))
            IN /\ tasks' \in [Tasks -> Requests \cup {Idle}]
               /\ \A t \in Tasks : tasks'[t] = tasks[t] \/ tasks'[t] = request
    BY <1>3, AmendExistingOrderType DEF Base, TypeOK
  <2>2. orders[i] \in Orders
    BY LenProperties, ElementOfSeq DEF Base, TypeOK, OmsTypeOK
  <2>3. /\ AmendRequest(Amendment(builder, orders[i])) \in AmendRequests
        /\ AmendRequest(Amendment(builder, orders[i])).qty \in {NoChange, builder.qty}
    BY <2>2 DEF AmendRequest, Amendment, AmendRequests, Orders, Builders
  <2>4. QED
    BY <1>3, <2>1, <2>3 DEF AmendEffect, AmendExistingOrder
<1>4. ASSUME IgnoreOrder(builder)
      PROVE  AmendEffect(builder)
  BY <1>4 DEF AmendEffect, IgnoreOrder
<1>5. UNCHANGED accounts
  BY <1>1 DEF ForwardOrders
<1>6. QED
  BY <1>1, <1>2, <1>3, <1>4, <1>5 DEF ForwardOrders

-----------------------------------------------------------------------------
\* The kinds of request exclude each other.
LEMMA KindsApart ==
    /\ Idle \notin Requests
    /\ \A r \in CreateRequests : r \notin AmendRequests \cup RepayRequests \cup FailedRequests
    /\ \A r \in AmendRequests : r \notin FailedRequests
    /\ RepayRequest \in Requests
    /\ RepayRequest \notin CreateRequests \cup AmendRequests \cup FailedRequests
<1>1. Idle \notin Requests
  BY IdleAssumption
<1>2. \A r \in CreateRequests : r \notin AmendRequests \cup RepayRequests \cup FailedRequests
  BY DEF CreateRequests, AmendRequests, RepayRequests, FailedRequests
<1>3. \A r \in AmendRequests : r \notin FailedRequests
  BY DEF AmendRequests, FailedRequests
<1>4. RepayRequest \in Requests
  BY DEF RepayRequest, Requests, RepayRequests
<1>5. RepayRequest \notin CreateRequests \cup AmendRequests \cup FailedRequests
  BY DEF RepayRequest, CreateRequests, AmendRequests, FailedRequests
<1>6. QED
  BY <1>1, <1>2, <1>3, <1>4, <1>5

\* No task takes up a submission, or the failure of one.
NothingSpawned ==
    \A t \in Tasks :
        tasks'[t] \in CreateRequests \cup FailedRequests => tasks'[t] = tasks[t]

\* A step that leaves the exchange and the records alone, and spawns nothing.
LEMMA RestingOrders ==
    ASSUME Base, OrdersInv, UNCHANGED <<book, xorders>>, NothingSpawned,
           \A e \in Pending' : GenuineUpdate(e) => e \in Pending,
           ~AmbiguousOutcomes =>
               \A e \in Pending' : e \in SubmissionFailures =>
                   e \in Pending \/ NeverPlaced(e.order_link_id)
    PROVE  OrdersInv'
<1>1. /\ \A id : (IsKnown(id)' <=> IsKnown(id)) /\ RecordOf(id)' = RecordOf(id)
      /\ \A id : Working(id)' <=> Working(id)
      /\ xorders' = xorders
  BY SameBook DEF Working
<1>2. RecordsGenuine'
  BY <1>1 DEF OrdersInv, RecordsGenuine
<1>3. SubmittedOnce'
  BY <1>1 DEF OrdersInv, SubmittedOnce, NothingSpawned
<1>4. ClosedAtExchange'
  BY <1>1 DEF OrdersInv, ClosedAtExchange
<1>5. ASSUME ~AmbiguousOutcomes
      PROVE  FailedAreNotPlaced' /\ OneLivePerSide'
  <2>1. \A id : NeverPlaced(id) => NeverPlaced(id)'
    BY <1>1 DEF NeverPlaced, Submitting, NothingSpawned
  <2>2. /\ \A t \in Tasks : tasks'[t] \in FailedRequests => NeverPlaced(tasks'[t].order_link_id)
        /\ \A e \in Pending' : e \in SubmissionFailures => NeverPlaced(e.order_link_id)
        /\ \A id \in Ids : IsKnown(id)' /\ RecordOf(id)'.order_status = "Rejected" =>
               NeverPlaced(id)
    BY <1>1, <1>5 DEF OrdersInv, FailedAreNotPlaced, NothingSpawned
  <2>3. FailedAreNotPlaced'
    BY <2>1, <2>2 DEF FailedAreNotPlaced
  <2>4. \A id : Live(id)' => Live(id)
    BY <1>1 DEF Live, Submitting, NothingSpawned
  <2>5. OneLivePerSide'
    BY <1>1, <1>5, <2>4 DEF OrdersInv, OneLivePerSide
  <2>6. QED
    BY <2>3, <2>5
<1>6. QED
  BY <1>2, <1>3, <1>4, <1>5 DEF OrdersInv

\* There are no orders at the start.
LEMMA InitOrders ==
    ASSUME TradingInit
    PROVE  OrdersInv
<1>1. /\ \A id \in Ids : xorders[id] = Absent
      /\ DOMAIN id_map = {}
      /\ \A t \in Tasks : tasks[t] = Idle
  BY DEF TradingInit, OmsInit
<1>2. Pending = {}
  BY DEF TradingInit, OmsInit, Pending, Range
<1>3. \A t \in Tasks : tasks[t] \notin CreateRequests \cup FailedRequests
  BY <1>1, KindsApart DEF Requests
<1>4. QED
  BY <1>1, <1>2, <1>3
     DEF OrdersInv, RecordsGenuine, SubmittedOnce, ClosedAtExchange, FailedAreNotPlaced,
         OneLivePerSide, Live, Working, Submitting, IsKnown

\* A submission has left its task.
LEMMA TaskAnswered ==
    ASSUME Base, NEW t \in Tasks, NEW answer, tasks' = [tasks EXCEPT ![t] = answer]
    PROVE  \A u \in Tasks : tasks'[u] = IF u = t THEN answer ELSE tasks[u]
BY DEF Base, TypeOK, OmsTypeOK

\* A failure that a task takes up or reports.
LEMMA FailureTypes ==
    ASSUME NEW t \in Tasks
    PROVE  /\ tasks[t] \in CreateRequests => /\ Failed(t) \in FailedRequests
                                             /\ Failed(t) \notin CreateRequests
                                             /\ Failed(t).order_link_id = tasks[t].order_link_id
           /\ tasks[t] \in FailedRequests =>
                  /\ SubmissionFailed(tasks[t].order_link_id) \in SubmissionFailures
                  /\ ~GenuineUpdate(SubmissionFailed(tasks[t].order_link_id))
                  /\ SubmissionFailed(tasks[t].order_link_id).order_link_id
                         = tasks[t].order_link_id
BY DEF CreateRequests, FailedRequests, Failed, SubmissionFailed, SubmissionFailures,
       GenuineUpdate, OrderUpdates

\* The steps of the tasks keep the invariant of the orders.
LEMMA TaskOrders ==
    ASSUME Base, OrdersInv, QuietStep \/ FailureStep \/ EndStep
    PROVE  OrdersInv'
<1>1. CASE QuietStep
  BY <1>1, RestingOrders DEF QuietStep, NothingSpawned, exchange_vars
<1>2. CASE FailureStep
  <2>1. PICK t \in Tasks :
            /\ tasks[t] \in FailedRequests
            /\ tasks' = [tasks EXCEPT ![t] = Idle]
            /\ Pending' = Pending \cup {SubmissionFailed(tasks[t].order_link_id)}
            /\ UNCHANGED <<book, accounts, exchange_vars>>
    BY <1>2 DEF FailureStep
  <2>2. NothingSpawned
    BY <2>1, TaskAnswered, KindsApart DEF NothingSpawned, Requests
  <2>3. ~AmbiguousOutcomes => NeverPlaced(tasks[t].order_link_id)
    BY <2>1 DEF OrdersInv, FailedAreNotPlaced
  <2>4. QED
    BY <2>1, <2>2, <2>3, FailureTypes, RestingOrders DEF exchange_vars
<1>3. CASE EndStep
  <2>1. PICK t \in Tasks :
            /\ tasks' = [tasks EXCEPT ![t] = Idle]
            /\ Pending' = Pending
            /\ UNCHANGED <<book, accounts, exchange_vars>>
    BY <1>3 DEF EndStep
  <2>2. NothingSpawned
    BY <2>1, TaskAnswered, KindsApart DEF NothingSpawned, Requests
  <2>3. QED
    BY <2>1, <2>2, RestingOrders DEF exchange_vars
<1>4. QED
  BY <1>1, <1>2, <1>3

\* A refused submission is not at the exchange, and no other task has it.
LEMMA RefuseOrders ==
    ASSUME Base, OrdersInv, RefuseStep
    PROVE  OrdersInv'
<1>1. PICK t \in Tasks :
          /\ tasks[t] \in CreateRequests
          /\ tasks' = [tasks EXCEPT ![t] = Failed(t)]
          /\ Pending' = Pending
          /\ UNCHANGED <<book, accounts, exchange_vars>>
  BY DEF RefuseStep
<1> DEFINE id == tasks[t].order_link_id
<1>2. /\ \A u \in Tasks : tasks'[u] = IF u = t THEN Failed(t) ELSE tasks[u]
      /\ Failed(t) \in FailedRequests /\ Failed(t) \notin CreateRequests
      /\ Failed(t).order_link_id = id
  BY <1>1, TaskAnswered, FailureTypes
<1>3. /\ \A x : (IsKnown(x)' <=> IsKnown(x)) /\ RecordOf(x)' = RecordOf(x)
      /\ \A x : Working(x)' <=> Working(x)
      /\ xorders' = xorders
  BY <1>1, SameBook DEF Working, exchange_vars
<1>4. RecordsGenuine' /\ ClosedAtExchange'
  BY <1>1, <1>3 DEF OrdersInv, RecordsGenuine, ClosedAtExchange
<1>5. \A u \in Tasks : tasks'[u] \in CreateRequests => u # t /\ tasks'[u] = tasks[u]
  BY <1>2
<1>6. SubmittedOnce'
  BY <1>3, <1>5 DEF OrdersInv, SubmittedOnce
<1>7. ASSUME ~AmbiguousOutcomes
      PROVE  FailedAreNotPlaced' /\ OneLivePerSide'
  <2>1. \A x : NeverPlaced(x) => NeverPlaced(x)'
    BY <1>3, <1>5 DEF NeverPlaced, Submitting
  <2>2. \A x : x = tasks[t].order_link_id => NeverPlaced(x)'
    BY <1>1, <1>2, <1>3, <1>5 DEF OrdersInv, SubmittedOnce, NeverPlaced, Submitting
  <2>3. ASSUME NEW u \in Tasks, NEW x, tasks'[u] \in FailedRequests,
               x = tasks'[u].order_link_id
        PROVE  NeverPlaced(x)'
    <3>1. CASE u = t
      BY <1>2, <2>2, <2>3, <3>1
    <3>2. CASE u # t
      BY <1>2, <1>7, <2>1, <2>3, <3>2 DEF OrdersInv, FailedAreNotPlaced
    <3>3. QED
      BY <3>1, <3>2
  <2>4. FailedAreNotPlaced'
    <3>1. /\ \A e \in Pending' : e \in SubmissionFailures => NeverPlaced(e.order_link_id)
          /\ \A x \in Ids : IsKnown(x)' /\ RecordOf(x)'.order_status = "Rejected" => NeverPlaced(x)
      BY <1>1, <1>3, <1>7 DEF OrdersInv, FailedAreNotPlaced
    <3>2. /\ \A e \in Pending' : \A x : e \in SubmissionFailures /\ x = e.order_link_id
                                           => NeverPlaced(x)'
          /\ \A x \in Ids : IsKnown(x)' /\ RecordOf(x)'.order_status = "Rejected"
                              => NeverPlaced(x)'
      BY <2>1, <3>1
    <3>3. QED
      BY <2>3, <3>2 DEF FailedAreNotPlaced
  <2>5. \A x : Live(x)' => Live(x)
    BY <1>3, <1>5 DEF Live, Submitting
  <2>6. OneLivePerSide'
    BY <1>3, <1>7, <2>5 DEF OrdersInv, OneLivePerSide
  <2>7. QED
    BY <2>4, <2>6
<1>8. QED
  BY <1>4, <1>6, <1>7 DEF OrdersInv


\* An order that trades, or may yet, is one the OMS takes for open.
LEMMA LiveIsOpen ==
    ASSUME Base, OrdersInv, ~AmbiguousOutcomes, NEW id \in Ids, Live(id)
    PROVE  /\ IsKnown(id)
           /\ id_map[id] \in DOMAIN orders
           /\ IsOpen(orders[id_map[id]].order_status)
           /\ RecordOf(id) = orders[id_map[id]]
<1>1. IsKnown(id)
  BY DEF Live, Working, Submitting, Base, XOrdersKnown, RequestsKnown
<1>2. RecordOf(id).order_status \in RecordStatuses
  BY <1>1 DEF OrdersInv, RecordsGenuine
<1>3. RecordOf(id).order_status \notin XClosed
  BY <1>1 DEF OrdersInv, ClosedAtExchange, SubmittedOnce, Live, Submitting
<1>4. RecordOf(id).order_status # "Rejected"
  BY <1>1 DEF OrdersInv, FailedAreNotPlaced, NeverPlaced, Live, Working
<1>5. IsOpen(RecordOf(id).order_status)
  BY <1>2, <1>3, <1>4 DEF RecordStatuses, XStatuses, XClosed, IsOpen, OpenStatuses
<1>6. QED
  BY <1>1, <1>5, KnownRecord

\* A new order takes the place of no other: nothing works on its side.
LEMMA SubmitOrders ==
    ASSUME Base, OrdersInv, NEW builder \in Builders, NEW new \in Ids, NEW t \in Tasks,
           SubmitEffect(builder, new, t), Pending' = Pending, UNCHANGED exchange_vars
    PROVE  OrdersInv'
<1>1. /\ ~IsKnown(new)
      /\ \A id : IsKnown(id)' <=> IsKnown(id) \/ id = new
      /\ \A id : IsKnown(id) => RecordOf(id)' = RecordOf(id)
      /\ RecordOf(new)'.order_status = "Submitted"
      /\ RecordOf(new)'.side = builder.side
      /\ ExistingOrders(orders, builder.side) = {}
  BY DEF SubmitEffect, Build
<1>2. /\ \A u \in Tasks : u # t => tasks'[u] = tasks[u]
      /\ tasks'[t] \in CreateRequests /\ tasks'[t] \notin FailedRequests
      /\ tasks'[t].order_link_id = new
  <2>1. /\ tasks' = [tasks EXCEPT ![t] = CreateRequest(new, builder)]
        /\ CreateRequest(new, builder) \in CreateRequests
        /\ CreateRequest(new, builder).order_link_id = new
    BY DEF SubmitEffect, CreateRequest
  <2>2. CreateRequest(new, builder) \notin FailedRequests
    BY <2>1, KindsApart
  <2>3. \A u \in Tasks : tasks'[u] = IF u = t THEN CreateRequest(new, builder) ELSE tasks[u]
    BY <2>1, TaskAnswered
  <2>4. QED
    BY <2>1, <2>2, <2>3
<1>3. /\ xorders' = xorders
      /\ \A id : Working(id)' <=> Working(id)
  BY DEF exchange_vars, Working
<1>4. /\ xorders[new] = Absent
      /\ \A e \in Pending : e.order_link_id # new
      /\ \A u \in Tasks : tasks[u] \in CreateRequests \cup FailedRequests =>
             tasks[u].order_link_id # new
  BY <1>1 DEF Base, XOrdersKnown, ReportsGenuine, RequestsKnown
<1>5. RecordsGenuine'
  BY <1>1 DEF OrdersInv, RecordsGenuine, RecordStatuses
<1>6. SubmittedOnce'
  BY <1>2, <1>3, <1>4 DEF OrdersInv, SubmittedOnce
<1>7. ClosedAtExchange'
  <2>1. "Submitted" \notin XClosed
    BY DEF XClosed
  <2>2. QED
    BY <1>1, <1>3, <2>1 DEF OrdersInv, ClosedAtExchange
<1>8. ASSUME ~AmbiguousOutcomes
      PROVE  FailedAreNotPlaced' /\ OneLivePerSide'
  <2>1. \A x : x # new /\ NeverPlaced(x) => NeverPlaced(x)'
    BY <1>2, <1>3 DEF NeverPlaced, Submitting
  <2>2. /\ \A u \in Tasks : \A x : tasks'[u] \in FailedRequests /\ x = tasks'[u].order_link_id
                                       => x # new /\ NeverPlaced(x)
        /\ \A e \in Pending' : \A x : e \in SubmissionFailures /\ x = e.order_link_id
                                          => x # new /\ NeverPlaced(x)
        /\ \A x \in Ids : IsKnown(x)' /\ RecordOf(x)'.order_status = "Rejected"
                            => x # new /\ NeverPlaced(x)
    BY <1>1, <1>2, <1>4, <1>8 DEF OrdersInv, FailedAreNotPlaced
  <2>3. FailedAreNotPlaced'
    BY <2>1, <2>2 DEF FailedAreNotPlaced
  <2>4. \A x : Live(x)' => Live(x) \/ x = new
    BY <1>2, <1>3 DEF Live, Submitting
  <2>5. \A x \in Ids : Live(x) => /\ IsKnown(x)
                                  /\ RecordOf(x).side # builder.side
    <3> SUFFICES ASSUME NEW x \in Ids, Live(x)
                 PROVE  IsKnown(x) /\ RecordOf(x).side # builder.side
      OBVIOUS
    <3>1. QED
      BY <1>1, <1>8, LiveIsOpen DEF ExistingOrders
  <2>6. OneLivePerSide'
    <3> SUFFICES ASSUME NEW x \in Ids, NEW y \in Ids, Live(x)', Live(y)',
                        RecordOf(x)'.side = RecordOf(y)'.side
                 PROVE  x = y
      BY DEF OneLivePerSide
    <3>1. \A z \in Ids : Live(z)' => z = new \/ (Live(z) /\ RecordOf(z)' = RecordOf(z)
                                                  /\ RecordOf(z)'.side # builder.side)
      BY <1>1, <2>4, <2>5
    <3>2. CASE x = new \/ y = new
      BY <1>1, <3>1, <3>2
    <3>3. CASE x # new /\ y # new
      BY <1>8, <3>1, <3>3 DEF OrdersInv, OneLivePerSide
    <3>4. QED
      BY <3>2, <3>3
  <2>7. QED
    BY <2>3, <2>6
<1>9. QED
  BY <1>5, <1>6, <1>7, <1>8 DEF OrdersInv

\* A command of the strategy keeps the invariant of the orders.
LEMMA CommandOrders ==
    ASSUME Base, OrdersInv, CommandStep
    PROVE  OrdersInv'
<1>1. /\ Pending' = Pending
      /\ UNCHANGED exchange_vars
      /\ \E builder \in Builders :
             \/ \E new \in Ids, t \in Tasks : SubmitEffect(builder, new, t)
             \/ AmendEffect(builder)
  BY CommandRecords
<1>2. CASE \E builder \in Builders : AmendEffect(builder)
  BY <1>1, <1>2, KindsApart, RestingOrders DEF AmendEffect, NothingSpawned, exchange_vars
<1>3. QED
  BY <1>1, <1>2, SubmitOrders

\* A report the OMS takes in tells no more than the exchange has done.
LEMMA EventOrders ==
    ASSUME Base, OrdersInv, EventStep
    PROVE  OrdersInv'
<1>1. PICK event \in OrderEvents : EventEffect(event)
  BY EventRecords
<1>2. /\ event \in Pending
      /\ Pending' \subseteq Pending
      /\ xorders' = xorders
      /\ \A id : Working(id)' <=> Working(id)
      /\ \A id : IsKnown(id)' <=> IsKnown(id)
  BY <1>1 DEF EventEffect, exchange_vars, Working
<1>3. NothingSpawned
  BY <1>1, KindsApart DEF EventEffect, NothingSpawned
<1>4. ASSUME NEW id \in Ids, IsKnown(id)
      PROVE  /\ RecordOf(id)'.side = RecordOf(id).side
             /\ \/ RecordOf(id)'.order_status = RecordOf(id).order_status
                \/ /\ GenuineUpdate(event) /\ event.order_link_id = id
                   /\ RecordOf(id)'.order_status = event.order_status
                   /\ event.order_status \in XStatuses
                \/ /\ event \in SubmissionFailures /\ event.order_link_id = id
                   /\ RecordOf(id)'.order_status = "Rejected"
  <2>1. RecordOf(id) \in Orders
    BY <1>4, KnownRecord
  <2>2. CASE /\ GenuineUpdate(event) /\ event.order_link_id = id
             /\ RecordOf(id)' = Updated(RecordOf(id), event)
    <3>1. /\ Updated(RecordOf(id), event).side = RecordOf(id).side
          /\ Updated(RecordOf(id), event).order_status = event.order_status
      BY <2>1 DEF Orders, Updated
    <3>2. event.order_status \in XStatuses
      BY <2>2 DEF GenuineUpdate
    <3>3. QED
      BY <2>2, <3>1, <3>2
  <2>3. CASE /\ event \in SubmissionFailures /\ event.order_link_id = id
             /\ RecordOf(id)' = [RecordOf(id) EXCEPT !.order_status = "Rejected"]
    <3>1. /\ [RecordOf(id) EXCEPT !.order_status = "Rejected"].side = RecordOf(id).side
          /\ [RecordOf(id) EXCEPT !.order_status = "Rejected"].order_status = "Rejected"
      BY <2>1 DEF Orders
    <3>2. QED
      BY <2>3, <3>1
  <2>4. QED
    BY <1>1, <1>4, <2>2, <2>3 DEF EventEffect
<1>5. RecordsGenuine'
  BY <1>2, <1>4 DEF OrdersInv, RecordsGenuine, RecordStatuses
<1>6. SubmittedOnce'
  BY <1>2, <1>3 DEF OrdersInv, SubmittedOnce, NothingSpawned
<1>7. ClosedAtExchange'
  <2>1. "Rejected" \notin XClosed
    BY DEF XClosed
  <2>2. QED
    BY <1>2, <1>4, <2>1 DEF OrdersInv, ClosedAtExchange
<1>8. ASSUME ~AmbiguousOutcomes
      PROVE  FailedAreNotPlaced' /\ OneLivePerSide'
  <2>1. \A x : NeverPlaced(x) => NeverPlaced(x)'
    BY <1>2, <1>3 DEF NeverPlaced, Submitting, NothingSpawned
  <2>2. "Rejected" \notin XStatuses
    BY DEF XStatuses
  <2>3. /\ \A u \in Tasks : \A x : tasks'[u] \in FailedRequests /\ x = tasks'[u].order_link_id
                                       => NeverPlaced(x)
        /\ \A e \in Pending' : \A x : e \in SubmissionFailures /\ x = e.order_link_id
                                          => NeverPlaced(x)
        /\ \A x \in Ids : IsKnown(x)' /\ RecordOf(x)'.order_status = "Rejected"
                            => NeverPlaced(x)
    BY <1>2, <1>3, <1>4, <1>8, <2>2 DEF OrdersInv, FailedAreNotPlaced, NothingSpawned
  <2>4. FailedAreNotPlaced'
    BY <2>1, <2>3 DEF FailedAreNotPlaced
  <2>5. \A x : Live(x)' => Live(x)
    BY <1>2, <1>3 DEF Live, Submitting, NothingSpawned
  <2>6. \A x \in Ids : Live(x) => IsKnown(x)
    BY <1>8, LiveIsOpen
  <2>7. OneLivePerSide'
    BY <1>4, <1>8, <2>5, <2>6 DEF OrdersInv, OneLivePerSide
  <2>8. QED
    BY <2>4, <2>7
<1>9. QED
  BY <1>5, <1>6, <1>7, <1>8 DEF OrdersInv


\* An order that the exchange takes was submitted, and by this task only.
LEMMA AcceptOrders ==
    ASSUME Base, OrdersInv, AcceptStep
    PROVE  OrdersInv'
<1>1. PICK t \in Tasks, id \in Ids :
          /\ tasks[t] \in CreateRequests
          /\ id = tasks[t].order_link_id
          /\ Accepted(tasks[t]) \in XOrders
          /\ xorders' = [xorders EXCEPT ![id] = Accepted(tasks[t])]
          /\ Pending' = Pending \cup {Report(id, Accepted(tasks[t]))}
          /\ \/ tasks' = [tasks EXCEPT ![t] = Idle]
             \/ AmbiguousOutcomes /\ tasks' = [tasks EXCEPT ![t] = Failed(t)]
          /\ UNCHANGED book
  BY DEF AcceptStep
<1> DEFINE xorder == Accepted(tasks[t])
           report == Report(id, xorder)
<1>2. /\ xorder.order_status = "New"
      /\ report.order_status = "New" /\ report.order_link_id = id
      /\ report \notin SubmissionFailures
  BY DEF Accepted, Report, SubmissionFailures
<1>3. /\ \A x \in Ids : xorders'[x] = IF x = id THEN xorder ELSE xorders[x]
      /\ xorder # Absent
  BY <1>1, AbsentAssumption DEF Base, TypeOK
<1> HIDE DEF xorder, report
<1>4. Pending' = Pending \cup {report}
  BY <1>1 DEF report, xorder
<1>5. \A x : (IsKnown(x)' <=> IsKnown(x)) /\ RecordOf(x)' = RecordOf(x)
  BY <1>1, SameBook
<1>6. \A u \in Tasks : tasks'[u] = tasks[u] \/ u = t
  BY <1>1, TaskAnswered
<1>7. /\ tasks'[t] \notin CreateRequests
      /\ ~AmbiguousOutcomes => tasks'[t] \notin FailedRequests
  BY <1>1, TaskAnswered, KindsApart, FailureTypes DEF Requests
<1>8. /\ xorders[id] = Absent
      /\ \A u \in Tasks : tasks[u] \in CreateRequests /\ tasks[u].order_link_id = id => u = t
  BY <1>1 DEF OrdersInv, SubmittedOnce
<1>9. RecordsGenuine'
  BY <1>5 DEF OrdersInv, RecordsGenuine
<1>10. SubmittedOnce'
  <2>1. ASSUME NEW u \in Tasks, tasks'[u] \in CreateRequests
        PROVE  u # t /\ tasks'[u] = tasks[u] /\ tasks[u].order_link_id \in Ids
    BY <1>6, <1>7, <2>1, KnownRecord DEF Base, RequestsKnown
  <2>2. QED
    BY <1>1, <1>3, <1>8, <2>1 DEF OrdersInv, SubmittedOnce
<1>11. \A x \in Ids : xorders[x] # Absent => x # id /\ xorders'[x] = xorders[x]
  BY <1>3, <1>8
<1>12. ClosedAtExchange'
  <2>1. "New" \notin XClosed
    BY DEF XClosed
  <2>2. \A e \in Pending : GenuineUpdate(e) => e.order_link_id \in Ids
    BY KnownRecord DEF Base, ReportsGenuine
  <2>3. \A e \in Pending' : GenuineUpdate(e) /\ e.order_status \in XClosed =>
            xorders'[e.order_link_id] # Absent /\ ~Working(e.order_link_id)'
    BY <1>2, <1>4, <1>11, <2>1, <2>2 DEF OrdersInv, ClosedAtExchange, Working
  <2>4. \A x \in Ids : IsKnown(x) /\ RecordOf(x).order_status \in XClosed =>
            xorders'[x] # Absent /\ ~Working(x)'
    BY <1>11 DEF OrdersInv, ClosedAtExchange, Working
  <2>5. QED
    BY <1>5, <2>3, <2>4 DEF ClosedAtExchange, GenuineUpdate
<1>13. ASSUME ~AmbiguousOutcomes
       PROVE  FailedAreNotPlaced' /\ OneLivePerSide'
  <2>1. \A x \in Ids : NeverPlaced(x) => NeverPlaced(x)'
    BY <1>1, <1>3, <1>6, <1>7 DEF NeverPlaced, Submitting
  <2>2. /\ \A u \in Tasks : tasks[u] \in FailedRequests => tasks[u].order_link_id \in Ids
        /\ \A e \in Pending : e \in SubmissionFailures => e.order_link_id \in Ids
    BY KnownRecord DEF Base, RequestsKnown, ReportsGenuine
  <2>3. /\ \A u \in Tasks : \A x : tasks'[u] \in FailedRequests /\ x = tasks'[u].order_link_id
                                       => x \in Ids /\ NeverPlaced(x)
        /\ \A e \in Pending' : \A x : e \in SubmissionFailures /\ x = e.order_link_id
                                          => x \in Ids /\ NeverPlaced(x)
        /\ \A x \in Ids : IsKnown(x)' /\ RecordOf(x)'.order_status = "Rejected"
                            => NeverPlaced(x)
    BY <1>2, <1>4, <1>5, <1>6, <1>7, <1>13, <2>2 DEF OrdersInv, FailedAreNotPlaced
  <2>4. FailedAreNotPlaced'
    BY <2>1, <2>3 DEF FailedAreNotPlaced
  <2>5. \A x \in Ids : Live(x)' => Live(x)
    BY <1>1, <1>3, <1>6, <1>7 DEF Live, Submitting, Working
  <2>6. OneLivePerSide'
    BY <1>5, <1>13, <2>5 DEF OrdersInv, OneLivePerSide
  <2>7. QED
    BY <2>4, <2>6
<1>14. QED
  BY <1>9, <1>10, <1>12, <1>13 DEF OrdersInv

\* An order that works changes: what was closed was another.
LEMMA ChangeOrders ==
    ASSUME Base, OrdersInv, NEW id \in Ids, NEW xorder \in XOrders, ChangeStep(id, xorder),
           NothingSpawned,
           \A e \in Pending' : e \in Pending \/ e \in executed' \/ e = Report(id, xorder),
           executed' \subseteq Executions
    PROVE  OrdersInv'
<1>1. /\ Working(id)
      /\ \A x \in Ids : xorders'[x] = IF x = id THEN xorder ELSE xorders[x]
      /\ xorder # Absent
      /\ \A x : (IsKnown(x)' <=> IsKnown(x)) /\ RecordOf(x)' = RecordOf(x)
  BY SameBook, AbsentAssumption DEF ChangeStep, Base, TypeOK
<1>2. /\ xorders[id] # Absent
      /\ xorder.order_status \in XClosed => ~Working(id)'
  BY <1>1 DEF Working, XClosed
<1>3. \A e \in Pending' : GenuineUpdate(e) => e \in Pending \/ e = Report(id, xorder)
  BY DEF GenuineUpdate, OrderUpdates, Executions
<1>4. \A e \in Pending' : e \in SubmissionFailures => e \in Pending
  BY DEF SubmissionFailures, Executions, Report
<1>5. RecordsGenuine'
  BY <1>1 DEF OrdersInv, RecordsGenuine
<1>6. SubmittedOnce'
  <2>1. \A t \in Tasks : tasks[t] \in CreateRequests => tasks[t].order_link_id \in Ids
    BY KnownRecord DEF Base, RequestsKnown
  <2>2. QED
    BY <1>1, <1>2, <2>1 DEF OrdersInv, SubmittedOnce, NothingSpawned
<1>7. ClosedAtExchange'
  <2>1. \A x \in Ids : xorders[x] # Absent /\ ~Working(x) =>
            xorders'[x] # Absent /\ ~Working(x)'
    BY <1>1 DEF Working
  <2>2. \A e \in Pending : GenuineUpdate(e) => e.order_link_id \in Ids
    BY KnownRecord DEF Base, ReportsGenuine
  <2>3. /\ Report(id, xorder).order_link_id = id
        /\ Report(id, xorder).order_status = xorder.order_status
    BY DEF Report
  <2>4. ASSUME NEW e \in Pending', NEW x, GenuineUpdate(e), e.order_status \in XClosed,
               x = e.order_link_id
        PROVE  xorders'[x] # Absent /\ ~Working(x)'
    <3>1. CASE e \in Pending
      BY <2>1, <2>2, <2>4, <3>1 DEF OrdersInv, ClosedAtExchange
    <3>2. CASE e = Report(id, xorder)
      BY <1>1, <1>2, <2>3, <2>4, <3>2
    <3>3. QED
      BY <1>3, <2>4, <3>1, <3>2
  <2>5. \A x \in Ids : IsKnown(x)' /\ RecordOf(x)'.order_status \in XClosed =>
            xorders'[x] # Absent /\ ~Working(x)'
    BY <1>1, <2>1 DEF OrdersInv, ClosedAtExchange
  <2>6. QED
    BY <2>4, <2>5 DEF ClosedAtExchange, GenuineUpdate
<1>8. ASSUME ~AmbiguousOutcomes
      PROVE  FailedAreNotPlaced' /\ OneLivePerSide'
  <2>1. \A x \in Ids : NeverPlaced(x) => NeverPlaced(x)'
    BY <1>1, <1>2 DEF NeverPlaced, Submitting, NothingSpawned
  <2>2. /\ \A u \in Tasks : tasks[u] \in FailedRequests => tasks[u].order_link_id \in Ids
        /\ \A e \in Pending : e \in SubmissionFailures => e.order_link_id \in Ids
    BY KnownRecord DEF Base, RequestsKnown, ReportsGenuine
  <2>3. /\ \A u \in Tasks : \A x : tasks'[u] \in FailedRequests /\ x = tasks'[u].order_link_id
                                       => x \in Ids /\ NeverPlaced(x)
        /\ \A e \in Pending' : \A x : e \in SubmissionFailures /\ x = e.order_link_id
                                          => x \in Ids /\ NeverPlaced(x)
        /\ \A x \in Ids : IsKnown(x)' /\ RecordOf(x)'.order_status = "Rejected"
                            => NeverPlaced(x)
    BY <1>1, <1>4, <1>8, <2>2 DEF OrdersInv, FailedAreNotPlaced, NothingSpawned
  <2>4. FailedAreNotPlaced'
    BY <2>1, <2>3 DEF FailedAreNotPlaced
  <2>5. \A x \in Ids : Live(x)' => Live(x)
    BY <1>1 DEF Live, Submitting, Working, NothingSpawned
  <2>6. OneLivePerSide'
    BY <1>1, <1>8, <2>5 DEF OrdersInv, OneLivePerSide
  <2>7. QED
    BY <2>4, <2>6
<1>9. QED
  BY <1>5, <1>6, <1>7, <1>8 DEF OrdersInv


\* Every step keeps the invariant of the orders.
LEMMA NextOrders ==
    ASSUME Base, OrdersInv, [Next]_trading_vars
    PROVE  OrdersInv'
<1>1. Base' /\ LoopStep
  BY NextBase
<1>2. executed' \subseteq Executions
  BY <1>1 DEF Base, TypeOK
<1>3. CASE AmendStep
  <2>1. PICK id \in Ids, xorder \in XOrders, t \in Tasks :
            /\ ChangeStep(id, xorder)
            /\ Pending' = Pending \cup {Report(id, xorder)}
            /\ tasks' = [tasks EXCEPT ![t] = Idle]
    BY <1>3 DEF AmendStep
  <2>2. NothingSpawned
    BY <2>1, TaskAnswered, KindsApart DEF NothingSpawned, Requests
  <2>3. QED
    BY <1>2, <2>1, <2>2, ChangeOrders
<1>4. CASE CancelStep
  <2>1. PICK id \in Ids, xorder \in XOrders :
            /\ ChangeStep(id, xorder)
            /\ Pending' = Pending \cup {Report(id, xorder)}
            /\ UNCHANGED tasks
    BY <1>4 DEF CancelStep
  <2>2. QED
    BY <1>2, <2>1, ChangeOrders DEF NothingSpawned
<1>5. CASE FillStep
  <2>1. PICK id \in Ids, xorder \in XOrders, qty \in 1 .. OrderSize :
            /\ ChangeStep(id, xorder)
            /\ Pending' = Pending \cup {Execution(id, qty), Report(id, xorder)}
            /\ executed' = executed \cup {Execution(id, qty)}
            /\ UNCHANGED tasks
    BY <1>5 DEF FillStep
  <2>2. QED
    BY <1>2, <2>1, ChangeOrders DEF NothingSpawned
<1>6. QED
  BY <1>1, <1>3, <1>4, <1>5, TaskOrders, CommandOrders, EventOrders, AcceptOrders, RefuseOrders
     DEF LoopStep

\* As long as the answer to a request that was accepted is never taken for a failure, the
\* exchange never works two orders of the bot on one side: whatever is delivered late,
\* twice or out of order, and whatever times the changes of an order carry.
THEOREM OneOrderWorks == ~AmbiguousOutcomes => (Spec => []OneWorkingOrderPerSide)
<1> SUFFICES ASSUME ~AmbiguousOutcomes PROVE Spec => []OneWorkingOrderPerSide
  OBVIOUS
<1>1. TradingInit => Base /\ OrdersInv
  BY InitBase, InitOrders
<1>2. Base /\ OrdersInv /\ [Next]_trading_vars => Base' /\ OrdersInv'
  BY NextBase, NextOrders
<1>3. Base /\ OrdersInv => OneWorkingOrderPerSide
  BY DEF Base, XOrdersKnown, OrdersInv, OneLivePerSide, Live, Working, OneWorkingOrderPerSide
<1>4. QED
  BY <1>1, <1>2, <1>3, PTL DEF Spec


-----------------------------------------------------------------------------
\* The views of the orders, when every change of an order carries a time of its own.

\* The last report the exchange made of an order.
Latest(id) == Report(id, xorders[id])

\* An update on its way is the last one made of its order, or an older one; the one that
\* closes an order is the last.
UpdatesAreOld ==
    \A e \in Pending : GenuineUpdate(e) =>
        LET id == e.order_link_id
        IN /\ xorders[id] # Absent
           /\ e.updated_time <= xorders[id].updated_time
           /\ e.updated_time = xorders[id].updated_time \/ e.order_status \in XClosed
                  => e = Latest(id)

\* So is what the OMS has recorded, once it has heard of the order.
ViewIsOld(id) ==
    /\ xorders[id] # Absent
    /\ RecordOf(id).updated_time <= xorders[id].updated_time
    /\ \/ RecordOf(id).updated_time = xorders[id].updated_time
       \/ RecordOf(id).order_status \in XClosed
       => Report(id, RecordOf(id)) = Latest(id)

RecordsAreOld ==
    \A id \in Ids : IsKnown(id) =>
        \/ RecordOf(id).order_status \in {"Submitted", "Rejected"} /\ RecordOf(id).updated_time = 0
        \/ RecordOf(id).order_status \in XStatuses /\ ViewIsOld(id)

\* The last report of an order is on its way, or recorded.
LatestIsHeard ==
    \A id \in Ids : xorders[id] # Absent =>
        Latest(id) \in Pending \/ Report(id, RecordOf(id)) = Latest(id)

ViewsInv == UpdatesAreOld /\ RecordsAreOld /\ LatestIsHeard

\* The views agree at the start.
LEMMA InitViews ==
    ASSUME TradingInit
    PROVE  ViewsInv
<1>1. /\ \A id \in Ids : xorders[id] = Absent
      /\ DOMAIN id_map = {}
  BY DEF TradingInit, OmsInit
<1>2. Pending = {}
  BY DEF TradingInit, OmsInit, Pending, Range
<1>3. QED
  BY <1>1, <1>2 DEF ViewsInv, UpdatesAreOld, RecordsAreOld, LatestIsHeard, IsKnown

\* Nothing is recorded, nothing changes at the exchange, and no update is made or taken.
LEMMA RestingViews ==
    ASSUME Base, ViewsInv, UNCHANGED <<book, xorders>>,
           Pending \subseteq Pending',
           \A e \in Pending' : GenuineUpdate(e) => e \in Pending
    PROVE  ViewsInv'
<1>1. /\ \A id : (IsKnown(id)' <=> IsKnown(id)) /\ RecordOf(id)' = RecordOf(id)
      /\ xorders' = xorders
      /\ \A id : Latest(id)' = Latest(id)
  BY SameBook DEF Latest
<1>2. UpdatesAreOld'
  BY <1>1 DEF ViewsInv, UpdatesAreOld
<1>3. RecordsAreOld'
  BY <1>1 DEF ViewsInv, RecordsAreOld, ViewIsOld
<1>4. LatestIsHeard'
  BY <1>1 DEF ViewsInv, LatestIsHeard
<1>5. QED
  BY <1>2, <1>3, <1>4 DEF ViewsInv

\* A new order is not at the exchange, nor reported.
LEMMA CommandViews ==
    ASSUME Base, ViewsInv, CommandStep
    PROVE  ViewsInv'
<1>1. /\ Pending' = Pending
      /\ UNCHANGED exchange_vars
      /\ \E builder \in Builders :
             \/ \E new \in Ids, t \in Tasks : SubmitEffect(builder, new, t)
             \/ AmendEffect(builder)
  BY CommandRecords
<1>2. CASE \E builder \in Builders : AmendEffect(builder)
  BY <1>1, <1>2, RestingViews DEF AmendEffect, exchange_vars
<1>3. ASSUME NEW builder \in Builders, NEW new \in Ids, NEW t \in Tasks,
             SubmitEffect(builder, new, t)
      PROVE  ViewsInv'
  <2>1. /\ ~IsKnown(new)
        /\ \A id : IsKnown(id)' <=> IsKnown(id) \/ id = new
        /\ \A id : IsKnown(id) => RecordOf(id)' = RecordOf(id)
        /\ RecordOf(new)'.order_status = "Submitted"
        /\ RecordOf(new)'.updated_time = 0
    BY <1>3 DEF SubmitEffect, Build
  <2>2. xorders' = xorders /\ \A id : Latest(id)' = Latest(id)
    BY <1>1 DEF exchange_vars, Latest
  <2>3. UpdatesAreOld'
    BY <1>1, <2>2 DEF ViewsInv, UpdatesAreOld
  <2>4. RecordsAreOld'
    BY <2>1, <2>2 DEF ViewsInv, RecordsAreOld, ViewIsOld
  <2>5. LatestIsHeard'
    BY <1>1, <2>1, <2>2 DEF ViewsInv, LatestIsHeard, Base, XOrdersKnown
  <2>6. QED
    BY <2>3, <2>4, <2>5 DEF ViewsInv
<1>4. QED
  BY <1>1, <1>2, <1>3

\* What an update makes of the record of its order.
LEMMA UpdatedRecord ==
    ASSUME Base, NEW e \in OrderUpdates, IsKnown(e.order_link_id)
    PROVE  LET id == e.order_link_id
               record == Updated(RecordOf(id), e)
           IN /\ Report(id, record) = e
              /\ record.updated_time = e.updated_time
              /\ record.order_status = e.order_status
              /\ record.side = RecordOf(id).side
<1>1. RecordOf(e.order_link_id) \in Orders
  BY KnownRecord
<1>2. QED
  BY <1>1 DEF Orders, Updated, Report, OrderUpdates

\* The record of an order is overwritten by what is at least as new, and only by that.
LEMMA EventViews ==
    ASSUME Base, ViewsInv, EventStep
    PROVE  ViewsInv'
<1>1. PICK event \in OrderEvents : EventEffect(event)
  BY EventRecords
<1>2. /\ event \in Pending
      /\ Pending = Pending' \cup {event}
      /\ xorders' = xorders
      /\ \A id : Latest(id)' = Latest(id)
      /\ \A id : IsKnown(id)' <=> IsKnown(id)
  BY <1>1 DEF EventEffect, exchange_vars, Latest
<1>3. UpdatesAreOld'
  BY <1>2 DEF ViewsInv, UpdatesAreOld
<1>4. ASSUME NEW id \in Ids, IsKnown(id)
      PROVE  /\ \/ RecordOf(id)'.order_status \in {"Submitted", "Rejected"}
                   /\ RecordOf(id)'.updated_time = 0
                \/ RecordOf(id)'.order_status \in XStatuses /\ ViewIsOld(id)'
             /\ xorders[id] # Absent =>
                    Latest(id) \in Pending' \/ Report(id, RecordOf(id)') = Latest(id)
  <2>1. CASE RecordOf(id)' = RecordOf(id) /\ ~(GenuineUpdate(event) /\ event.order_link_id = id)
    <3>1. xorders[id] # Absent => Latest(id) # event
      <4>1. ASSUME xorders[id] # Absent PROVE GenuineUpdate(Latest(id)) /\ Latest(id).order_link_id = id
        BY <4>1, OmsAssumption DEF Latest, Report, GenuineUpdate, OrderUpdates, XOrders, Ids, Base, TypeOK, XOrdersKnown
      <4>2. QED
        BY <2>1, <4>1
    <3>2. QED
      BY <1>2, <1>4, <2>1, <3>1 DEF ViewsInv, RecordsAreOld, LatestIsHeard, ViewIsOld
  <2>2. CASE GenuineUpdate(event) /\ event.order_link_id = id
    <3>1. /\ event \in OrderUpdates
          /\ event.order_status \in XStatuses
          /\ xorders[id] # Absent
          /\ event.updated_time <= xorders[id].updated_time
          /\ event.updated_time = xorders[id].updated_time \/ event.order_status \in XClosed
                 => event = Latest(id)
      BY <1>2, <2>2 DEF ViewsInv, UpdatesAreOld, GenuineUpdate
    <3>2. /\ RecordOf(id).updated_time \in Nat
          /\ xorders[id].updated_time \in Nat
          /\ event.updated_time \in Nat
          /\ Latest(id).updated_time = xorders[id].updated_time
      BY <1>4, <3>1, KnownRecord DEF Orders, OrderUpdates, XOrders, Base, TypeOK, Latest, Report
    <3>3. CASE ~IsStale(event, RecordOf(id))
      <4>1. RecordOf(id)' = Updated(RecordOf(id), event)
        BY <1>1, <1>4, <2>2, <3>3 DEF EventEffect
      <4>2. /\ Report(id, RecordOf(id)') = event
            /\ RecordOf(id)'.updated_time = event.updated_time
            /\ RecordOf(id)'.order_status = event.order_status
        BY <1>4, <2>2, <3>1, <4>1, UpdatedRecord
      <4>3. event = Latest(id) \/ (Latest(id) # event /\ event.updated_time < xorders[id].updated_time)
        BY <3>1, <3>2
      <4>4. ViewIsOld(id)'
        BY <1>2, <3>1, <4>2 DEF ViewIsOld
      <4>5. Latest(id) \in Pending \/ Report(id, RecordOf(id)) = Latest(id)
        BY <3>1 DEF ViewsInv, LatestIsHeard
      <4>6. ASSUME event # Latest(id)
            PROVE  Latest(id) \in Pending'
        <5>1. ASSUME Report(id, RecordOf(id)) = Latest(id)
              PROVE  RecordOf(id).updated_time = xorders[id].updated_time
          BY <5>1 DEF Latest, Report
        <5>2. Report(id, RecordOf(id)) # Latest(id)
          BY <3>2, <3>3, <4>3, <4>6, <5>1 DEF IsStale
        <5>3. QED
          BY <1>2, <4>5, <4>6, <5>2
      <4>7. QED
        BY <3>1, <4>2, <4>4, <4>6
    <3>4. CASE IsStale(event, RecordOf(id))
      <4>1. event \notin SubmissionFailures
        BY <3>1 DEF OrderUpdates, SubmissionFailures
      <4>2. RecordOf(id)' = RecordOf(id)
        BY <1>1, <1>4, <3>4, <4>1 DEF EventEffect
      <4>3. RecordOf(id).updated_time > event.updated_time
        BY <3>2, <3>4 DEF IsStale
      <4>4. RecordOf(id).order_status \in XStatuses /\ ViewIsOld(id)
        BY <1>4, <3>2, <4>3 DEF ViewsInv, RecordsAreOld
      <4>5. event # Latest(id)
        BY <3>2, <4>3, <4>4 DEF ViewIsOld
      <4>6. QED
        BY <1>2, <1>4, <3>1, <4>2, <4>4, <4>5 DEF ViewsInv, LatestIsHeard, ViewIsOld
    <3>5. QED
      BY <3>3, <3>4
  <2>3. CASE /\ event \in SubmissionFailures /\ event.order_link_id = id
             /\ RecordOf(id).order_status = "Submitted"
             /\ RecordOf(id)' = [RecordOf(id) EXCEPT !.order_status = "Rejected"]
    <3>1. RecordOf(id) \in Orders
      BY <1>4, KnownRecord
    <3>2. /\ RecordOf(id)'.order_status = "Rejected"
          /\ RecordOf(id)'.updated_time = RecordOf(id).updated_time
      BY <2>3, <3>1 DEF Orders
    <3>3. RecordOf(id).updated_time = 0
      BY <1>4, <2>3 DEF ViewsInv, RecordsAreOld, XStatuses
    <3>4. ASSUME xorders[id] # Absent
          PROVE  Latest(id) \in Pending'
      <4>1. Latest(id).order_status \in XStatuses /\ Latest(id).type = "OrderUpdate"
        BY <3>4 DEF Latest, Report, Base, XOrdersKnown
      <4>2. Report(id, RecordOf(id)).order_status = "Submitted"
        BY <2>3 DEF Report
      <4>3. Report(id, RecordOf(id)) # Latest(id)
        BY <4>1, <4>2 DEF XStatuses
      <4>4. Latest(id) # event
        BY <2>3, <4>1 DEF SubmissionFailures
      <4>5. QED
        BY <1>2, <3>4, <4>3, <4>4 DEF ViewsInv, LatestIsHeard
    <3>5. QED
      BY <3>2, <3>3, <3>4
  <2>4. QED
    BY <1>1, <1>4, <2>1, <2>2, <2>3 DEF EventEffect
<1>5. RecordsAreOld'
  BY <1>2, <1>4 DEF RecordsAreOld
<1>6. LatestIsHeard'
  BY <1>2, <1>4 DEF LatestIsHeard, Base, XOrdersKnown, Report
<1>7. QED
  BY <1>3, <1>5, <1>6 DEF ViewsInv


\* An order changes, or comes to be, at a later time than all that was reported of it.
LEMMA NewerViews ==
    ASSUME Base, ViewsInv, NEW id \in Ids, NEW xorder \in XOrders,
           xorders[id] # Absent =>
               Working(id) /\ xorder.updated_time > xorders[id].updated_time,
           xorder.updated_time >= 1,
           xorders' = [xorders EXCEPT ![id] = xorder],
           \A e \in Pending' : GenuineUpdate(e) => e \in Pending \/ e = Report(id, xorder),
           Pending \subseteq Pending', Report(id, xorder) \in Pending',
           UNCHANGED book
    PROVE  ViewsInv'
<1>1. /\ \A x \in Ids : xorders'[x] = IF x = id THEN xorder ELSE xorders[x]
      /\ xorder # Absent
      /\ xorder.updated_time \in Nat
  BY AbsentAssumption DEF Base, TypeOK, XOrders
<1>2. /\ \A x \in Ids : Latest(x)' = IF x = id THEN Report(id, xorder) ELSE Latest(x)
      /\ \A x : (IsKnown(x)' <=> IsKnown(x)) /\ RecordOf(x)' = RecordOf(x)
  BY <1>1, SameBook DEF Latest
<1>3. /\ Report(id, xorder).order_link_id = id
      /\ Report(id, xorder).updated_time = xorder.updated_time
      /\ xorders[id] # Absent => xorders[id].updated_time \in Nat
  BY DEF Report, Base, TypeOK, XOrders
<1>4. ASSUME xorders[id] # Absent
      PROVE  Latest(id).order_status \notin XClosed
  BY <1>4 DEF Latest, Report, Working, XClosed
<1>5. UpdatesAreOld'
  <2> SUFFICES ASSUME NEW e \in Pending', NEW x, x = e.order_link_id, GenuineUpdate(e)
               PROVE  /\ xorders'[x] # Absent
                      /\ e.updated_time <= xorders'[x].updated_time
                      /\ \/ e.updated_time = xorders'[x].updated_time
                         \/ e.order_status \in XClosed
                         => e = Latest(x)'
    BY DEF UpdatesAreOld, Latest, GenuineUpdate
  <2>1. CASE e = Report(id, xorder)
    BY <1>1, <1>2, <1>3, <2>1
  <2>2. CASE e \in Pending
    <3>1. /\ xorders[x] # Absent
          /\ e.updated_time <= xorders[x].updated_time
          /\ e.updated_time = xorders[x].updated_time \/ e.order_status \in XClosed
                 => e = Latest(x)
          /\ x \in Ids
          /\ e.updated_time \in Nat
      BY <2>2, KnownRecord
         DEF ViewsInv, UpdatesAreOld, Base, ReportsGenuine, GenuineUpdate, OrderUpdates
    <3>2. CASE x # id
      BY <1>1, <1>2, <3>1, <3>2
    <3>3. CASE x = id
      <4>1. e.updated_time < xorder.updated_time
        BY <1>1, <1>3, <3>1, <3>3
      <4>2. e.order_status \notin XClosed
        BY <1>4, <3>1, <3>3
      <4>3. QED
        BY <1>1, <3>1, <3>3, <4>1, <4>2
    <3>4. QED
      BY <3>2, <3>3
  <2>3. QED
    BY <2>1, <2>2
<1>6. RecordsAreOld'
  <2> SUFFICES ASSUME NEW x \in Ids, IsKnown(x),
                      RecordOf(x).order_status \in XStatuses, ViewIsOld(x)
               PROVE  ViewIsOld(x)'
    BY <1>2 DEF ViewsInv, RecordsAreOld
  <2>1. CASE x # id
    BY <1>1, <1>2, <2>1 DEF ViewIsOld
  <2>2. CASE x = id
    <3>1. /\ RecordOf(x).updated_time < xorder.updated_time
          /\ xorders[x] # Absent
      BY <1>1, <1>3, <2>2, KnownRecord DEF ViewIsOld, Orders
    <3>2. RecordOf(x).order_status \notin XClosed
      BY <1>4, <2>2, <3>1 DEF ViewIsOld, Report, Latest
    <3>3. RecordOf(x).updated_time \in Nat
      BY KnownRecord DEF Orders
    <3>4. QED
      BY <1>1, <1>2, <2>2, <3>1, <3>2, <3>3 DEF ViewIsOld
  <2>3. QED
    BY <2>1, <2>2
<1>7. LatestIsHeard'
  BY <1>1, <1>2 DEF ViewsInv, LatestIsHeard
<1>8. QED
  BY <1>5, <1>6, <1>7 DEF ViewsInv

\* Every step keeps the invariant of the views.
LEMMA NextViews ==
    ASSUME ~SameMillisecond, Base, OrdersInv, ViewsInv, [Next]_trading_vars
    PROVE  ViewsInv'
<1>1. Base' /\ LoopStep
  BY NextBase
<1>2. CASE QuietStep \/ RefuseStep \/ EndStep
  BY <1>2, RestingViews DEF QuietStep, RefuseStep, EndStep, exchange_vars
<1>3. CASE FailureStep
  <2>1. PICK t \in Tasks :
            /\ Pending' = Pending \cup {SubmissionFailed(tasks[t].order_link_id)}
            /\ UNCHANGED <<book, exchange_vars>>
    BY <1>3 DEF FailureStep
  <2>2. ~GenuineUpdate(SubmissionFailed(tasks[t].order_link_id))
    BY DEF SubmissionFailed, GenuineUpdate, OrderUpdates
  <2>3. QED
    BY <2>1, <2>2, RestingViews DEF exchange_vars
<1>4. CASE AcceptStep
  <2>1. PICK t \in Tasks, id \in Ids :
            /\ tasks[t] \in CreateRequests
            /\ id = tasks[t].order_link_id
            /\ Accepted(tasks[t]) \in XOrders
            /\ xorders' = [xorders EXCEPT ![id] = Accepted(tasks[t])]
            /\ Pending' = Pending \cup {Report(id, Accepted(tasks[t]))}
            /\ UNCHANGED book
    BY <1>4 DEF AcceptStep
  <2>2. xorders[id] = Absent
    BY <2>1 DEF OrdersInv, SubmittedOnce
  <2>3. Accepted(tasks[t]).updated_time >= 1
    BY DEF Accepted
  <2>4. QED
    BY <2>1, <2>2, <2>3, NewerViews
<1>5. ASSUME NEW id \in Ids, NEW xorder \in XOrders, ChangeStep(id, xorder),
             \A e \in Pending' : e \in Pending \/ e \in executed' \/ e = Report(id, xorder),
             Pending \cup {Report(id, xorder)} \subseteq Pending'
      PROVE  ViewsInv'
  <2>1. \A e \in executed' : ~GenuineUpdate(e)
    BY <1>1 DEF Base, TypeOK, Executions, GenuineUpdate, OrderUpdates
  <2>2. xorder.updated_time > xorders[id].updated_time
    BY <1>5 DEF ChangeStep, Succeeds
  <2>3. xorder.updated_time >= 1
    BY <1>5, <2>2, WorkingOrder DEF ChangeStep, XOrders
  <2>4. QED
    BY <1>5, <2>1, <2>2, <2>3, NewerViews DEF ChangeStep
<1>6. CASE AmendStep \/ CancelStep
  <2>1. PICK id \in Ids, xorder \in XOrders :
            ChangeStep(id, xorder) /\ Pending' = Pending \cup {Report(id, xorder)}
    BY <1>6 DEF AmendStep, CancelStep
  <2>2. QED
    BY <1>5, <2>1
<1>7. CASE FillStep
  <2>1. PICK id \in Ids, xorder \in XOrders, qty \in 1 .. OrderSize :
            /\ ChangeStep(id, xorder)
            /\ Pending' = Pending \cup {Execution(id, qty), Report(id, xorder)}
            /\ executed' = executed \cup {Execution(id, qty)}
    BY <1>7 DEF FillStep
  <2>2. QED
    BY <1>5, <2>1
<1>8. QED
  BY <1>1, <1>2, <1>3, <1>4, <1>6, <1>7, CommandViews, EventViews DEF LoopStep

\* With every change of an order at a time of its own, whatever is delivered late, twice
\* or out of order and whatever answer gets lost, the view the OMS has of an order is that
\* of the exchange as soon as no report of it is under way.
THEOREM ViewsConverge == ~SameMillisecond => (Spec => []ViewConverges)
<1> SUFFICES ASSUME ~SameMillisecond PROVE Spec => []ViewConverges
  OBVIOUS
<1>1. TradingInit => Base /\ OrdersInv /\ ViewsInv
  BY InitBase, InitOrders, InitViews
<1>2. Base /\ OrdersInv /\ ViewsInv /\ [Next]_trading_vars => Base' /\ OrdersInv' /\ ViewsInv'
  BY NextBase, NextOrders, NextViews
<1>3. Base /\ ViewsInv => ViewConverges
  <2> SUFFICES ASSUME Base, ViewsInv, NEW id \in Ids, xorders[id] # Absent,
                      \A e \in Underway(id) :
                          ~(e.type = "OrderUpdate" /\ e.order_link_id = id)
               PROVE  Report(id, xorders[id]) = Report(id, RecordOf(id))
    BY DEF ViewConverges
  <2>1. Latest(id).type = "OrderUpdate" /\ Latest(id).order_link_id = id
    BY DEF Latest, Report
  <2>2. Latest(id) \notin Pending
    BY <2>1 DEF Underway, Pending, Base, StreamsApart
  <2>3. QED
    BY <2>2 DEF ViewsInv, LatestIsHeard, Latest
<1>4. QED
  BY <1>1, <1>2, <1>3, PTL DEF Spec


\* What a report has closed, only the same report comes back to.
LEMMA ClosedRecordRests ==
    ASSUME Base, ViewsInv, LoopStep, NEW id \in Ids, IsKnown(id),
           ~IsOpen(RecordOf(id).order_status), RecordOf(id).order_status # "Rejected"
    PROVE  ~IsOpen(RecordOf(id)'.order_status)
<1>1. /\ RecordOf(id).order_status \in XClosed
      /\ ViewIsOld(id)
      /\ Report(id, RecordOf(id)) = Latest(id)
      /\ RecordOf(id).updated_time = xorders[id].updated_time
  <2>1. RecordOf(id).order_status \in XStatuses /\ ViewIsOld(id)
    BY DEF ViewsInv, RecordsAreOld, IsOpen, OpenStatuses
  <2>2. RecordOf(id).order_status \in XClosed
    BY <2>1 DEF XStatuses, XClosed, IsOpen, OpenStatuses
  <2>3. QED
    BY <2>1, <2>2 DEF ViewIsOld, Report, Latest
<1>2. CASE UNCHANGED book
  BY <1>2, SameBook
<1>3. CASE CommandStep
  <2>1. RecordOf(id)' = RecordOf(id)
    BY <1>3, CommandRecords, SameBook DEF SubmitEffect, AmendEffect
  <2>2. QED
    BY <2>1
<1>4. CASE EventStep
  <2>1. PICK event \in OrderEvents : EventEffect(event)
    BY <1>4, EventRecords
  <2>2. CASE RecordOf(id)' = RecordOf(id)
    BY <2>2
  <2>3. CASE /\ GenuineUpdate(event) /\ event.order_link_id = id
             /\ ~IsStale(event, RecordOf(id))
             /\ RecordOf(id)' = Updated(RecordOf(id), event)
    <3>1. /\ event \in OrderUpdates
          /\ event.updated_time <= xorders[id].updated_time
          /\ event.updated_time = xorders[id].updated_time => event = Latest(id)
      BY <2>1, <2>3 DEF EventEffect, ViewsInv, UpdatesAreOld, GenuineUpdate
    <3>2. RecordOf(id).updated_time \in Nat /\ event.updated_time \in Nat
      BY <3>1, KnownRecord DEF Orders, OrderUpdates
    <3>3. event = Latest(id)
      BY <1>1, <2>3, <3>1, <3>2 DEF IsStale
    <3>4. event.order_status = RecordOf(id).order_status
      BY <1>1, <3>3 DEF Report
    <3>5. RecordOf(id)'.order_status = event.order_status
      BY <2>3, <3>1, UpdatedRecord
    <3>6. QED
      BY <3>4, <3>5
  <2>4. CASE RecordOf(id).order_status = "Submitted"
    BY <1>1, <2>4 DEF XClosed
  <2>5. QED
    BY <2>1, <2>2, <2>3, <2>4 DEF EventEffect
<1>5. QED
  BY <1>2, <1>3, <1>4
     DEF LoopStep, QuietStep, AcceptStep, RefuseStep, FailureStep, EndStep, AmendStep,
         CancelStep, FillStep, ChangeStep

\* The place of an order in the slab is its record, before a step and after it.
LEMMA PlaceOfRecord ==
    ASSUME Base, Base', NEW i \in DOMAIN orders, NEW id, id = orders[i].order_link_id,
           IsKnown(id)'
    PROVE  /\ id \in Ids
           /\ IsKnown(id)
           /\ RecordOf(id) = orders[i]
           /\ RecordOf(id)' = orders'[i]
<1>1. IsKnown(id) /\ id_map[id] = i
  BY DEF Base, IndexConsistent, IsKnown
<1>2. id_map'[id] = id_map[id]
  BY <1>1 DEF Base, SlabInIdOrder, IsKnown
<1>3. QED
  BY <1>1, <1>2, KnownRecord DEF RecordOf

\* With every change of an order at a time of its own, a late or repeated report never
\* revives an order that a report has closed.  It may revive one whose submission was
\* reported as failed ("Rejected"): that is how the exchange's own view of it arrives.
THEOREM ClosedOrdersStayClosed == ~SameMillisecond => (Spec => ClosedStaysClosed)
<1> SUFFICES ASSUME ~SameMillisecond PROVE Spec => ClosedStaysClosed
  OBVIOUS
<1> DEFINE Step == \A i \in DOMAIN orders :
                       ~IsOpen(orders[i].order_status) /\ orders[i].order_status # "Rejected"
                           => ~IsOpen(orders'[i].order_status)
<1>1. TradingInit => Base /\ OrdersInv /\ ViewsInv
  BY InitBase, InitOrders, InitViews
<1>2. Base /\ OrdersInv /\ ViewsInv /\ [Next]_trading_vars => Base' /\ OrdersInv' /\ ViewsInv'
  BY NextBase, NextOrders, NextViews
<1>3. Base /\ ViewsInv /\ [Next]_trading_vars => Step
  <2> SUFFICES ASSUME Base, ViewsInv, [Next]_trading_vars, NEW i \in DOMAIN orders,
                      ~IsOpen(orders[i].order_status), orders[i].order_status # "Rejected"
               PROVE  ~IsOpen(orders'[i].order_status)
    OBVIOUS
  <2>1. PICK id : id = orders[i].order_link_id
    OBVIOUS
  <2>2. Base' /\ LoopStep
    BY NextBase
  <2>3. IsKnown(id)
    BY <2>1 DEF Base, IndexConsistent, IsKnown
  <2>4. IsKnown(id)'
    BY <2>2, <2>3, SameBook, CommandRecords, EventRecords
       DEF LoopStep, QuietStep, AcceptStep, RefuseStep, FailureStep, EndStep, AmendStep,
           CancelStep, FillStep, ChangeStep, SubmitEffect, AmendEffect, EventEffect
  <2>5. QED
    BY <2>1, <2>2, <2>4, PlaceOfRecord, ClosedRecordRests
<1>4. QED
  BY <1>1, <1>2, <1>3, PTL DEF Spec, ClosedStaysClosed

-----------------------------------------------------------------------------
\* The order of the reports.

ClosingUpdate(e) == GenuineUpdate(e) /\ e.order_status \in XClosed

\* What may be delivered before what: of one order, updates by their times, and no
\* execution that is still to be counted after the update that closed the order.
MayPrecede(a, b) ==
    a.order_link_id = b.order_link_id =>
        /\ GenuineUpdate(a) /\ GenuineUpdate(b) => a.updated_time <= b.updated_time
        /\ ClosingUpdate(a) => b \notin Uncounted

\* The channel to the OMS goes before the streams that feed it.
InOrder ==
    /\ \A i, j \in DOMAIN from_order_handler :
           i < j => MayPrecede(from_order_handler[i], from_order_handler[j])
    /\ \A id \in Ids : \A i \in DOMAIN from_order_handler : \A j \in DOMAIN stream[id] :
           MayPrecede(from_order_handler[i], stream[id][j])
    /\ \A id \in Ids : \A i, j \in DOMAIN stream[id] :
           i < j => MayPrecede(stream[id][i], stream[id][j])

\* No update is ahead of the order at the exchange.
UpdatesNotAhead ==
    \A e \in Pending : GenuineUpdate(e) =>
        /\ xorders[e.order_link_id] # Absent
        /\ e.updated_time <= xorders[e.order_link_id].updated_time

\* No record is ahead of the exchange, nor of an update on its way: none is stale.
RecordsBehind ==
    /\ \A id \in Ids : IsKnown(id) =>
           \/ RecordOf(id).updated_time = 0
           \/ /\ xorders[id] # Absent
              /\ RecordOf(id).updated_time <= xorders[id].updated_time
    /\ \A e \in Pending : GenuineUpdate(e) =>
           RecordOf(e.order_link_id).updated_time <= e.updated_time

\* An order is closed in the records only when all its executions are counted.
ClosedIsCounted ==
    \A e \in Uncounted : RecordOf(e.order_link_id).order_status \notin XClosed

UpdateOf(id, e) == GenuineUpdate(e) /\ e.order_link_id = id

\* The last report of an order is the last of its stream, the last in the channel, or what
\* is recorded.
LastIsKept(id) ==
    \/ stream[id] # <<>> /\ stream[id][Len(stream[id])] = Latest(id)
    \/ /\ stream[id] = <<>>
       /\ \E j \in DOMAIN from_order_handler :
              /\ from_order_handler[j] = Latest(id)
              /\ \A k \in DOMAIN from_order_handler :
                     UpdateOf(id, from_order_handler[k]) => k <= j
    \/ /\ stream[id] = <<>>
       /\ \A k \in DOMAIN from_order_handler : ~UpdateOf(id, from_order_handler[k])
       /\ Report(id, RecordOf(id)) = Latest(id)

LastIsLatest == \A id \in Ids : xorders[id] # Absent => LastIsKept(id)

QueuesInv ==
    /\ InOrder
    /\ UpdatesNotAhead
    /\ RecordsBehind
    /\ ClosedIsCounted
    /\ LastIsLatest


-----------------------------------------------------------------------------
\* The positions of a queue after a step.

\* The places of an appended sequence.
LEMMA PlacesOfAppend ==
    ASSUME NEW S, NEW s \in Seq(S), NEW e \in S
    PROVE  /\ Len(s) \in Nat
           /\ DOMAIN s = 1 .. Len(s)
           /\ DOMAIN Append(s, e) = 1 .. Len(s) + 1
           /\ \A i \in 1 .. Len(s) : Append(s, e)[i] = s[i]
           /\ Append(s, e)[Len(s) + 1] = e
BY AppendProperties, LenProperties

\* The places of a tail.
LEMMA PlacesOfTail ==
    ASSUME NEW S, NEW s \in Seq(S), s # <<>>
    PROVE  /\ Len(s) \in Nat \ {0}
           /\ DOMAIN s = 1 .. Len(s)
           /\ Tail(s) \in Seq(S)
           /\ Len(Tail(s)) = Len(s) - 1
           /\ DOMAIN Tail(s) = 1 .. Len(s) - 1
           /\ \A i \in 1 .. Len(s) - 1 : Tail(s)[i] = s[i + 1]
           /\ Head(s) = s[1]
<1>1. Len(s) \in Nat /\ DOMAIN s = 1 .. Len(s) /\ Len(s) # 0
  BY LenProperties, EmptySeq
<1>2. /\ Tail(s) \in Seq(S) /\ Len(Tail(s)) = Len(s) - 1 /\ Head(s) = s[1]
      /\ \A i \in 1 .. Len(Tail(s)) : Tail(s)[i] = s[i + 1]
  BY HeadTailProperties
<1>3. DOMAIN Tail(s) = 1 .. Len(s) - 1
  BY <1>2, LenProperties
<1>4. QED
  BY <1>1, <1>2, <1>3

\* Taking the first element out of a queue leaves its tail.
LEMMA FirstRemoved ==
    ASSUME NEW S, NEW s \in Seq(S), s # <<>>
    PROVE  RemoveAt(s, 1) = Tail(s)
<1>1. Tail(s) \in Seq(S) /\ Tail(s) = SubSeq(s, 2, Len(s))
  BY HeadTailProperties, TailIsSubSeq
<1>2. SubSeq(s, 1, 0) = <<>>
  BY SubSeqEmpty
<1>3. RemoveAt(s, 1) = SubSeq(s, 1, 0) \o SubSeq(s, 2, Len(s))
  BY DEF RemoveAt
<1>4. <<>> \o Tail(s) = Tail(s)
  BY <1>1, ConcatEmptySeq
<1>5. QED
  BY <1>1, <1>2, <1>3, <1>4

\* The places of a concatenation.
LEMMA PlacesOfConcat ==
    ASSUME NEW S, NEW s \in Seq(S), NEW u \in Seq(S)
    PROVE  /\ Len(s) \in Nat /\ Len(u) \in Nat
           /\ DOMAIN s = 1 .. Len(s) /\ DOMAIN u = 1 .. Len(u)
           /\ s \o u \in Seq(S)
           /\ Len(s \o u) = Len(s) + Len(u)
           /\ DOMAIN (s \o u) = 1 .. Len(s) + Len(u)
           /\ \A i \in 1 .. Len(s) : (s \o u)[i] = s[i]
           /\ \A i \in Len(s) + 1 .. Len(s) + Len(u) : (s \o u)[i] = u[i - Len(s)]
BY ConcatProperties, LenProperties

\* What is put after a queue ends it.
LEMMA LastOfConcat ==
    ASSUME NEW S, NEW s \in Seq(S), NEW u \in Seq(S), u # <<>>
    PROVE  s \o u # <<>> /\ (s \o u)[Len(s \o u)] = u[Len(u)]
<1> DEFINE m == Len(s)
           n == Len(u)
<1>1. /\ m \in Nat /\ n \in Nat
      /\ s \o u \in Seq(S)
      /\ Len(s \o u) = m + n
      /\ \A i \in m + 1 .. m + n : (s \o u)[i] = u[i - m]
  BY PlacesOfConcat
<1>2. n # 0
  BY EmptySeq
<1> HIDE DEF m, n
<1>3. m + n \in m + 1 .. m + n /\ (m + n) - m = n /\ m + n # 0
  BY <1>1, <1>2
<1>4. (s \o u)[m + n] = u[n]
  BY <1>1, <1>3
<1>5. s \o u # <<>>
  BY <1>1, <1>3, EmptySeq
<1>6. QED
  BY <1>1, <1>4, <1>5 DEF n


-----------------------------------------------------------------------------
\* What the steps do to the order of the reports.

\* The events on their way, by their places.
LEMMA PlacesOfPending ==
    ASSUME TypeOK
    PROVE  /\ \A i \in DOMAIN from_order_handler : from_order_handler[i] \in Pending
           /\ \A id \in Ids : \A j \in DOMAIN stream[id] : stream[id][j] \in Pending
           /\ \A e \in Pending : \/ \E i \in DOMAIN from_order_handler : from_order_handler[i] = e
                                 \/ \E id \in Ids : \E j \in DOMAIN stream[id] : stream[id][j] = e
BY DEF Pending, Range

\* The precedence of reports only depends on the executions still to be counted.
LEMMA PrecedenceKept ==
    ASSUME NEW a, NEW b, MayPrecede(a, b), b \notin Uncounted' \ Uncounted
    PROVE  MayPrecede(a, b)'
BY DEF MayPrecede, ClosingUpdate, GenuineUpdate

\* Nothing moves.
LEMMA QuietOrder ==
    ASSUME InOrder, UNCHANGED <<from_order_handler, stream>>, Uncounted' \subseteq Uncounted
    PROVE  InOrder'
BY PrecedenceKept DEF InOrder

\* The OMS takes the first report of the channel, which was to go before all others.
LEMMA TakenOrder ==
    ASSUME Base, InOrder, from_order_handler # <<>>,
           from_order_handler' = Tail(from_order_handler), UNCHANGED stream,
           Uncounted' \subseteq Uncounted
    PROVE  /\ InOrder'
           /\ \A e \in Pending' : MayPrecede(Head(from_order_handler), e)
<1>1. /\ from_order_handler \in Seq(OrderEvents)
      /\ Len(from_order_handler) \in Nat \ {0}
      /\ DOMAIN from_order_handler = 1 .. Len(from_order_handler)
      /\ DOMAIN from_order_handler' = 1 .. Len(from_order_handler) - 1
      /\ \A i \in 1 .. Len(from_order_handler) - 1 :
             from_order_handler'[i] = from_order_handler[i + 1]
      /\ Head(from_order_handler) = from_order_handler[1]
  BY PlacesOfTail DEF Base, TypeOK
<1>2. \A i \in DOMAIN from_order_handler' : /\ i + 1 \in DOMAIN from_order_handler
                                            /\ 1 < i + 1
                                            /\ from_order_handler'[i] = from_order_handler[i + 1]
  BY <1>1
<1>3. ASSUME NEW i \in DOMAIN from_order_handler', NEW j \in DOMAIN from_order_handler', i < j
      PROVE  MayPrecede(from_order_handler'[i], from_order_handler'[j])
  <2>1. i + 1 < j + 1
    BY <1>1, <1>3
  <2>2. QED
    BY <1>2, <2>1 DEF InOrder
<1>4. ASSUME NEW id \in Ids, NEW i \in DOMAIN from_order_handler', NEW j \in DOMAIN stream'[id]
      PROVE  MayPrecede(from_order_handler'[i], stream'[id][j])
  BY <1>2 DEF InOrder
<1>5. \A id \in Ids : \A i, j \in DOMAIN stream'[id] :
          i < j => MayPrecede(stream'[id][i], stream'[id][j])
  BY DEF InOrder
<1>6. InOrder'
  BY <1>3, <1>4, <1>5, PrecedenceKept DEF InOrder
<1>7. ASSUME NEW e \in Pending'
      PROVE  MayPrecede(Head(from_order_handler), e)
  <2>1. \/ \E i \in DOMAIN from_order_handler' : from_order_handler'[i] = e
        \/ \E id \in Ids : \E j \in DOMAIN stream'[id] : stream'[id][j] = e
    BY DEF Pending, Range
  <2>2. 1 \in DOMAIN from_order_handler
    BY <1>1
  <2>3. QED
    BY <1>1, <1>2, <2>1, <2>2 DEF InOrder
<1>8. QED
  BY <1>6, <1>7

\* A report is put at the end of the channel; it may come from a stream, as its first.
LEMMA AppendedOrder ==
    ASSUME Base, InOrder, NEW event \in OrderEvents,
           from_order_handler' = Append(from_order_handler, event),
           stream' \in [Ids -> Seq(OrderUpdates \cup Executions)],
           \A id \in Ids : \/ stream'[id] = stream[id]
                           \/ stream[id] # <<>> /\ stream'[id] = Tail(stream[id]),
           \A i \in DOMAIN from_order_handler : MayPrecede(from_order_handler[i], event),
           \A id \in Ids : \A j \in DOMAIN stream'[id] : MayPrecede(event, stream'[id][j]),
           Uncounted' \subseteq Uncounted
    PROVE  InOrder'
<1>1. /\ Len(from_order_handler) \in Nat
      /\ DOMAIN from_order_handler = 1 .. Len(from_order_handler)
      /\ DOMAIN from_order_handler' = 1 .. Len(from_order_handler) + 1
      /\ \A i \in 1 .. Len(from_order_handler) : from_order_handler'[i] = from_order_handler[i]
      /\ from_order_handler'[Len(from_order_handler) + 1] = event
  BY PlacesOfAppend DEF Base, TypeOK
<1>2. \A i \in DOMAIN from_order_handler' :
          \/ i \in DOMAIN from_order_handler /\ from_order_handler'[i] = from_order_handler[i]
          \/ i = Len(from_order_handler) + 1 /\ from_order_handler'[i] = event
  BY <1>1
<1>3. ASSUME NEW i \in DOMAIN from_order_handler', NEW j \in DOMAIN from_order_handler', i < j
      PROVE  MayPrecede(from_order_handler'[i], from_order_handler'[j])
  <2>1. i \in DOMAIN from_order_handler /\ from_order_handler'[i] = from_order_handler[i]
    BY <1>1, <1>3
  <2>2. QED
    BY <1>2, <1>3, <2>1 DEF InOrder
<1>4. ASSUME NEW id \in Ids, NEW j \in DOMAIN stream'[id]
      PROVE  \E k \in DOMAIN stream[id] : stream'[id][j] = stream[id][k]
                 /\ (stream'[id] = stream[id] => k = j)
                 /\ (stream'[id] # stream[id] => k = j + 1)
  <2>1. stream[id] \in Seq(OrderUpdates \cup Executions)
    BY DEF Base, TypeOK
  <2>2. CASE stream'[id] = stream[id]
    BY <2>2
  <2>3. CASE stream'[id] # stream[id]
    <3>1. stream[id] # <<>> /\ stream'[id] = Tail(stream[id])
      BY <2>3
    <3>2. /\ Len(stream[id]) \in Nat \ {0}
          /\ DOMAIN stream[id] = 1 .. Len(stream[id])
          /\ DOMAIN Tail(stream[id]) = 1 .. Len(stream[id]) - 1
          /\ \A i \in 1 .. Len(stream[id]) - 1 : Tail(stream[id])[i] = stream[id][i + 1]
      BY <2>1, <3>1, PlacesOfTail
    <3>3. j + 1 \in DOMAIN stream[id] /\ stream'[id][j] = stream[id][j + 1]
      BY <3>1, <3>2
    <3>4. QED
      BY <2>3, <3>3
  <2>4. QED
    BY <2>2, <2>3
<1>5. ASSUME NEW id \in Ids, NEW i \in DOMAIN from_order_handler', NEW j \in DOMAIN stream'[id]
      PROVE  MayPrecede(from_order_handler'[i], stream'[id][j])
  BY <1>2, <1>4 DEF InOrder
<1>6. ASSUME NEW id \in Ids, NEW i \in DOMAIN stream'[id], NEW j \in DOMAIN stream'[id], i < j
      PROVE  MayPrecede(stream'[id][i], stream'[id][j])
  <2>1. PICK k \in DOMAIN stream[id] : /\ stream'[id][i] = stream[id][k]
                                       /\ stream'[id] = stream[id] => k = i
                                       /\ stream'[id] # stream[id] => k = i + 1
    BY <1>4
  <2>2. PICK l \in DOMAIN stream[id] : /\ stream'[id][j] = stream[id][l]
                                       /\ stream'[id] = stream[id] => l = j
                                       /\ stream'[id] # stream[id] => l = j + 1
    BY <1>4
  <2>3. i \in Int /\ j \in Int
    BY LenProperties
  <2>4. k < l
    BY <1>6, <2>1, <2>2, <2>3
  <2>5. QED
    BY <2>1, <2>2, <2>4 DEF InOrder
<1>7. QED
  BY <1>3, <1>5, <1>6, PrecedenceKept DEF InOrder


\* The reports of a change are put at the end of the stream of the order.
LEMMA EmittedOrder ==
    ASSUME Base, InOrder, NEW id \in Ids, NEW reports \in Seq(OrderUpdates \cup Executions),
           stream' = [stream EXCEPT ![id] = stream[id] \o reports],
           UNCHANGED from_order_handler,
           \A a \in Pending : \A j \in DOMAIN reports : MayPrecede(a, reports[j])',
           \A i, j \in DOMAIN reports : i < j => MayPrecede(reports[i], reports[j])',
           \A e \in Pending : e \notin Uncounted' \ Uncounted
    PROVE  InOrder'
<1>1. stream[id] \in Seq(OrderUpdates \cup Executions)
  BY DEF Base, TypeOK
<1>2. /\ Len(stream[id]) \in Nat /\ Len(reports) \in Nat
      /\ DOMAIN stream[id] = 1 .. Len(stream[id]) /\ DOMAIN reports = 1 .. Len(reports)
      /\ DOMAIN (stream[id] \o reports) = 1 .. Len(stream[id]) + Len(reports)
      /\ \A i \in 1 .. Len(stream[id]) : (stream[id] \o reports)[i] = stream[id][i]
      /\ \A i \in Len(stream[id]) + 1 .. Len(stream[id]) + Len(reports) :
             (stream[id] \o reports)[i] = reports[i - Len(stream[id])]
  BY <1>1, PlacesOfConcat
<1>3. \A x \in Ids : stream'[x] = IF x = id THEN stream[id] \o reports ELSE stream[x]
  BY DEF Base, TypeOK
<1>4. \A i \in DOMAIN stream'[id] :
          \/ i \in DOMAIN stream[id] /\ stream'[id][i] = stream[id][i]
          \/ /\ i - Len(stream[id]) \in DOMAIN reports
             /\ stream'[id][i] = reports[i - Len(stream[id])]
  BY <1>2, <1>3
<1>5. /\ \A i \in DOMAIN from_order_handler : from_order_handler[i] \in Pending
      /\ \A x \in Ids : \A j \in DOMAIN stream[x] : stream[x][j] \in Pending
  BY PlacesOfPending DEF Base
<1>6. \A a : \A b \in Pending : MayPrecede(a, b) => MayPrecede(a, b)'
  BY PrecedenceKept
<1>7. \A i, j \in DOMAIN from_order_handler :
          i < j => MayPrecede(from_order_handler[i], from_order_handler[j])'
  BY <1>5, <1>6 DEF InOrder
<1>8. ASSUME NEW x \in Ids, NEW i \in DOMAIN from_order_handler, NEW j \in DOMAIN stream'[x],
             NEW a, a = from_order_handler[i], NEW b, b = stream'[x][j]
      PROVE  MayPrecede(a, b)'
  BY <1>3, <1>4, <1>5, <1>6, <1>8 DEF InOrder
<1>9. ASSUME NEW x \in Ids, NEW i \in DOMAIN stream'[x], NEW j \in DOMAIN stream'[x], i < j,
             NEW a, a = stream'[x][i], NEW b, b = stream'[x][j]
      PROVE  MayPrecede(a, b)'
  <2>1. CASE x # id
    BY <1>3, <1>5, <1>6, <1>9, <2>1 DEF InOrder
  <2>2. CASE x = id /\ j \in DOMAIN stream[id] /\ b = stream[id][j]
    <3>1. i \in DOMAIN stream[id] /\ a = stream[id][i]
      BY <1>2, <1>3, <1>9, <2>2
    <3>2. QED
      BY <1>5, <1>6, <1>9, <2>2, <3>1 DEF InOrder
  <2>3. CASE /\ x = id
             /\ j - Len(stream[id]) \in DOMAIN reports
             /\ b = reports[j - Len(stream[id])]
    <3>1. CASE i \in DOMAIN stream[id] /\ a = stream[id][i]
      BY <1>5, <2>3, <3>1
    <3>2. CASE /\ i - Len(stream[id]) \in DOMAIN reports
               /\ a = reports[i - Len(stream[id])]
      <4>1. i - Len(stream[id]) < j - Len(stream[id])
        BY <1>2, <1>3, <1>9, <2>3
      <4>2. QED
        BY <2>3, <3>2, <4>1
    <3>3. QED
      BY <1>4, <1>9, <2>3, <3>1, <3>2
  <2>4. QED
    BY <1>4, <1>9, <2>1, <2>2, <2>3
<1>10. QED
  BY <1>7, <1>8, <1>9 DEF InOrder

-----------------------------------------------------------------------------
\* The steps that make, move and take the reports keep the invariant of the queues.

\* The queues are empty at the start.
LEMMA InitQueues ==
    ASSUME TradingInit
    PROVE  QueuesInv
<1>1. /\ DOMAIN from_order_handler = {}
      /\ \A id \in Ids : DOMAIN stream[id] = {} /\ xorders[id] = Absent
      /\ DOMAIN id_map = {}
      /\ Uncounted = {}
  BY DEF TradingInit, OmsInit, Uncounted
<1>2. Pending = {}
  BY DEF TradingInit, OmsInit, Pending, Range
<1>3. QED
  BY <1>1, <1>2 DEF QueuesInv, InOrder, UpdatesNotAhead, RecordsBehind, ClosedIsCounted,
                    LastIsLatest, LastIsKept, IsKnown

\* What is about an order, and what the exchange reports of it.
LEMMA LatestReport ==
    ASSUME Base, NEW id \in Ids, xorders[id] # Absent
    PROVE  /\ UpdateOf(id, Latest(id))
           /\ Latest(id).order_status = xorders[id].order_status
           /\ Latest(id).updated_time = xorders[id].updated_time
           /\ xorders[id] \in XOrders /\ xorders[id].updated_time \in Nat
BY OmsAssumption DEF UpdateOf, Latest, Report, GenuineUpdate, OrderUpdates, XOrders, Ids, Base,
                     TypeOK, XOrdersKnown

\* An order changes, or comes to be, and the exchange reports it.
LEMMA ChangedQueues ==
    ASSUME Base, OrdersInv, QueuesInv, NEW id \in Ids, IsKnown(id), NEW xorder \in XOrders,
           xorder.order_status \in XStatuses, xorder.updated_time >= 1,
           xorder.side = RecordOf(id).side,
           xorders[id] # Absent =>
               Working(id) /\ xorder.updated_time >= xorders[id].updated_time,
           NEW before \in Seq(Executions),
           \A e \in Range(before) : e \in executed' /\ e.order_link_id = id,
           executed \subseteq executed', Uncounted' \subseteq Uncounted \cup Range(before),
           Pending \cap Uncounted' \subseteq Uncounted,
           Change(id, xorder, before), UNCHANGED <<book, from_order_handler>>
    PROVE  QueuesInv'
<1> DEFINE report == Report(id, xorder)
           reports == Append(before, report)
<1>1. /\ xorders' = [xorders EXCEPT ![id] = xorder]
      /\ Pending' = Pending \cup Range(before) \cup {report}
      /\ GenuineUpdate(report)
  BY Changed
<1>2. /\ \A x \in Ids : xorders'[x] = IF x = id THEN xorder ELSE xorders[x]
      /\ \A x \in Ids : Latest(x)' = IF x = id THEN report ELSE Latest(x)
      /\ xorder # Absent /\ xorder.updated_time \in Nat
      /\ \A x : (IsKnown(x)' <=> IsKnown(x)) /\ RecordOf(x)' = RecordOf(x)
  BY <1>1, SameBook, AbsentAssumption DEF Base, TypeOK, Latest, XOrders
<1>3. /\ report.order_link_id = id
      /\ report.updated_time = xorder.updated_time
      /\ report \in OrderUpdates
  BY <1>1 DEF Report, GenuineUpdate
<1>4. stream' = [stream EXCEPT ![id] = stream[id] \o reports]
  BY DEF Change, Emit
<1> HIDE DEF report
<1>5. /\ Len(before) \in Nat /\ DOMAIN before = 1 .. Len(before)
      /\ DOMAIN reports = 1 .. Len(before) + 1
      /\ \A i \in 1 .. Len(before) : reports[i] = before[i]
      /\ reports[Len(before) + 1] = report
      /\ reports \in Seq(OrderUpdates \cup Executions)
      /\ Len(reports) = Len(before) + 1
  <2>1. before \in Seq(OrderUpdates \cup Executions)
    OBVIOUS
  <2>2. QED
    BY <1>3, <2>1, PlacesOfAppend, AppendProperties
<1>6. \A i \in DOMAIN before : /\ before[i] \in Range(before) /\ before[i] \in Executions
                               /\ ~GenuineUpdate(before[i])
  <2> SUFFICES ASSUME NEW i \in DOMAIN before
               PROVE  /\ before[i] \in Range(before) /\ before[i] \in Executions
                      /\ ~GenuineUpdate(before[i])
    OBVIOUS
  <2>1. before[i] \in Executions
    BY <1>5, ElementOfSeq, Zenon
  <2>2. before[i] \in Range(before)
    BY DEF Range
  <2>3. ~GenuineUpdate(before[i])
    BY <2>1 DEF GenuineUpdate, OrderUpdates, Executions
  <2>4. QED
    BY <2>1, <2>2, <2>3
<1>7. \A i \in DOMAIN reports : \/ i \in DOMAIN before /\ reports[i] = before[i]
                                \/ i = Len(before) + 1 /\ reports[i] = report
  BY <1>5
<1> HIDE DEF reports
<1>8. \A a \in Pending : UpdateOf(id, a) =>
          /\ Working(id)
          /\ a.updated_time \in Nat
          /\ a.updated_time <= xorder.updated_time
          /\ ~ClosingUpdate(a)
  <2> SUFFICES ASSUME NEW a \in Pending, UpdateOf(id, a)
               PROVE  /\ Working(id) /\ a.updated_time \in Nat
                      /\ a.updated_time <= xorder.updated_time /\ ~ClosingUpdate(a)
    OBVIOUS
  <2>1. xorders[id] # Absent /\ a.updated_time <= xorders[id].updated_time
    BY DEF QueuesInv, UpdatesNotAhead, UpdateOf
  <2>2. a.updated_time \in Nat /\ xorders[id].updated_time \in Nat
    BY <2>1, LatestReport DEF UpdateOf, GenuineUpdate, OrderUpdates
  <2>3. ~ClosingUpdate(a)
    BY <2>1 DEF ClosingUpdate, OrdersInv, ClosedAtExchange, UpdateOf
  <2>4. QED
    BY <1>2, <2>1, <2>2, <2>3
<1>9. InOrder'
  <2>1. ASSUME NEW a \in Pending, NEW j \in DOMAIN reports, NEW b, b = reports[j]
        PROVE  MayPrecede(a, b)'
    BY <1>3, <1>6, <1>7, <1>8, <2>1
       DEF MayPrecede, UpdateOf, ClosingUpdate, GenuineUpdate
  <2>2. ASSUME NEW i \in DOMAIN reports, NEW j \in DOMAIN reports, i < j,
               NEW a, a = reports[i], NEW b, b = reports[j]
        PROVE  MayPrecede(a, b)'
    <3>1. i \in DOMAIN before /\ a = before[i]
      BY <1>5, <1>7, <2>2
    <3>2. ~GenuineUpdate(a)
      BY <1>6, <3>1
    <3>3. QED
      BY <3>2 DEF MayPrecede, ClosingUpdate, GenuineUpdate
  <2>3. QED
    BY <1>4, <1>5, <2>1, <2>2, EmittedOrder DEF QueuesInv
<1>10. \A e \in Pending' : GenuineUpdate(e) => e \in Pending \/ e = report
  BY <1>1 DEF Range, GenuineUpdate, OrderUpdates, Executions, Base
<1>11. \A e \in Pending : GenuineUpdate(e) => e.order_link_id \in Ids /\ IsKnown(e.order_link_id)
  BY KnownRecord DEF Base, ReportsGenuine
<1>12. UpdatesNotAhead'
  <2> SUFFICES ASSUME NEW e \in Pending', GenuineUpdate(e), NEW x, x = e.order_link_id
               PROVE  xorders'[x] # Absent /\ e.updated_time <= xorders'[x].updated_time
    BY DEF UpdatesNotAhead, GenuineUpdate
  <2>1. CASE e = report
    BY <1>2, <1>3, <2>1
  <2>2. CASE e \in Pending
    BY <1>2, <1>8, <1>11, <2>2 DEF QueuesInv, UpdatesNotAhead, UpdateOf
  <2>3. QED
    BY <1>10, <2>1, <2>2
<1>13. RecordsBehind'
  <2>1. RecordOf(id).updated_time \in Nat
    BY KnownRecord DEF Orders
  <2>2. \/ RecordOf(id).updated_time = 0
        \/ xorders[id] # Absent /\ RecordOf(id).updated_time <= xorders[id].updated_time
    BY DEF QueuesInv, RecordsBehind
  <2>3. RecordOf(id).updated_time <= xorder.updated_time
    BY <1>2, <2>1, <2>2, LatestReport
  <2>4. \A x \in Ids : IsKnown(x) => \/ RecordOf(x).updated_time = 0
                                     \/ /\ xorders'[x] # Absent
                                        /\ RecordOf(x).updated_time <= xorders'[x].updated_time
    BY <1>2, <2>3 DEF QueuesInv, RecordsBehind
  <2>5. ASSUME NEW e \in Pending', GenuineUpdate(e), NEW x, x = e.order_link_id
        PROVE  RecordOf(x).updated_time <= e.updated_time
    <3>1. CASE e = report
      BY <1>3, <2>3, <2>5, <3>1
    <3>2. CASE e \in Pending
      BY <2>5, <3>2 DEF QueuesInv, RecordsBehind
    <3>3. QED
      BY <1>10, <2>5, <3>1, <3>2
  <2>6. QED
    BY <1>2, <2>4, <2>5 DEF RecordsBehind, GenuineUpdate
<1>14. ClosedIsCounted'
  <2>1. RecordOf(id).order_status \notin XClosed
    BY DEF OrdersInv, ClosedAtExchange
  <2>2. ASSUME NEW e \in Uncounted', NEW x, x = e.order_link_id
        PROVE  RecordOf(x).order_status \notin XClosed
    BY <2>1, <2>2 DEF QueuesInv, ClosedIsCounted
  <2>3. QED
    BY <1>2, <2>2 DEF ClosedIsCounted
<1>15. LastIsLatest'
  <2>1. stream[id] \in Seq(OrderUpdates \cup Executions)
    BY DEF Base, TypeOK
  <2>2. reports # <<>> /\ reports[Len(reports)] = report
    BY <1>5, EmptySeq
  <2>3. /\ stream[id] \o reports # <<>>
        /\ (stream[id] \o reports)[Len(stream[id] \o reports)] = report
    BY <1>5, <2>1, <2>2, LastOfConcat
  <2>4. /\ stream'[id] = stream[id] \o reports
        /\ \A x \in Ids : x # id => stream'[x] = stream[x]
    BY <1>4 DEF Base, TypeOK
  <2>5. stream'[id] # <<>> /\ stream'[id][Len(stream'[id])] = Latest(id)'
    BY <1>2, <2>3, <2>4
  <2>6. \A x \in Ids : x # id /\ xorders'[x] # Absent =>
            xorders[x] # Absent /\ Latest(x)' = Latest(x) /\ RecordOf(x)' = RecordOf(x)
    BY <1>2
  <2>7. QED
    BY <2>4, <2>5, <2>6 DEF QueuesInv, LastIsLatest, LastIsKept, UpdateOf, GenuineUpdate
<1>16. QED
  BY <1>9, <1>12, <1>13, <1>14, <1>15 DEF QueuesInv


\* A report taken in uncovers no execution, and leaves only reports that were behind it.
LEMMA TakenReport ==
    ASSUME Base, AccountsInv, OmsRecvFromOrderHandler
    PROVE  /\ from_order_handler \in Seq(OrderEvents) /\ from_order_handler # <<>>
           /\ from_order_handler' = Tail(from_order_handler)
           /\ UNCHANGED stream
           /\ EventEffect(Head(from_order_handler))
           /\ Uncounted' \subseteq Uncounted
           /\ Uncounted' \subseteq Pending'
<1>1. /\ from_order_handler \in Seq(OrderEvents) /\ from_order_handler # <<>>
      /\ from_order_handler' = Tail(from_order_handler)
      /\ OrderResponse(Head(from_order_handler))
      /\ UNCHANGED <<exchange_vars, stream>>
  BY DEF OmsRecvFromOrderHandler, RecvFromOrderHandler, websocket_vars, Base, TypeOK
<1>2. /\ Head(from_order_handler) \in OrderEvents
      /\ Range(from_order_handler)
             = {Head(from_order_handler)} \cup Range(Tail(from_order_handler))
  BY <1>1, RangeTail
<1>3. Pending = Pending' \cup {Head(from_order_handler)}
  BY <1>1, <1>2 DEF Pending
<1> DEFINE event == Head(from_order_handler)
<1>4. event \in Pending /\ IsExchangeReport(event)
  <2>1. event \in Pending
    BY <1>3
  <2>2. QED
    BY <2>1 DEF Base, ReportsGenuine, ExecutionsNumbered, PossibleExecutions, GenuineUpdate,
                SubmissionFailures, XStatuses, IsExchangeReport
<1>5. EventEffect(event)
  <2> HIDE DEF event
  <2>1. event \in OrderEvents /\ OrderResponse(event) /\ Pending = Pending' \cup {event}
    BY <1>1, <1>2, <1>3 DEF event
  <2>2. QED
    BY <1>1, <1>4, <2>1, ReceivedRecords
<1>6. AccountsInv'
  BY NextAccounts DEF Next, OmsStep
<1>7. Uncounted' \subseteq Uncounted
  <2>1. AccountsRest \/ \E e \in PossibleExecutions : Executes(e) \/ Counts(e)
    BY OmsRecvFromOrderHandlerBase, AccountsStep DEF LoopStep
  <2>2. executed' = executed
    BY <1>1 DEF exchange_vars, trades
  <2>3. \A e : ~Executes(e)
    BY <2>2 DEF Executes
  <2>4. ASSUME NEW e, Counts(e) PROVE Uncounted' \subseteq Uncounted
    BY <2>4, SettledCounts
  <2>5. QED
    BY <2>1, <2>3, <2>4, SettledRests
<1>8. QED
  BY <1>1, <1>5, <1>6, <1>7 DEF AccountsInv

\* What the first report of the channel makes of a record.
LEMMA TakenRecord ==
    ASSUME Base, QueuesInv, NEW event \in Pending, EventEffect(event),
           NEW id \in Ids, IsKnown(id)
    PROVE  \/ /\ RecordOf(id)' = RecordOf(id)
              /\ ~UpdateOf(id, event)
           \/ /\ UpdateOf(id, event)
              /\ Report(id, RecordOf(id)') = event
              /\ RecordOf(id)'.updated_time = event.updated_time
              /\ RecordOf(id)'.order_status = event.order_status
           \/ /\ ~UpdateOf(id, event)
              /\ RecordOf(id).order_status = "Submitted"
              /\ RecordOf(id)'.order_status = "Rejected"
              /\ RecordOf(id)'.updated_time = RecordOf(id).updated_time
<1>1. RecordOf(id) \in Orders
  BY KnownRecord
<1>2. CASE UpdateOf(id, event)
  <2>1. event \in OrderUpdates /\ event.order_link_id = id /\ GenuineUpdate(event)
    BY <1>2 DEF UpdateOf, GenuineUpdate
  <2>2. /\ RecordOf(id).updated_time <= event.updated_time
        /\ RecordOf(id).updated_time \in Nat /\ event.updated_time \in Nat
    BY <1>1, <2>1 DEF QueuesInv, RecordsBehind, Orders, OrderUpdates
  <2>3. RecordOf(id)' = Updated(RecordOf(id), event)
    BY <2>1, <2>2 DEF EventEffect, IsStale
  <2>4. QED
    BY <1>2, <2>1, <2>3, UpdatedRecord
<1>3. CASE /\ event \in SubmissionFailures /\ event.order_link_id = id
           /\ RecordOf(id).order_status = "Submitted"
           /\ RecordOf(id)' = [RecordOf(id) EXCEPT !.order_status = "Rejected"]
  <2>1. ~UpdateOf(id, event)
    BY <1>3 DEF UpdateOf, GenuineUpdate, SubmissionFailures, OrderUpdates
  <2>2. /\ [RecordOf(id) EXCEPT !.order_status = "Rejected"].order_status = "Rejected"
        /\ [RecordOf(id) EXCEPT !.order_status = "Rejected"].updated_time
               = RecordOf(id).updated_time
    BY <1>1 DEF Orders
  <2>3. QED
    BY <1>3, <2>1, <2>2
<1>4. QED
  BY <1>2, <1>3 DEF EventEffect, UpdateOf

\* Taking an event keeps the invariant of the queues.
LEMMA ReceivedQueues ==
    ASSUME Base, AccountsInv, QueuesInv, OmsRecvFromOrderHandler
    PROVE  QueuesInv'
<1> DEFINE event == Head(from_order_handler)
<1>1. /\ from_order_handler \in Seq(OrderEvents) /\ from_order_handler # <<>>
      /\ from_order_handler' = Tail(from_order_handler)
      /\ UNCHANGED stream
      /\ EventEffect(event)
      /\ Uncounted' \subseteq Uncounted
      /\ Uncounted' \subseteq Pending'
  BY TakenReport
<1>2. InOrder' /\ \A e \in Pending' : MayPrecede(event, e)
  BY <1>1, TakenOrder DEF QueuesInv
<1>3. /\ Len(from_order_handler) \in Nat \ {0}
      /\ DOMAIN from_order_handler = 1 .. Len(from_order_handler)
      /\ DOMAIN from_order_handler' = 1 .. Len(from_order_handler) - 1
      /\ \A i \in 1 .. Len(from_order_handler) - 1 :
             from_order_handler'[i] = from_order_handler[i + 1]
      /\ event = from_order_handler[1]
  BY <1>1, PlacesOfTail
<1> HIDE DEF event
<1>4. /\ event \in Pending /\ Pending' \subseteq Pending
      /\ xorders' = xorders /\ \A id : Latest(id)' = Latest(id)
      /\ \A id : IsKnown(id)' <=> IsKnown(id)
  BY <1>1 DEF EventEffect, exchange_vars, Latest
<1>5. UpdatesNotAhead'
  BY <1>4 DEF QueuesInv, UpdatesNotAhead
<1>6. \A e \in Pending : GenuineUpdate(e) => e.order_link_id \in Ids /\ IsKnown(e.order_link_id)
  BY KnownRecord DEF Base, ReportsGenuine
<1>7. RecordsBehind'
  <2>1. ASSUME NEW id \in Ids, IsKnown(id)
        PROVE  \/ RecordOf(id)'.updated_time = 0
               \/ /\ xorders[id] # Absent
                  /\ RecordOf(id)'.updated_time <= xorders[id].updated_time
    <3>1. CASE UpdateOf(id, event) /\ RecordOf(id)'.updated_time = event.updated_time
      BY <1>4, <3>1 DEF QueuesInv, UpdatesNotAhead, UpdateOf
    <3>2. CASE RecordOf(id)'.updated_time = RecordOf(id).updated_time
      BY <2>1, <3>2 DEF QueuesInv, RecordsBehind
    <3>3. QED
      BY <1>1, <1>4, <2>1, <3>1, <3>2, TakenRecord
  <2>2. ASSUME NEW e \in Pending', GenuineUpdate(e), NEW id, id = e.order_link_id
        PROVE  RecordOf(id)'.updated_time <= e.updated_time
    <3>1. id \in Ids /\ IsKnown(id) /\ e \in Pending
      BY <1>4, <1>6, <2>2
    <3>2. CASE UpdateOf(id, event) /\ RecordOf(id)'.updated_time = event.updated_time
      BY <1>2, <2>2, <3>2 DEF MayPrecede, UpdateOf
    <3>3. CASE RecordOf(id)'.updated_time = RecordOf(id).updated_time
      BY <2>2, <3>1, <3>3 DEF QueuesInv, RecordsBehind
    <3>4. QED
      BY <1>1, <1>4, <3>1, <3>2, <3>3, TakenRecord
  <2>3. QED
    BY <1>4, <2>1, <2>2 DEF RecordsBehind, GenuineUpdate
<1>8. ClosedIsCounted'
  <2>1. ASSUME NEW e \in Uncounted', NEW id, id = e.order_link_id
        PROVE  RecordOf(id)'.order_status \notin XClosed
    <3>1. e \in Uncounted /\ e \in Pending' /\ IsKnown(id) /\ id \in Ids
      BY <1>1, <2>1, KnownRecord DEF Base, ExecutionsNumbered, Uncounted
    <3>2. RecordOf(id).order_status \notin XClosed
      BY <2>1, <3>1 DEF QueuesInv, ClosedIsCounted
    <3>3. UpdateOf(id, event) => event.order_status \notin XClosed
      BY <1>2, <2>1, <3>1 DEF MayPrecede, ClosingUpdate, UpdateOf
    <3>4. "Rejected" \notin XClosed
      BY DEF XClosed
    <3>5. QED
      BY <1>1, <1>4, <3>1, <3>2, <3>3, <3>4, TakenRecord
  <2>2. QED
    BY <2>1 DEF ClosedIsCounted
<1>9. ASSUME NEW id \in Ids, xorders[id] # Absent
      PROVE  \/ stream[id] # <<>> /\ stream[id][Len(stream[id])] = Latest(id)
             \/ /\ stream[id] = <<>>
                /\ \E j \in DOMAIN from_order_handler' :
                       /\ from_order_handler'[j] = Latest(id)
                       /\ \A k \in DOMAIN from_order_handler' :
                              UpdateOf(id, from_order_handler'[k]) => k <= j
             \/ /\ stream[id] = <<>>
                /\ \A k \in DOMAIN from_order_handler' : ~UpdateOf(id, from_order_handler'[k])
                /\ Report(id, RecordOf(id)') = Latest(id)
  <2>1. /\ IsKnown(id)
        /\ UpdateOf(id, Latest(id))
        /\ Latest(id).order_status \in XStatuses
    BY <1>9, LatestReport DEF Base, XOrdersKnown
  <2>2. \A k \in DOMAIN from_order_handler' :
            k + 1 \in DOMAIN from_order_handler /\ k + 1 \in Int /\ k \in Int
                /\ from_order_handler'[k] = from_order_handler[k + 1]
    BY <1>3
  <2>3. ASSUME stream[id] = <<>>, NEW j \in DOMAIN from_order_handler,
               from_order_handler[j] = Latest(id),
               \A k \in DOMAIN from_order_handler : UpdateOf(id, from_order_handler[k]) => k <= j
        PROVE  \/ \E l \in DOMAIN from_order_handler' :
                      /\ from_order_handler'[l] = Latest(id)
                      /\ \A k \in DOMAIN from_order_handler' :
                             UpdateOf(id, from_order_handler'[k]) => k <= l
               \/ /\ \A k \in DOMAIN from_order_handler' : ~UpdateOf(id, from_order_handler'[k])
                  /\ Report(id, RecordOf(id)') = Latest(id)
    <3>1. j \in Int /\ j >= 1 /\ j <= Len(from_order_handler)
      BY <1>3, <2>3
    <3>2. \A k \in DOMAIN from_order_handler' :
              UpdateOf(id, from_order_handler'[k]) => k + 1 <= j
      BY <2>2, <2>3
    <3>3. CASE j = 1
      <4>1. UpdateOf(id, event) /\ event = Latest(id)
        BY <1>3, <2>1, <2>3, <3>3
      <4>2. Report(id, RecordOf(id)') = event
        BY <1>1, <1>4, <2>1, <4>1, TakenRecord
      <4>3. \A k \in DOMAIN from_order_handler' : ~UpdateOf(id, from_order_handler'[k])
        BY <1>3, <3>2, <3>3
      <4>4. QED
        BY <4>1, <4>2, <4>3
    <3>4. CASE j # 1
      <4>1. /\ j - 1 \in DOMAIN from_order_handler'
            /\ from_order_handler'[j - 1] = from_order_handler[j]
        <5>1. j - 1 \in 1 .. Len(from_order_handler) - 1 /\ (j - 1) + 1 = j
          BY <1>3, <3>1, <3>4
        <5>2. QED
          BY <1>3, <5>1
      <4>2. \A k \in DOMAIN from_order_handler' :
                UpdateOf(id, from_order_handler'[k]) => k <= j - 1
        BY <2>2, <3>1, <3>2
      <4>3. QED
        BY <2>3, <4>1, <4>2
    <3>5. QED
      BY <3>3, <3>4
  <2>4. ASSUME \A k \in DOMAIN from_order_handler : ~UpdateOf(id, from_order_handler[k]),
               Report(id, RecordOf(id)) = Latest(id)
        PROVE  /\ \A k \in DOMAIN from_order_handler' : ~UpdateOf(id, from_order_handler'[k])
               /\ Report(id, RecordOf(id)') = Latest(id)
    <3>1. ~UpdateOf(id, event)
      BY <1>3, <2>4
    <3>2. RecordOf(id).order_status # "Submitted"
      <4>1. Latest(id).order_status = RecordOf(id).order_status
        BY <2>4 DEF Report
      <4>2. QED
        BY <2>1, <4>1 DEF XStatuses
    <3>3. RecordOf(id)' = RecordOf(id)
      BY <1>1, <1>4, <2>1, <3>1, <3>2, TakenRecord
    <3>4. QED
      BY <2>2, <2>4, <3>3
  <2>5. QED
    BY <1>9, <2>3, <2>4 DEF QueuesInv, LastIsLatest, LastIsKept
<1>10. LastIsLatest'
  BY <1>1, <1>4, <1>9 DEF LastIsLatest, LastIsKept, UpdateOf, GenuineUpdate
<1>11. QED
  BY <1>2, <1>5, <1>7, <1>8, <1>10 DEF QueuesInv


\* A report put in the channel that tells nothing of an order hides nothing of it.
LEMMA OtherAppended ==
    ASSUME Base, NEW event \in OrderEvents,
           from_order_handler' = Append(from_order_handler, event),
           NEW id \in Ids, ~UpdateOf(id, event), stream'[id] = stream[id],
           UNCHANGED <<book, xorders>>, LastIsKept(id)
    PROVE  LastIsKept(id)'
<1>1. /\ Len(from_order_handler) \in Nat
      /\ DOMAIN from_order_handler = 1 .. Len(from_order_handler)
      /\ DOMAIN from_order_handler' = 1 .. Len(from_order_handler) + 1
      /\ \A i \in 1 .. Len(from_order_handler) : from_order_handler'[i] = from_order_handler[i]
      /\ from_order_handler'[Len(from_order_handler) + 1] = event
  BY PlacesOfAppend DEF Base, TypeOK
<1>2. \A k \in DOMAIN from_order_handler' : UpdateOf(id, from_order_handler'[k]) =>
          k \in DOMAIN from_order_handler /\ from_order_handler'[k] = from_order_handler[k]
  BY <1>1
<1>3. \A k \in DOMAIN from_order_handler :
          k \in DOMAIN from_order_handler' /\ from_order_handler'[k] = from_order_handler[k]
  BY <1>1
<1>4. Latest(id)' = Latest(id) /\ RecordOf(id)' = RecordOf(id)
  BY SameBook DEF Latest
<1>5. \A e : UpdateOf(id, e)' <=> UpdateOf(id, e)
  BY DEF UpdateOf, GenuineUpdate
<1>6. QED
  BY <1>2, <1>3, <1>4 DEF LastIsKept, UpdateOf, GenuineUpdate

\* The same reports on their way, the same orders and records: only the order may change.
LEMMA SamePending ==
    ASSUME Base, QueuesInv, \A e \in Pending' : GenuineUpdate(e) => e \in Pending,
           Uncounted' \subseteq Uncounted, UNCHANGED <<book, xorders>>
    PROVE  UpdatesNotAhead' /\ RecordsBehind' /\ ClosedIsCounted'
<1>1. \A id : (IsKnown(id)' <=> IsKnown(id)) /\ RecordOf(id)' = RecordOf(id)
  BY SameBook
<1>2. UpdatesNotAhead'
  BY DEF QueuesInv, UpdatesNotAhead, GenuineUpdate
<1>3. RecordsBehind'
  BY <1>1 DEF QueuesInv, RecordsBehind, GenuineUpdate
<1>4. ClosedIsCounted'
  BY <1>1 DEF QueuesInv, ClosedIsCounted
<1>5. QED
  BY <1>2, <1>3, <1>4

\* What is not counted does not change with the other variables.
LEMMA SameAccounts ==
    ASSUME UNCHANGED <<executed, accounts>>
    PROVE  Uncounted' = Uncounted
BY DEF Uncounted, Settled, accounts

\* The websocket passes a report on in its order.
LEMMA PassedQueues ==
    ASSUME Base, QueuesInv, Delivery = "ordered",
           NEW id \in Ids, NEW i \in DOMAIN stream[id], Delivered(id, i)
    PROVE  QueuesInv'
<1> DEFINE s == stream[id]
           event == s[1]
<1>1. i = 1
  BY DEF Delivered, Deliver, DeliverTwice, Deliverable
<1>2. s \in Seq(OrderUpdates \cup Executions) /\ s # <<>>
  BY DEF Base, TypeOK
<1>3. /\ Len(s) \in Nat \ {0}
      /\ DOMAIN s = 1 .. Len(s)
      /\ Tail(s) \in Seq(OrderUpdates \cup Executions)
      /\ Len(Tail(s)) = Len(s) - 1
      /\ DOMAIN Tail(s) = 1 .. Len(s) - 1
      /\ \A k \in 1 .. Len(s) - 1 : Tail(s)[k] = s[k + 1]
      /\ RemoveAt(s, 1) = Tail(s)
  BY <1>2, PlacesOfTail, FirstRemoved
<1>4. /\ event \in OrderUpdates \cup Executions
      /\ event \in OrderEvents
      /\ event.order_link_id = id
      /\ event \in Pending
  BY <1>1, <1>2, DeliveredPending DEF OrderEvents, Base, StreamsApart, Range
<1>5. /\ from_order_handler' = Append(from_order_handler, event)
      /\ UNCHANGED <<book, accounts, exchange_vars>>
  BY <1>1 DEF Delivered, Deliver, DeliverTwice, ProcessResponse, SendToOms, oms_vars
<1>6. /\ Pending' = Pending
      /\ stream' \in [Ids -> Seq(OrderUpdates \cup Executions)]
  BY DeliveredPending DEF Base
<1>7. /\ \A x \in Ids : x # id => stream'[x] = stream[x]
      /\ stream'[id] = s \/ stream'[id] = Tail(s)
  BY <1>1, <1>3 DEF Delivered, Deliver, DeliverTwice, Base, TypeOK
<1>8. Uncounted' = Uncounted
  BY <1>5, SameAccounts DEF exchange_vars, trades
<1> HIDE DEF event
<1>9. UpdatesNotAhead' /\ RecordsBehind' /\ ClosedIsCounted'
  BY <1>5, <1>6, <1>8, SamePending DEF exchange_vars
<1>10. InOrder'
  <2>1. \A k \in DOMAIN from_order_handler : MayPrecede(from_order_handler[k], event)
    BY <1>3 DEF QueuesInv, InOrder, event
  <2>2. MayPrecede(event, event)
    <3>1. GenuineUpdate(event) => event.updated_time \in Int /\ event \notin executed
      BY DEF GenuineUpdate, OrderUpdates, Base, TypeOK, Executions
    <3>2. QED
      BY <3>1 DEF MayPrecede, ClosingUpdate, Uncounted
  <2>3. \A k \in 1 .. Len(s) : MayPrecede(event, s[k])
    BY <1>3, <2>2 DEF QueuesInv, InOrder, event
  <2>4. \A k \in DOMAIN stream'[id] : MayPrecede(event, stream'[id][k])
    <3>1. CASE stream'[id] = s
      BY <1>3, <2>3, <3>1
    <3>2. CASE stream'[id] = Tail(s)
      <4>1. \A k \in 1 .. Len(s) - 1 : k + 1 \in 1 .. Len(s) /\ Tail(s)[k] = s[k + 1]
        BY <1>3
      <4>2. \A k \in 1 .. Len(s) - 1 : MayPrecede(event, Tail(s)[k])
        BY <2>3, <4>1
      <4>3. QED
        BY <1>3, <3>2, <4>2
    <3>3. QED
      BY <1>7, <3>1, <3>2
  <2>5. ASSUME NEW x \in Ids, x # id, NEW k \in DOMAIN stream'[x]
        PROVE  MayPrecede(event, stream'[x][k])
    BY <1>4, <1>7, <2>5 DEF MayPrecede, Base, StreamsApart, Range
  <2>6. \A x \in Ids : \/ stream'[x] = stream[x]
                       \/ stream[x] # <<>> /\ stream'[x] = Tail(stream[x])
    BY <1>2, <1>7
  <2>7. QED
    BY <1>4, <1>5, <1>6, <1>8, <2>1, <2>4, <2>5, <2>6, AppendedOrder DEF QueuesInv
<1>11. /\ Len(from_order_handler) \in Nat
       /\ DOMAIN from_order_handler' = 1 .. Len(from_order_handler) + 1
       /\ from_order_handler'[Len(from_order_handler) + 1] = event
  BY <1>4, <1>5, PlacesOfAppend DEF Base, TypeOK
<1>12. ASSUME xorders[id] # Absent
       PROVE  LastIsKept(id)'
  <2>1. s[Len(s)] = Latest(id)
    BY <1>2, <1>12 DEF QueuesInv, LastIsLatest, LastIsKept
  <2>2. Latest(id)' = Latest(id)
    BY <1>5 DEF Latest, exchange_vars
  <2>3. CASE stream'[id] = s
    BY <1>2, <2>1, <2>2, <2>3 DEF LastIsKept
  <2>4. CASE stream'[id] = Tail(s) /\ Len(s) = 1
    <3>1. stream'[id] = <<>>
      BY <1>3, <2>4, EmptySeq
    <3>2. event = Latest(id)
      BY <2>1, <2>4 DEF event
    <3>3. \A k \in DOMAIN from_order_handler' : k <= Len(from_order_handler) + 1
      BY <1>11
    <3>4. Len(from_order_handler) + 1 \in DOMAIN from_order_handler'
      BY <1>11
    <3>5. QED
      BY <1>11, <2>2, <3>1, <3>2, <3>3, <3>4 DEF LastIsKept
  <2>5. CASE stream'[id] = Tail(s) /\ Len(s) # 1
    <3> DEFINE m == Len(s)
               u == Tail(s)
    <3>1. /\ m \in Nat \ {0} /\ m # 1 /\ Len(u) = m - 1
          /\ \A k \in 1 .. m - 1 : u[k] = s[k + 1]
      BY <1>3, <2>5
    <3> HIDE DEF m, u
    <3>2. m - 1 \in 1 .. m - 1 /\ (m - 1) + 1 = m /\ m - 1 # 0
      BY <3>1
    <3>3. u[m - 1] = s[m] /\ u # <<>>
      BY <3>1, <3>2, EmptySeq
    <3>4. u[Len(u)] = Latest(id)
      BY <2>1, <3>1, <3>3 DEF m
    <3>5. QED
      BY <2>2, <2>5, <3>3, <3>4 DEF LastIsKept, u
  <2>6. QED
    BY <1>7, <2>3, <2>4, <2>5
<1>13. ASSUME NEW x \in Ids, x # id, xorders[x] # Absent
       PROVE  LastIsKept(x)'
  <2>1. ~UpdateOf(x, event)
    BY <1>4, <1>13 DEF UpdateOf
  <2>2. LastIsKept(x)
    BY <1>13 DEF QueuesInv, LastIsLatest
  <2>3. QED
    BY <1>4, <1>5, <1>7, <1>13, <2>1, <2>2, OtherAppended DEF exchange_vars
<1>14. LastIsLatest'
  BY <1>5, <1>12, <1>13 DEF LastIsLatest, exchange_vars
<1>15. QED
  BY <1>9, <1>10, <1>14 DEF QueuesInv

\* A failure of a submission tells nothing of the order at the exchange.
LEMMA FailureQueues ==
    ASSUME Base, QueuesInv, NEW t \in Tasks, TaskReportsFailure(t)
    PROVE  QueuesInv'
<1> DEFINE event == SubmissionFailed(tasks[t].order_link_id)
<1>1. /\ from_order_handler' = Append(from_order_handler, event)
      /\ UNCHANGED <<book, accounts, exchange_vars, stream>>
      /\ tasks[t] \in FailedRequests
  BY DEF TaskReportsFailure, SendToOms, websocket_vars
<1>2. event \in SubmissionFailures /\ event \in OrderEvents
  BY <1>1, FailureTypes DEF OrderEvents
<1> HIDE DEF event
<1>3. /\ ~GenuineUpdate(event)
      /\ event \notin executed
  BY <1>2 DEF GenuineUpdate, OrderUpdates, SubmissionFailures, Base, TypeOK, Executions
<1>4. Uncounted' = Uncounted
  BY <1>1, SameAccounts DEF exchange_vars, trades
<1>5. Pending' = Pending \cup {event}
  BY <1>1, <1>2, RangeAppend DEF Pending, Base, TypeOK
<1>6. UpdatesNotAhead' /\ RecordsBehind' /\ ClosedIsCounted'
  BY <1>1, <1>3, <1>4, <1>5, SamePending DEF exchange_vars
<1>7. \A e : MayPrecede(e, event) /\ MayPrecede(event, e)
  BY <1>3 DEF MayPrecede, ClosingUpdate, Uncounted
<1>8. InOrder'
  BY <1>1, <1>2, <1>4, <1>7, AppendedOrder DEF QueuesInv, Base, TypeOK
<1>9. LastIsLatest'
  <2>1. ASSUME NEW id \in Ids, xorders[id] # Absent
        PROVE  LastIsKept(id)'
    BY <1>1, <1>2, <1>3, <2>1, OtherAppended
       DEF QueuesInv, LastIsLatest, UpdateOf, exchange_vars
  <2>2. QED
    BY <1>1, <2>1 DEF LastIsLatest, exchange_vars
<1>10. QED
  BY <1>6, <1>8, <1>9 DEF QueuesInv

\* Reports and orders rest; a record is at most new.
LEMMA RestQueues ==
    ASSUME Base, QueuesInv,
           UNCHANGED <<from_order_handler, stream, executed, accounts, xorders>>,
           \A id : IsKnown(id) => IsKnown(id)' /\ RecordOf(id)' = RecordOf(id),
           \A id : IsKnown(id)' /\ ~IsKnown(id) => RecordOf(id)'.updated_time = 0
    PROVE  QueuesInv'
<1>1. Uncounted' = Uncounted /\ Pending' = Pending /\ \A id : Latest(id)' = Latest(id)
  BY SameAccounts DEF Pending, Latest
<1>2. InOrder'
  BY <1>1, QuietOrder DEF QueuesInv
<1>3. UpdatesNotAhead'
  BY <1>1 DEF QueuesInv, UpdatesNotAhead, GenuineUpdate
<1>4. \A e \in Pending : IsKnown(e.order_link_id)
  BY DEF Base, ReportsGenuine
<1>5. RecordsBehind'
  <2>1. \A id \in Ids : IsKnown(id)' => \/ RecordOf(id)'.updated_time = 0
                                        \/ /\ xorders[id] # Absent
                                           /\ RecordOf(id)'.updated_time <= xorders[id].updated_time
    BY DEF QueuesInv, RecordsBehind
  <2>2. ASSUME NEW e \in Pending, GenuineUpdate(e), NEW id, id = e.order_link_id
        PROVE  RecordOf(id)'.updated_time <= e.updated_time
    BY <1>4, <2>2 DEF QueuesInv, RecordsBehind
  <2>3. QED
    BY <1>1, <2>1, <2>2 DEF RecordsBehind, GenuineUpdate
<1>6. ClosedIsCounted'
  <2>1. ASSUME NEW e \in Uncounted, NEW id, id = e.order_link_id
        PROVE  RecordOf(id)' = RecordOf(id)
    BY <2>1 DEF Uncounted, Base, ExecutionsNumbered
  <2>2. ASSUME NEW e \in Uncounted, NEW id, id = e.order_link_id
        PROVE  RecordOf(id)'.order_status \notin XClosed
    BY <2>1, <2>2 DEF QueuesInv, ClosedIsCounted
  <2>3. QED
    BY <1>1, <2>2 DEF ClosedIsCounted
<1>7. LastIsLatest'
  <2>1. ASSUME NEW id \in Ids, xorders[id] # Absent
        PROVE  LastIsKept(id) /\ RecordOf(id)' = RecordOf(id)
    BY <2>1 DEF QueuesInv, LastIsLatest, Base, XOrdersKnown
  <2>2. QED
    BY <1>1, <2>1 DEF LastIsLatest, LastIsKept, UpdateOf, GenuineUpdate
<1>8. QED
  BY <1>2, <1>3, <1>5, <1>6, <1>7 DEF QueuesInv


\* The order a request asks for comes to be.
LEMMA AcceptQueues ==
    ASSUME Base, OrdersInv, QueuesInv, NEW t \in Tasks, NEW answered, Accept(t, answered),
           UNCHANGED others_of_gateway
    PROVE  QueuesInv'
<1> DEFINE xorder == [side |-> tasks[t].side, price |-> tasks[t].price, qty |-> tasks[t].qty,
                      filled_qty |-> 0, order_status |-> "New", updated_time |-> 1]
<1>1. /\ tasks[t].order_link_id \in Ids /\ IsKnown(tasks[t].order_link_id)
      /\ tasks[t] \in CreateRequests
      /\ xorder \in XOrders /\ xorder.side = RecordOf(tasks[t].order_link_id).side
      /\ Change(tasks[t].order_link_id, xorder, <<>>)
      /\ UNCHANGED trades
  BY AcceptedOrder
<1>2. /\ xorder.order_status \in XStatuses /\ xorder.updated_time >= 1
      /\ xorders[tasks[t].order_link_id] = Absent
  BY <1>1 DEF XStatuses, OrdersInv, SubmittedOnce
<1>3. /\ UNCHANGED <<book, from_order_handler, executed>> /\ Uncounted' = Uncounted
  BY <1>1, SameAccounts DEF others_of_gateway, trades
<1> HIDE DEF xorder
<1>4. <<>> \in Seq(Executions) /\ Range(<<>>) = {}
  BY DEF Range
<1>5. QED
  BY <1>1, <1>2, <1>3, <1>4, ChangedQueues

\* An order that works changes, without an execution.
LEMMA UntradedQueues ==
    ASSUME Base, OrdersInv, QueuesInv, NEW id \in Ids, NEW xorder \in XOrders,
           Working(id), Succeeds(xorder, xorders[id]), Change(id, xorder, <<>>),
           UNCHANGED <<book, accounts, from_order_handler, trades>>
    PROVE  QueuesInv'
<1>1. /\ IsKnown(id) /\ RecordOf(id).side = xorders[id].side
      /\ xorders[id].updated_time \in Nat /\ xorders[id].updated_time >= 1
  BY WorkingOrder
<1>2. /\ xorder.order_status \in XStatuses /\ xorder.side = RecordOf(id).side
      /\ xorder.updated_time >= xorders[id].updated_time /\ xorder.updated_time >= 1
  BY <1>1 DEF Succeeds, XOrders
<1>3. executed' = executed /\ Uncounted' = Uncounted
  BY SameAccounts DEF trades
<1>4. <<>> \in Seq(Executions) /\ Range(<<>>) = {}
  BY DEF Range
<1>5. QED
  BY <1>1, <1>2, <1>3, <1>4, ChangedQueues

\* An execution is reported before the order it changes.
LEMMA FillQueues ==
    ASSUME Base, OrdersInv, AccountsInv, QueuesInv, NEW id \in Ids, NEW qty \in 1 .. OrderSize,
           ExchangeFills(id, qty)
    PROVE  QueuesInv'
<1> DEFINE e == Execution(id, qty)
           before == <<e>>
<1>1. /\ Working(id) /\ e \in PossibleExecutions /\ e \in Executions
      /\ executed' = executed \cup {e}
      /\ wallet' = wallet + Traded(xorders[id].side, qty)
      /\ UNCHANGED vars_of_oms
  BY FilledOrder DEF Base, ExecutionsNumbered
<1>2. PICK xorder \in XOrders : Succeeds(xorder, xorders[id]) /\ Change(id, xorder, before)
  BY FilledOrder DEF Base, ExecutionsNumbered
<1>3. /\ IsKnown(id) /\ RecordOf(id).side = xorders[id].side
      /\ xorders[id].updated_time \in Nat /\ xorders[id].updated_time >= 1
  BY <1>1, WorkingOrder
<1>4. /\ xorder.order_status \in XStatuses /\ xorder.side = RecordOf(id).side
      /\ xorder.updated_time >= xorders[id].updated_time /\ xorder.updated_time >= 1
  BY <1>2, <1>3 DEF Succeeds, XOrders
<1>5. e.order_link_id = id /\ \A f \in executed : f.exec_id # e.exec_id
  BY DEF Execution, Base, TypeOK, Executions, ExecutionsNumbered
<1> HIDE DEF e
<1>6. before \in Seq(Executions) /\ Range(before) = {e}
  BY <1>1 DEF Range
<1>7. UNCHANGED <<book, accounts, from_order_handler>>
  BY <1>1 DEF vars_of_oms, oms_vars
<1>8. e \notin executed /\ Uncounted' = Uncounted \cup {e}
  <2>1. e \notin executed
    BY <1>5
  <2>2. ExecutionKey(e) \notin processed_executions
    <3>1. \A f \in Settled : ExecutionKey(f) # ExecutionKey(e)
      BY <1>5 DEF Settled, ExecutionKey
    <3>2. QED
      BY <3>1 DEF AccountsInv
  <2>3. QED
    BY <1>1, <1>7, <2>1, <2>2 DEF Settled, Uncounted, accounts
<1>9. e \notin Pending
  BY <1>1, <1>8 DEF Base, ReportsGenuine, GenuineUpdate, OrderUpdates, Executions,
                    SubmissionFailures
<1> HIDE DEF before
<1>10. QED
  <2>1. /\ \A f \in Range(before) : f \in executed' /\ f.order_link_id = id
        /\ executed \subseteq executed' /\ Uncounted' \subseteq Uncounted \cup Range(before)
        /\ Pending \cap Uncounted' \subseteq Uncounted
    BY <1>1, <1>5, <1>6, <1>8, <1>9
  <2>2. QED
    BY <1>1, <1>2, <1>3, <1>4, <1>6, <1>7, <2>1, ChangedQueues

\* The OMS takes a command: at most a new record, of an order nothing is known of.
LEMMA CommandQueues ==
    ASSUME Base, QueuesInv, OmsRecvFromStrategy
    PROVE  QueuesInv'
<1>1. CommandStep /\ UNCHANGED <<from_order_handler, exchange_vars, stream>>
  BY OmsRecvFromStrategyBase
     DEF OmsRecvFromStrategy, RecvFromStrategy, websocket_vars
<1>2. /\ UNCHANGED accounts
      /\ \/ \E builder \in Builders : AmendEffect(builder)
         \/ \E builder \in Builders, new \in Ids, t \in Tasks : SubmitEffect(builder, new, t)
  BY <1>1, CommandRecords
<1>3. UNCHANGED <<executed, xorders>>
  BY <1>1 DEF exchange_vars, trades
<1>4. CASE \E builder \in Builders : AmendEffect(builder)
  BY <1>1, <1>2, <1>3, <1>4, SameBook, RestQueues DEF AmendEffect
<1>5. ASSUME NEW builder \in Builders, NEW new \in Ids, NEW t \in Tasks,
             SubmitEffect(builder, new, t)
      PROVE  QueuesInv'
  <2>1. /\ \A id : IsKnown(id) => IsKnown(id)' /\ RecordOf(id)' = RecordOf(id)
        /\ \A id : IsKnown(id)' /\ ~IsKnown(id) => RecordOf(id)'.updated_time = 0
    BY <1>5 DEF SubmitEffect, Build
  <2>2. QED
    BY <1>1, <1>2, <1>3, <2>1, RestQueues
<1>6. QED
  BY <1>2, <1>4, <1>5

\* The reports stay in order as long as the websocket delivers them in order.
LEMMA NextQueues ==
    ASSUME Delivery = "ordered", Base, OrdersInv, AccountsInv, QueuesInv, [Next]_trading_vars
    PROVE  QueuesInv'
<1>1. ASSUME UNCHANGED <<from_order_handler, stream, executed, accounts, xorders, book>>
      PROVE  QueuesInv'
  BY <1>1, SameBook, RestQueues
<1>2. CASE StrategyStep
  BY <1>1, <1>2, StrategyStepEffect DEF Base, exchange_vars, trades, websocket_vars
<1>3. CASE OmsStep
  BY <1>3, CommandQueues, ReceivedQueues DEF OmsStep
<1>4. ASSUME NEW t \in Tasks, TaskStep(t)
      PROVE  QueuesInv'
  <2>1. CASE ExchangeAccepts(t) \/ ExchangeAcceptsUnheard(t)
    BY <2>1, AcceptQueues DEF ExchangeAccepts, ExchangeAcceptsUnheard
  <2>2. CASE ExchangeRefuses(t) \/ RequestEnds(t)
    BY <1>1, <2>2
       DEF ExchangeRefuses, RequestEnds, others_of_gateway, exchange_vars, trades, websocket_vars
  <2>3. CASE ExchangeAmends(t)
    <3>1. tasks[t] \in AmendRequests
      BY <2>3 DEF ExchangeAmends
    <3>2. tasks[t].order_link_id \in Ids
      BY <3>1, KnownRecord DEF Base, RequestsKnown
    <3>3. TypeOK
      BY DEF Base
    <3>4. QED
      BY <2>3, <3>2, <3>3, AmendedOrder, UntradedQueues DEF others_of_gateway
  <2>4. CASE TaskReportsFailure(t)
    BY <2>4, FailureQueues
  <2>5. QED
    BY <1>4, <2>1, <2>2, <2>3, <2>4 DEF TaskStep
<1>5. CASE MarketStep
  <2>1. ASSUME NEW id \in Ids, ExchangeCancels(id)
        PROVE  QueuesInv'
    <3>1. TypeOK
      BY DEF Base
    <3>2. QED
      BY <2>1, <3>1, CancelledOrder, UntradedQueues DEF vars_of_oms, oms_vars
  <2>2. QED
    BY <1>5, <2>1, FillQueues DEF MarketStep
<1>6. CASE WebsocketStep
  BY <1>6, PassedQueues DEF WebsocketStep, Delivered
<1>7. CASE UNCHANGED trading_vars
  BY <1>1, <1>7
     DEF trading_vars, vars_of_oms, oms_vars, exchange_vars, trades, websocket_vars
<1>8. QED
  BY <1>2, <1>3, <1>4, <1>5, <1>6, <1>7 DEF Next

\* What holds in every state when the websocket delivers in order.
LEMMA QueuesAlways ==
    Delivery = "ordered" => (Spec => [](Base /\ OrdersInv /\ AccountsInv /\ QueuesInv))
<1> SUFFICES ASSUME Delivery = "ordered"
             PROVE  Spec => [](Base /\ OrdersInv /\ AccountsInv /\ QueuesInv)
  OBVIOUS
<1>1. TradingInit => Base /\ OrdersInv /\ AccountsInv /\ QueuesInv
  BY InitBase, InitOrders, InitAccounts, InitQueues
<1>2. Base /\ OrdersInv /\ AccountsInv /\ QueuesInv /\ [Next]_trading_vars
          => (Base /\ OrdersInv /\ AccountsInv /\ QueuesInv)'
  BY NextBase, NextOrders, NextAccounts, NextQueues
<1>3. QED
  BY <1>1, <1>2, PTL DEF Spec

\* With the reports delivered in order the view the OMS has of an order is that of the
\* exchange as soon as no report of it is under way, even when several changes carry one
\* time (handle_order_update takes an update that is as new as the record).
THEOREM ViewsConvergeInOrder == Delivery = "ordered" => (Spec => []ViewConverges)
<1> SUFFICES ASSUME Delivery = "ordered" PROVE Spec => []ViewConverges
  OBVIOUS
<1>1. Base /\ QueuesInv => ViewConverges
  <2> SUFFICES ASSUME Base, QueuesInv, NEW id \in Ids, xorders[id] # Absent,
                      \A e \in Underway(id) :
                          ~(e.type = "OrderUpdate" /\ e.order_link_id = id)
               PROVE  Report(id, xorders[id]) = Report(id, RecordOf(id))
    BY DEF ViewConverges
  <2>1. Latest(id).type = "OrderUpdate" /\ Latest(id).order_link_id = id
    BY DEF Latest, Report
  <2>2. stream[id] \in Seq(OrderUpdates \cup Executions)
    BY DEF Base, TypeOK
  <2>3. stream[id] # <<>> => Len(stream[id]) \in DOMAIN stream[id]
    BY <2>2, PlacesOfTail
  <2>4. /\ \A j \in DOMAIN stream[id] : stream[id][j] # Latest(id)
        /\ \A j \in DOMAIN from_order_handler : from_order_handler[j] # Latest(id)
    BY <2>1 DEF Underway, Range
  <2>5. LastIsKept(id)
    BY DEF QueuesInv, LastIsLatest
  <2>6. QED
    BY <2>3, <2>4, <2>5 DEF LastIsKept, Latest
<1>2. QED
  BY <1>1, QueuesAlways, PTL


-----------------------------------------------------------------------------
\* The exposure.

\* All orders of the loop are of one size, which no amendment changes.
OneSize ==
    /\ \A builder \in Range(from_strategy) : builder.qty = OrderSize
    /\ \A t \in Tasks : tasks[t] \in CreateRequests => tasks[t].qty = OrderSize
    /\ \A t \in Tasks : tasks[t] \in AmendRequests => tasks[t].qty \in {NoChange, OrderSize}
    /\ \A id \in Ids : Working(id) => xorders[id].qty = OrderSize

\* An execution is of an order the exchange has, on its side.
ExecutionsPlaced ==
    \A e \in executed : /\ xorders[e.order_link_id] # Absent
                        /\ RecordOf(e.order_link_id).side = e.order_side

\* What an order may still trade.
Left(id) == IF xorders[id] = Absent THEN OrderSize ELSE Remaining(id)

BuysBounded ==
    /\ wallet < MaxInventory + OrderSize
    /\ \A id \in Ids : Live(id) /\ RecordOf(id).side = "Buy" =>
           wallet + Left(id) < MaxInventory + OrderSize

SellsBounded ==
    /\ wallet > MinInventory - OrderSize
    /\ \A id \in Ids : Live(id) /\ RecordOf(id).side = "Sell" =>
           wallet - Left(id) > MinInventory - OrderSize

ExposureInv == OneSize /\ ExecutionsPlaced /\ BuysBounded /\ SellsBounded

\* The account starts within the limits the risk manager keeps it in.
StartsWithinLimits ==
    /\ MinInventory - OrderSize < InitialInventory
    /\ InitialInventory < MaxInventory + OrderSize

\* No execution costs more of the asset than it brings in.
FeesAreCovered == \A qty \in 1 .. OrderSize : Fee <= qty


\* The commands in the channel: the strategy only asks for orders of its size.
LEMMA CommandSizes ==
    ASSUME Base, OneSize, [Next]_trading_vars
    PROVE  \A builder \in Range(from_strategy') : builder.qty = OrderSize
<1>1. ASSUME UNCHANGED from_strategy
      PROVE  \A builder \in Range(from_strategy') : builder.qty = OrderSize
  BY <1>1 DEF OneSize
<1>2. CASE StrategyStep
  <2>1. ASSUME NEW builders \in Seq(Builders), from_strategy' = from_strategy \o builders,
               \A builder \in Range(builders) : builder.qty = OrderSize
        PROVE  \A builder \in Range(from_strategy') : builder.qty = OrderSize
    BY <2>1, RangeConcat DEF OneSize, Base, TypeOK
  <2>2. <<>> \in Seq(Builders) /\ Range(<<>>) = {}
    BY DEF Range
  <2>3. ASSUME NEW quote \in Quotes
        PROVE  /\ Quote(quote[1], quote[2]) \in Seq(Builders)
               /\ \A builder \in Range(Quote(quote[1], quote[2])) : builder.qty = OrderSize
    <3>1. /\ [side |-> "Buy", price |-> quote[1], qty |-> OrderSize] \in Builders
          /\ [side |-> "Sell", price |-> quote[2], qty |-> OrderSize] \in Builders
      BY TradingAssumption DEF Builders, Sides
    <3>2. QED
      BY <3>1 DEF Quote, Range
  <2>4. QED
    BY <1>2, <2>1, <2>2, <2>3
       DEF StrategyStep, StrategySeesNoBook, StrategyQuotes, StrategyCycle
<1>3. CASE OmsRecvFromStrategy
  BY <1>3, RangeTail
     DEF OmsRecvFromStrategy, RecvFromStrategy, OneSize, Base, TypeOK
<1>4. CASE OmsRecvFromOrderHandler
  BY <1>1, <1>4 DEF OmsRecvFromOrderHandler, RecvFromOrderHandler
<1>5. CASE \E t \in Tasks : TaskStep(t)
  BY <1>1, <1>5
     DEF TaskStep, ExchangeAccepts, ExchangeAcceptsUnheard, ExchangeRefuses, ExchangeAmends,
         RequestEnds, TaskReportsFailure, others_of_gateway
<1>6. CASE MarketStep \/ WebsocketStep \/ UNCHANGED trading_vars
  BY <1>1, <1>6
     DEF MarketStep, ExchangeFills, ExchangeCancels, WebsocketStep, Deliver, DeliverTwice,
         ProcessResponse, trading_vars, vars_of_oms
<1>7. QED
  BY <1>2, <1>3, <1>4, <1>5, <1>6 DEF Next, OmsStep

-----------------------------------------------------------------------------
\* The steps of the loop, by what they do to the exposure.

\* An order that trades or may yet goes on as it was.
StaysLive(id) ==
    /\ Live(id)
    /\ Left(id)' = Left(id)
    /\ RecordOf(id)'.side = RecordOf(id).side

ExposureRests == wallet' = wallet /\ \A id \in Ids : Live(id)' => StaysLive(id)

\* A new order of a side nothing is open on, with the inventory within its limit.
ExposureOpens(side, new) ==
    /\ wallet' = wallet
    /\ RecordOf(new)'.side = side
    /\ Left(new)' = OrderSize
    /\ ~LimitReached(side, inventory)
    /\ ExistingOrders(orders, side) = {}
    /\ \A id \in Ids : Live(id)' => StaysLive(id) \/ id = new

\* An order trades.
ExposureTrades(id, qty) ==
    /\ Live(id)
    /\ qty <= Left(id)
    /\ Left(id)' = Left(id) - qty
    /\ RecordOf(id)'.side = RecordOf(id).side
    /\ wallet' = wallet + Traded(RecordOf(id).side, qty)
    /\ \A x \in Ids : Live(x)' => StaysLive(x) \/ x = id

ExposureStep ==
    \/ ExposureRests
    \/ \E side \in Sides, new \in Ids : ExposureOpens(side, new)
    \/ \E id \in Ids, qty \in 1 .. OrderSize : ExposureTrades(id, qty)

\* An order that works, or that is being submitted, has a record.
LEMMA LiveIsKnown ==
    ASSUME Base, NEW id \in Ids, Live(id)
    PROVE  IsKnown(id)
BY DEF Live, Working, Submitting, Base, XOrdersKnown, RequestsKnown

\* Neither the exchange nor a submission moves.
LEMMA RestingExposure ==
    ASSUME Base, OneSize, UNCHANGED exchange_vars, NothingSpawned,
           \A t \in Tasks : tasks'[t] \in AmendRequests =>
               tasks'[t] = tasks[t] \/ tasks'[t].qty \in {NoChange, OrderSize},
           \A builder \in Range(from_strategy') : builder.qty = OrderSize,
           \A id : IsKnown(id) => IsKnown(id)' /\ RecordOf(id)'.side = RecordOf(id).side
    PROVE  ExposureRests /\ OneSize'
<1>1. /\ wallet' = wallet
      /\ \A id : Working(id)' <=> Working(id)
      /\ \A id \in Ids : Left(id)' = Left(id)
      /\ xorders' = xorders
  BY DEF exchange_vars, trades, Working, Left, Remaining
<1>2. \A id \in Ids : Live(id)' => Live(id)
  BY <1>1 DEF Live, Submitting, NothingSpawned
<1>3. ExposureRests
  BY <1>1, <1>2, LiveIsKnown DEF ExposureRests, StaysLive
<1>4. OneSize'
  BY <1>1 DEF OneSize, NothingSpawned
<1>5. QED
  BY <1>3, <1>4

\* How the steps of the tasks change what is exposed.
LEMMA TaskExposure ==
    ASSUME Base, OneSize, QuietStep \/ RefuseStep \/ FailureStep \/ EndStep,
           \A builder \in Range(from_strategy') : builder.qty = OrderSize
    PROVE  ExposureRests /\ OneSize'
<1>1. UNCHANGED <<book, exchange_vars>>
  BY DEF QuietStep, RefuseStep, FailureStep, EndStep
<1>2. \A id : (IsKnown(id)' <=> IsKnown(id)) /\ RecordOf(id)' = RecordOf(id)
  BY <1>1, SameBook
<1>3. ASSUME NEW t \in Tasks, tasks' = [tasks EXCEPT ![t] = Idle]
      PROVE  ExposureRests /\ OneSize'
  <2>1. \A u \in Tasks : tasks'[u] = IF u = t THEN Idle ELSE tasks[u]
    BY <1>3, TaskAnswered
  <2>2. NothingSpawned /\ \A u \in Tasks : tasks'[u] \in AmendRequests => tasks'[u] = tasks[u]
    BY <2>1, KindsApart DEF NothingSpawned, Requests
  <2>3. QED
    BY <1>1, <1>2, <2>2, RestingExposure
<1>4. CASE QuietStep
  BY <1>1, <1>2, <1>4, RestingExposure DEF QuietStep, NothingSpawned
<1>5. CASE RefuseStep
  <2>1. PICK t \in Tasks : tasks[t] \in CreateRequests /\ tasks' = [tasks EXCEPT ![t] = Failed(t)]
    BY <1>5 DEF RefuseStep
  <2>2. \A u \in Tasks : tasks'[u] = IF u = t THEN Failed(t) ELSE tasks[u]
    BY <2>1, TaskAnswered
  <2>3. Failed(t) \in FailedRequests
    BY <2>1, FailureTypes
  <2>4. \A u \in Tasks : tasks'[u] \in CreateRequests \cup AmendRequests => tasks'[u] = tasks[u]
    BY <2>2, <2>3, KindsApart
  <2>5. \A x : Live(x)' => Live(x)
    BY <1>1, <2>4 DEF Live, Submitting, Working, exchange_vars
  <2>6. /\ wallet' = wallet /\ xorders' = xorders
        /\ \A id \in Ids : Left(id)' = Left(id)
    BY <1>1 DEF exchange_vars, trades, Left, Remaining
  <2>7. ExposureRests
    BY <1>2, <2>5, <2>6 DEF ExposureRests, StaysLive
  <2>8. OneSize'
    BY <2>4, <2>6 DEF OneSize, Working
  <2>9. QED
    BY <2>7, <2>8
<1>6. QED
  BY <1>3, <1>4, <1>5 DEF FailureStep, EndStep

\* How a command of the strategy changes what is exposed.
LEMMA CommandExposure ==
    ASSUME Base, OneSize, CommandStep,
           \A builder \in Range(from_strategy') : builder.qty = OrderSize
    PROVE  ExposureStep /\ OneSize'
<1>1. /\ UNCHANGED exchange_vars
      /\ \E builder \in Builders :
             /\ builder = Head(from_strategy) /\ from_strategy # <<>>
             /\ \/ \E new \in Ids, t \in Tasks : SubmitEffect(builder, new, t)
                \/ AmendEffect(builder)
  BY CommandRecords
<1>2. PICK builder \in Builders :
          /\ builder = Head(from_strategy) /\ from_strategy # <<>>
          /\ \/ \E new \in Ids, t \in Tasks : SubmitEffect(builder, new, t)
             \/ AmendEffect(builder)
  BY <1>1
<1>3. builder.qty = OrderSize
  BY <1>2, RangeTail DEF OneSize, Base, TypeOK
<1>4. CASE AmendEffect(builder)
  <2>1. \A id : (IsKnown(id)' <=> IsKnown(id)) /\ RecordOf(id)' = RecordOf(id)
    BY <1>4, SameBook DEF AmendEffect
  <2>2. /\ NothingSpawned
        /\ \A t \in Tasks : tasks'[t] \in AmendRequests =>
               tasks'[t] = tasks[t] \/ tasks'[t].qty \in {NoChange, OrderSize}
    BY <1>3, <1>4, KindsApart DEF AmendEffect, NothingSpawned
  <2>3. QED
    BY <1>1, <2>1, <2>2, RestingExposure DEF ExposureStep
<1>5. ASSUME NEW new \in Ids, NEW t \in Tasks, SubmitEffect(builder, new, t)
      PROVE  ExposureStep /\ OneSize'
  <2>1. /\ ~LimitReached(builder.side, inventory)
        /\ ExistingOrders(orders, builder.side) = {}
        /\ ~IsKnown(new)
        /\ \A id : IsKnown(id) => RecordOf(id)' = RecordOf(id)
        /\ RecordOf(new)'.side = builder.side
        /\ builder.side \in Sides
    BY <1>5 DEF SubmitEffect, Build, Builders
  <2>2. \A u \in Tasks : tasks'[u] = IF u = t THEN CreateRequest(new, builder) ELSE tasks[u]
    BY <1>5, TaskAnswered DEF SubmitEffect
  <2>3. /\ CreateRequest(new, builder) \in CreateRequests
        /\ CreateRequest(new, builder) \notin AmendRequests
        /\ CreateRequest(new, builder).qty = OrderSize
        /\ CreateRequest(new, builder).order_link_id = new
    BY <1>3, <1>5, KindsApart DEF SubmitEffect, CreateRequest
  <2>4. /\ wallet' = wallet /\ xorders' = xorders
        /\ \A id \in Ids : Left(id)' = Left(id)
        /\ xorders[new] = Absent
    BY <1>1, <2>1 DEF exchange_vars, trades, Left, Remaining, Base, XOrdersKnown
  <2>5. \A id : Live(id)' => Live(id) \/ id = new
    BY <2>2, <2>3, <2>4 DEF Live, Submitting, Working
  <2>6. ExposureOpens(builder.side, new)
    BY <2>1, <2>4, <2>5, LiveIsKnown DEF ExposureOpens, StaysLive, Left
  <2>7. OneSize'
    BY <2>2, <2>3, <2>4 DEF OneSize, Working
  <2>8. QED
    BY <2>1, <2>6, <2>7 DEF ExposureStep
<1>6. QED
  BY <1>2, <1>4, <1>5

\* How an event changes what is exposed.
LEMMA EventExposure ==
    ASSUME Base, OneSize, EventStep,
           \A builder \in Range(from_strategy') : builder.qty = OrderSize
    PROVE  ExposureRests /\ OneSize'
<1>1. PICK event \in OrderEvents : EventEffect(event)
  BY EventRecords
<1>2. ASSUME NEW id, IsKnown(id)
      PROVE  IsKnown(id)' /\ RecordOf(id)'.side = RecordOf(id).side
  <2>1. RecordOf(id) \in Orders
    BY <1>2, KnownRecord
  <2>2. /\ Updated(RecordOf(id), event).side = RecordOf(id).side
        /\ [RecordOf(id) EXCEPT !.order_status = "Rejected"].side = RecordOf(id).side
    BY <2>1 DEF Orders, Updated
  <2>3. QED
    BY <1>1, <1>2, <2>2 DEF EventEffect
<1>3. NothingSpawned /\ \A t \in Tasks : tasks'[t] \in AmendRequests => tasks'[t] = tasks[t]
  BY <1>1, KindsApart DEF EventEffect, NothingSpawned
<1>4. QED
  BY <1>1, <1>2, <1>3, RestingExposure DEF EventEffect

\* A submission is accepted: what may trade is what was asked for.
LEMMA AcceptExposure ==
    ASSUME Base, OrdersInv, OneSize, AcceptStep,
           \A builder \in Range(from_strategy') : builder.qty = OrderSize
    PROVE  ExposureRests /\ OneSize'
<1>1. PICK t \in Tasks, id \in Ids :
          /\ tasks[t] \in CreateRequests
          /\ id = tasks[t].order_link_id
          /\ IsKnown(id)
          /\ Accepted(tasks[t]) \in XOrders
          /\ xorders' = [xorders EXCEPT ![id] = Accepted(tasks[t])]
          /\ \/ tasks' = [tasks EXCEPT ![t] = Idle]
             \/ tasks' = [tasks EXCEPT ![t] = Failed(t)]
          /\ UNCHANGED <<book, trades>>
  BY DEF AcceptStep
<1> DEFINE xorder == Accepted(tasks[t])
<1>2. /\ \A x \in Ids : xorders'[x] = IF x = id THEN xorder ELSE xorders[x]
      /\ xorder # Absent
  BY <1>1, AbsentAssumption DEF Base, TypeOK
<1>3. xorder.qty = OrderSize /\ xorder.filled_qty = 0
  BY <1>1 DEF Accepted, OneSize
<1>4. xorders[id] = Absent /\ Live(id)
  BY <1>1 DEF OrdersInv, SubmittedOnce, Live, Submitting
<1> HIDE DEF xorder
<1>5. \A u \in Tasks : tasks'[u] \in CreateRequests \cup AmendRequests => tasks'[u] = tasks[u]
  BY <1>1, TaskAnswered, KindsApart, FailureTypes DEF Requests
<1>6. OrderSize \in Nat
  BY TradingAssumption, QuantitiesAssumption
<1>7. \A x \in Ids : Left(x)' = Left(x)
  BY <1>2, <1>3, <1>4, <1>6 DEF Left, Remaining
<1>8. \A x \in Ids : Live(x)' => Live(x)
  <2>1. \A x \in Ids : x # id => (Working(x)' <=> Working(x))
    BY <1>2 DEF Working
  <2>2. QED
    BY <1>4, <1>5, <2>1 DEF Live, Submitting
<1>9. ExposureRests
  BY <1>1, <1>7, <1>8, SameBook DEF ExposureRests, StaysLive, trades
<1>10. OneSize'
  BY <1>2, <1>3, <1>5 DEF OneSize, Working
<1>11. QED
  BY <1>9, <1>10

\* What a change of an order that works does to the others: nothing.
LEMMA ChangeExposure ==
    ASSUME Base, OrdersInv, NEW id \in Ids, NEW xorder \in XOrders, ChangeStep(id, xorder),
           \A t \in Tasks : tasks'[t] \in CreateRequests => tasks'[t] = tasks[t]
    PROVE  /\ xorders[id] \in XOrders /\ xorders[id] # Absent /\ xorder # Absent
           /\ Live(id) /\ RecordOf(id).side = xorders[id].side
           /\ \A x \in Ids : xorders'[x] = IF x = id THEN xorder ELSE xorders[x]
           /\ \A x : RecordOf(x)' = RecordOf(x)
           /\ \A x \in Ids : x # id => (Working(x)' <=> Working(x)) /\ (Live(x)' => StaysLive(x))
           /\ Live(id)' => Working(id)'
<1>1. /\ Working(id) /\ xorders' = [xorders EXCEPT ![id] = xorder] /\ UNCHANGED book
  BY DEF ChangeStep
<1>2. /\ \A x \in Ids : xorders'[x] = IF x = id THEN xorder ELSE xorders[x]
      /\ xorder # Absent
      /\ \A x : RecordOf(x)' = RecordOf(x)
  BY <1>1, AbsentAssumption, SameBook DEF Base, TypeOK
<1>3. \A x \in Ids : x # id => (Working(x)' <=> Working(x)) /\ Left(x)' = Left(x)
  BY <1>2 DEF Working, Left, Remaining
<1>4. \A x : (\E t \in Tasks : Submitting(t, x)') => \E t \in Tasks : Submitting(t, x)
  BY DEF Submitting
<1>5. xorders[id] # Absent /\ \A t \in Tasks : ~Submitting(t, id)
  BY <1>1 DEF Working, OrdersInv, SubmittedOnce, Submitting
<1>6. \A x \in Ids : x # id /\ Live(x)' => StaysLive(x)
  BY <1>2, <1>3, <1>4 DEF Live, StaysLive
<1>7. Live(id)' => Working(id)'
  BY <1>4, <1>5 DEF Live
<1>8. QED
  BY <1>1, <1>2, <1>3, <1>6, <1>7, WorkingOrder DEF Live

\* How a step of the exchange that fills nothing changes what is exposed.
LEMMA UntradedExposure ==
    ASSUME Base, OrdersInv, OneSize, AmendStep \/ CancelStep,
           \A builder \in Range(from_strategy') : builder.qty = OrderSize
    PROVE  ExposureRests /\ OneSize'
<1>1. CASE AmendStep
  <2>1. PICK id \in Ids, xorder \in XOrders, t \in Tasks :
            /\ ChangeStep(id, xorder)
            /\ xorder.filled_qty = xorders[id].filled_qty
            /\ xorder.qty = xorders[id].qty \/ tasks[t].qty \in {xorder.qty} \ {NoChange}
            /\ tasks[t] \in AmendRequests
            /\ tasks' = [tasks EXCEPT ![t] = Idle]
            /\ UNCHANGED trades
    BY <1>1 DEF AmendStep
  <2>2. \A u \in Tasks : tasks'[u] \in CreateRequests \cup AmendRequests => tasks'[u] = tasks[u]
    BY <2>1, TaskAnswered, KindsApart DEF Requests
  <2>3. /\ xorders[id] # Absent /\ xorder # Absent /\ Live(id) /\ Working(id)
        /\ \A x \in Ids : xorders'[x] = IF x = id THEN xorder ELSE xorders[x]
        /\ \A x : RecordOf(x)' = RecordOf(x)
        /\ \A x \in Ids : x # id => (Working(x)' <=> Working(x)) /\ (Live(x)' => StaysLive(x))
    BY <2>1, <2>2, ChangeExposure DEF ChangeStep
  <2>4. xorders[id].qty = OrderSize /\ xorder.qty = OrderSize
    BY <2>1, <2>3 DEF OneSize
  <2>5. Left(id)' = Left(id)
    BY <2>1, <2>3, <2>4 DEF Left, Remaining
  <2>6. ExposureRests
    BY <2>1, <2>3, <2>5 DEF ExposureRests, StaysLive, trades
  <2>7. OneSize'
    BY <2>2, <2>3, <2>4 DEF OneSize
  <2>8. QED
    BY <2>6, <2>7
<1>2. CASE CancelStep
  <2>1. PICK id \in Ids, xorder \in XOrders :
            /\ ChangeStep(id, xorder)
            /\ xorder.order_status \in {"Cancelled", "PartiallyFilledCanceled"}
            /\ UNCHANGED <<tasks, trades>>
    BY <1>2 DEF CancelStep
  <2>2. /\ \A x \in Ids : xorders'[x] = IF x = id THEN xorder ELSE xorders[x]
        /\ \A x \in Ids : x # id => (Working(x)' <=> Working(x)) /\ (Live(x)' => StaysLive(x))
        /\ Live(id)' => Working(id)'
    BY <2>1, ChangeExposure
  <2>3. ~Working(id)'
    BY <2>1, <2>2 DEF Working
  <2>4. ExposureRests
    BY <2>1, <2>2, <2>3 DEF ExposureRests, trades
  <2>5. OneSize'
    BY <2>1, <2>2, <2>3 DEF OneSize
  <2>6. QED
    BY <2>4, <2>5
<1>3. QED
  BY <1>1, <1>2

\* How a fill changes what is exposed.
LEMMA FillExposure ==
    ASSUME Base, OrdersInv, OneSize, FillStep,
           \A builder \in Range(from_strategy') : builder.qty = OrderSize
    PROVE  ExposureStep /\ OneSize'
<1>1. PICK id \in Ids, xorder \in XOrders, qty \in 1 .. OrderSize :
          /\ ChangeStep(id, xorder)
          /\ xorder.filled_qty = xorders[id].filled_qty + qty
          /\ xorder.qty = xorders[id].qty
          /\ qty <= xorders[id].qty - xorders[id].filled_qty
          /\ wallet' = wallet + Traded(xorders[id].side, qty)
          /\ UNCHANGED tasks
  BY DEF FillStep
<1>2. /\ xorders[id] \in XOrders /\ xorders[id] # Absent /\ xorder # Absent
      /\ Live(id) /\ RecordOf(id).side = xorders[id].side /\ Working(id)
      /\ \A x \in Ids : xorders'[x] = IF x = id THEN xorder ELSE xorders[x]
      /\ \A x : RecordOf(x)' = RecordOf(x)
      /\ \A x \in Ids : x # id => (Working(x)' <=> Working(x)) /\ (Live(x)' => StaysLive(x))
  BY <1>1, ChangeExposure DEF ChangeStep
<1>3. /\ xorders[id].qty \in Int /\ xorders[id].filled_qty \in Int /\ qty \in Int
  <2>1. xorders[id].qty \in Quantities /\ xorders[id].filled_qty \in Nat
    BY <1>2 DEF XOrders
  <2>2. OrderSize \in Nat
    BY TradingAssumption, QuantitiesAssumption
  <2>3. qty \in Int /\ \A q \in Quantities : q \in Int
    BY <2>2, QuantitiesAssumption
  <2>4. QED
    BY <2>1, <2>3
<1>4. Left(id)' = Left(id) - qty /\ qty <= Left(id)
  BY <1>1, <1>2, <1>3 DEF Left, Remaining
<1>5. ExposureTrades(id, qty)
  BY <1>1, <1>2, <1>4 DEF ExposureTrades
<1>6. OneSize'
  BY <1>1, <1>2 DEF OneSize
<1>7. QED
  BY <1>5, <1>6 DEF ExposureStep

\* Every step changes what is exposed in one of the ways the bounds allow for.
LEMMA NextExposureStep ==
    ASSUME Base, OrdersInv, OneSize, [Next]_trading_vars
    PROVE  ExposureStep /\ OneSize'
BY NextBase, CommandSizes, TaskExposure, CommandExposure, EventExposure, AcceptExposure,
   UntradedExposure, FillExposure DEF LoopStep, ExposureStep


-----------------------------------------------------------------------------
\* What is not counted yet.

\* With only sales left to count the sums never rise, with only purchases they never fall.
LEMMA SumsOfSales ==
    ASSUME Base, NEW g \in [0 .. MaxExecutions -> Int], Accumulates(g),
           \A e \in Uncounted : Weight(e) <= 0
    PROVE  g[MaxExecutions] <= 0
<1> DEFINE S == {n \in 0 .. MaxExecutions : g[n] > 0}
<1>1. MaxExecutions \in Nat
  BY TradingAssumption
<1>2. S = {}
  <2> SUFFICES ASSUME S # {} PROVE FALSE
    OBVIOUS
  <2>1. PICK n \in S : \A m \in S : n <= m
    <3>1. S \subseteq Nat
      BY <1>1
    <3> HIDE DEF S
    <3>2. QED
      BY <3>1, LeastMember
  <2>2. n \in 1 .. MaxExecutions
    BY <1>1, <2>1 DEF Accumulates
  <2>3. n - 1 \in 0 .. MaxExecutions /\ g[n] \in Int /\ g[n - 1] \in Int
    BY <1>1, <2>2
  <2>4. g[n] <= g[n - 1]
    <3>1. CASE \E e \in Uncounted : e.exec_id = n
      <4>1. PICK e \in Uncounted : e.exec_id = n
        BY <3>1
      <4>2. e \in PossibleExecutions
        BY DEF Uncounted, Base, ExecutionsNumbered
      <4>3. Weight(e) \in Int /\ Weight(e) <= 0
        BY <4>2, ExecutionWeight
      <4>4. g[n] = g[n - 1] + Weight(e)
        BY <4>1 DEF Accumulates
      <4>5. QED
        BY <2>3, <4>3, <4>4
    <3>2. CASE \A e \in Uncounted : e.exec_id # n
      BY <2>2, <2>3, <3>2 DEF Accumulates
    <3>3. QED
      BY <3>1, <3>2
  <2>5. n - 1 \in S
    BY <2>1, <2>3, <2>4
  <2>6. QED
    BY <2>1, <2>2, <2>5
<1>3. QED
  BY <1>1, <1>2

\* With only purchases left to count the sums never fall below zero.
LEMMA SumsOfPurchases ==
    ASSUME Base, NEW g \in [0 .. MaxExecutions -> Int], Accumulates(g),
           \A e \in Uncounted : Weight(e) >= 0
    PROVE  g[MaxExecutions] >= 0
<1> DEFINE S == {n \in 0 .. MaxExecutions : g[n] < 0}
<1>1. MaxExecutions \in Nat
  BY TradingAssumption
<1>2. S = {}
  <2> SUFFICES ASSUME S # {} PROVE FALSE
    OBVIOUS
  <2>1. PICK n \in S : \A m \in S : n <= m
    <3>1. S \subseteq Nat
      BY <1>1
    <3> HIDE DEF S
    <3>2. QED
      BY <3>1, LeastMember
  <2>2. n \in 1 .. MaxExecutions
    BY <1>1, <2>1 DEF Accumulates
  <2>3. n - 1 \in 0 .. MaxExecutions /\ g[n] \in Int /\ g[n - 1] \in Int
    BY <1>1, <2>2
  <2>4. g[n] >= g[n - 1]
    <3>1. CASE \E e \in Uncounted : e.exec_id = n
      <4>1. PICK e \in Uncounted : e.exec_id = n
        BY <3>1
      <4>2. e \in PossibleExecutions
        BY DEF Uncounted, Base, ExecutionsNumbered
      <4>3. Weight(e) \in Int /\ Weight(e) >= 0
        BY <4>2, ExecutionWeight
      <4>4. g[n] = g[n - 1] + Weight(e)
        BY <4>1 DEF Accumulates
      <4>5. QED
        BY <2>3, <4>3, <4>4
    <3>2. CASE \A e \in Uncounted : e.exec_id # n
      BY <2>2, <2>3, <3>2 DEF Accumulates
    <3>3. QED
      BY <3>1, <3>2
  <2>5. n - 1 \in S
    BY <2>1, <2>3, <2>4
  <2>6. QED
    BY <2>1, <2>2, <2>5
<1>3. QED
  BY <1>1, <1>2

\* With nothing open on a side, nothing of that side is left to count.
LEMMA OtherSideUncounted ==
    ASSUME ~AmbiguousOutcomes, Base, OrdersInv, QueuesInv, ExecutionsPlaced, NEW side,
           ExistingOrders(orders, side) = {}
    PROVE  \A e \in Uncounted : e.order_side # side
<1> SUFFICES ASSUME NEW e \in Uncounted, NEW id, id = e.order_link_id, e.order_side = side
             PROVE  FALSE
  OBVIOUS
<1>1. /\ IsKnown(id) /\ xorders[id] # Absent
      /\ RecordOf(id).side = side
  BY DEF Uncounted, Base, ExecutionsNumbered, ExecutionsPlaced
<1>2. id \in Ids /\ id_map[id] \in DOMAIN orders /\ RecordOf(id) = orders[id_map[id]]
  BY <1>1, KnownRecord
<1>3. RecordOf(id).order_status \in RecordStatuses \ XClosed
  BY <1>1, <1>2 DEF OrdersInv, RecordsGenuine, QueuesInv, ClosedIsCounted
<1>4. RecordOf(id).order_status # "Rejected"
  BY <1>1, <1>2 DEF OrdersInv, FailedAreNotPlaced, NeverPlaced
<1>5. IsOpen(RecordOf(id).order_status)
  BY <1>3, <1>4 DEF RecordStatuses, XStatuses, XClosed, IsOpen, OpenStatuses
<1>6. QED
  BY <1>1, <1>2, <1>5 DEF ExistingOrders

\* The wallet is then on the safe side of the inventory the limit is checked against.
LEMMA WalletAtSubmission ==
    ASSUME ~AmbiguousOutcomes, FeesAreCovered,
           Base, OrdersInv, AccountsInv, QueuesInv, ExecutionsPlaced, NEW side \in Sides,
           ExistingOrders(orders, side) = {}, ~LimitReached(side, inventory)
    PROVE  /\ side = "Buy" => wallet < MaxInventory
           /\ side = "Sell" => wallet > MinInventory
<1>1. PICK g \in [0 .. MaxExecutions -> Int] : Accumulates(g)
  BY DEF AccountsInv
<1>2. /\ wallet = inventory + g[MaxExecutions]
      /\ g[MaxExecutions] \in Int /\ inventory \in Int
      /\ MaxInventory \in Int /\ MinInventory \in Int
  BY <1>1, TradingAssumption, InventoryLimitsAssumption DEF Accumulates, Base, TypeOK, OmsTypeOK
<1>3. \A e \in Uncounted :
          /\ e.order_side = "Buy" => Weight(e) >= 0
          /\ e.order_side = "Sell" => Weight(e) <= 0
          /\ e.order_side \in Sides
  <2> SUFFICES ASSUME NEW e \in Uncounted
               PROVE  /\ e.order_side = "Buy" => Weight(e) >= 0
                      /\ e.order_side = "Sell" => Weight(e) <= 0
                      /\ e.order_side \in Sides
    OBVIOUS
  <2>1. e.order_side \in Sides /\ e.exec_qty \in 1 .. OrderSize
    BY DEF Uncounted, Base, ExecutionsNumbered, PossibleExecutions
  <2>2. OrderSize \in Nat /\ Fee \in Nat
    BY TradingAssumption, QuantitiesAssumption
  <2>3. e.exec_qty \in Int /\ e.exec_qty >= 1 /\ Fee <= e.exec_qty
    BY <2>1, <2>2 DEF FeesAreCovered
  <2>4. QED
    BY <2>1, <2>2, <2>3 DEF Weight, Traded
<1>4. \A e \in Uncounted : e.order_side # side
  BY OtherSideUncounted
<1>5. CASE side = "Buy"
  <2>1. \A e \in Uncounted : Weight(e) <= 0
    BY <1>3, <1>4, <1>5 DEF Sides
  <2>2. g[MaxExecutions] <= 0
    BY <1>1, <2>1, SumsOfSales
  <2>3. inventory < MaxInventory
    BY <1>2, <1>5 DEF LimitReached
  <2>4. QED
    BY <1>2, <1>5, <2>2, <2>3
<1>6. CASE side = "Sell"
  <2>1. \A e \in Uncounted : Weight(e) >= 0
    BY <1>3, <1>4, <1>6 DEF Sides
  <2>2. g[MaxExecutions] >= 0
    BY <1>1, <2>1, SumsOfPurchases
  <2>3. inventory > MinInventory
    BY <1>2, <1>6 DEF LimitReached
  <2>4. QED
    BY <1>2, <1>6, <2>2, <2>3
<1>7. QED
  BY <1>5, <1>6 DEF Sides

-----------------------------------------------------------------------------
\* Every step keeps the exposure within its bounds.

\* The bounds hold at the start.
LEMMA InitExposure ==
    ASSUME StartsWithinLimits, TradingInit
    PROVE  ExposureInv
<1>1. /\ Range(from_strategy) = {} /\ executed = {} /\ wallet = InitialInventory
      /\ \A t \in Tasks : tasks[t] = Idle
      /\ \A id \in Ids : xorders[id] = Absent
  BY DEF TradingInit, OmsInit, Range
<1>2. \A t \in Tasks : tasks[t] \notin CreateRequests \cup AmendRequests
  BY <1>1, KindsApart DEF Requests
<1>3. \A id \in Ids : ~Live(id) /\ ~Working(id)
  BY <1>1, <1>2 DEF Live, Working, Submitting
<1>4. QED
  BY <1>1, <1>2, <1>3
     DEF ExposureInv, OneSize, ExecutionsPlaced, BuysBounded, SellsBounded, StartsWithinLimits

\* Executions stay with the order they are of.
LEMMA NextPlaced ==
    ASSUME Base, ExecutionsPlaced, LoopStep
    PROVE  ExecutionsPlaced'
<1>1. ASSUME executed' = executed,
             \A id \in Ids : xorders[id] # Absent => xorders'[id] # Absent,
             \A id : IsKnown(id) => RecordOf(id)'.side = RecordOf(id).side
      PROVE  ExecutionsPlaced'
  <2>1. ASSUME NEW e \in executed, NEW id, id = e.order_link_id
        PROVE  xorders'[id] # Absent /\ RecordOf(id)'.side = e.order_side
    <3>1. IsKnown(id) /\ id \in Ids
      BY <2>1, KnownRecord DEF Base, ExecutionsNumbered
    <3>2. QED
      BY <1>1, <2>1, <3>1 DEF ExecutionsPlaced
  <2>2. QED
    BY <1>1, <2>1 DEF ExecutionsPlaced
<1>2. CASE QuietStep \/ RefuseStep \/ FailureStep \/ EndStep
  BY <1>1, <1>2, SameBook DEF QuietStep, RefuseStep, FailureStep, EndStep, exchange_vars, trades
<1>3. CASE CommandStep
  <2>1. /\ UNCHANGED exchange_vars
        /\ \E builder \in Builders :
               \/ \E new \in Ids, t \in Tasks : SubmitEffect(builder, new, t)
               \/ AmendEffect(builder)
    BY <1>3, CommandRecords
  <2>2. \A id : IsKnown(id) => RecordOf(id)' = RecordOf(id)
    BY <2>1, SameBook DEF SubmitEffect, AmendEffect
  <2>3. QED
    BY <1>1, <2>1, <2>2 DEF exchange_vars, trades
<1>4. CASE EventStep
  <2>1. PICK event \in OrderEvents : EventEffect(event)
    BY <1>4, EventRecords
  <2>2. ASSUME NEW id, IsKnown(id)
        PROVE  RecordOf(id)'.side = RecordOf(id).side
    <3>1. RecordOf(id) \in Orders
      BY <2>2, KnownRecord
    <3>2. /\ Updated(RecordOf(id), event).side = RecordOf(id).side
          /\ [RecordOf(id) EXCEPT !.order_status = "Rejected"].side = RecordOf(id).side
      BY <3>1 DEF Orders, Updated
    <3>3. QED
      BY <2>1, <2>2, <3>2 DEF EventEffect
  <2>3. QED
    BY <1>1, <2>1, <2>2 DEF EventEffect, exchange_vars, trades
<1>5. ASSUME NEW id \in Ids, NEW xorder \in XOrders,
             xorders' = [xorders EXCEPT ![id] = xorder], UNCHANGED <<book, executed>>
      PROVE  ExecutionsPlaced'
  BY <1>1, <1>5, AbsentAssumption, SameBook DEF Base, TypeOK
<1>6. CASE AcceptStep \/ AmendStep \/ CancelStep
  BY <1>5, <1>6 DEF AcceptStep, AmendStep, CancelStep, ChangeStep, trades
<1>7. CASE FillStep
  <2>1. PICK id \in Ids, xorder \in XOrders, qty \in 1 .. OrderSize :
            /\ ChangeStep(id, xorder)
            /\ executed' = executed \cup {Execution(id, qty)}
    BY <1>7 DEF FillStep
  <2>2. /\ \A x \in Ids : xorders'[x] = IF x = id THEN xorder ELSE xorders[x]
        /\ xorder # Absent
        /\ \A x : RecordOf(x)' = RecordOf(x)
        /\ RecordOf(id).side = xorders[id].side
    BY <2>1, AbsentAssumption, SameBook, WorkingOrder DEF ChangeStep, Base, TypeOK
  <2>3. /\ Execution(id, qty).order_link_id = id
        /\ Execution(id, qty).order_side = xorders[id].side
    BY DEF Execution
  <2>4. ASSUME NEW e \in executed', NEW x, x = e.order_link_id
        PROVE  xorders'[x] # Absent /\ RecordOf(x)'.side = e.order_side
    <3>1. CASE e = Execution(id, qty)
      BY <2>2, <2>3, <2>4, <3>1
    <3>2. CASE e \in executed
      <4>1. x \in Ids
        BY <2>4, <3>2, KnownRecord DEF Base, ExecutionsNumbered
      <4>2. QED
        BY <2>2, <2>4, <3>2, <4>1 DEF ExecutionsPlaced
    <3>3. QED
      BY <2>1, <2>4, <3>1, <3>2
  <2>5. QED
    BY <2>4 DEF ExecutionsPlaced
<1>8. QED
  BY <1>2, <1>3, <1>4, <1>6, <1>7 DEF LoopStep

\* Every step keeps the bounds.
LEMMA NextExposure ==
    ASSUME ~AmbiguousOutcomes, FeesAreCovered,
           Base, OrdersInv, AccountsInv, QueuesInv, ExposureInv, [Next]_trading_vars
    PROVE  ExposureInv'
<1>1. /\ LoopStep /\ ExposureStep /\ OneSize' /\ ExecutionsPlaced'
  BY NextBase, NextExposureStep, NextPlaced DEF ExposureInv
<1>2. /\ wallet \in Int /\ OrderSize \in Nat \ {0} /\ Fee \in Nat
      /\ MaxInventory \in Int /\ MinInventory \in Int
  BY TradingAssumption, QuantitiesAssumption, InventoryLimitsAssumption DEF Base, TypeOK
<1>3. ASSUME NEW id \in Ids PROVE Left(id) \in Int
  <2>1. ASSUME xorders[id] # Absent
        PROVE  xorders[id].qty \in Int /\ xorders[id].filled_qty \in Int
    <3>1. xorders[id].qty \in Quantities /\ xorders[id].filled_qty \in Nat
      BY <2>1 DEF Base, TypeOK, XOrders
    <3>2. \A q \in Quantities : q \in Int
      BY QuantitiesAssumption
    <3>3. QED
      BY <3>1, <3>2
  <2>2. QED
    BY <1>2, <2>1 DEF Left, Remaining
<1>4. CASE ExposureRests
  BY <1>1, <1>4 DEF ExposureRests, StaysLive, ExposureInv, BuysBounded, SellsBounded
<1>5. ASSUME NEW side \in Sides, NEW new \in Ids, ExposureOpens(side, new)
      PROVE  BuysBounded' /\ SellsBounded'
  <2>1. /\ side = "Buy" => wallet < MaxInventory
        /\ side = "Sell" => wallet > MinInventory
    BY <1>5, WalletAtSubmission DEF ExposureOpens, ExposureInv
  <2>2. /\ side = "Buy" => wallet + OrderSize < MaxInventory + OrderSize
        /\ side = "Sell" => wallet - OrderSize > MinInventory - OrderSize
    BY <1>2, <2>1
  <2>3. QED
    BY <1>5, <2>2 DEF ExposureOpens, StaysLive, ExposureInv, BuysBounded, SellsBounded
<1>6. ASSUME NEW id \in Ids, NEW qty \in 1 .. OrderSize, ExposureTrades(id, qty)
      PROVE  BuysBounded' /\ SellsBounded'
  <2>1. /\ Live(id) /\ qty <= Left(id) /\ Left(id)' = Left(id) - qty
        /\ RecordOf(id)'.side = RecordOf(id).side
        /\ wallet' = wallet + Traded(RecordOf(id).side, qty)
        /\ \A x \in Ids : Live(x)' => StaysLive(x) \/ x = id
    BY <1>6 DEF ExposureTrades
  <2>2. qty \in Int /\ Left(id) \in Int /\ Fee <= qty
    BY <1>2, <1>3 DEF FeesAreCovered
  <2>3. RecordOf(id).side \in Sides
    BY <2>1, LiveIsKnown, KnownRecord DEF Orders
  <2>4. \A x \in Ids : Live(x)' /\ x # id =>
            StaysLive(x) /\ RecordOf(x).side # RecordOf(id).side
    BY <2>1 DEF StaysLive, OrdersInv, OneLivePerSide
  <2>5. CASE RecordOf(id).side = "Buy"
    <3>1. wallet' = wallet + (qty - Fee)
      BY <2>1, <2>5 DEF Traded
    <3>2. wallet + Left(id) < MaxInventory + OrderSize
      BY <2>1, <2>5 DEF ExposureInv, BuysBounded
    <3>3. /\ wallet' < MaxInventory + OrderSize
          /\ wallet' + Left(id)' < MaxInventory + OrderSize
      BY <1>2, <2>1, <2>2, <3>1, <3>2
    <3>4. BuysBounded'
      BY <2>4, <2>5, <3>3 DEF BuysBounded, StaysLive
    <3>5. wallet' >= wallet
      BY <1>2, <2>2, <3>1
    <3>6. wallet' > MinInventory - OrderSize
      BY <1>2, <2>2, <3>1 DEF ExposureInv, SellsBounded
    <3>7. ASSUME NEW x \in Ids, Live(x)', RecordOf(x)'.side = "Sell"
          PROVE  wallet' - Left(x)' > MinInventory - OrderSize
      <4>1. x # id /\ StaysLive(x)
        BY <2>1, <2>4, <2>5, <3>7
      <4>2. wallet - Left(x) > MinInventory - OrderSize
        BY <3>7, <4>1 DEF StaysLive, ExposureInv, SellsBounded
      <4>3. Left(x)' = Left(x) /\ Left(x) \in Int
        BY <1>3, <4>1 DEF StaysLive
      <4>4. QED
        BY <1>2, <2>2, <3>1, <4>2, <4>3
    <3>8. QED
      BY <3>4, <3>6, <3>7 DEF SellsBounded
  <2>6. CASE RecordOf(id).side = "Sell"
    <3>1. wallet' = wallet + (-qty)
      BY <2>1, <2>6 DEF Traded
    <3>2. wallet - Left(id) > MinInventory - OrderSize
      BY <2>1, <2>6 DEF ExposureInv, SellsBounded
    <3>3. /\ wallet' > MinInventory - OrderSize
          /\ wallet' - Left(id)' > MinInventory - OrderSize
      BY <1>2, <2>1, <2>2, <3>1, <3>2
    <3>4. SellsBounded'
      BY <2>4, <2>6, <3>3 DEF SellsBounded, StaysLive
    <3>5. wallet' < MaxInventory + OrderSize
      BY <1>2, <2>2, <3>1 DEF ExposureInv, BuysBounded
    <3>6. ASSUME NEW x \in Ids, Live(x)', RecordOf(x)'.side = "Buy"
          PROVE  wallet' + Left(x)' < MaxInventory + OrderSize
      <4>1. x # id /\ StaysLive(x)
        BY <2>1, <2>4, <2>6, <3>6
      <4>2. wallet + Left(x) < MaxInventory + OrderSize
        BY <3>6, <4>1 DEF StaysLive, ExposureInv, BuysBounded
      <4>3. Left(x)' = Left(x) /\ Left(x) \in Int
        BY <1>3, <4>1 DEF StaysLive
      <4>4. QED
        BY <1>2, <2>2, <3>1, <4>2, <4>3
    <3>7. QED
      BY <3>4, <3>5, <3>6 DEF BuysBounded
  <2>7. QED
    BY <2>3, <2>5, <2>6 DEF Sides
<1>7. QED
  BY <1>1, <1>4, <1>5, <1>6 DEF ExposureStep, ExposureInv


-----------------------------------------------------------------------------
\* What the orders of a side may still trade is what its one working order may.

\* The sum over no order.
LEMMA QuantityOfNone ==
    MapThenSumSet(Remaining, {}) = 0
<1> DEFINE F(g) == [s \in SUBSET {} |->
        IF s = {} THEN 0 ELSE LET x == CHOOSE x \in s : TRUE IN Remaining(x) + g[s \ {x}]]
           iter == CHOOSE iter : iter = F(iter)
<1>1. MapThenSumSet(Remaining, {}) = iter[{}]
  BY DEF MapThenSumSet, MapThenFoldSet
<1>2. [s \in SUBSET {} |-> 0] = F([s \in SUBSET {} |-> 0])
  OBVIOUS
<1>3. iter = F(iter)
  BY <1>2
<1>4. QED
  BY <1>1, <1>3

\* The sum over one order.
LEMMA QuantityOfOne ==
    ASSUME NEW id, Remaining(id) \in Int
    PROVE  MapThenSumSet(Remaining, {id}) = Remaining(id)
<1> DEFINE F(g) == [s \in SUBSET {id} |->
        IF s = {} THEN 0 ELSE LET x == CHOOSE x \in s : TRUE IN Remaining(x) + g[s \ {x}]]
           iter == CHOOSE iter : iter = F(iter)
           sum == [s \in SUBSET {id} |-> IF s = {} THEN 0 ELSE Remaining(id)]
<1>1. MapThenSumSet(Remaining, {id}) = iter[{id}]
  BY DEF MapThenSumSet, MapThenFoldSet
<1>2. sum = F(sum)
  <2>1. \A s \in SUBSET {id} : s # {} => s = {id} /\ (CHOOSE x \in s : TRUE) = id /\ s \ {id} = {}
    OBVIOUS
  <2>2. sum[{}] = 0
    OBVIOUS
  <2>3. \A s \in SUBSET {id} : sum[s] = F(sum)[s]
    BY <2>1, <2>2
  <2>4. QED
    BY <2>3
<1>3. iter = F(iter)
  BY <1>2
<1>4. iter[{}] = 0
  BY <1>3
<1>5. iter[{id}] = Remaining(id) + iter[{id} \ {id}]
  <2>1. (CHOOSE x \in {id} : TRUE) = id
    OBVIOUS
  <2> HIDE DEF iter
  <2>2. {id} \in SUBSET {id} /\ {id} # {}
    OBVIOUS
  <2>3. QED
    BY <1>3, <2>1, <2>2
<1>6. {id} \ {id} = {}
  OBVIOUS
<1> HIDE DEF iter
<1>7. iter[{id}] = Remaining(id)
  <2>1. iter[{id}] = Remaining(id) + iter[{}]
    BY <1>5, <1>6
  <2>2. iter[{id}] = Remaining(id) + 0
    BY <1>4, <2>1
  <2>3. Remaining(id) + 0 = Remaining(id)
    BY SMT
  <2>4. QED
    BY <2>2, <2>3
<1>8. QED
  BY <1>1, <1>7

\* At most one order of a side works, so what the side may still trade is that order's.
LEMMA OneOrderQuantity ==
    ASSUME ~AmbiguousOutcomes, Base, OrdersInv, NEW side \in Sides
    PROVE  \/ OpenQuantity(side) = 0
           \/ \E id \in Ids : /\ Live(id)
                             /\ RecordOf(id).side = side
                             /\ OpenQuantity(side) = Left(id)
<1> DEFINE working == {id \in Ids : Working(id) /\ xorders[id].side = side}
<1>1. CASE working = {}
  BY <1>1, QuantityOfNone DEF OpenQuantity
<1>2. CASE working # {}
  <2>1. PICK id \in Ids : Working(id) /\ xorders[id].side = side
    BY <1>2
  <2>2. \A x \in Ids : Working(x) => Live(x) /\ RecordOf(x).side = xorders[x].side
    BY DEF Live, Working, Base, XOrdersKnown
  <2>3. working = {id}
    <3>1. ASSUME NEW x \in working PROVE x = id
      <4>1. x \in Ids /\ Working(x) /\ xorders[x].side = side
        OBVIOUS
      <4>2. /\ Live(x) /\ RecordOf(x).side = side
            /\ Live(id) /\ RecordOf(id).side = side
        BY <2>1, <2>2, <4>1
      <4>3. QED
        BY <2>1, <4>1, <4>2 DEF OrdersInv, OneLivePerSide
    <3>2. id \in working
      BY <2>1
    <3>3. QED
      BY <3>1, <3>2
  <2>4. xorders[id].qty \in Quantities /\ xorders[id].filled_qty \in Nat
    BY <2>1 DEF Base, TypeOK, XOrders, Working
  <2>5. \A q \in Quantities : q \in Int
    BY QuantitiesAssumption
  <2>6. Remaining(id) \in Int
    BY <2>4, <2>5 DEF Remaining
  <2>7. OpenQuantity(side) = Remaining(id)
    BY <2>3, <2>6, QuantityOfOne DEF OpenQuantity
  <2>8. Left(id) = Remaining(id)
    BY <2>1 DEF Left, Working
  <2>9. QED
    BY <2>1, <2>2, <2>7, <2>8
<1>3. QED
  BY <1>1, <1>2

\* The position stays within the limits of the risk manager and one order, whatever the
\* inventory it checks has not been told yet: an order is opened when none of its side is
\* left (Strategy::send_orders), and the executions still to be counted are then of the
\* other side and only take the position away from the limit.
THEOREM ExposureStaysBounded ==
    ~AmbiguousOutcomes /\ Delivery = "ordered" /\ StartsWithinLimits /\ FeesAreCovered
        => (Spec => []ExposureBounded)
<1> SUFFICES ASSUME ~AmbiguousOutcomes, Delivery = "ordered", StartsWithinLimits,
                    FeesAreCovered
             PROVE  Spec => []ExposureBounded
  OBVIOUS
<1>1. TradingInit => ExposureInv
  BY InitExposure
<1>2. /\ (Base /\ OrdersInv /\ AccountsInv /\ QueuesInv) /\ ExposureInv
      /\ [Next]_trading_vars
      => ExposureInv'
  BY NextExposure
<1>3. Base /\ OrdersInv /\ ExposureInv => ExposureBounded
  <2> SUFFICES ASSUME Base, OrdersInv, ExposureInv PROVE ExposureBounded
    OBVIOUS
  <2>1. wallet \in Int
    BY DEF Base, TypeOK
  <2>2. wallet + OpenQuantity("Buy") < MaxInventory + OrderSize
    BY <2>1, OneOrderQuantity DEF ExposureInv, BuysBounded, Sides
  <2>3. wallet - OpenQuantity("Sell") > MinInventory - OrderSize
    BY <2>1, OneOrderQuantity DEF ExposureInv, SellsBounded, Sides
  <2>4. QED
    BY <2>2, <2>3 DEF ExposureBounded
<1>4. QED
  BY <1>1, <1>2, <1>3, QueuesAlways, PTL DEF Spec
=============================================================================
