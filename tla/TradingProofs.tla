--------------------------- MODULE TradingProofs ----------------------------
(***************************************************************************)
(* Theorems about the trading loop (Trading): for every set of prices,     *)
(* quantities and quotes, every limit, fee and length of the channels,     *)
(* reports delivered in any order and twice, and answers that get lost.    *)
(* Here its types, and its accounts: the inventory follows the wallet.     *)
(***************************************************************************)
EXTENDS Trading, OmsProofs

-----------------------------------------------------------------------------
\* What the operators on sequences do to the set of their elements.

\* Append adds one element.
LEMMA RangeAppend ==
    ASSUME NEW S, NEW s \in Seq(S), NEW e \in S
    PROVE  /\ Append(s, e) \in Seq(S)
           /\ Range(Append(s, e)) = Range(s) \cup {e}
BY AppendProperties DEF Range

\* A concatenation has the elements of both.
LEMMA RangeConcat ==
    ASSUME NEW S, NEW s \in Seq(S), NEW u \in Seq(S)
    PROVE  /\ s \o u \in Seq(S)
           /\ Range(s \o u) = Range(s) \cup Range(u)
BY RangeConcatenation, ConcatProperties

\* Head and tail have the elements of the whole.
LEMMA RangeTail ==
    ASSUME NEW S, NEW s \in Seq(S), s # <<>>
    PROVE  /\ Tail(s) \in Seq(S)
           /\ Head(s) \in S
           /\ Range(s) = {Head(s)} \cup Range(Tail(s))
<1>1. /\ Tail(s) \in Seq(S) /\ Head(s) \in S /\ Len(s) \in Nat /\ Len(s) >= 1
      /\ DOMAIN s = 1 .. Len(s) /\ DOMAIN Tail(s) = 1 .. Len(s) - 1
      /\ Head(s) = s[1] /\ \A i \in 1 .. Len(s) - 1 : Tail(s)[i] = s[i + 1]
  BY HeadTailProperties, LenProperties, EmptySeq
<1>2. Range(Tail(s)) \subseteq Range(s)
  BY <1>1 DEF Range
<1>3. ASSUME NEW e \in Range(s), e # Head(s)
      PROVE  e \in Range(Tail(s))
  <2>1. PICK i \in 1 .. Len(s) : s[i] = e
    BY <1>1 DEF Range
  <2>2. i - 1 \in DOMAIN Tail(s) /\ i = (i - 1) + 1
    BY <1>1, <1>3, <2>1
  <2>3. Tail(s)[i - 1] = e
    BY <1>1, <2>1, <2>2
  <2>4. QED
    BY <2>2, <2>3 DEF Range
<1>4. Head(s) \in Range(s)
  BY <1>1 DEF Range
<1>5. QED
  BY <1>1, <1>2, <1>3, <1>4

\* What is left by RemoveAt, with what it removed, is the whole.
LEMMA RangeRemoveAt ==
    ASSUME NEW S, NEW s \in Seq(S), NEW i \in DOMAIN s
    PROVE  /\ RemoveAt(s, i) \in Seq(S)
           /\ s[i] \in S
           /\ Range(s) = Range(RemoveAt(s, i)) \cup {s[i]}
<1> DEFINE before == SubSeq(s, 1, i - 1)
           after == SubSeq(s, i + 1, Len(s))
<1>1. Len(s) \in Nat /\ i \in 1 .. Len(s) /\ DOMAIN s = 1 .. Len(s) /\ s[i] \in S
  BY LenProperties, ElementOfSeq
<1>2. /\ before \in Seq(S) /\ Len(before) = i - 1
      /\ \A j \in 1 .. i - 1 : before[j] = s[j]
  BY <1>1, SubSeqProperties
<1>3. /\ after \in Seq(S) /\ Len(after) = Len(s) - i
      /\ \A j \in 1 .. Len(s) - i : after[j] = s[i + j]
  BY <1>1, SubSeqProperties
<1>4. RemoveAt(s, i) = before \o after
  BY DEF RemoveAt
<1> HIDE DEF before, after
<1>5. /\ RemoveAt(s, i) \in Seq(S)
      /\ Range(RemoveAt(s, i)) = Range(before) \cup Range(after)
  BY <1>2, <1>3, <1>4, RangeConcat
<1>6. /\ DOMAIN before = 1 .. i - 1
      /\ DOMAIN after = 1 .. Len(s) - i
  BY <1>2, <1>3, LenProperties
<1>7. Range(before) \subseteq Range(s)
  <2>1. ASSUME NEW j \in 1 .. i - 1
        PROVE  before[j] \in Range(s)
    <3>1. j \in DOMAIN s
      BY <1>1
    <3>2. QED
      BY <1>2, <3>1 DEF Range
  <2>2. QED
    BY <1>6, <2>1 DEF Range
<1>8. Range(after) \subseteq Range(s)
  <2>1. ASSUME NEW j \in 1 .. Len(s) - i
        PROVE  after[j] \in Range(s)
    <3>1. i + j \in DOMAIN s
      BY <1>1
    <3>2. QED
      BY <1>3, <3>1 DEF Range
  <2>2. QED
    BY <1>6, <2>1 DEF Range
<1>9. ASSUME NEW j \in 1 .. Len(s), j # i
      PROVE  s[j] \in Range(before) \cup Range(after)
  <2>1. CASE j < i
    BY <1>1, <1>2, <1>6, <2>1 DEF Range
  <2>2. CASE j > i
    <3>1. j - i \in DOMAIN after /\ i + (j - i) = j
      BY <1>1, <1>6, <2>2
    <3>2. after[j - i] = s[j]
      BY <1>3, <1>6, <3>1
    <3>3. QED
      BY <3>1, <3>2 DEF Range
  <2>3. QED
    BY <1>1, <1>9, <2>1, <2>2
<1>10. Range(s) \subseteq Range(before) \cup Range(after) \cup {s[i]}
  BY <1>1, <1>9 DEF Range
<1>11. s[i] \in Range(s)
  BY DEF Range
<1>12. QED
  BY <1>1, <1>5, <1>7, <1>8, <1>10, <1>11

-----------------------------------------------------------------------------
\* Reports on their way to the OMS, about whatever order.
Pending == (UNION {Range(stream[id]) : id \in Ids}) \cup Range(from_order_handler)

\* A report the websocket carries is about the order whose stream it is in.
StreamsApart == \A id \in Ids : \A e \in Range(stream[id]) : e.order_link_id = id

\* Statuses the exchange gives an order.
XStatuses == {"New", "PartiallyFilled", "PartiallyFilledCanceled", "Filled", "Cancelled"}

\* An update the exchange can have made, of an order the OMS has submitted.
GenuineUpdate(e) ==
    /\ e \in OrderUpdates
    /\ e.order_status \in XStatuses
    /\ e.updated_time >= 1

\* What is on its way is about an order the OMS knows: an update of the exchange, an
\* execution that happened, or the failure of a submission.
ReportsGenuine ==
    \A e \in Pending :
        /\ IsKnown(e.order_link_id)
        /\ e \in executed \/ GenuineUpdate(e) \/ e \in SubmissionFailures

\* Executions are of orders the OMS knows, and numbered.
ExecutionsNumbered ==
    /\ next_exec_id \in 1 .. MaxExecutions + 1
    /\ \A e \in executed : /\ e \in PossibleExecutions
                           /\ IsKnown(e.order_link_id)
                           /\ e.exec_id < next_exec_id
    /\ \A e, f \in executed : e.exec_id = f.exec_id => e = f

\* A request is about an order the OMS knows; a submission is for the side it recorded.
RequestsKnown ==
    \A t \in Tasks :
        /\ tasks[t] \in CreateRequests \cup AmendRequests \cup FailedRequests =>
               IsKnown(tasks[t].order_link_id)
        /\ tasks[t] \in CreateRequests =>
               RecordOf(tasks[t].order_link_id).side = tasks[t].side

\* An order the exchange has is one the OMS knows, on the side it recorded.
XOrdersKnown ==
    \A id \in Ids :
        xorders[id] # Absent => /\ IsKnown(id)
                               /\ RecordOf(id).side = xorders[id].side
                               /\ xorders[id].order_status \in XStatuses
                               /\ xorders[id].updated_time >= 1

\* Orders are stored in the order of their ids.
SlabInIdOrder == \A id \in DOMAIN id_map : id_map[id] = id - InitialOrderLinkId + 1

\* The bound on the orders of a behaviour.
GeneratorBounded == id_generator <= InitialOrderLinkId + MaxOrders

\* What every other invariant rests on.
Base ==
    /\ TypeOK
    /\ IndexConsistent
    /\ SlabInIdOrder
    /\ GeneratorBounded
    /\ StreamsApart
    /\ ReportsGenuine
    /\ ExecutionsNumbered
    /\ RequestsKnown
    /\ XOrdersKnown

-----------------------------------------------------------------------------
\* An order the OMS knows has a record in the slab.
LEMMA KnownRecord ==
    ASSUME Base, NEW id, IsKnown(id)
    PROVE  /\ id \in Ids
           /\ id_map[id] \in DOMAIN orders
           /\ RecordOf(id) = orders[id_map[id]]
           /\ RecordOf(id) \in Orders
           /\ RecordOf(id).order_link_id = id
<1>1. /\ id_map[id] \in DOMAIN orders
      /\ orders[id_map[id]] \in Orders
  BY LenProperties, ElementOfSeq DEF Base, TypeOK, OmsTypeOK, IsKnown
<1>2. id \in Ids
  <2>1. id \in InitialOrderLinkId .. id_generator - 1
    BY DEF Base, IndexConsistent, IsKnown
  <2>2. id_generator \in Nat /\ id_generator <= InitialOrderLinkId + MaxOrders
    BY DEF Base, TypeOK, OmsTypeOK, GeneratorBounded
  <2>3. QED
    BY <2>1, <2>2, OmsAssumption DEF Ids
<1>3. orders[id_map[id]].order_link_id = id
  <2> DEFINE found == orders[id_map[id]].order_link_id
  <2>1. found \in DOMAIN id_map /\ id_map[found] = id_map[id]
    BY <1>1 DEF Base, IndexConsistent
  <2>2. /\ id_map[found] = found - InitialOrderLinkId + 1
        /\ id_map[id] = id - InitialOrderLinkId + 1
    BY <2>1 DEF Base, SlabInIdOrder, IsKnown
  <2>3. found \in Int /\ id \in Int
    <3>1. DOMAIN id_map \subseteq Int
      <4>1. DOMAIN id_map = InitialOrderLinkId .. id_generator - 1
        BY DEF Base, IndexConsistent
      <4>2. QED
        BY <4>1
    <3>2. QED
      BY <2>1, <3>1 DEF IsKnown
  <2> HIDE DEF found
  <2>4. found - InitialOrderLinkId + 1 = id - InitialOrderLinkId + 1
    BY <2>1, <2>2
  <2>5. \A a, b, c \in Int : a - c + 1 = b - c + 1 => a = b
    OBVIOUS
  <2>6. found = id
    BY <2>3, <2>4, <2>5, OmsAssumption
  <2>7. QED
    BY <2>6 DEF found
<1>4. QED
  BY <1>1, <1>2, <1>3 DEF RecordOf

-----------------------------------------------------------------------------
\* The reports the loop starts with, and the initial state.
LEMMA InitBase == TradingInit => Base
<1> SUFFICES ASSUME TradingInit PROVE Base
  OBVIOUS
<1>1. /\ to_strategy \in Seq(Int) /\ Len(to_strategy) <= 1
      /\ strategy_inventory \in Int
      /\ inventory \in Int
      /\ id_generator \in Nat
  BY OmsAssumption DEF TradingInit, OmsInit
<1>2. /\ orders \in Seq(Orders)
      /\ id_map \in [DOMAIN id_map -> 1 .. Len(orders)]
      /\ DOMAIN id_map = {} /\ DOMAIN orders = {} /\ Len(orders) = 0
  BY DEF TradingInit, OmsInit
<1>3. /\ processed_executions \subseteq Nat \X Nat
      /\ tasks \in [Tasks -> Requests \cup {Idle}]
  BY DEF TradingInit, OmsInit
<1>4. OmsTypeOK
  BY <1>1, <1>2, <1>3 DEF OmsTypeOK
<1>5. /\ Range(from_order_handler) = {}
      /\ \A id \in Ids : Range(stream[id]) = {}
  BY DEF TradingInit, OmsInit, Range
<1>6. Pending = {}
  BY <1>5 DEF Pending
<1>7. TypeOK
  <2>1. /\ from_strategy \in Seq(Builders)
        /\ from_order_handler \in Seq(OrderEvents)
    BY DEF TradingInit, OmsInit
  <2>2. stream \in [Ids -> Seq(OrderUpdates \cup Executions)]
    BY DEF TradingInit
  <2>3. /\ xorders \in [Ids -> XOrders \cup {Absent}]
        /\ executed \subseteq Executions
        /\ next_exec_id \in Nat
        /\ wallet \in Int
        /\ duplicates \in Nat
        /\ recorded \subseteq executed
    BY OmsAssumption DEF TradingInit
  <2>4. QED
    BY <1>4, <2>1, <2>2, <2>3 DEF TypeOK
<1>8. IndexConsistent /\ SlabInIdOrder /\ GeneratorBounded
  BY <1>2, OmsAssumption
     DEF IndexConsistent, SlabInIdOrder, GeneratorBounded, TradingInit, OmsInit
<1>9. StreamsApart /\ ReportsGenuine
  BY <1>5, <1>6 DEF StreamsApart, ReportsGenuine
<1>10. ExecutionsNumbered
  BY TradingAssumption DEF ExecutionsNumbered, TradingInit
<1>11. RequestsKnown
  <2>1. \A t \in Tasks : tasks[t] \notin Requests
    BY IdleAssumption DEF TradingInit, OmsInit
  <2>2. QED
    BY <2>1 DEF RequestsKnown, Requests
<1>12. XOrdersKnown
  BY DEF XOrdersKnown, TradingInit
<1>13. QED
  BY <1>7, <1>8, <1>9, <1>10, <1>11, <1>12 DEF Base

-----------------------------------------------------------------------------
\* What the steps do to the reports on their way.

\* The exchange adds its reports, and no other.
LEMMA EmitPending ==
    ASSUME TypeOK, NEW id \in Ids, NEW reports \in Seq(OrderUpdates \cup Executions),
           Emit(id, reports), UNCHANGED from_order_handler
    PROVE  /\ stream' \in [Ids -> Seq(OrderUpdates \cup Executions)]
           /\ \A x \in Ids : Range(stream'[x]) =
                  IF x = id THEN Range(stream[x]) \cup Range(reports) ELSE Range(stream[x])
           /\ Pending' = Pending \cup Range(reports)
<1>1. /\ stream[id] \in Seq(OrderUpdates \cup Executions)
      /\ stream' = [stream EXCEPT ![id] = stream[id] \o reports]
  BY DEF TypeOK, Emit
<1>2. /\ stream[id] \o reports \in Seq(OrderUpdates \cup Executions)
      /\ Range(stream[id] \o reports) = Range(stream[id]) \cup Range(reports)
  BY <1>1, RangeConcat
<1>3. stream' \in [Ids -> Seq(OrderUpdates \cup Executions)]
  BY <1>1, <1>2 DEF TypeOK
<1>4. \A x \in Ids : stream'[x] = IF x = id THEN stream[id] \o reports ELSE stream[x]
  BY <1>1 DEF TypeOK
<1>5. \A x \in Ids : Range(stream'[x]) =
          IF x = id THEN Range(stream[x]) \cup Range(reports) ELSE Range(stream[x])
  BY <1>2, <1>4
<1>6. (UNION {Range(stream'[x]) : x \in Ids})
          = (UNION {Range(stream[x]) : x \in Ids}) \cup Range(reports)
  BY <1>5
<1>7. QED
  BY <1>3, <1>5, <1>6 DEF Pending

\* What the websocket takes from a stream.
Delivered(id, i) == Deliver(id, i) \/ DeliverTwice(id, i)

\* A report that is delivered is still on its way, in the channel to the OMS.
LEMMA DeliveredPending ==
    ASSUME TypeOK, NEW id \in Ids, NEW i \in DOMAIN stream[id], Delivered(id, i)
    PROVE  /\ stream' \in [Ids -> Seq(OrderUpdates \cup Executions)]
           /\ from_order_handler' \in Seq(OrderEvents)
           /\ \A x \in Ids : Range(stream'[x]) \subseteq Range(stream[x])
           /\ Pending' = Pending
           /\ stream[id][i] \in Pending
           /\ stream[id][i] \in OrderUpdates \cup Executions
<1> DEFINE event == stream[id][i]
<1>1. stream[id] \in Seq(OrderUpdates \cup Executions)
  BY DEF TypeOK
<1>2. /\ event \in OrderUpdates \cup Executions
      /\ RemoveAt(stream[id], i) \in Seq(OrderUpdates \cup Executions)
      /\ Range(stream[id]) = Range(RemoveAt(stream[id], i)) \cup {event}
  BY <1>1, RangeRemoveAt
<1>3. event \in OrderEvents
  BY <1>2 DEF OrderEvents
<1>4. from_order_handler' = Append(from_order_handler, event)
  BY DEF Delivered, Deliver, DeliverTwice, ProcessResponse, SendToOms
<1>5. /\ from_order_handler' \in Seq(OrderEvents)
      /\ Range(from_order_handler') = Range(from_order_handler) \cup {event}
  BY <1>3, <1>4, RangeAppend DEF TypeOK
<1>6. \/ stream' = [stream EXCEPT ![id] = RemoveAt(stream[id], i)]
      \/ stream' = stream
  BY DEF Delivered, Deliver, DeliverTwice
<1>7. /\ stream' \in [Ids -> Seq(OrderUpdates \cup Executions)]
      /\ \A x \in Ids : x # id => stream'[x] = stream[x]
      /\ stream'[id] = RemoveAt(stream[id], i) \/ stream'[id] = stream[id]
  BY <1>2, <1>6 DEF TypeOK
<1>8. /\ Range(stream'[id]) \subseteq Range(stream[id])
      /\ Range(stream[id]) \subseteq Range(stream'[id]) \cup {event}
  BY <1>2, <1>7
<1>9. event \in UNION {Range(stream[x]) : x \in Ids}
  BY <1>2
<1>10. Pending' = Pending
  <2> DEFINE S == UNION {Range(stream[x]) : x \in Ids}
             T == UNION {Range(stream'[x]) : x \in Ids}
  <2>1. T \subseteq S /\ S \subseteq T \cup {event}
    BY <1>7, <1>8
  <2>2. Pending' = T \cup Range(from_order_handler')
    BY DEF Pending
  <2>3. Pending = S \cup Range(from_order_handler)
    BY DEF Pending
  <2> HIDE DEF S, T, event
  <2>4. event \in S
    BY <1>9 DEF S
  <2>5. QED
    BY <1>5, <2>1, <2>2, <2>3, <2>4
<1>11. QED
  BY <1>2, <1>5, <1>7, <1>8, <1>9, <1>10 DEF Pending

\* The task of a submission adds the failure it reports.
LEMMA FailurePending ==
    ASSUME TypeOK, NEW event \in OrderEvents, SendToOms(event), UNCHANGED stream
    PROVE  /\ from_order_handler' \in Seq(OrderEvents)
           /\ Pending' = Pending \cup {event}
BY RangeAppend DEF TypeOK, SendToOms, Pending

\* The OMS takes one of the reports that are on their way.
LEMMA ReceivedPending ==
    ASSUME TypeOK, RecvFromOrderHandler, UNCHANGED stream
    PROVE  \E event \in OrderEvents :
               /\ OrderResponse(event)
               /\ from_order_handler' \in Seq(OrderEvents)
               /\ Pending = Pending' \cup {event}
               /\ UNCHANGED <<from_strategy, strategy_inventory>>
<1>1. /\ from_order_handler \in Seq(OrderEvents)
      /\ from_order_handler # <<>>
      /\ from_order_handler' = Tail(from_order_handler)
      /\ OrderResponse(Head(from_order_handler))
      /\ UNCHANGED <<from_strategy, strategy_inventory>>
  BY DEF TypeOK, RecvFromOrderHandler
<1>2. /\ Tail(from_order_handler) \in Seq(OrderEvents)
      /\ Head(from_order_handler) \in OrderEvents
      /\ Range(from_order_handler)
             = {Head(from_order_handler)} \cup Range(Tail(from_order_handler))
  BY <1>1, RangeTail
<1>3. Pending = Pending' \cup {Head(from_order_handler)}
  BY <1>1, <1>2 DEF Pending
<1>4. QED
  BY <1>1, <1>2, <1>3

-----------------------------------------------------------------------------
\* What the steps of the OMS do to its records.

\* A new order gets a record of its own and leaves the others alone.
LEMMA SubmitRecord ==
    ASSUME Base, NEW builder \in Builders, SubmitNewOrder(builder), NEW new, new = id_generator
    PROVE  /\ new \in Ids
           /\ ~IsKnown(new)
           /\ IsKnown(new)'
           /\ RecordOf(new)' = Build(builder, new)
           /\ \A id : IsKnown(id) => IsKnown(id)' /\ RecordOf(id)' = RecordOf(id)
           /\ \A id : IsKnown(id)' => IsKnown(id) \/ id = new
<1>1. /\ orders' = Append(orders, Build(builder, new))
      /\ DOMAIN id_map' = DOMAIN id_map \cup {new}
      /\ \A id \in DOMAIN id_map' :
             id_map'[id] = IF id = new THEN Len(orders) + 1 ELSE id_map[id]
  BY SubmitNewOrderType DEF Base, TypeOK
<1>2. new \in Ids /\ new \notin DOMAIN id_map
  <2>1. /\ DOMAIN id_map = InitialOrderLinkId .. id_generator - 1
        /\ Len(orders) = id_generator - InitialOrderLinkId
        /\ Len(orders) \in Nat
    BY LenProperties DEF Base, IndexConsistent, TypeOK, OmsTypeOK
  <2>2. id_generator \in Nat /\ id_generator < InitialOrderLinkId + MaxOrders
    BY DEF Base, TypeOK, OmsTypeOK, SubmitNewOrder
  <2>3. QED
    BY <2>1, <2>2, OmsAssumption DEF Ids
<1>3. /\ orders \in Seq(Orders) /\ Len(orders) \in Nat
      /\ \A i \in 1 .. Len(orders) : orders'[i] = orders[i]
      /\ orders'[Len(orders) + 1] = Build(builder, new)
  BY <1>1 DEF Base, TypeOK, OmsTypeOK
<1>4. \A id \in DOMAIN id_map : id_map[id] \in 1 .. Len(orders)
  BY DEF Base, TypeOK, OmsTypeOK
<1>5. /\ new \in DOMAIN id_map'
      /\ orders'[id_map'[new]] = Build(builder, new)
  BY <1>1, <1>3
<1>6. \A id \in DOMAIN id_map :
          id \in DOMAIN id_map' /\ orders'[id_map'[id]] = orders[id_map[id]]
  BY <1>1, <1>2, <1>3, <1>4
<1>7. QED
  BY <1>1, <1>2, <1>5, <1>6 DEF IsKnown, RecordOf

\* A slab that advances keeps every record, each advanced.
LEMMA AdvancedRecord ==
    ASSUME Base, SlabAdvances
    PROVE  \A id : /\ IsKnown(id)' <=> IsKnown(id)
                   /\ IsKnown(id) => Advances(RecordOf(id), RecordOf(id)')
BY KnownRecord DEF SlabAdvances, IsKnown, RecordOf

\* One record replaced: that of this order, and no other.
LEMMA ReplacedRecord ==
    ASSUME Base, NEW id, IsKnown(id), NEW record,
           orders' = [orders EXCEPT ![id_map[id]] = record], UNCHANGED id_map
    PROVE  \A x : IsKnown(x) => RecordOf(x)' = IF x = id THEN record ELSE RecordOf(x)
<1> SUFFICES ASSUME NEW x, IsKnown(x)
             PROVE  RecordOf(x)' = IF x = id THEN record ELSE RecordOf(x)
  OBVIOUS
<1>1. /\ id_map[id] \in DOMAIN orders /\ orders[id_map[id]].order_link_id = id
      /\ id_map[x] \in DOMAIN orders /\ orders[id_map[x]].order_link_id = x
  BY KnownRecord
<1>2. x # id => id_map[x] # id_map[id]
  BY <1>1
<1>3. orders'[id_map[x]] = IF x = id THEN record ELSE orders[id_map[x]]
  BY <1>1, <1>2
<1>4. QED
  BY <1>3 DEF RecordOf

\* An update that is not stale overwrites the record of its order.
LEMMA UpdateRecord ==
    ASSUME Base, NEW update \in OrderUpdates, HandleOrderUpdate(update)
    PROVE  \A x : IsKnown(x) =>
               RecordOf(x)' = IF x = update.order_link_id /\ ~IsStale(update, RecordOf(x))
                              THEN Updated(RecordOf(x), update)
                              ELSE RecordOf(x)
<1> DEFINE id == update.order_link_id
<1>1. CASE IsKnown(id) /\ ~IsStale(update, RecordOf(id))
  <2>1. orders' = [orders EXCEPT ![id_map[id]] = Updated(RecordOf(id), update)]
    BY <1>1 DEF HandleOrderUpdate, RecordOf
  <2>2. QED
    BY <1>1, <2>1, ReplacedRecord DEF HandleOrderUpdate
<1>2. CASE ~(IsKnown(id) /\ ~IsStale(update, RecordOf(id)))
  BY <1>2 DEF HandleOrderUpdate, RecordOf
<1>3. QED
  BY <1>1, <1>2

\* The failure of a submission rejects the order, if it was not heard of otherwise.
LEMMA FailureRecord ==
    ASSUME Base, NEW id, HandleSubmissionFailure(id)
    PROVE  \A x : IsKnown(x) =>
               RecordOf(x)' = IF x = id /\ RecordOf(x).order_status = "Submitted"
                              THEN [RecordOf(x) EXCEPT !.order_status = "Rejected"]
                              ELSE RecordOf(x)
<1>1. CASE RejectsOrder(id)
  <2> DEFINE record == [RecordOf(id) EXCEPT !.order_status = "Rejected"]
  <2>1. orders' = [orders EXCEPT ![id_map[id]] = record]
    <3>1. id_map[id] \in DOMAIN orders
      BY <1>1, KnownRecord DEF RejectsOrder
    <3>2. QED
      BY <1>1, <3>1 DEF HandleSubmissionFailure, RecordOf
  <2>2. \A x : IsKnown(x) => RecordOf(x)' = IF x = id THEN record ELSE RecordOf(x)
    BY <1>1, <2>1, ReplacedRecord DEF HandleSubmissionFailure, RejectsOrder
  <2>3. QED
    BY <1>1, <2>2 DEF RejectsOrder
<1>2. CASE ~RejectsOrder(id)
  BY <1>2 DEF HandleSubmissionFailure, RejectsOrder, RecordOf
<1>3. QED
  BY <1>1, <1>2

-----------------------------------------------------------------------------
\* Parts of the base invariant several steps keep for the same reason.

\* The OMS knows at least the orders it knew, each on the same side.
RecordsKept == \A id : IsKnown(id) => IsKnown(id)' /\ RecordOf(id)'.side = RecordOf(id).side

\* A step that leaves the records alone keeps what is said of them.
LEMMA SameBook ==
    ASSUME Base, UNCHANGED book
    PROVE  /\ IndexConsistent' /\ SlabInIdOrder' /\ GeneratorBounded'
           /\ \A id : (IsKnown(id)' <=> IsKnown(id)) /\ RecordOf(id)' = RecordOf(id)
BY DEF Base, book, IndexConsistent, SlabInIdOrder, GeneratorBounded, IsKnown, RecordOf

\* Nothing new from the exchange.
LEMMA NoNews ==
    ASSUME Base, RecordsKept, UNCHANGED <<exchange_vars, stream>>, Pending' \subseteq Pending
    PROVE  StreamsApart' /\ ReportsGenuine' /\ ExecutionsNumbered' /\ XOrdersKnown'
<1>1. StreamsApart'
  BY DEF Base, StreamsApart
<1>2. ReportsGenuine'
  BY DEF Base, ReportsGenuine, RecordsKept, exchange_vars, trades
<1>3. ExecutionsNumbered'
  BY DEF Base, ExecutionsNumbered, RecordsKept, exchange_vars, trades
<1>4. XOrdersKnown'
  BY DEF Base, XOrdersKnown, RecordsKept, exchange_vars
<1>5. QED
  BY <1>1, <1>2, <1>3, <1>4

\* A task that has its answer carries nothing any more, or the failure of its submission.
LEMMA Answered ==
    ASSUME Base, NEW t \in Tasks, NEW answer, tasks' = [tasks EXCEPT ![t] = answer],
           answer = Idle \/ (tasks[t] \in CreateRequests /\ answer = Failed(t)),
           UNCHANGED book
    PROVE  /\ tasks' \in [Tasks -> Requests \cup {Idle}]
           /\ RequestsKnown'
<1>1. tasks \in [Tasks -> Requests \cup {Idle}]
  BY DEF Base, TypeOK, OmsTypeOK
<1>2. ASSUME answer # Idle
      PROVE  /\ answer \in FailedRequests
             /\ answer.order_link_id = tasks[t].order_link_id
             /\ tasks[t] \in CreateRequests
  BY <1>2 DEF CreateRequests, FailedRequests, Failed
<1>3. tasks' \in [Tasks -> Requests \cup {Idle}]
  BY <1>1, <1>2 DEF Requests
<1>4. \A u \in Tasks : tasks'[u] = IF u = t THEN answer ELSE tasks[u]
  BY <1>1
<1>5. Idle \notin CreateRequests \cup AmendRequests \cup FailedRequests
  BY IdleAssumption DEF Requests
<1>6. \A e : e \in FailedRequests => e \notin CreateRequests
  BY DEF FailedRequests, CreateRequests
<1>7. RequestsKnown'
  <2> SUFFICES ASSUME NEW u \in Tasks
               PROVE  /\ tasks'[u] \in CreateRequests \cup AmendRequests \cup FailedRequests =>
                             IsKnown(tasks'[u].order_link_id)
                      /\ tasks'[u] \in CreateRequests =>
                             RecordOf(tasks'[u].order_link_id).side = tasks'[u].side
    BY SameBook DEF RequestsKnown, IsKnown, RecordOf, book
  <2>1. CASE u # t
    BY <1>4, <2>1 DEF Base, RequestsKnown
  <2>2. CASE u = t
    BY <1>2, <1>4, <1>5, <1>6, <2>2 DEF Base, RequestsKnown
  <2>3. QED
    BY <2>1, <2>2
<1>8. QED
  BY <1>3, <1>7

\* An order changes at the exchange, which reports it.
LEMMA Changed ==
    ASSUME Base, NEW id \in Ids, IsKnown(id),
           NEW xorder \in XOrders, xorder.side = RecordOf(id).side,
           xorder.order_status \in XStatuses, xorder.updated_time >= 1,
           NEW before \in Seq(Executions),
           \A e \in Range(before) : e \in executed' /\ e.order_link_id = id,
           executed \subseteq executed',
           Change(id, xorder, before),
           UNCHANGED <<book, from_order_handler>>
    PROVE  /\ stream' \in [Ids -> Seq(OrderUpdates \cup Executions)]
           /\ xorders' \in [Ids -> XOrders \cup {Absent}]
           /\ xorders' = [xorders EXCEPT ![id] = xorder]
           /\ Pending' = Pending \cup Range(before) \cup {Report(id, xorder)}
           /\ GenuineUpdate(Report(id, xorder))
           /\ StreamsApart' /\ ReportsGenuine' /\ XOrdersKnown'
<1> DEFINE report == Report(id, xorder)
           reports == Append(before, report)
<1>1. /\ GenuineUpdate(report)
      /\ report \in OrderUpdates
      /\ report.order_link_id = id
  BY OmsAssumption DEF Report, GenuineUpdate, OrderUpdates, XOrders, Ids
<1>2. /\ reports \in Seq(OrderUpdates \cup Executions)
      /\ Range(reports) = Range(before) \cup {report}
  <2>1. before \in Seq(OrderUpdates \cup Executions)
    OBVIOUS
  <2>2. report \in OrderUpdates \cup Executions
    BY <1>1
  <2> HIDE DEF report
  <2>3. QED
    BY <2>1, <2>2, RangeAppend
<1>3. /\ stream' \in [Ids -> Seq(OrderUpdates \cup Executions)]
      /\ \A x \in Ids : Range(stream'[x]) =
             IF x = id THEN Range(stream[x]) \cup Range(reports) ELSE Range(stream[x])
      /\ Pending' = Pending \cup Range(reports)
  <2> HIDE DEF reports
  <2>1. Emit(id, reports)
    BY DEF Change, reports
  <2>2. QED
    BY <1>2, <2>1, EmitPending DEF Base
<1>4. /\ xorders' = [xorders EXCEPT ![id] = xorder]
      /\ xorders' \in [Ids -> XOrders \cup {Absent}]
  BY DEF Change, Base, TypeOK
<1> HIDE DEF report, reports
<1>5. StreamsApart'
  BY <1>1, <1>2, <1>3 DEF Base, StreamsApart
<1>6. ReportsGenuine'
  <2> SUFFICES ASSUME NEW e \in Pending'
               PROVE  /\ IsKnown(e.order_link_id)
                      /\ e \in executed' \/ GenuineUpdate(e) \/ e \in SubmissionFailures
    BY SameBook DEF ReportsGenuine, IsKnown, book
  <2>1. QED
    BY <1>1, <1>2, <1>3 DEF Base, ReportsGenuine
<1>7. XOrdersKnown'
  BY <1>4, SameBook DEF Base, TypeOK, XOrdersKnown
<1>8. QED
  BY <1>1, <1>2, <1>3, <1>4, <1>5, <1>6, <1>7 DEF report

-----------------------------------------------------------------------------
\* The steps of the loop, by what they do to the records of the OMS, to the orders of the
\* exchange and to the reports on their way.

\* An amendment that has an effect, a cancellation, an execution: a new state of the order,
\* on the same side and later.
Succeeds(after, before) ==
    /\ after \in XOrders
    /\ after.side = before.side
    /\ after.order_status \in XStatuses
    /\ after.updated_time >= before.updated_time
    /\ ~SameMillisecond => after.updated_time > before.updated_time

\* The execution of an order that works, as the exchange numbers it.
Execution(id, qty) ==
    [type |-> "ExecutionUpdate", order_link_id |-> id, order_side |-> xorders[id].side,
     exec_id |-> next_exec_id, exec_qty |-> qty, exec_fee |-> Fee]

\* The strategy, the websocket: reports move, nothing else.
QuietStep ==
    /\ Pending' = Pending
    /\ UNCHANGED <<book, accounts, tasks, exchange_vars>>

\* The OMS takes a command.
CommandStep ==
    \E builder \in Builders :
        /\ from_strategy # <<>> /\ builder = Head(from_strategy)
        /\ ForwardOrders(builder)
        /\ Pending' = Pending
        /\ UNCHANGED exchange_vars

\* The OMS takes a report.
EventStep ==
    \E event \in OrderEvents :
        /\ event \in Pending
        /\ IsExchangeReport(event)
        /\ OrderResponse(event)
        /\ Pending = Pending' \cup {event}
        /\ UNCHANGED exchange_vars

\* The order a submission asks for.
Accepted(request) ==
    [side |-> request.side, price |-> request.price, qty |-> request.qty, filled_qty |-> 0,
     order_status |-> "New", updated_time |-> 1]

\* A submission is accepted, whether or not its task hears of it.
AcceptStep ==
    \E t \in Tasks, id \in Ids :
        /\ tasks[t] \in CreateRequests
        /\ id = tasks[t].order_link_id
        /\ IsKnown(id)
        /\ Accepted(tasks[t]) \in XOrders
        /\ xorders' = [xorders EXCEPT ![id] = Accepted(tasks[t])]
        /\ Pending' = Pending \cup {Report(id, Accepted(tasks[t]))}
        /\ \/ tasks' = [tasks EXCEPT ![t] = Idle]
           \/ AmbiguousOutcomes /\ tasks' = [tasks EXCEPT ![t] = Failed(t)]
        /\ UNCHANGED <<book, accounts, trades>>

\* A submission is refused.
RefuseStep ==
    \E t \in Tasks :
        /\ tasks[t] \in CreateRequests
        /\ tasks' = [tasks EXCEPT ![t] = Failed(t)]
        /\ Pending' = Pending
        /\ UNCHANGED <<book, accounts, exchange_vars>>

\* The failure of a submission is reported.
FailureStep ==
    \E t \in Tasks :
        /\ tasks[t] \in FailedRequests
        /\ tasks' = [tasks EXCEPT ![t] = Idle]
        /\ Pending' = Pending \cup {SubmissionFailed(tasks[t].order_link_id)}
        /\ UNCHANGED <<book, accounts, exchange_vars>>

\* An amendment without effect, or a repayment, has ended.
EndStep ==
    \E t \in Tasks :
        /\ tasks[t] \in AmendRequests \cup RepayRequests
        /\ tasks' = [tasks EXCEPT ![t] = Idle]
        /\ Pending' = Pending
        /\ UNCHANGED <<book, accounts, exchange_vars>>

\* An order that works changes at the exchange, which reports it.
ChangeStep(id, xorder) ==
    /\ Working(id)
    /\ Succeeds(xorder, xorders[id])
    /\ xorders' = [xorders EXCEPT ![id] = xorder]
    /\ UNCHANGED <<book, accounts>>

AmendStep ==
    \E id \in Ids, xorder \in XOrders, t \in Tasks :
        /\ ChangeStep(id, xorder)
        /\ xorder.order_status = xorders[id].order_status
        /\ xorder.filled_qty = xorders[id].filled_qty
        /\ xorder.qty = xorders[id].qty \/ tasks[t].qty \in {xorder.qty} \ {NoChange}
        /\ xorder.qty > xorder.filled_qty
        /\ Pending' = Pending \cup {Report(id, xorder)}
        /\ tasks[t] \in AmendRequests /\ id = tasks[t].order_link_id
        /\ tasks' = [tasks EXCEPT ![t] = Idle]
        /\ UNCHANGED trades

CancelStep ==
    \E id \in Ids, xorder \in XOrders :
        /\ ChangeStep(id, xorder)
        /\ xorder.order_status \in {"Cancelled", "PartiallyFilledCanceled"}
        /\ Pending' = Pending \cup {Report(id, xorder)}
        /\ UNCHANGED <<tasks, trades>>

FillStep ==
    \E id \in Ids, xorder \in XOrders, qty \in 1 .. OrderSize :
        /\ ChangeStep(id, xorder)
        /\ xorder.filled_qty = xorders[id].filled_qty + qty
        /\ xorder.qty = xorders[id].qty
        /\ qty <= xorders[id].qty - xorders[id].filled_qty
        /\ xorder.order_status = IF qty = xorders[id].qty - xorders[id].filled_qty
                                 THEN "Filled" ELSE "PartiallyFilled"
        /\ Pending' = Pending \cup {Execution(id, qty), Report(id, xorder)}
        /\ next_exec_id \in 1 .. MaxExecutions
        /\ Execution(id, qty) \in PossibleExecutions
        /\ executed' = executed \cup {Execution(id, qty)}
        /\ wallet' = wallet + Traded(xorders[id].side, qty)
        /\ UNCHANGED tasks

LoopStep ==
    \/ QuietStep \/ CommandStep \/ EventStep
    \/ AcceptStep \/ RefuseStep \/ FailureStep \/ EndStep
    \/ AmendStep \/ CancelStep \/ FillStep

-----------------------------------------------------------------------------
\* Every step keeps the base invariant.

\* A turn of the strategy touches nothing but its channel and its queue.
LEMMA StrategyStepEffect ==
    ASSUME TypeOK, StrategyStep
    PROVE  /\ from_strategy' \in Seq(Builders)
           /\ to_strategy' \in Seq(Int) /\ Len(to_strategy') <= 1
           /\ strategy_inventory' \in Int
           /\ UNCHANGED <<from_order_handler, book, accounts, tasks, exchange_vars,
                          websocket_vars>>
<1>1. ASSUME NEW builders \in Seq(Builders), StrategyCycle(builders)
      PROVE  /\ from_strategy' \in Seq(Builders)
             /\ to_strategy' \in Seq(Int) /\ Len(to_strategy') <= 1
             /\ strategy_inventory' \in Int
             /\ UNCHANGED <<from_order_handler, book, accounts, tasks>>
  <2>1. from_strategy' \in Seq(Builders)
    BY <1>1, ConcatProperties DEF TypeOK, StrategyCycle
  <2>2. to_strategy' = <<>>
    BY <1>1 DEF StrategyCycle
  <2>3. strategy_inventory' \in Int
    <3>1. CASE to_strategy = <<>>
      BY <1>1, <3>1 DEF TypeOK, OmsTypeOK, StrategyCycle
    <3>2. CASE to_strategy # <<>>
      BY <1>1, <3>2, HeadTailProperties DEF TypeOK, OmsTypeOK, StrategyCycle
    <3>3. QED
      BY <3>1, <3>2
  <2>4. QED
    BY <1>1, <2>1, <2>2, <2>3 DEF StrategyCycle
<1>2. CASE StrategySeesNoBook
  <2>1. <<>> \in Seq(Builders)
    OBVIOUS
  <2>2. QED
    BY <1>1, <1>2, <2>1 DEF StrategySeesNoBook
<1>3. ASSUME NEW quote \in Quotes, StrategyQuotes(quote)
      PROVE  /\ from_strategy' \in Seq(Builders)
             /\ to_strategy' \in Seq(Int) /\ Len(to_strategy') <= 1
             /\ strategy_inventory' \in Int
             /\ UNCHANGED <<from_order_handler, book, accounts, tasks, exchange_vars,
                            websocket_vars>>
  <2>1. /\ [side |-> "Buy", price |-> quote[1], qty |-> OrderSize] \in Builders
        /\ [side |-> "Sell", price |-> quote[2], qty |-> OrderSize] \in Builders
    BY TradingAssumption DEF Builders, Sides
  <2>2. Quote(quote[1], quote[2]) \in Seq(Builders)
    BY <2>1 DEF Quote
  <2>3. QED
    BY <1>1, <1>3, <2>2 DEF StrategyQuotes
<1>4. QED
  BY <1>2, <1>3 DEF StrategyStep

\* The steps of the strategy keep the types.
LEMMA StrategyStepBase ==
    ASSUME Base, StrategyStep
    PROVE  Base' /\ QuietStep
<1>1. /\ from_strategy' \in Seq(Builders)
      /\ to_strategy' \in Seq(Int) /\ Len(to_strategy') <= 1
      /\ strategy_inventory' \in Int
      /\ UNCHANGED <<from_order_handler, book, accounts, tasks, exchange_vars,
                     websocket_vars>>
  BY StrategyStepEffect DEF Base
<1>2. TypeOK'
  BY <1>1 DEF Base, TypeOK, OmsTypeOK, book, accounts, exchange_vars, trades, websocket_vars
<1>3. RecordsKept /\ Pending' = Pending
  BY <1>1, SameBook DEF RecordsKept, Pending, websocket_vars
<1>4. StreamsApart' /\ ReportsGenuine' /\ ExecutionsNumbered' /\ XOrdersKnown'
  BY <1>1, <1>3, NoNews DEF websocket_vars
<1>5. RequestsKnown'
  BY <1>1, SameBook DEF Base, RequestsKnown
<1>6. QED
  BY <1>1, <1>2, <1>3, <1>4, <1>5, SameBook DEF Base, QuietStep

\* A new order is submitted with a request of its own.
LEMMA SubmitRequests ==
    ASSUME Base, NEW builder \in Builders, SubmitNewOrder(builder), NEW new, new = id_generator
    PROVE  /\ RecordsKept
           /\ RequestsKnown'
           /\ SlabInIdOrder'
           /\ GeneratorBounded'
<1>1. /\ IsKnown(new)'
      /\ RecordOf(new)' = Build(builder, new)
      /\ \A id : IsKnown(id) => IsKnown(id)' /\ RecordOf(id)' = RecordOf(id)
  BY SubmitRecord
<1>2. RequestsKnown'
  <2>1. CreateRequest(new, builder).order_link_id = new
    BY DEF CreateRequest
  <2>2. CreateRequest(new, builder).side = RecordOf(new)'.side
    BY <1>1 DEF CreateRequest, Build
  <2>3. \A t \in Tasks : tasks'[t] = tasks[t] \/ tasks'[t] = CreateRequest(new, builder)
    BY SubmitNewOrderType DEF Base, TypeOK
  <2> SUFFICES ASSUME NEW t \in Tasks
               PROVE  /\ tasks'[t] \in CreateRequests \cup AmendRequests \cup FailedRequests =>
                             IsKnown(tasks[t].order_link_id)'
                      /\ tasks'[t] \in CreateRequests =>
                             (RecordOf(tasks[t].order_link_id).side = tasks[t].side)'
    BY DEF RequestsKnown
  <2>4. CASE tasks'[t] = tasks[t]
    <3>1. ASSUME NEW id, id = tasks[t].order_link_id, IsKnown(id)
          PROVE  /\ IsKnown(tasks[t].order_link_id)'
                 /\ (RecordOf(tasks[t].order_link_id).side)' = RecordOf(id).side
      BY <1>1, <2>4, <3>1 DEF IsKnown, RecordOf
    <3>2. QED
      BY <2>4, <3>1 DEF Base, RequestsKnown
  <2>5. CASE tasks'[t] = CreateRequest(new, builder)
    BY <1>1, <2>1, <2>2, <2>5 DEF IsKnown, RecordOf
  <2>6. QED
    BY <2>3, <2>4, <2>5
<1>3. SlabInIdOrder'
  <2>1. /\ DOMAIN id_map' = DOMAIN id_map \cup {new}
        /\ \A id \in DOMAIN id_map' :
              id_map'[id] = IF id = new THEN Len(orders) + 1 ELSE id_map[id]
    BY SubmitNewOrderType DEF Base, TypeOK
  <2>2. Len(orders) = new - InitialOrderLinkId
    BY DEF Base, IndexConsistent
  <2>3. QED
    BY <2>1, <2>2 DEF Base, SlabInIdOrder
<1>4. GeneratorBounded'
  <2>1. id_generator' = id_generator + 1 /\ id_generator \in Nat
    BY SubmitNewOrderType DEF Base, TypeOK, OmsTypeOK
  <2>2. id_generator < InitialOrderLinkId + MaxOrders
    BY DEF SubmitNewOrder
  <2>3. QED
    BY <2>1, <2>2, OmsAssumption DEF GeneratorBounded
<1>5. RecordsKept
  BY <1>1 DEF RecordsKept
<1>6. QED
  BY <1>2, <1>3, <1>4, <1>5

\* A command keeps every record and spawns requests about orders the OMS knows.
LEMMA ForwardOrdersRequests ==
    ASSUME Base, NEW builder \in Builders, ForwardOrders(builder)
    PROVE  /\ RecordsKept
           /\ RequestsKnown'
           /\ SlabInIdOrder'
           /\ GeneratorBounded'
<1>1. CASE SubmitNewOrder(builder)
  BY <1>1, SubmitRequests
<1>2. CASE AmendExistingOrder(builder)
  <2>1. PICK i \in DOMAIN orders :
            LET request == AmendRequest(Amendment(builder, orders[i]))
            IN /\ request.order_link_id = orders[i].order_link_id
               /\ \A t \in Tasks : tasks'[t] = tasks[t] \/ tasks'[t] = request
    BY <1>2, AmendExistingOrderType DEF Base, TypeOK
  <2> DEFINE request == AmendRequest(Amendment(builder, orders[i]))
  <2>2. IsKnown(request.order_link_id)
    BY <2>1 DEF Base, IndexConsistent, IsKnown
  <2>3. request \notin CreateRequests
    BY DEF AmendRequest, CreateRequests
  <2>4. UNCHANGED book
    BY <1>2 DEF AmendExistingOrder
  <2> HIDE DEF request
  <2>5. \A t \in Tasks :
            /\ tasks'[t] \in CreateRequests \cup AmendRequests \cup FailedRequests =>
                   IsKnown(tasks'[t].order_link_id)
            /\ tasks'[t] \in CreateRequests =>
                   RecordOf(tasks'[t].order_link_id).side = tasks'[t].side
    BY <2>1, <2>2, <2>3 DEF Base, RequestsKnown, request
  <2>6. RequestsKnown'
    BY <2>4, <2>5 DEF RequestsKnown, IsKnown, RecordOf, book
  <2>7. QED
    BY <2>4, <2>6, SameBook DEF RecordsKept
<1>3. CASE IgnoreOrder(builder)
  <2>1. UNCHANGED <<book, tasks>>
    BY <1>3 DEF IgnoreOrder
  <2>2. QED
    BY <2>1, SameBook DEF RecordsKept, Base, RequestsKnown, IsKnown, RecordOf, book
<1>4. QED
  BY <1>1, <1>2, <1>3 DEF ForwardOrders

\* A command taken by the OMS keeps the types.
LEMMA OmsRecvFromStrategyBase ==
    ASSUME Base, OmsRecvFromStrategy
    PROVE  Base' /\ CommandStep
<1>1. /\ UNCHANGED <<exchange_vars, websocket_vars, from_order_handler, strategy_inventory>>
      /\ from_strategy' = Tail(from_strategy)
      /\ from_strategy # <<>>
      /\ ForwardOrders(Head(from_strategy))
  BY DEF OmsRecvFromStrategy, RecvFromStrategy
<1>2. Head(from_strategy) \in Builders /\ from_strategy' \in Seq(Builders)
  BY <1>1, RangeTail DEF Base, TypeOK
<1>3. OmsTypeOK'
  BY <1>1, <1>2, ForwardOrdersType DEF Base, TypeOK
<1>4. IndexConsistent'
  BY <1>1, <1>2, ForwardOrdersKeepsIndex DEF Base, TypeOK
<1>5. RecordsKept /\ RequestsKnown' /\ SlabInIdOrder' /\ GeneratorBounded'
  BY <1>1, <1>2, ForwardOrdersRequests
<1>6. Pending' = Pending
  BY <1>1 DEF Pending, websocket_vars
<1>7. StreamsApart' /\ ReportsGenuine' /\ ExecutionsNumbered' /\ XOrdersKnown'
  BY <1>1, <1>5, <1>6, NoNews DEF websocket_vars
<1>8. TypeOK'
  BY <1>1, <1>2, <1>3 DEF Base, TypeOK, exchange_vars, trades, websocket_vars
<1>9. QED
  BY <1>1, <1>2, <1>4, <1>5, <1>6, <1>7, <1>8 DEF Base, CommandStep

\* What the OMS receives is a genuine report.
LEMMA ReceivedGenuine ==
    ASSUME Base, OmsRecvFromOrderHandler
    PROVE  \E event \in OrderEvents :
               /\ event \in Pending
               /\ IsExchangeReport(event)
               /\ OrderResponse(event)
               /\ from_order_handler' \in Seq(OrderEvents)
               /\ Pending = Pending' \cup {event}
               /\ UNCHANGED <<from_strategy, strategy_inventory, exchange_vars, websocket_vars>>
<1>1. RecvFromOrderHandler /\ UNCHANGED stream /\ UNCHANGED <<exchange_vars, websocket_vars>>
  BY DEF OmsRecvFromOrderHandler, websocket_vars
<1>2. PICK event \in OrderEvents :
          /\ OrderResponse(event)
          /\ from_order_handler' \in Seq(OrderEvents)
          /\ Pending = Pending' \cup {event}
          /\ UNCHANGED <<from_strategy, strategy_inventory>>
  BY <1>1, ReceivedPending DEF Base
<1>3. event \in Pending
  BY <1>2
<1>4. IsExchangeReport(event)
  BY <1>3 DEF Base, ReportsGenuine, ExecutionsNumbered, PossibleExecutions, GenuineUpdate,
              SubmissionFailures, XStatuses, IsExchangeReport
<1>5. QED
  BY <1>1, <1>2, <1>3, <1>4

\* An event asks for a repayment at most.
LEMMA OrderResponseSpawns ==
    ASSUME OmsTypeOK, NEW event \in OrderEvents, OrderResponse(event)
    PROVE  \A t \in Tasks : tasks'[t] = tasks[t] \/ tasks'[t] = RepayRequest
<1>1. CASE event.type = "ExecutionUpdate" /\ HandleExecutionUpdate(event)
  <2>1. event \in Executions
    BY <1>1 DEF OrderEvents, OrderUpdates, Executions, SubmissionFailures
  <2>2. QED
    BY <1>1, <2>1, HandleExecutionUpdateAccounts
<1>2. CASE UNCHANGED tasks
  BY <1>2
<1>3. QED
  BY <1>1, <1>2 DEF OrderResponse, HandleOrderUpdate, HandleSubmissionFailure

\* An event taken by the OMS keeps the types.
LEMMA OmsRecvFromOrderHandlerBase ==
    ASSUME Base, OmsRecvFromOrderHandler
    PROVE  Base' /\ EventStep
<1>1. PICK event \in OrderEvents :
          /\ event \in Pending
          /\ IsExchangeReport(event)
          /\ OrderResponse(event)
          /\ from_order_handler' \in Seq(OrderEvents)
          /\ Pending = Pending' \cup {event}
          /\ UNCHANGED <<from_strategy, strategy_inventory, exchange_vars, websocket_vars>>
  BY ReceivedGenuine
<1>2. SlabAdvances
  BY <1>1, OrderResponseAdvances DEF Base, TypeOK
<1>3. RecordsKept
  BY <1>2, AdvancedRecord DEF RecordsKept, Advances
<1>4. OmsTypeOK'
  BY <1>1, OrderResponseType DEF Base, TypeOK
<1>5. IndexConsistent' /\ SlabInIdOrder' /\ GeneratorBounded'
  BY <1>2, SlabAdvancesKeepsIndex
     DEF Base, TypeOK, SlabAdvances, SlabInIdOrder, GeneratorBounded
<1>6. StreamsApart' /\ ReportsGenuine' /\ ExecutionsNumbered' /\ XOrdersKnown'
  BY <1>1, <1>3, NoNews DEF websocket_vars
<1>7. RequestsKnown'
  <2>1. \A t \in Tasks : tasks'[t] = tasks[t] \/ tasks'[t] = RepayRequest
    BY <1>1, OrderResponseSpawns DEF Base, TypeOK
  <2>2. RepayRequest \notin CreateRequests \cup AmendRequests \cup FailedRequests
    BY DEF RepayRequest, CreateRequests, AmendRequests, FailedRequests
  <2>3. \A id : IsKnown(id) => IsKnown(id)' /\ RecordOf(id)'.side = RecordOf(id).side
    BY <1>3 DEF RecordsKept
  <2> SUFFICES ASSUME NEW t \in Tasks
               PROVE  /\ tasks'[t] \in CreateRequests \cup AmendRequests \cup FailedRequests =>
                             IsKnown(tasks[t].order_link_id)'
                      /\ tasks'[t] \in CreateRequests =>
                             (RecordOf(tasks[t].order_link_id).side = tasks[t].side)'
    BY DEF RequestsKnown
  <2>4. CASE tasks'[t] = tasks[t]
    <3>1. ASSUME NEW id, id = tasks[t].order_link_id, IsKnown(id)
          PROVE  /\ IsKnown(tasks[t].order_link_id)'
                 /\ (RecordOf(tasks[t].order_link_id).side)' = RecordOf(id).side
      BY <2>3, <2>4, <3>1 DEF IsKnown, RecordOf
    <3>2. QED
      BY <2>4, <3>1 DEF Base, RequestsKnown
  <2>5. QED
    BY <2>1, <2>2, <2>4
<1>8. TypeOK'
  BY <1>1, <1>4 DEF Base, TypeOK, exchange_vars, trades, websocket_vars
<1>9. QED
  BY <1>1, <1>5, <1>6, <1>7, <1>8 DEF Base, EventStep

-----------------------------------------------------------------------------
\* The steps of the tasks, of the exchange and of the websocket leave the OMS alone but
\* for its tasks.
OmsRests == UNCHANGED <<from_strategy, to_strategy, strategy_inventory, book, accounts>>

\* The types of the OMS, in a step of the tasks or the exchange.
LEMMA RestingOms ==
    ASSUME Base, OmsRests, tasks' \in [Tasks -> Requests \cup {Idle}]
    PROVE  OmsTypeOK' /\ from_strategy' \in Seq(Builders)
BY DEF Base, TypeOK, OmsTypeOK, OmsRests, book, accounts

\* A submission that is accepted is an order of the exchange.
LEMMA AcceptedOrder ==
    ASSUME Base, NEW t \in Tasks, NEW answered, Accept(t, answered)
    PROVE  LET id == tasks[t].order_link_id
               xorder == [side |-> tasks[t].side, price |-> tasks[t].price,
                          qty |-> tasks[t].qty, filled_qty |-> 0, order_status |-> "New",
                          updated_time |-> 1]
           IN /\ id \in Ids /\ IsKnown(id)
              /\ tasks[t] \in CreateRequests
              /\ xorder \in XOrders
              /\ xorder.side = RecordOf(id).side
              /\ Change(id, xorder, <<>>)
              /\ tasks' = [tasks EXCEPT ![t] = answered]
              /\ UNCHANGED trades
<1>1. tasks[t] \in CreateRequests
  BY DEF Accept
<1>2. IsKnown(tasks[t].order_link_id) /\ RecordOf(tasks[t].order_link_id).side = tasks[t].side
  BY <1>1 DEF Base, RequestsKnown
<1>3. tasks[t].order_link_id \in Ids
  BY <1>2, KnownRecord
<1>4. [side |-> tasks[t].side, price |-> tasks[t].price, qty |-> tasks[t].qty,
       filled_qty |-> 0, order_status |-> "New", updated_time |-> 1] \in XOrders
  BY <1>1 DEF CreateRequests, XOrders, OrderStatuses, OpenStatuses
<1>5. QED
  BY <1>1, <1>2, <1>3, <1>4 DEF Accept

\* An accepted submission keeps the types.
LEMMA AcceptBase ==
    ASSUME Base, NEW t \in Tasks, NEW answered, answered \in {Idle, Failed(t)},
           answered # Idle => AmbiguousOutcomes,
           Accept(t, answered), UNCHANGED <<others_of_gateway, duplicates, recorded>>
    PROVE  Base' /\ AcceptStep
<1> DEFINE id == tasks[t].order_link_id
           xorder == Accepted(tasks[t])
<1>1. /\ id \in Ids /\ IsKnown(id)
      /\ tasks[t] \in CreateRequests
      /\ xorder \in XOrders
      /\ xorder.side = RecordOf(id).side
      /\ Change(id, xorder, <<>>)
      /\ tasks' = [tasks EXCEPT ![t] = answered]
      /\ UNCHANGED trades
  BY AcceptedOrder DEF Accepted
<1>2. UNCHANGED <<book, accounts, from_order_handler>> /\ OmsRests
  BY DEF others_of_gateway, OmsRests
<1>3. tasks' \in [Tasks -> Requests \cup {Idle}] /\ RequestsKnown'
  BY <1>1, <1>2, Answered
<1>4. <<>> \in Seq(Executions) /\ Range(<<>>) = {}
  BY DEF Range
<1>5. xorder.order_status \in XStatuses /\ xorder.updated_time >= 1
  BY DEF XStatuses, Accepted
<1>6. executed' = executed
  BY <1>1 DEF trades
<1> HIDE DEF id, xorder
<1>7. /\ stream' \in [Ids -> Seq(OrderUpdates \cup Executions)]
      /\ xorders' \in [Ids -> XOrders \cup {Absent}]
      /\ xorders' = [xorders EXCEPT ![id] = xorder]
      /\ Pending' = Pending \cup Range(<<>>) \cup {Report(id, xorder)}
      /\ StreamsApart' /\ ReportsGenuine' /\ XOrdersKnown'
  BY <1>1, <1>2, <1>4, <1>5, <1>6, Changed
<1>8. TypeOK'
  BY <1>1, <1>2, <1>3, <1>7, RestingOms DEF Base, TypeOK, trades
<1>9. ExecutionsNumbered'
  BY <1>1, <1>2, SameBook DEF Base, ExecutionsNumbered, trades
<1>10. AcceptStep
  BY <1>1, <1>2, <1>4, <1>7 DEF AcceptStep, id, xorder
<1>11. QED
  BY <1>2, <1>3, <1>7, <1>8, <1>9, <1>10, SameBook DEF Base

\* A task that has its answer, or reports its failure, and an exchange that is not touched.
LEMMA TaskEndsBase ==
    ASSUME Base, NEW t \in Tasks, NEW answer, tasks' = [tasks EXCEPT ![t] = answer],
           answer = Idle \/ (tasks[t] \in CreateRequests /\ answer = Failed(t)),
           UNCHANGED <<others_of_gateway, exchange_vars, websocket_vars>>
    PROVE  /\ Base'
           /\ Pending' = Pending
           /\ UNCHANGED <<book, accounts, exchange_vars>>
<1>1. OmsRests /\ UNCHANGED <<book, accounts, stream, from_order_handler, exchange_vars>>
  BY DEF OmsRests, others_of_gateway, websocket_vars
<1>2. tasks' \in [Tasks -> Requests \cup {Idle}] /\ RequestsKnown'
  BY <1>1, Answered
<1>3. Pending' = Pending
  BY <1>1 DEF Pending
<1>4. RecordsKept
  BY <1>1, SameBook DEF RecordsKept
<1>5. StreamsApart' /\ ReportsGenuine' /\ ExecutionsNumbered' /\ XOrdersKnown'
  BY <1>1, <1>3, <1>4, NoNews
<1>6. TypeOK'
  BY <1>1, <1>2, RestingOms DEF Base, TypeOK, exchange_vars, trades, websocket_vars
<1>7. QED
  BY <1>1, <1>2, <1>3, <1>5, <1>6, SameBook DEF Base

\* A reported failure keeps the types.
LEMMA TaskReportsFailureBase ==
    ASSUME Base, NEW t \in Tasks, TaskReportsFailure(t)
    PROVE  Base' /\ FailureStep
<1> DEFINE event == SubmissionFailed(tasks[t].order_link_id)
<1>1. /\ OmsRests
      /\ UNCHANGED <<book, accounts, stream, exchange_vars, websocket_vars>>
      /\ tasks' = [tasks EXCEPT ![t] = Idle]
      /\ SendToOms(event)
      /\ tasks[t] \in FailedRequests
  BY DEF TaskReportsFailure, OmsRests, websocket_vars
<1>2. /\ event \in SubmissionFailures /\ event \in OrderEvents
      /\ event.order_link_id = tasks[t].order_link_id
      /\ IsKnown(event.order_link_id)
  BY <1>1 DEF SubmissionFailed, SubmissionFailures, OrderEvents, FailedRequests, Base,
              RequestsKnown
<1>3. tasks' \in [Tasks -> Requests \cup {Idle}] /\ RequestsKnown'
  BY <1>1, Answered
<1> HIDE DEF event
<1>4. /\ from_order_handler' \in Seq(OrderEvents)
      /\ Pending' = Pending \cup {event}
  BY <1>1, <1>2, FailurePending DEF Base
<1>5. StreamsApart'
  BY <1>1 DEF Base, StreamsApart
<1>6. ReportsGenuine'
  BY <1>1, <1>2, <1>4, SameBook DEF Base, ReportsGenuine, exchange_vars, trades
<1>7. ExecutionsNumbered'
  BY <1>1, SameBook DEF Base, ExecutionsNumbered, exchange_vars, trades
<1>8. XOrdersKnown'
  BY <1>1, SameBook DEF Base, XOrdersKnown, exchange_vars
<1>9. TypeOK'
  BY <1>1, <1>3, <1>4, RestingOms DEF Base, TypeOK, exchange_vars, trades, websocket_vars
<1>10. FailureStep
  BY <1>1, <1>4 DEF FailureStep, event
<1>11. QED
  BY <1>1, <1>3, <1>5, <1>6, <1>7, <1>8, <1>9, <1>10, SameBook DEF Base

\* A report that is delivered.
LEMMA DeliveredBase ==
    ASSUME Base, NEW id \in Ids, NEW i \in DOMAIN stream[id], Delivered(id, i)
    PROVE  Base' /\ QuietStep
<1> DEFINE event == stream[id][i]
<1>1. /\ ProcessResponse(event)
      /\ duplicates' \in Nat
  BY DEF Delivered, Deliver, DeliverTwice, Base, TypeOK
<1>2. /\ UNCHANGED <<from_strategy, strategy_inventory, oms_vars, exchange_vars>>
      /\ recorded' = IF event.type = "ExecutionUpdate" THEN recorded \cup {event} ELSE recorded
  BY <1>1 DEF ProcessResponse
<1>3. UNCHANGED <<book, accounts, tasks>> /\ OmsRests
  BY <1>2 DEF oms_vars, OmsRests
<1>4. /\ stream' \in [Ids -> Seq(OrderUpdates \cup Executions)]
      /\ from_order_handler' \in Seq(OrderEvents)
      /\ \A x \in Ids : Range(stream'[x]) \subseteq Range(stream[x])
      /\ Pending' = Pending
      /\ event \in Pending
      /\ event \in OrderUpdates \cup Executions
  BY DeliveredPending DEF Base
<1>5. event.type = "ExecutionUpdate" => event \in executed
  BY <1>4 DEF Base, ReportsGenuine, GenuineUpdate, OrderUpdates, SubmissionFailures
<1> HIDE DEF event
<1>6. StreamsApart'
  BY <1>4 DEF Base, StreamsApart
<1>7. ReportsGenuine' /\ ExecutionsNumbered' /\ XOrdersKnown'
  BY <1>2, <1>3, <1>4, SameBook
     DEF Base, ReportsGenuine, ExecutionsNumbered, XOrdersKnown, exchange_vars, trades
<1>8. RequestsKnown'
  BY <1>3, SameBook DEF Base, RequestsKnown
<1>9. OmsTypeOK' /\ from_strategy' \in Seq(Builders)
  BY <1>3, RestingOms DEF Base, TypeOK, OmsTypeOK
<1>10. recorded' \subseteq executed'
  BY <1>2, <1>5 DEF Base, TypeOK, exchange_vars, trades
<1>11. TypeOK'
  BY <1>1, <1>2, <1>4, <1>9, <1>10 DEF Base, TypeOK, exchange_vars, trades
<1>12. QuietStep
  BY <1>2, <1>3, <1>4 DEF QuietStep
<1>13. QED
  BY <1>3, <1>6, <1>7, <1>8, <1>11, <1>12, SameBook DEF Base

-----------------------------------------------------------------------------
\* An order that works, and the times of a change of it.
LEMMA OrderThatWorks ==
    ASSUME TypeOK, NEW id \in Ids, Working(id)
    PROVE  /\ xorders[id] \in XOrders
           /\ xorders[id] # Absent
           /\ xorders[id].updated_time \in Nat
           /\ \A time \in LaterThan(xorders[id].updated_time) :
                  /\ time \in Nat
                  /\ time >= xorders[id].updated_time
                  /\ ~SameMillisecond => time > xorders[id].updated_time
BY DEF TypeOK, Working, XOrders, LaterThan

\* An order that works is one the OMS knows.
LEMMA WorkingOrder ==
    ASSUME Base, NEW id \in Ids, Working(id)
    PROVE  /\ xorders[id] \in XOrders
           /\ xorders[id] # Absent
           /\ IsKnown(id)
           /\ RecordOf(id).side = xorders[id].side
           /\ xorders[id].updated_time \in Nat /\ xorders[id].updated_time >= 1
BY OrderThatWorks DEF Base, Working, XOrdersKnown

\* What an amendment makes of an order at the exchange.
LEMMA AmendedOrder ==
    ASSUME TypeOK, NEW t \in Tasks, ExchangeAmends(t), tasks[t].order_link_id \in Ids
    PROVE  \E id \in Ids, xorder \in XOrders :
               /\ id = tasks[t].order_link_id
               /\ Working(id)
               /\ Succeeds(xorder, xorders[id])
               /\ xorder.order_status = xorders[id].order_status
               /\ xorder.filled_qty = xorders[id].filled_qty
               /\ xorder.qty = xorders[id].qty \/ tasks[t].qty \in {xorder.qty} \ {NoChange}
               /\ xorder.qty > xorder.filled_qty
               /\ Change(id, xorder, <<>>)
               /\ tasks[t] \in AmendRequests
               /\ tasks' = [tasks EXCEPT ![t] = Idle]
               /\ UNCHANGED <<others_of_gateway, trades, duplicates, recorded>>
<1> DEFINE id == tasks[t].order_link_id
           price == IF tasks[t].price = NoChange THEN xorders[id].price ELSE tasks[t].price
           qty == IF tasks[t].qty = NoChange THEN xorders[id].qty ELSE tasks[t].qty
           xorder(time) == [xorders[id] EXCEPT !.price = price, !.qty = qty,
                                               !.updated_time = time]
<1>1. /\ tasks[t] \in AmendRequests
      /\ Working(id)
      /\ qty > xorders[id].filled_qty
      /\ tasks' = [tasks EXCEPT ![t] = Idle]
      /\ UNCHANGED <<others_of_gateway, trades, duplicates, recorded>>
  BY DEF ExchangeAmends
<1>2. PICK time \in LaterThan(xorders[id].updated_time) : Change(id, xorder(time), <<>>)
  BY DEF ExchangeAmends
<1>3. id \in Ids
  OBVIOUS
<1>4. /\ xorders[id] \in XOrders
      /\ time \in Nat /\ time >= xorders[id].updated_time
      /\ ~SameMillisecond => time > xorders[id].updated_time
      /\ xorders[id].order_status \in XStatuses
  BY <1>1, <1>3, OrderThatWorks DEF Working, XStatuses
<1>5. price \in Prices /\ qty \in Quantities
  BY <1>1, <1>4 DEF XOrders, AmendRequests
<1>6. /\ xorder(time) \in XOrders
      /\ xorder(time).side = xorders[id].side
      /\ xorder(time).order_status = xorders[id].order_status
      /\ xorder(time).filled_qty = xorders[id].filled_qty
      /\ xorder(time).qty = qty
      /\ xorder(time).updated_time = time
  BY <1>4, <1>5 DEF XOrders
<1>7. Succeeds(xorder(time), xorders[id])
  BY <1>4, <1>6 DEF Succeeds
<1>8. QED
  BY <1>1, <1>2, <1>3, <1>6, <1>7

\* What a cancellation makes of an order at the exchange.
LEMMA CancelledOrder ==
    ASSUME TypeOK, NEW id \in Ids, ExchangeCancels(id)
    PROVE  \E xorder \in XOrders :
               /\ Working(id)
               /\ Succeeds(xorder, xorders[id])
               /\ xorder.order_status \in {"Cancelled", "PartiallyFilledCanceled"}
               /\ Change(id, xorder, <<>>)
               /\ UNCHANGED <<vars_of_oms, trades, duplicates, recorded>>
<1> DEFINE status == IF xorders[id].filled_qty = 0 THEN "Cancelled"
                                                   ELSE "PartiallyFilledCanceled"
           xorder(time) == [xorders[id] EXCEPT !.order_status = status,
                                               !.updated_time = time]
<1>1. /\ Working(id)
      /\ UNCHANGED <<vars_of_oms, trades, duplicates, recorded>>
  BY DEF ExchangeCancels
<1>2. PICK time \in LaterThan(xorders[id].updated_time) : Change(id, xorder(time), <<>>)
  BY DEF ExchangeCancels
<1>3. /\ xorders[id] \in XOrders
      /\ time \in Nat /\ time >= xorders[id].updated_time
      /\ ~SameMillisecond => time > xorders[id].updated_time
  BY <1>1, OrderThatWorks
<1>4. status \in {"Cancelled", "PartiallyFilledCanceled"}
  OBVIOUS
<1>5. status \in XStatuses /\ status \in OrderStatuses
  BY <1>4 DEF XStatuses, OrderStatuses, ClosedStatuses
<1> HIDE DEF status
<1>6. /\ xorder(time) \in XOrders
      /\ xorder(time).side = xorders[id].side
      /\ xorder(time).order_status = status
      /\ xorder(time).updated_time = time
  BY <1>3, <1>5 DEF XOrders
<1>7. Succeeds(xorder(time), xorders[id])
  BY <1>3, <1>5, <1>6 DEF Succeeds
<1>8. QED
  BY <1>1, <1>2, <1>4, <1>6, <1>7

\* What a fill makes of an order at the exchange.
LEMMA FilledOrder ==
    ASSUME TypeOK, NEW id \in Ids, NEW qty \in 1 .. OrderSize, ExchangeFills(id, qty),
           next_exec_id \in 1 .. MaxExecutions + 1
    PROVE  /\ Working(id)
           /\ next_exec_id \in 1 .. MaxExecutions
           /\ next_exec_id' = next_exec_id + 1
           /\ Execution(id, qty) \in PossibleExecutions
           /\ Execution(id, qty) \in Executions
           /\ executed' = executed \cup {Execution(id, qty)}
           /\ wallet' = wallet + Traded(xorders[id].side, qty)
           /\ UNCHANGED <<vars_of_oms, duplicates, recorded>>
           /\ \E xorder \in XOrders :
                  /\ Succeeds(xorder, xorders[id])
                  /\ xorder.filled_qty = xorders[id].filled_qty + qty
                  /\ xorder.qty = xorders[id].qty
                  /\ qty <= xorders[id].qty - xorders[id].filled_qty
                  /\ xorder.order_status = IF qty = xorders[id].qty - xorders[id].filled_qty
                                           THEN "Filled" ELSE "PartiallyFilled"
                  /\ Change(id, xorder, <<Execution(id, qty)>>)
<1> DEFINE status == IF qty = Remaining(id) THEN "Filled" ELSE "PartiallyFilled"
           xorder(time) == [xorders[id] EXCEPT !.filled_qty = @ + qty, !.updated_time = time,
                                               !.order_status = status]
<1>1. /\ Working(id)
      /\ qty <= Remaining(id)
      /\ next_exec_id <= MaxExecutions
      /\ executed' = executed \cup {Execution(id, qty)}
      /\ wallet' = wallet + Traded(xorders[id].side, qty)
      /\ next_exec_id' = next_exec_id + 1
      /\ UNCHANGED <<vars_of_oms, duplicates, recorded>>
  BY DEF ExchangeFills, Execution
<1>2. PICK time \in LaterThan(xorders[id].updated_time) :
          Change(id, xorder(time), <<Execution(id, qty)>>)
  BY DEF ExchangeFills, Execution
<1>3. /\ xorders[id] \in XOrders
      /\ time \in Nat /\ time >= xorders[id].updated_time
      /\ ~SameMillisecond => time > xorders[id].updated_time
  BY <1>1, OrderThatWorks
<1>4. next_exec_id \in 1 .. MaxExecutions
  BY <1>1, TradingAssumption
<1>5. OrderSize \in Nat /\ qty \in Nat /\ id \in Nat
  BY TradingAssumption, QuantitiesAssumption, OmsAssumption DEF Ids
<1>6. /\ Execution(id, qty) \in PossibleExecutions
      /\ Execution(id, qty) \in Executions
  BY <1>3, <1>4, <1>5, TradingAssumption DEF Execution, PossibleExecutions, Executions, XOrders
<1>7. status \in XStatuses /\ status \in OrderStatuses
  BY DEF XStatuses, OrderStatuses, ClosedStatuses, OpenStatuses
<1>8. /\ status = IF qty = xorders[id].qty - xorders[id].filled_qty
                  THEN "Filled" ELSE "PartiallyFilled"
      /\ qty <= xorders[id].qty - xorders[id].filled_qty
  BY <1>1 DEF Remaining
<1> HIDE DEF status
<1> DEFINE filled_qty == xorders[id].filled_qty + qty
<1>9. filled_qty \in Nat
  BY <1>3, <1>5 DEF XOrders
<1>10. xorder(time) = [xorders[id] EXCEPT !.filled_qty = filled_qty, !.updated_time = time,
                                         !.order_status = status]
  BY <1>3 DEF XOrders
<1> HIDE DEF filled_qty, xorder
<1>11. /\ xorder(time) \in XOrders
      /\ xorder(time).side = xorders[id].side
      /\ xorder(time).order_status = status
      /\ xorder(time).updated_time = time
      /\ xorder(time).qty = xorders[id].qty
      /\ xorder(time).filled_qty = filled_qty
  BY <1>3, <1>7, <1>9, <1>10 DEF XOrders
<1>12. Succeeds(xorder(time), xorders[id])
  BY <1>3, <1>7, <1>11 DEF Succeeds
<1>13. QED
  BY <1>1, <1>2, <1>4, <1>6, <1>8, <1>11, <1>12 DEF xorder, filled_qty

\* What a change of an order makes of the base invariant, but for its executions.
LEMMA SucceedsBase ==
    ASSUME Base, NEW id \in Ids, Working(id), NEW xorder \in XOrders, Succeeds(xorder, xorders[id]),
           NEW before \in Seq(Executions),
           \A e \in Range(before) : e \in executed' /\ e.order_link_id = id,
           executed \subseteq executed', executed' \subseteq Executions,
           wallet' \in Int, ExecutionsNumbered',
           Change(id, xorder, before),
           tasks' \in [Tasks -> Requests \cup {Idle}], RequestsKnown',
           OmsRests, UNCHANGED <<from_order_handler, duplicates, recorded>>
    PROVE  /\ Base'
           /\ Pending' = Pending \cup Range(before) \cup {Report(id, xorder)}
           /\ xorders' = [xorders EXCEPT ![id] = xorder]
<1>1. /\ IsKnown(id)
      /\ xorder \in XOrders /\ xorder.side = RecordOf(id).side
      /\ xorder.order_status \in XStatuses
      /\ xorder.updated_time >= 1
  BY WorkingOrder DEF Succeeds, XOrders
<1>2. UNCHANGED <<book, from_order_handler>>
  BY DEF OmsRests
<1>3. /\ stream' \in [Ids -> Seq(OrderUpdates \cup Executions)]
      /\ xorders' \in [Ids -> XOrders \cup {Absent}]
      /\ xorders' = [xorders EXCEPT ![id] = xorder]
      /\ Pending' = Pending \cup Range(before) \cup {Report(id, xorder)}
      /\ StreamsApart' /\ ReportsGenuine' /\ XOrdersKnown'
  BY <1>1, <1>2, Changed
<1>4. TypeOK'
  <2>1. next_exec_id' \in Nat
    BY TradingAssumption DEF ExecutionsNumbered
  <2>2. QED
    BY <1>2, <1>3, <2>1, RestingOms DEF Base, TypeOK
<1>5. QED
  BY <1>2, <1>3, <1>4, SameBook DEF Base

\* A step of the exchange on an order that executes nothing.
LEMMA UntradedBase ==
    ASSUME Base, NEW id \in Ids, Working(id), NEW xorder \in XOrders, Succeeds(xorder, xorders[id]),
           Change(id, xorder, <<>>),
           tasks' \in [Tasks -> Requests \cup {Idle}], RequestsKnown',
           OmsRests, UNCHANGED <<from_order_handler, trades, duplicates, recorded>>
    PROVE  /\ Base'
           /\ Pending' = Pending \cup {Report(id, xorder)}
           /\ xorders' = [xorders EXCEPT ![id] = xorder]
<1>1. <<>> \in Seq(Executions) /\ Range(<<>>) = {}
  BY DEF Range
<1>2. /\ executed' = executed /\ wallet' = wallet
      /\ executed' \subseteq Executions /\ wallet' \in Int
  BY DEF trades, Base, TypeOK
<1>3. ExecutionsNumbered'
  BY SameBook DEF Base, ExecutionsNumbered, trades, OmsRests
<1>4. QED
  BY <1>1, <1>2, <1>3, SucceedsBase

\* An amendment at the exchange keeps the types.
LEMMA ExchangeAmendsBase ==
    ASSUME Base, NEW t \in Tasks, ExchangeAmends(t)
    PROVE  Base' /\ AmendStep
<1>1. PICK id \in Ids, xorder \in XOrders :
          /\ id = tasks[t].order_link_id
          /\ Working(id)
          /\ Succeeds(xorder, xorders[id])
          /\ xorder.order_status = xorders[id].order_status
          /\ xorder.filled_qty = xorders[id].filled_qty
          /\ xorder.qty = xorders[id].qty \/ tasks[t].qty \in {xorder.qty} \ {NoChange}
          /\ xorder.qty > xorder.filled_qty
          /\ Change(id, xorder, <<>>)
          /\ tasks[t] \in AmendRequests
          /\ tasks' = [tasks EXCEPT ![t] = Idle]
          /\ UNCHANGED <<others_of_gateway, trades, duplicates, recorded>>
  <2>1. tasks[t] \in AmendRequests
    BY DEF ExchangeAmends
  <2>2. tasks[t].order_link_id \in Ids
    BY <2>1, KnownRecord DEF Base, RequestsKnown
  <2>3. QED
    BY <2>2, AmendedOrder DEF Base
<1>2. OmsRests /\ UNCHANGED <<book, accounts, from_order_handler>>
  BY <1>1 DEF OmsRests, others_of_gateway
<1>3. tasks' \in [Tasks -> Requests \cup {Idle}] /\ RequestsKnown'
  BY <1>1, <1>2, Answered
<1>4. /\ Base'
      /\ Pending' = Pending \cup {Report(id, xorder)}
      /\ xorders' = [xorders EXCEPT ![id] = xorder]
  BY <1>1, <1>2, <1>3, UntradedBase
<1>5. ChangeStep(id, xorder)
  BY <1>1, <1>2, <1>4 DEF ChangeStep
<1>6. AmendStep
  BY <1>1, <1>4, <1>5 DEF AmendStep
<1>7. QED
  BY <1>4, <1>6

\* A cancellation at the exchange keeps the types.
LEMMA ExchangeCancelsBase ==
    ASSUME Base, NEW id \in Ids, ExchangeCancels(id)
    PROVE  Base' /\ CancelStep
<1>1. PICK xorder \in XOrders :
          /\ Working(id)
          /\ Succeeds(xorder, xorders[id])
          /\ xorder.order_status \in {"Cancelled", "PartiallyFilledCanceled"}
          /\ Change(id, xorder, <<>>)
          /\ UNCHANGED <<vars_of_oms, trades, duplicates, recorded>>
  BY CancelledOrder DEF Base
<1>2. OmsRests /\ UNCHANGED <<book, accounts, from_order_handler, tasks>>
  BY <1>1 DEF OmsRests, vars_of_oms, oms_vars
<1>3. tasks' \in [Tasks -> Requests \cup {Idle}] /\ RequestsKnown'
  BY <1>2, SameBook DEF Base, TypeOK, OmsTypeOK, RequestsKnown
<1>4. /\ Base'
      /\ Pending' = Pending \cup {Report(id, xorder)}
      /\ xorders' = [xorders EXCEPT ![id] = xorder]
  BY <1>1, <1>2, <1>3, UntradedBase
<1>5. ChangeStep(id, xorder)
  BY <1>1, <1>2, <1>4 DEF ChangeStep
<1>6. CancelStep
  BY <1>1, <1>2, <1>4, <1>5 DEF CancelStep
<1>7. QED
  BY <1>4, <1>6

\* A fill at the exchange keeps the types.
LEMMA ExchangeFillsBase ==
    ASSUME Base, NEW id \in Ids, NEW qty \in 1 .. OrderSize, ExchangeFills(id, qty)
    PROVE  Base' /\ FillStep
<1> DEFINE execution == Execution(id, qty)
<1>1. /\ Working(id)
      /\ next_exec_id \in 1 .. MaxExecutions
      /\ next_exec_id' = next_exec_id + 1
      /\ execution \in PossibleExecutions
      /\ execution \in Executions
      /\ executed' = executed \cup {execution}
      /\ wallet' = wallet + Traded(xorders[id].side, qty)
      /\ UNCHANGED <<vars_of_oms, duplicates, recorded>>
  BY FilledOrder DEF Base, ExecutionsNumbered
<1>2. PICK xorder \in XOrders :
          /\ Succeeds(xorder, xorders[id])
          /\ xorder.filled_qty = xorders[id].filled_qty + qty
          /\ xorder.qty = xorders[id].qty
          /\ qty <= xorders[id].qty - xorders[id].filled_qty
          /\ xorder.order_status = IF qty = xorders[id].qty - xorders[id].filled_qty
                                   THEN "Filled" ELSE "PartiallyFilled"
          /\ Change(id, xorder, <<execution>>)
  BY FilledOrder DEF Base, ExecutionsNumbered
<1>3. OmsRests /\ UNCHANGED <<book, accounts, from_order_handler, tasks>>
  BY <1>1 DEF OmsRests, vars_of_oms, oms_vars
<1>4. tasks' \in [Tasks -> Requests \cup {Idle}] /\ RequestsKnown'
  BY <1>3, SameBook DEF Base, TypeOK, OmsTypeOK, RequestsKnown
<1>5. execution.order_link_id = id /\ execution.exec_id = next_exec_id
  BY DEF Execution
<1> HIDE DEF execution
<1>6. <<execution>> \in Seq(Executions) /\ Range(<<execution>>) = {execution}
  BY <1>1 DEF Range
<1>7. ExecutionsNumbered'
  <2>1. IsKnown(id)
    BY <1>1, WorkingOrder
  <2>2. next_exec_id' \in 1 .. MaxExecutions + 1
    BY <1>1, TradingAssumption
  <2>3. \A e \in executed' : e \in PossibleExecutions /\ IsKnown(e.order_link_id)
    BY <1>1, <1>5, <2>1 DEF Base, ExecutionsNumbered
  <2>4. \A e \in executed : e.exec_id \in Nat /\ e.exec_id < next_exec_id
    BY DEF Base, TypeOK, Executions, ExecutionsNumbered
  <2>5. \A e \in executed' : e.exec_id < next_exec_id'
    BY <1>1, <1>5, <2>4
  <2>6. \A e, f \in executed' : e.exec_id = f.exec_id => e = f
    BY <1>1, <1>5, <2>4 DEF Base, ExecutionsNumbered
  <2>7. QED
    BY <1>3, <2>2, <2>3, <2>5, <2>6, SameBook DEF ExecutionsNumbered
<1>8. wallet' \in Int
  <2>1. Traded(xorders[id].side, qty) \in Int
    BY TradingAssumption DEF Traded
  <2>2. QED
    BY <1>1, <2>1 DEF Base, TypeOK
<1>9. executed' \subseteq Executions /\ executed \subseteq executed'
  BY <1>1 DEF Base, TypeOK
<1>10. \A e \in Range(<<execution>>) : e \in executed' /\ e.order_link_id = id
  BY <1>1, <1>5, <1>6
<1>11. /\ Base'
       /\ Pending' = Pending \cup Range(<<execution>>) \cup {Report(id, xorder)}
       /\ xorders' = [xorders EXCEPT ![id] = xorder]
  BY <1>1, <1>2, <1>3, <1>4, <1>6, <1>7, <1>8, <1>9, <1>10, SucceedsBase
<1>12. Pending' = Pending \cup {execution, Report(id, xorder)}
  BY <1>6, <1>11
<1>13. ChangeStep(id, xorder)
  BY <1>1, <1>2, <1>3, <1>11 DEF ChangeStep
<1>14. FillStep
  BY <1>1, <1>2, <1>3, <1>12, <1>13 DEF FillStep, execution
<1>15. QED
  BY <1>11, <1>14

\* A step in which nothing happens.
LEMMA StutterBase ==
    ASSUME Base, UNCHANGED trading_vars
    PROVE  Base' /\ QuietStep
<1>1. UNCHANGED <<book, accounts, exchange_vars, stream, from_order_handler, tasks>>
  BY DEF trading_vars, vars_of_oms, oms_vars, websocket_vars
<1>2. Pending' = Pending /\ RecordsKept
  BY <1>1, SameBook DEF Pending, RecordsKept
<1>3. StreamsApart' /\ ReportsGenuine' /\ ExecutionsNumbered' /\ XOrdersKnown'
  BY <1>1, <1>2, NoNews
<1>4. RequestsKnown'
  BY <1>1, SameBook DEF Base, RequestsKnown
<1>5. TypeOK'
  BY DEF Base, TypeOK, OmsTypeOK, trading_vars, vars_of_oms, oms_vars, book, accounts,
         exchange_vars, trades, websocket_vars
<1>6. QED
  BY <1>1, <1>2, <1>3, <1>4, <1>5, SameBook DEF Base, QuietStep

\* The steps of the tasks keep the types.
LEMMA TaskStepBase ==
    ASSUME Base, NEW t \in Tasks, TaskStep(t)
    PROVE  Base' /\ LoopStep
<1>1. CASE ExchangeAccepts(t)
  BY <1>1, AcceptBase DEF ExchangeAccepts, LoopStep
<1>2. CASE ExchangeAcceptsUnheard(t)
  BY <1>2, AcceptBase DEF ExchangeAcceptsUnheard, LoopStep
<1>3. CASE ExchangeRefuses(t)
  <2>1. /\ Base'
        /\ Pending' = Pending
        /\ UNCHANGED <<book, accounts, exchange_vars>>
    BY <1>3, TaskEndsBase DEF ExchangeRefuses
  <2>2. QED
    BY <1>3, <2>1 DEF ExchangeRefuses, RefuseStep, LoopStep
<1>4. CASE ExchangeAmends(t)
  BY <1>4, ExchangeAmendsBase DEF LoopStep
<1>5. CASE RequestEnds(t)
  <2>1. /\ Base'
        /\ Pending' = Pending
        /\ UNCHANGED <<book, accounts, exchange_vars>>
    BY <1>5, TaskEndsBase DEF RequestEnds
  <2>2. QED
    BY <1>5, <2>1 DEF RequestEnds, EndStep, LoopStep
<1>6. CASE TaskReportsFailure(t)
  BY <1>6, TaskReportsFailureBase DEF LoopStep
<1>7. QED
  BY <1>1, <1>2, <1>3, <1>4, <1>5, <1>6 DEF TaskStep

\* Every step keeps the base invariant, and is one of those above.
LEMMA NextBase ==
    ASSUME Base, [Next]_trading_vars
    PROVE  Base' /\ LoopStep
<1>1. CASE StrategyStep
  BY <1>1, StrategyStepBase DEF LoopStep
<1>2. CASE OmsStep
  BY <1>2, OmsRecvFromStrategyBase, OmsRecvFromOrderHandlerBase DEF OmsStep, LoopStep
<1>3. CASE \E t \in Tasks : TaskStep(t)
  BY <1>3, TaskStepBase
<1>4. CASE MarketStep
  BY <1>4, ExchangeCancelsBase, ExchangeFillsBase DEF MarketStep, LoopStep
<1>5. CASE WebsocketStep
  BY <1>5, DeliveredBase DEF WebsocketStep, Delivered, LoopStep
<1>6. CASE UNCHANGED trading_vars
  BY <1>6, StutterBase DEF LoopStep
<1>7. QED
  BY <1>1, <1>2, <1>3, <1>4, <1>5, <1>6 DEF Next

\* Every variable of the loop always has its type, and the recorder is given only executions
\* that happened.
THEOREM TypeCorrect == Spec => []TypeOK
<1>1. TradingInit => Base
  BY InitBase
<1>2. Base /\ [Next]_trading_vars => Base'
  BY NextBase
<1>3. Base => TypeOK
  BY DEF Base
<1>4. QED
  BY <1>1, <1>2, <1>3, PTL DEF Spec

\* What is under way is never about an order the OMS has not recorded: every report in the
\* streams and the channel (an update or an execution the exchange made, or the failure of a
\* submission), every request in a task, and every order the exchange has taken, on the side
\* that was recorded.  So no report of the session's own orders is discarded as unknown
\* (handle_order_update, handle_execution_update, submit_new_order).
THEOREM OnlyKnownOrders == Spec => [](ReportsGenuine /\ RequestsKnown /\ XOrdersKnown)
<1>1. TradingInit => Base
  BY InitBase
<1>2. Base /\ [Next]_trading_vars => Base'
  BY NextBase
<1>3. Base => ReportsGenuine /\ RequestsKnown /\ XOrdersKnown
  BY DEF Base
<1>4. QED
  BY <1>1, <1>2, <1>3, PTL DEF Spec

-----------------------------------------------------------------------------
\* What an execution brings into the account, and those the OMS has not counted.
Weight(e) == Traded(e.order_side, e.exec_qty)

Uncounted == executed \ Settled

\* The executions not yet counted, summed up in the order of their numbers: the last sum
\* is what separates the wallet from the inventory.
Accumulates(g) ==
    /\ g[0] = 0
    /\ \A n \in 1 .. MaxExecutions :
           (\A e \in Uncounted : e.exec_id # n) => g[n] = g[n - 1]
    /\ \A e \in Uncounted : g[e.exec_id] = g[e.exec_id - 1] + Weight(e)
    /\ wallet = inventory + g[MaxExecutions]

AccountsInv ==
    /\ processed_executions = {ExecutionKey(e) : e \in Settled}
    /\ Uncounted \subseteq Pending
    /\ \E g \in [0 .. MaxExecutions -> Int] : Accumulates(g)

-----------------------------------------------------------------------------
\* The steps of the loop, by what they do to the accounts.

AccountsRest ==
    /\ UNCHANGED <<executed, wallet, accounts>>
    /\ Uncounted \cap Pending \subseteq Pending'

Executes(e) ==
    /\ e \in PossibleExecutions
    /\ \A f \in executed : f.exec_id # e.exec_id
    /\ executed' = executed \cup {e}
    /\ wallet' = wallet + Weight(e)
    /\ UNCHANGED accounts
    /\ e \in Pending' /\ Pending \subseteq Pending'

Counts(e) ==
    /\ e \in Uncounted
    /\ processed_executions' = processed_executions \cup {ExecutionKey(e)}
    /\ inventory' = inventory + Weight(e)
    /\ UNCHANGED <<executed, wallet>>
    /\ Pending \subseteq Pending' \cup {e}

\* An execution has a weight, and changes the inventory by it.
LEMMA ExecutionWeight ==
    ASSUME NEW e \in PossibleExecutions, NEW net \in Int
    PROVE  /\ Weight(e) \in Int
           /\ e.exec_id \in 1 .. MaxExecutions
           /\ NetAfter(net, e) = net + Weight(e)
           /\ e.type = "ExecutionUpdate"
           /\ ExecutionKey(e) = <<e.order_link_id, e.exec_id>>
<1>1. OrderSize \in Nat
  BY TradingAssumption, QuantitiesAssumption
<1>2. /\ e.exec_qty \in Int /\ e.exec_fee = Fee /\ e.exec_id \in 1 .. MaxExecutions
      /\ e.type = "ExecutionUpdate"
  BY <1>1 DEF PossibleExecutions
<1>3. QED
  BY <1>2, TradingAssumption DEF Weight, Traded, NetAfter, ExecutionKey

\* The OMS receives an execution: it counts it, or had counted it before.
LEMMA ReceivesExecution ==
    ASSUME Base, NEW event \in executed, event \in Pending, OrderResponse(event),
           Pending = Pending' \cup {event}, UNCHANGED exchange_vars
    PROVE  AccountsRest \/ Counts(event)
<1>1. /\ event \in PossibleExecutions
      /\ IsKnown(event.order_link_id)
      /\ inventory \in Int
  BY DEF Base, ExecutionsNumbered, TypeOK, OmsTypeOK
<1>2. HandleExecutionUpdate(event)
  BY <1>1, ExecutionWeight DEF OrderResponse
<1>3. UNCHANGED <<executed, wallet>>
  BY DEF exchange_vars, trades
<1>4. CASE CountExecution(event)
  <2>1. event \in Uncounted
    BY <1>4 DEF CountExecution, IsCounted, Uncounted, Settled
  <2>2. QED
    BY <1>1, <1>3, <1>4, <2>1, ExecutionWeight DEF CountExecution, Counts
<1>5. CASE DiscardExecution(event)
  <2>1. event.exec_id # EmptyExecId
    BY <1>1, ExecutionWeight DEF EmptyExecId
  <2>2. event \notin Uncounted
    BY <1>1, <1>5, <2>1 DEF DiscardExecution, IsCounted, Uncounted, Settled
  <2>3. UNCHANGED accounts
    BY <1>5 DEF DiscardExecution, oms_vars
  <2>4. QED
    BY <1>3, <2>2, <2>3 DEF AccountsRest
<1>6. QED
  BY <1>2, <1>4, <1>5 DEF HandleExecutionUpdate

\* A step leaves the accounts alone, makes an execution or counts one.
LEMMA AccountsStep ==
    ASSUME Base, LoopStep
    PROVE  AccountsRest \/ \E e \in PossibleExecutions : Executes(e) \/ Counts(e)
<1>1. CASE QuietStep
  BY <1>1 DEF QuietStep, AccountsRest, exchange_vars, trades
<1>2. CASE CommandStep
  BY <1>2 DEF CommandStep, ForwardOrders, AccountsRest, exchange_vars, trades
<1>3. CASE EventStep
  <2>1. PICK event \in OrderEvents :
            /\ event \in Pending
            /\ OrderResponse(event)
            /\ Pending = Pending' \cup {event}
            /\ UNCHANGED exchange_vars
    BY <1>3 DEF EventStep
  <2>2. CASE event \in executed
    <3>1. event \in PossibleExecutions
      BY <2>2 DEF Base, ExecutionsNumbered
    <3>2. QED
      BY <2>1, <2>2, <3>1, ReceivesExecution
  <2>3. CASE event \notin executed
    <3>1. event.type # "ExecutionUpdate"
      BY <2>1, <2>3 DEF Base, ReportsGenuine, GenuineUpdate, OrderUpdates, SubmissionFailures
    <3>2. UNCHANGED accounts
      BY <2>1, <3>1 DEF OrderResponse, HandleOrderUpdate, HandleSubmissionFailure
    <3>3. QED
      BY <2>1, <2>3, <3>2 DEF AccountsRest, Uncounted, exchange_vars, trades
  <2>4. QED
    BY <2>2, <2>3
<1>4. CASE AcceptStep \/ AmendStep \/ CancelStep
  BY <1>4 DEF AcceptStep, AmendStep, CancelStep, ChangeStep, AccountsRest, trades
<1>5. CASE RefuseStep \/ FailureStep \/ EndStep
  BY <1>5 DEF RefuseStep, FailureStep, EndStep, AccountsRest, exchange_vars, trades
<1>6. CASE FillStep
  <2>1. PICK id \in Ids, xorder \in XOrders, qty \in 1 .. OrderSize :
            /\ ChangeStep(id, xorder)
            /\ Pending' = Pending \cup {Execution(id, qty), Report(id, xorder)}
            /\ Execution(id, qty) \in PossibleExecutions
            /\ executed' = executed \cup {Execution(id, qty)}
            /\ wallet' = wallet + Traded(xorders[id].side, qty)
    BY <1>6 DEF FillStep
  <2>2. \A f \in executed : f.exec_id # Execution(id, qty).exec_id
    BY DEF Base, TypeOK, Executions, ExecutionsNumbered, Execution
  <2>3. Weight(Execution(id, qty)) = Traded(xorders[id].side, qty)
    BY DEF Weight, Execution
  <2>4. Executes(Execution(id, qty))
    BY <2>1, <2>2, <2>3 DEF Executes, ChangeStep
  <2>5. QED
    BY <2>1, <2>4
<1>7. QED
  BY <1>1, <1>2, <1>3, <1>4, <1>5, <1>6 DEF LoopStep

-----------------------------------------------------------------------------
\* Which executions are settled after a step.

\* What is counted does not change with the other variables.
LEMMA SettledRests ==
    ASSUME AccountsRest
    PROVE  Settled' = Settled /\ Uncounted' = Uncounted
BY DEF AccountsRest, Settled, Uncounted, accounts

\* A fill adds one execution to what is not counted.
LEMMA SettledExecutes ==
    ASSUME Base, AccountsInv, NEW e, Executes(e)
    PROVE  /\ e \notin executed
           /\ Settled' = Settled
           /\ Uncounted' = Uncounted \cup {e}
<1>1. e \notin executed
  BY DEF Executes
<1>2. ExecutionKey(e) \notin processed_executions
  <2>1. \A f \in Settled : ExecutionKey(f) # ExecutionKey(e)
    BY DEF Executes, Settled, ExecutionKey
  <2>2. QED
    BY <2>1 DEF AccountsInv
<1>3. QED
  BY <1>1, <1>2 DEF Executes, Settled, Uncounted, accounts

\* A report that is counted moves its execution from what is not counted to what is.
LEMMA SettledCounts ==
    ASSUME Base, NEW e, Counts(e)
    PROVE  /\ Settled' = Settled \cup {e}
           /\ Uncounted' = Uncounted \ {e}
<1>1. \A f \in executed : ExecutionKey(f) = ExecutionKey(e) <=> f = e
  BY DEF Counts, Uncounted, Base, ExecutionsNumbered, ExecutionKey
<1>2. QED
  BY <1>1 DEF Counts, Settled, Uncounted

-----------------------------------------------------------------------------
\* The invariant of the accounts.

\* Nothing is executed at the start, and wallet and inventory agree.
LEMMA InitAccounts ==
    ASSUME TradingInit
    PROVE  AccountsInv
<1>1. Settled = {} /\ Uncounted = {}
  BY DEF TradingInit, Settled, Uncounted
<1>2. processed_executions = {}
  BY DEF TradingInit, OmsInit
<1>3. [n \in 0 .. MaxExecutions |-> 0] \in [0 .. MaxExecutions -> Int]
  OBVIOUS
<1>4. Accumulates([n \in 0 .. MaxExecutions |-> 0])
  BY <1>1, TradingAssumption, OmsAssumption DEF Accumulates, TradingInit, OmsInit
<1>5. QED
  BY <1>1, <1>2, <1>3, <1>4 DEF AccountsInv

\* A step that neither executes nor counts keeps the accounts.
LEMMA RestAccounts ==
    ASSUME Base, AccountsInv, AccountsRest
    PROVE  AccountsInv'
<1>1. /\ Settled' = Settled /\ Uncounted' = Uncounted
      /\ wallet' = wallet /\ inventory' = inventory
      /\ processed_executions' = processed_executions
  BY SettledRests DEF AccountsRest, accounts
<1>2. Uncounted' \subseteq Pending'
  BY <1>1 DEF AccountsRest, AccountsInv
<1>3. QED
  BY <1>1, <1>2 DEF AccountsInv, Accumulates

\* Every sum from one number on raised by the same amount.
LEMMA RaisedSums ==
    ASSUME NEW g \in [0 .. MaxExecutions -> Int], NEW k \in 1 .. MaxExecutions, NEW w \in Int
    PROVE  \E h \in [0 .. MaxExecutions -> Int] :
               /\ h[0] = g[0]
               /\ h[MaxExecutions] = g[MaxExecutions] + w
               /\ \A n \in 1 .. MaxExecutions :
                      /\ g[n] \in Int /\ g[n - 1] \in Int
                      /\ n = k => h[n] = h[n - 1] + (g[n] - g[n - 1]) + w
                      /\ n # k => h[n] = h[n - 1] + (g[n] - g[n - 1])
<1> DEFINE h == [n \in 0 .. MaxExecutions |-> IF n >= k THEN g[n] + w ELSE g[n]]
<1>1. MaxExecutions \in Nat
  BY TradingAssumption
<1>2. h \in [0 .. MaxExecutions -> Int]
  BY <1>1
<1>3. \A n \in 0 .. MaxExecutions : h[n] = IF n >= k THEN g[n] + w ELSE g[n]
  OBVIOUS
<1> HIDE DEF h
<1>4. h[0] = g[0] /\ h[MaxExecutions] = g[MaxExecutions] + w
  BY <1>1, <1>3
<1>5. ASSUME NEW n \in 1 .. MaxExecutions
      PROVE  /\ g[n] \in Int /\ g[n - 1] \in Int
             /\ n = k => h[n] = h[n - 1] + (g[n] - g[n - 1]) + w
             /\ n # k => h[n] = h[n - 1] + (g[n] - g[n - 1])
  <2>1. n \in 0 .. MaxExecutions /\ n - 1 \in 0 .. MaxExecutions
    BY <1>1
  <2>2. g[n] \in Int /\ g[n - 1] \in Int
    BY <2>1
  <2>3. CASE n < k
    <3>1. h[n] = g[n] /\ h[n - 1] = g[n - 1]
      BY <1>1, <1>3, <2>1, <2>3
    <3>2. QED
      BY <2>2, <2>3, <3>1
  <2>4. CASE n = k
    <3>1. h[n] = g[n] + w /\ h[n - 1] = g[n - 1]
      BY <1>1, <1>3, <2>1, <2>4
    <3>2. QED
      BY <2>2, <2>4, <3>1
  <2>5. CASE n > k
    <3>1. h[n] = g[n] + w /\ h[n - 1] = g[n - 1] + w
      BY <1>1, <1>3, <2>1, <2>5
    <3>2. QED
      BY <2>2, <2>5, <3>1
  <2>6. QED
    BY <2>3, <2>4, <2>5
<1>6. QED
  BY <1>2, <1>4, <1>5

\* A new execution adds its weight to every sum from its number on.
LEMMA ExecutesAccounts ==
    ASSUME Base, AccountsInv, NEW e, Executes(e)
    PROVE  AccountsInv'
<1>1. /\ Settled' = Settled /\ Uncounted' = Uncounted \cup {e}
      /\ wallet' = wallet + Weight(e) /\ inventory' = inventory
      /\ processed_executions' = processed_executions
  BY SettledExecutes DEF Executes, accounts
<1>2. /\ Weight(e) \in Int /\ e.exec_id \in 1 .. MaxExecutions
      /\ wallet \in Int /\ inventory \in Int
      /\ MaxExecutions \in Nat
  BY ExecutionWeight, TradingAssumption DEF Executes, Base, TypeOK, OmsTypeOK
<1>3. \A f \in Uncounted : /\ f.exec_id \in 1 .. MaxExecutions /\ f.exec_id # e.exec_id
                           /\ Weight(f) \in Int
  BY ExecutionWeight DEF Executes, Uncounted, Base, ExecutionsNumbered
<1>4. PICK g \in [0 .. MaxExecutions -> Int] : Accumulates(g)
  BY DEF AccountsInv
<1>5. PICK h \in [0 .. MaxExecutions -> Int] :
          /\ h[0] = g[0]
          /\ h[MaxExecutions] = g[MaxExecutions] + Weight(e)
          /\ \A n \in 1 .. MaxExecutions :
                 /\ g[n] \in Int /\ g[n - 1] \in Int
                 /\ n = e.exec_id => h[n] = h[n - 1] + (g[n] - g[n - 1]) + Weight(e)
                 /\ n # e.exec_id => h[n] = h[n - 1] + (g[n] - g[n - 1])
  BY <1>2, RaisedSums
<1>6. \A n \in 1 .. MaxExecutions : h[n] \in Int /\ h[n - 1] \in Int
  BY <1>2
<1>7. h[0] = 0
  BY <1>4, <1>5 DEF Accumulates
<1>8. ASSUME NEW n \in 1 .. MaxExecutions, \A f \in Uncounted' : f.exec_id # n
      PROVE  h[n] = h[n - 1]
  <2>1. g[n] = g[n - 1] /\ n # e.exec_id
    BY <1>1, <1>4, <1>8 DEF Accumulates
  <2>2. QED
    BY <1>5, <1>6, <2>1
<1>9. ASSUME NEW f \in Uncounted'
      PROVE  h[f.exec_id] = h[f.exec_id - 1] + Weight(f)
  <2>1. CASE f = e
    <3>1. g[e.exec_id] = g[e.exec_id - 1]
      BY <1>2, <1>3, <1>4 DEF Accumulates
    <3>2. /\ h[e.exec_id] = h[e.exec_id - 1] + (g[e.exec_id] - g[e.exec_id - 1]) + Weight(e)
          /\ g[e.exec_id] \in Int /\ h[e.exec_id - 1] \in Int
      BY <1>2, <1>5, <1>6
    <3>3. h[e.exec_id] = h[e.exec_id - 1] + Weight(e)
      BY <1>2, <3>1, <3>2
    <3>4. QED
      BY <2>1, <3>3
  <2>2. CASE f # e
    <3>1. f \in Uncounted /\ g[f.exec_id] = g[f.exec_id - 1] + Weight(f)
      BY <1>1, <1>4, <2>2 DEF Accumulates
    <3>2. /\ h[f.exec_id] = h[f.exec_id - 1] + (g[f.exec_id] - g[f.exec_id - 1])
          /\ g[f.exec_id - 1] \in Int /\ h[f.exec_id - 1] \in Int /\ Weight(f) \in Int
      BY <1>3, <1>5, <1>6, <3>1
    <3>3. QED
      BY <3>1, <3>2
  <2>3. QED
    BY <2>1, <2>2
<1>10. wallet' = inventory' + h[MaxExecutions]
  BY <1>1, <1>2, <1>4, <1>5 DEF Accumulates
<1>11. Accumulates(h)'
  BY <1>7, <1>8, <1>9, <1>10 DEF Accumulates
<1>12. Uncounted' \subseteq Pending'
  BY <1>1 DEF AccountsInv, Executes
<1>13. QED
  BY <1>1, <1>11, <1>12 DEF AccountsInv

\* An execution that is counted takes its weight out of every sum from its number on.
LEMMA CountsAccounts ==
    ASSUME Base, AccountsInv, NEW e, Counts(e)
    PROVE  AccountsInv'
<1>1. /\ Settled' = Settled \cup {e} /\ Uncounted' = Uncounted \ {e}
      /\ wallet' = wallet /\ inventory' = inventory + Weight(e)
      /\ processed_executions' = processed_executions \cup {ExecutionKey(e)}
  BY SettledCounts DEF Counts
<1>2. /\ Weight(e) \in Int /\ -Weight(e) \in Int /\ e.exec_id \in 1 .. MaxExecutions
      /\ wallet \in Int /\ inventory \in Int
      /\ MaxExecutions \in Nat
  <2>1. e \in PossibleExecutions
    BY DEF Counts, Uncounted, Base, ExecutionsNumbered
  <2>2. QED
    BY <2>1, ExecutionWeight, TradingAssumption DEF Base, TypeOK, OmsTypeOK
<1>3. \A f \in Uncounted : /\ f.exec_id \in 1 .. MaxExecutions
                           /\ f # e => f.exec_id # e.exec_id
                           /\ Weight(f) \in Int
  BY ExecutionWeight DEF Counts, Uncounted, Base, ExecutionsNumbered
<1>4. PICK g \in [0 .. MaxExecutions -> Int] : Accumulates(g)
  BY DEF AccountsInv
<1>5. PICK h \in [0 .. MaxExecutions -> Int] :
          /\ h[0] = g[0]
          /\ h[MaxExecutions] = g[MaxExecutions] + (-Weight(e))
          /\ \A n \in 1 .. MaxExecutions :
                 /\ g[n] \in Int /\ g[n - 1] \in Int
                 /\ n = e.exec_id => h[n] = h[n - 1] + (g[n] - g[n - 1]) + (-Weight(e))
                 /\ n # e.exec_id => h[n] = h[n - 1] + (g[n] - g[n - 1])
  BY <1>2, RaisedSums
<1>6. \A n \in 1 .. MaxExecutions : h[n] \in Int /\ h[n - 1] \in Int
  BY <1>2
<1>7. h[0] = 0
  BY <1>4, <1>5 DEF Accumulates
<1>8. ASSUME NEW n \in 1 .. MaxExecutions, \A f \in Uncounted' : f.exec_id # n
      PROVE  h[n] = h[n - 1]
  <2>1. CASE n = e.exec_id
    <3>1. g[n] = g[n - 1] + Weight(e)
      BY <1>4, <2>1 DEF Accumulates, Counts
    <3>2. /\ h[n] = h[n - 1] + (g[n] - g[n - 1]) + (-Weight(e))
          /\ g[n - 1] \in Int /\ h[n - 1] \in Int
      BY <1>5, <1>6, <2>1
    <3>3. QED
      BY <1>2, <3>1, <3>2
  <2>2. CASE n # e.exec_id
    <3>1. g[n] = g[n - 1]
      BY <1>1, <1>4, <1>8, <2>2 DEF Accumulates
    <3>2. QED
      BY <1>5, <1>6, <2>2, <3>1
  <2>3. QED
    BY <2>1, <2>2
<1>9. ASSUME NEW f \in Uncounted'
      PROVE  h[f.exec_id] = h[f.exec_id - 1] + Weight(f)
  <2>1. f \in Uncounted /\ f # e /\ g[f.exec_id] = g[f.exec_id - 1] + Weight(f)
    BY <1>1, <1>4 DEF Accumulates
  <2> DEFINE n == f.exec_id
  <2>2. n \in 1 .. MaxExecutions /\ n # e.exec_id
    BY <1>3, <2>1
  <2> HIDE DEF n
  <2>3. /\ g[n] \in Int /\ g[n - 1] \in Int /\ h[n] \in Int /\ h[n - 1] \in Int
        /\ h[n] = h[n - 1] + (g[n] - g[n - 1])
    BY <1>5, <1>6, <2>2
  <2>4. h[n] = h[n - 1] + (g[n] - g[n - 1]) /\ g[n] = g[n - 1] + Weight(f)
    BY <2>1, <2>3 DEF n
  <2>5. Weight(f) \in Int
    BY <1>3, <2>1
  <2>6. h[n] = h[n - 1] + Weight(f)
    BY <2>3, <2>4, <2>5
  <2>7. QED
    BY <2>6 DEF n
<1>10. wallet' = inventory' + h[MaxExecutions]
  <2>1. wallet = inventory + g[MaxExecutions] /\ g[MaxExecutions] \in Int
    BY <1>2, <1>4 DEF Accumulates
  <2>2. QED
    BY <1>1, <1>2, <1>5, <2>1
<1>11. Accumulates(h)'
  BY <1>7, <1>8, <1>9, <1>10 DEF Accumulates
<1>12. Uncounted' \subseteq Pending'
  BY <1>1 DEF AccountsInv, Counts
<1>13. QED
  BY <1>1, <1>11, <1>12 DEF AccountsInv

\* Every step keeps the accounts.
LEMMA NextAccounts ==
    ASSUME Base, AccountsInv, [Next]_trading_vars
    PROVE  AccountsInv'
BY NextBase, AccountsStep, RestAccounts, ExecutesAccounts, CountsAccounts

\* The base invariant and that of the accounts, together.
LEMMA AccountsAlways == Spec => [](Base /\ AccountsInv)
<1>1. TradingInit => Base /\ AccountsInv
  BY InitBase, InitAccounts
<1>2. Base /\ AccountsInv /\ [Next]_trading_vars => (Base /\ AccountsInv)'
  BY NextBase, NextAccounts
<1>3. QED
  BY <1>1, <1>2, PTL DEF Spec

-----------------------------------------------------------------------------
\* With nothing left to count the sums are all zero.
LEMMA AllCounted ==
    ASSUME Uncounted = {}, NEW g \in [0 .. MaxExecutions -> Int], Accumulates(g)
    PROVE  g[MaxExecutions] = 0
<1> DEFINE S == {n \in 0 .. MaxExecutions : g[n] # 0}
<1>1. MaxExecutions \in Nat
  BY TradingAssumption
<1>2. S = {}
  <2> SUFFICES ASSUME S # {} PROVE FALSE
    OBVIOUS
  <2>1. PICK n \in S : \A m \in S : n <= m
    <3>1. S \subseteq Nat
      BY <1>1
    <3> HIDE DEF S
    <3>2. QED
      BY <3>1, LeastMember
  <2>2. n \in 1 .. MaxExecutions
    BY <1>1, <2>1 DEF Accumulates
  <2>3. g[n] = g[n - 1]
    BY <2>2 DEF Accumulates
  <2>4. n - 1 \in S
    BY <1>1, <2>1, <2>2, <2>3
  <2>5. QED
    BY <2>1, <2>2, <2>4
<1>3. QED
  BY <1>1, <1>2

\* What is not counted is on its way, under the order it is about.
LEMMA UncountedUnderway ==
    ASSUME Base, AccountsInv
    PROVE  \A e \in executed \ Settled : e \in Underway(e.order_link_id)
<1> SUFFICES ASSUME NEW e \in Uncounted
             PROVE  e \in Underway(e.order_link_id)
  BY DEF Uncounted
<1>1. e \in Pending
  BY DEF AccountsInv
<1>2. CASE e \in Range(from_order_handler)
  BY <1>2 DEF Underway
<1>3. ASSUME NEW id \in Ids, e \in Range(stream[id])
      PROVE  e \in Underway(e.order_link_id)
  BY <1>3 DEF Base, StreamsApart, Underway
<1>4. QED
  BY <1>1, <1>2, <1>3 DEF Pending

\* The inventory catches up with the wallet: what the OMS has not counted is on its way,
\* and with nothing left to count the two agree, whatever was delivered late, twice or out
\* of order (handle_execution_update).
THEOREM InventoryFollowsWallet == Spec => []InventoryCatchesUpWithWallet
<1>1. ASSUME Base, AccountsInv
      PROVE  InventoryCatchesUpWithWallet
  <2>1. ASSUME executed = Settled
        PROVE  inventory = wallet
    <3>1. PICK g \in [0 .. MaxExecutions -> Int] : Accumulates(g)
      BY <1>1 DEF AccountsInv
    <3>2. g[MaxExecutions] = 0
      BY <2>1, <3>1, AllCounted DEF Uncounted
    <3>3. QED
      BY <1>1, <3>1, <3>2 DEF Accumulates, Base, TypeOK, OmsTypeOK
  <2>2. QED
    BY <1>1, <2>1, UncountedUnderway DEF InventoryCatchesUpWithWallet, AccountsInv
<1>2. QED
  BY <1>1, AccountsAlways, PTL

-----------------------------------------------------------------------------
\* The refinement: the loop implements the settlement of executions.

\* The start is a start of the abstract specification.
LEMMA InitSettlement ==
    ASSUME TradingInit
    PROVE  ASettlement!Init
BY DEF TradingInit, OmsInit, Settled, ASettlement!Init

\* Every step executes an execution that did not exist, settles one that was not settled,
\* or changes neither the executions nor the balance.
LEMMA NextSettlement ==
    ASSUME Base, AccountsInv, [Next]_trading_vars
    PROVE  [ASettlement!Next]_ASettlement!settlement_vars
<1>1. AccountsRest \/ \E e \in PossibleExecutions : Executes(e) \/ Counts(e)
  BY NextBase, AccountsStep
<1>2. CASE AccountsRest
  BY <1>2, SettledRests DEF AccountsRest, accounts, ASettlement!settlement_vars
<1>3. ASSUME NEW e \in PossibleExecutions, Executes(e)
      PROVE  ASettlement!Next
  <2>1. ASettlement!Execute(e)
    BY <1>3, SettledExecutes DEF Executes, accounts, ASettlement!Execute
  <2>2. QED
    BY <2>1 DEF ASettlement!Next
<1>4. ASSUME NEW e \in PossibleExecutions, Counts(e)
      PROVE  ASettlement!Next
  <2>1. inventory' = NetAfter(inventory, e)
    BY <1>4, ExecutionWeight DEF Counts, Base, TypeOK, OmsTypeOK
  <2>2. ASettlement!Settle(e)
    BY <1>4, <2>1, SettledCounts DEF Counts, Uncounted, ASettlement!Settle, NetAfter,
                                     ASettlement!NetAfter
  <2>3. QED
    BY <2>2 DEF ASettlement!Next
<1>5. QED
  BY <1>1, <1>2, <1>3, <1>4

\* Whatever is delivered twice, late or out of order, the inventory of the OMS moves by
\* each execution of the exchange exactly once, and by nothing else: the loop implements
\* Settlement.
THEOREM ImplementsSettlement == Spec => SettlesExactlyOnce
<1>1. TradingInit => ASettlement!Init
  BY InitSettlement
<1>2. Base /\ AccountsInv /\ [Next]_trading_vars
          => [ASettlement!Next]_ASettlement!settlement_vars
  BY NextSettlement
<1>3. QED
  BY <1>1, <1>2, AccountsAlways, PTL DEF Spec, SettlesExactlyOnce, ASettlement!Spec
=============================================================================
