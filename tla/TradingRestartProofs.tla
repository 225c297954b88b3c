------------------------ MODULE TradingRestartProofs ------------------------
(***************************************************************************)
(* Theorems about the trading loop with restarts (TradingRestart): for any *)
(* number of sessions, ended at any point, with reports lost in between or *)
(* delivered to the next session, what the session knows is its own.       *)
(***************************************************************************)
EXTENDS TradingRestart, TradingProofs, FiniteSetTheorems

-----------------------------------------------------------------------------
\* Sums over sets of executions.

\* A sum for every subset of S that does not depend on the order of the summands.
Additive(sum, S) ==
    /\ sum[{}] = 0
    /\ \A T \in SUBSET S : /\ sum[T] \in Int
                           /\ \A e \in T : sum[T] = Weight(e) + sum[T \ {e}]

\* There is such a sum for a set of one element more.
LEMMA AdditiveWith ==
    ASSUME NEW S, NEW x \in S, \A e \in S : Weight(e) \in Int,
           NEW g, Additive(g, S \ {x})
    PROVE  \E sum : Additive(sum, S)
<1> DEFINE sum == [T \in SUBSET S |-> IF x \in T THEN Weight(x) + g[T \ {x}] ELSE g[T]]
<1>1. \A T \in SUBSET S : T \ {x} \in SUBSET (S \ {x})
  OBVIOUS
<1>2. \A T \in SUBSET S : x \notin T => T \in SUBSET (S \ {x})
  OBVIOUS
<1>3. \A T \in SUBSET S : sum[T] = IF x \in T THEN Weight(x) + g[T \ {x}] ELSE g[T]
  OBVIOUS
<1> HIDE DEF sum
<1>4. \A T \in SUBSET (S \ {x}) : g[T] \in Int
  BY DEF Additive
<1>5. sum[{}] = 0
  BY <1>3 DEF Additive
<1>6. ASSUME NEW T \in SUBSET S
      PROVE  sum[T] \in Int
  <2>1. CASE x \in T
    <3>1. g[T \ {x}] \in Int /\ Weight(x) \in Int
      BY <1>1, <1>4
    <3>2. sum[T] = Weight(x) + g[T \ {x}]
      BY <1>3, <2>1
    <3>3. QED
      BY <3>1, <3>2
  <2>2. CASE x \notin T
    BY <1>2, <1>3, <1>4, <2>2
  <2>3. QED
    BY <2>1, <2>2
<1>7. ASSUME NEW T \in SUBSET S, NEW e \in T
      PROVE  sum[T] = Weight(e) + sum[T \ {e}]
  <2>1. T \ {e} \in SUBSET S /\ e \in S
    OBVIOUS
  <2>2. CASE e = x
    <3>1. x \notin T \ {e}
      BY <2>2
    <3>2. sum[T \ {e}] = g[T \ {x}]
      BY <1>3, <2>1, <2>2, <3>1
    <3>3. QED
      BY <1>3, <2>2, <3>2
  <2>3. CASE e # x /\ x \in T
    <3>1. /\ x \in T \ {e} /\ (T \ {e}) \ {x} = (T \ {x}) \ {e} /\ e \in T \ {x}
          /\ (T \ {x}) \ {e} \in SUBSET (S \ {x})
      BY <2>3
    <3>2. sum[T] = Weight(x) + g[T \ {x}] /\ sum[T \ {e}] = Weight(x) + g[(T \ {x}) \ {e}]
      BY <1>3, <2>1, <2>3, <3>1
    <3>3. g[T \ {x}] = Weight(e) + g[(T \ {x}) \ {e}]
      BY <1>1, <3>1 DEF Additive
    <3>4. Weight(x) \in Int /\ Weight(e) \in Int /\ g[(T \ {x}) \ {e}] \in Int
      BY <1>4, <2>1, <3>1
    <3>5. \A a, b, c \in Int : a + (b + c) = b + (a + c)
      OBVIOUS
    <3>6. QED
      BY <3>2, <3>3, <3>4, <3>5
  <2>4. CASE e # x /\ x \notin T
    <3>1. x \notin T \ {e}
      BY <2>4
    <3>2. sum[T] = g[T] /\ sum[T \ {e}] = g[T \ {e}]
      BY <1>3, <2>1, <2>4, <3>1
    <3>3. g[T] = Weight(e) + g[T \ {e}]
      BY <1>2, <2>4 DEF Additive
    <3>4. QED
      BY <3>2, <3>3
  <2>5. QED
    BY <2>2, <2>3, <2>4
<1>8. QED
  BY <1>5, <1>6, <1>7 DEF Additive

\* So there is one for every finite set: none of the least size is without.
LEMMA AdditiveExists ==
    ASSUME NEW S, IsFiniteSet(S), \A e \in S : Weight(e) \in Int
    PROVE  \E sum : Additive(sum, S)
<1> DEFINE Without(U) == ~\E sum : Additive(sum, U)
           sizes == {n \in Nat : \E U \in SUBSET S : Cardinality(U) = n /\ Without(U)}
<1>1. \A U \in SUBSET S : IsFiniteSet(U) /\ Cardinality(U) \in Nat
  BY FS_Subset, FS_CardinalityType
<1>2. sizes = {}
  <2> SUFFICES ASSUME sizes # {} PROVE FALSE
    OBVIOUS
  <2>1. PICK n \in sizes : \A m \in sizes : n <= m
    <3>1. sizes \subseteq Nat
      OBVIOUS
    <3> HIDE DEF sizes
    <3>2. QED
      BY <3>1, LeastMember
  <2>2. PICK U \in SUBSET S : Cardinality(U) = n /\ Without(U)
    BY <2>1
  <2>3. n \in Nat
    BY <2>1
  <2>4. U # {}
    <3>1. Additive([T \in SUBSET {} |-> 0], {})
      BY DEF Additive
    <3>2. QED
      BY <2>2, <3>1
  <2>5. PICK x \in U : TRUE
    BY <2>4
  <2>6. /\ U \ {x} \in SUBSET S
        /\ Cardinality(U \ {x}) = n - 1
    BY <1>1, <2>2, FS_RemoveElement
  <2>7. n - 1 \in Nat /\ ~(n <= n - 1)
    BY <1>1, <2>3, <2>6
  <2>8. n - 1 \notin sizes
    <3> HIDE DEF sizes
    <3>1. QED
      BY <2>1, <2>7
  <2>9. PICK g : Additive(g, U \ {x})
    BY <2>6, <2>7, <2>8
  <2>10. \E sum : Additive(sum, U)
    BY <2>9, AdditiveWith
  <2>11. QED
    BY <2>2, <2>10
<1>3. Cardinality(S) \in Nat
  BY <1>1
<1>4. QED
  BY <1>2, <1>3

\* What the executions of a set bring into the account.
SumOf(S) == MapThenSumSet(LAMBDA e : Traded(e.order_side, e.exec_qty), S)

\* The sum of the library is the one that does not depend on the order.
LEMMA SumIsAdditive ==
    ASSUME NEW S, IsFiniteSet(S), NEW sum, Additive(sum, S)
    PROVE  SumOf(S) = sum[S]
<1> DEFINE Step(g) == [s \in SUBSET S |->
               IF s = {} THEN 0
               ELSE LET x == CHOOSE x \in s : TRUE
                    IN  Traded(x.order_side, x.exec_qty) + g[s \ {x}]]
           iter == CHOOSE iter : iter = Step(iter)
           whole == [s \in SUBSET S |-> sum[s]]
<1>1. SumOf(S) = iter[S]
  BY DEF SumOf, MapThenSumSet, MapThenFoldSet
<1>2. whole = Step(whole)
  <2>1. ASSUME NEW s \in SUBSET S, s # {}, NEW x, x = CHOOSE y \in s : TRUE
        PROVE  sum[s] = Traded(x.order_side, x.exec_qty) + sum[s \ {x}]
    BY <2>1 DEF Additive, Weight
  <2>2. sum[{}] = 0
    BY DEF Additive
  <2>3. ASSUME NEW s \in SUBSET S PROVE whole[s] = Step(whole)[s]
    <3>1. CASE s = {}
      BY <2>2, <3>1
    <3>2. CASE s # {}
      BY <2>1, <3>2
    <3>3. QED
      BY <3>1, <3>2
  <2>4. QED
    BY <2>3
<1>3. iter = Step(iter)
  BY <1>2
<1> HIDE DEF iter
<1> DEFINE wrong == {n \in Nat : \E s \in SUBSET S : Cardinality(s) = n /\ iter[s] # sum[s]}
<1>4. \A s \in SUBSET S : IsFiniteSet(s) /\ Cardinality(s) \in Nat
  BY FS_Subset, FS_CardinalityType
<1>5. wrong = {}
  <2> SUFFICES ASSUME wrong # {} PROVE FALSE
    OBVIOUS
  <2>1. PICK n \in wrong : \A m \in wrong : n <= m
    <3>1. wrong \subseteq Nat
      OBVIOUS
    <3> HIDE DEF wrong
    <3>2. QED
      BY <3>1, LeastMember
  <2>2. PICK s \in SUBSET S : Cardinality(s) = n /\ iter[s] # sum[s]
    BY <2>1
  <2>3. s # {}
    BY <1>3, <2>2 DEF Additive
  <2> DEFINE x == CHOOSE x \in s : TRUE
  <2>4. x \in s
    BY <2>3
  <2>5. iter[s] = Traded(x.order_side, x.exec_qty) + iter[s \ {x}]
    BY <1>3, <2>3
  <2> HIDE DEF x
  <2>6. sum[s] = Traded(x.order_side, x.exec_qty) + sum[s \ {x}]
    BY <2>4 DEF Additive, Weight
  <2>7. iter[s \ {x}] # sum[s \ {x}]
    BY <2>2, <2>5, <2>6
  <2>8. /\ s \ {x} \in SUBSET S
        /\ Cardinality(s \ {x}) = n - 1
    BY <1>4, <2>2, <2>4, FS_RemoveElement
  <2>9. n \in Nat /\ n - 1 \in Nat /\ ~(n <= n - 1)
    BY <1>4, <2>1, <2>8
  <2>10. n - 1 \in wrong
    BY <2>7, <2>8, <2>9
  <2> HIDE DEF wrong
  <2>11. QED
    BY <2>1, <2>9, <2>10
<1>6. Cardinality(S) \in Nat
  BY <1>4
<1>7. QED
  BY <1>1, <1>5, <1>6

\* No executions bring nothing.
LEMMA SumOfNone == SumOf({}) = 0
<1>1. Additive([T \in SUBSET {} |-> 0], {})
  BY DEF Additive
<1>2. [T \in SUBSET {} |-> 0][{}] = 0
  OBVIOUS
<1>3. SumOf({}) = [T \in SUBSET {} |-> 0][{}]
  BY <1>1, SumIsAdditive, FS_EmptySet
<1>4. QED
  BY <1>2, <1>3

\* One execution more brings its own weight.
LEMMA SumWith ==
    ASSUME NEW S, IsFiniteSet(S), \A e \in S : Weight(e) \in Int,
           NEW x, x \notin S, Weight(x) \in Int
    PROVE  /\ SumOf(S) \in Int
           /\ SumOf(S \cup {x}) = Weight(x) + SumOf(S)
<1> DEFINE U == S \cup {x}
<1>1. IsFiniteSet(U) /\ S \in SUBSET U /\ U \in SUBSET U /\ x \in U /\ U \ {x} = S
  BY FS_AddElement
<1>2. \A e \in U : Weight(e) \in Int
  OBVIOUS
<1> HIDE DEF U
<1>3. PICK sum : Additive(sum, U)
  BY <1>1, <1>2, AdditiveExists
<1>4. Additive(sum, S)
  BY <1>1, <1>3 DEF Additive
<1>5. SumOf(S) = sum[S] /\ SumOf(U) = sum[U]
  BY <1>1, <1>3, <1>4, SumIsAdditive
<1>6. sum[S] \in Int /\ sum[U] = Weight(x) + sum[S]
  BY <1>1, <1>3 DEF Additive
<1>7. QED
  BY <1>5, <1>6 DEF U

-----------------------------------------------------------------------------
\* What holds of a session, whatever earlier sessions left behind: the base invariant of
\* one session (Base) says that every report is about an order the OMS knows, which a
\* restart makes false.

\* The first id the session can have handed out.
FirstId == id_generator - Len(orders)

\* An order the session has recorded, on this side.
OwnOnSide(id, side) ==
    \E i \in DOMAIN orders : orders[i].order_link_id = id /\ orders[i].side = side

Own(id) == \E i \in DOMAIN orders : orders[i].order_link_id = id

\* The session numbers its orders one by one, and its index names no others.
NumbersOwn ==
    /\ InitialOrderLinkId <= FirstId
    /\ \A i \in DOMAIN orders : orders[i].order_link_id = FirstId + i - 1
    /\ \A id \in DOMAIN id_map : id \in FirstId .. id_generator - 1

\* What is on its way is an update of the exchange, an execution that happened, or the
\* failure of a submission.
ReportsMade ==
    \A e \in Pending : e \in executed \/ GenuineUpdate(e) \/ e \in SubmissionFailures

\* Executions are of orders with an id that was handed out, and numbered.
ExecutionsMade ==
    /\ next_exec_id \in 1 .. MaxExecutions + 1
    /\ \A e \in executed : /\ e \in PossibleExecutions
                           /\ e.order_link_id < id_generator
                           /\ e.exec_id < next_exec_id
    /\ \A e, f \in executed : e.exec_id = f.exec_id => e = f

\* The orders of the exchange have ids that were handed out.
XOrdersMade ==
    \A id \in Ids :
        xorders[id] # Absent => id < id_generator /\ xorders[id].updated_time >= 1

\* An order of the session is on the same side at the exchange.
SidesAgree ==
    \A id \in Ids, side \in Sides :
        OwnOnSide(id, side) /\ xorders[id] # Absent => xorders[id].side = side

\* A request is about an order of the session; a submission is for the side it recorded.
RequestOwn(request) ==
    /\ request \in CreateRequests \cup AmendRequests \cup FailedRequests =>
           Own(request.order_link_id)
    /\ request \in CreateRequests => OwnOnSide(request.order_link_id, request.side)

RequestsOwn == \A t \in Tasks : RequestOwn(tasks[t])

\* What the wallet contained when it was read are executions of earlier sessions, and what
\* the exchange had then are their orders.
SessionStart ==
    /\ session_start \subseteq executed
    /\ \A e \in session_start : e.order_link_id < FirstId
    /\ \A id \in left_behind : id < FirstId

\* What is counted has happened.
CountedMade == \A key \in processed_executions : key[2] < next_exec_id

SessionBase ==
    /\ TypeOK
    /\ GeneratorBounded
    /\ NumbersOwn
    /\ ReportsMade
    /\ ExecutionsMade
    /\ XOrdersMade
    /\ SidesAgree
    /\ RequestsOwn
    /\ SessionStart
    /\ CountedMade

-----------------------------------------------------------------------------
\* The numbers of a session are numbers.
LEMMA SessionNumbers ==
    ASSUME SessionBase
    PROVE  /\ id_generator \in Nat /\ Len(orders) \in Nat /\ DOMAIN orders = 1 .. Len(orders)
           /\ InitialOrderLinkId \in Nat /\ FirstId \in Nat
           /\ FirstId + Len(orders) = id_generator
           /\ id_generator <= InitialOrderLinkId + MaxOrders /\ MaxOrders \in Nat
           /\ InitialOrderLinkId <= FirstId
<1>1. /\ id_generator \in Nat /\ Len(orders) \in Nat /\ DOMAIN orders = 1 .. Len(orders)
  BY LenProperties DEF SessionBase, TypeOK, OmsTypeOK
<1>2. /\ InitialOrderLinkId \in Nat /\ MaxOrders \in Nat
      /\ InitialOrderLinkId <= id_generator - Len(orders)
      /\ id_generator <= InitialOrderLinkId + MaxOrders
  BY OmsAssumption DEF SessionBase, NumbersOwn, FirstId, GeneratorBounded
<1>3. QED
  BY <1>1, <1>2 DEF FirstId

\* An order of the session has an id of the session.
LEMMA OwnNumber ==
    ASSUME SessionBase, NEW id, Own(id)
    PROVE  id \in Ids /\ FirstId <= id /\ id < id_generator
<1>1. PICK i \in 1 .. Len(orders) : id = FirstId + i - 1
  BY SessionNumbers DEF SessionBase, NumbersOwn, Own
<1>2. QED
  BY <1>1, SessionNumbers DEF Ids

\* The orders of the session stay so, on the same side.
OwnKept ==
    \A id : /\ Own(id) => Own(id)'
            /\ \A side : OwnOnSide(id, side) => OwnOnSide(id, side)'

\* A slab that advances names the same orders.
LEMMA AdvancedOwn ==
    ASSUME SessionBase, SlabAdvances
    PROVE  /\ OwnKept
           /\ \A id, side : OwnOnSide(id, side)' => OwnOnSide(id, side)
           /\ NumbersOwn'
           /\ GeneratorBounded'
           /\ FirstId' = FirstId
           /\ id_generator' = id_generator
<1>1. /\ DOMAIN orders' = DOMAIN orders /\ Len(orders') = Len(orders)
      /\ \A i \in DOMAIN orders : /\ orders'[i].order_link_id = orders[i].order_link_id
                                  /\ orders'[i].side = orders[i].side
      /\ id_map' = id_map /\ id_generator' = id_generator
  BY LenProperties DEF SessionBase, TypeOK, OmsTypeOK, SlabAdvances, Advances
<1>2. FirstId' = FirstId
  BY <1>1 DEF FirstId
<1>3. \A id, side : OwnOnSide(id, side)' <=> OwnOnSide(id, side)
  BY <1>1 DEF OwnOnSide
<1>4. \A id : Own(id)' <=> Own(id)
  BY <1>1 DEF Own
<1>5. NumbersOwn'
  BY <1>1, <1>2 DEF SessionBase, NumbersOwn
<1>6. QED
  BY <1>1, <1>2, <1>3, <1>4, <1>5 DEF SessionBase, OwnKept, GeneratorBounded

\* Requests stay about orders of the session when one more is, or none.
LEMMA RequestsStayOwn ==
    ASSUME RequestsOwn, OwnKept, NEW request,
           \A t \in Tasks : tasks'[t] = tasks[t] \/ tasks'[t] = request,
           RequestOwn(request)'
    PROVE  RequestsOwn'
<1> SUFFICES ASSUME NEW t \in Tasks
             PROVE  RequestOwn(tasks[t])'
  BY DEF RequestsOwn
<1>1. CASE tasks'[t] = request
  BY <1>1 DEF RequestOwn, Own, OwnOnSide
<1>2. CASE tasks'[t] = tasks[t]
  <2>1. PICK same : same = tasks[t] /\ same = tasks'[t]
    BY <1>2
  <2>2. RequestOwn(same)
    BY <2>1 DEF RequestsOwn, RequestOwn, Own, OwnOnSide
  <2>3. RequestOwn(same)'
    BY <2>2 DEF OwnKept, RequestOwn
  <2>4. QED
    BY <2>1, <2>3 DEF RequestOwn, Own, OwnOnSide
<1>3. QED
  BY <1>1, <1>2

\* A task that carries nothing, or a repayment, is about no order.
LEMMA NoOrderOwn == RequestOwn(Idle)' /\ RequestOwn(RepayRequest)'
BY IdleAssumption DEF RequestOwn, Requests, RepayRequest, CreateRequests, AmendRequests,
                      FailedRequests

\* A step that does not touch the exchange, and brings no reports but failures.
LEMMA QuietSession ==
    ASSUME SessionBase, TypeOK', SlabAdvances,
           UNCHANGED <<exchange_vars, session_start, left_behind>>,
           Pending' \subseteq Pending \cup SubmissionFailures, RequestsOwn', CountedMade'
    PROVE  SessionBase'
<1>1. /\ \A id, side : OwnOnSide(id, side)' => OwnOnSide(id, side)
      /\ NumbersOwn' /\ GeneratorBounded'
      /\ FirstId' = FirstId /\ id_generator' = id_generator
  BY AdvancedOwn
<1>2. ReportsMade'
  BY DEF SessionBase, ReportsMade, exchange_vars, trades
<1>3. ExecutionsMade'
  BY <1>1 DEF SessionBase, ExecutionsMade, exchange_vars, trades
<1>4. XOrdersMade'
  BY <1>1 DEF SessionBase, XOrdersMade, exchange_vars
<1>5. SidesAgree'
  BY <1>1 DEF SessionBase, SidesAgree, exchange_vars
<1>6. SessionStart'
  BY <1>1 DEF SessionBase, SessionStart, exchange_vars, trades
<1>7. QED
  BY <1>1, <1>2, <1>3, <1>4, <1>5, <1>6 DEF SessionBase

\* An order of the exchange changes, or is taken, and is reported after an execution or
\* none.
LEMMA ChangedSession ==
    ASSUME SessionBase, NEW id \in Ids, id < id_generator,
           NEW xorder \in XOrders, \A side \in Sides : OwnOnSide(id, side) => xorder.side = side,
           xorder.order_status \in XStatuses, xorder.updated_time >= 1,
           NEW before \in Seq(Executions), Range(before) \subseteq executed',
           executed \subseteq executed', executed' \subseteq Executions, wallet' \in Int,
           ExecutionsMade', next_exec_id' >= next_exec_id,
           Change(id, xorder, before),
           tasks' \in [Tasks -> Requests \cup {Idle}], RequestsOwn', OmsRests,
           UNCHANGED <<from_order_handler, duplicates, recorded, session_start, left_behind>>
    PROVE  SessionBase'
<1> DEFINE report == Report(id, xorder)
           reports == Append(before, report)
<1>1. UNCHANGED book
  BY DEF OmsRests
<1>2. /\ \A x, side : OwnOnSide(x, side)' => OwnOnSide(x, side)
      /\ NumbersOwn' /\ GeneratorBounded'
      /\ FirstId' = FirstId /\ id_generator' = id_generator
  BY <1>1, SlabUnchangedAdvances, AdvancedOwn DEF SessionBase, TypeOK
<1>3. /\ GenuineUpdate(report) /\ report \in OrderUpdates
  BY OmsAssumption DEF Report, GenuineUpdate, OrderUpdates, XOrders, Ids
<1>4. /\ reports \in Seq(OrderUpdates \cup Executions)
      /\ Range(reports) = Range(before) \cup {report}
  <2>1. before \in Seq(OrderUpdates \cup Executions)
    OBVIOUS
  <2>2. report \in OrderUpdates \cup Executions
    BY <1>3
  <2> HIDE DEF report
  <2>3. QED
    BY <2>1, <2>2, RangeAppend
<1>5. /\ stream' \in [Ids -> Seq(OrderUpdates \cup Executions)]
      /\ Pending' = Pending \cup Range(reports)
  <2> HIDE DEF reports
  <2>1. Emit(id, reports)
    BY DEF Change, reports
  <2>2. QED
    BY <1>4, <2>1, EmitPending DEF SessionBase
<1>6. /\ xorders' = [xorders EXCEPT ![id] = xorder]
      /\ xorders' \in [Ids -> XOrders \cup {Absent}]
      /\ \A x \in Ids : xorders'[x] = IF x = id THEN xorder ELSE xorders[x]
  BY DEF Change, SessionBase, TypeOK
<1> HIDE DEF report, reports
<1>7. ReportsMade'
  BY <1>3, <1>4, <1>5 DEF SessionBase, ReportsMade
<1>8. XOrdersMade'
  BY <1>2, <1>6 DEF SessionBase, XOrdersMade
<1>9. SidesAgree'
  BY <1>2, <1>6 DEF SessionBase, SidesAgree
<1>10. SessionStart'
  BY <1>2 DEF SessionBase, SessionStart
<1>11. CountedMade'
  <2> SUFFICES ASSUME NEW key \in processed_executions PROVE key[2] < next_exec_id'
    BY DEF OmsRests, accounts, CountedMade
  <2>1. /\ key[2] < next_exec_id /\ key[2] \in Nat
        /\ next_exec_id \in Int /\ next_exec_id' \in Int
    BY DEF SessionBase, CountedMade, ExecutionsMade, TypeOK, OmsTypeOK
  <2>2. QED
    BY <2>1
<1>12. OmsTypeOK' /\ from_strategy' \in Seq(Builders)
  BY DEF SessionBase, TypeOK, OmsTypeOK, OmsRests, book, accounts
<1>13. TypeOK'
  <2>1. next_exec_id' \in Nat
    BY TradingAssumption DEF ExecutionsMade
  <2>2. recorded' \subseteq executed' /\ duplicates' \in Nat
    BY DEF SessionBase, TypeOK
  <2>3. from_order_handler' \in Seq(OrderEvents)
    BY DEF SessionBase, TypeOK
  <2>4. QED
    BY <1>5, <1>6, <1>12, <2>1, <2>2, <2>3 DEF TypeOK
<1>14. QED
  BY <1>2, <1>7, <1>8, <1>9, <1>10, <1>11, <1>13 DEF SessionBase

\* A new order gets the next number, which no order of the exchange has.
LEMMA SubmittedSession ==
    ASSUME SessionBase, NEW builder \in Builders, SubmitNewOrder(builder), TypeOK',
           UNCHANGED <<exchange_vars, accounts, session_start, left_behind>>,
           Pending' \subseteq Pending
    PROVE  SessionBase'
<1> DEFINE n == Len(orders)
<1>1. PICK new : new = id_generator
  OBVIOUS
<1>2. /\ n \in Nat /\ DOMAIN orders = 1 .. n /\ DOMAIN orders' = 1 .. n + 1
      /\ Len(orders') = n + 1
      /\ \A i \in 1 .. n : orders'[i] = orders[i]
      /\ orders'[n + 1] = Build(builder, new)
      /\ id_generator' = id_generator + 1
      /\ DOMAIN id_map' = DOMAIN id_map \cup {new}
      /\ \A t \in Tasks : tasks'[t] = tasks[t] \/ tasks'[t] = CreateRequest(new, builder)
  <2>1. /\ orders \in Seq(Orders) /\ n \in Nat /\ DOMAIN orders = 1 .. n
        /\ orders' \in Seq(Orders) /\ orders' = Append(orders, Build(builder, new))
        /\ Len(orders') = n + 1
    BY <1>1, SubmitNewOrderType, LenProperties DEF SessionBase, TypeOK, OmsTypeOK
  <2>2. DOMAIN orders' = 1 .. n + 1
    BY <2>1, LenProperties
  <2>3. /\ \A i \in 1 .. n : orders'[i] = orders[i]
        /\ orders'[n + 1] = Build(builder, new)
    BY <2>1
  <2>4. /\ id_generator' = id_generator + 1
        /\ DOMAIN id_map' = DOMAIN id_map \cup {new}
        /\ \A t \in Tasks : \/ tasks'[t] = tasks[t]
                            \/ tasks'[t] = CreateRequest(new, builder)
    BY <1>1, SubmitNewOrderType DEF SessionBase, TypeOK
  <2>5. QED
    BY <2>1, <2>2, <2>3, <2>4
<1>3. /\ Build(builder, new).order_link_id = new /\ Build(builder, new).side = builder.side
  BY DEF Build
<1>4. /\ id_generator \in Nat /\ FirstId \in Nat /\ FirstId + n = id_generator
      /\ InitialOrderLinkId \in Nat /\ MaxOrders \in Nat /\ InitialOrderLinkId <= FirstId
      /\ id_generator < InitialOrderLinkId + MaxOrders
  BY SessionNumbers DEF SubmitNewOrder
<1> HIDE DEF n
<1>5. FirstId' = FirstId
  BY <1>2, <1>4 DEF FirstId
<1>6. NumbersOwn' /\ GeneratorBounded'
  <2>1. \A i \in 1 .. n + 1 : orders'[i].order_link_id = FirstId + i - 1
    <3>1. ASSUME NEW i \in 1 .. n PROVE orders'[i].order_link_id = FirstId + i - 1
      BY <1>2, <3>1 DEF SessionBase, NumbersOwn
    <3>2. orders'[n + 1].order_link_id = FirstId + (n + 1) - 1
      BY <1>1, <1>2, <1>3, <1>4
    <3>3. \A i \in 1 .. n + 1 : i \in 1 .. n \/ i = n + 1
      BY <1>2
    <3>4. QED
      BY <3>1, <3>2, <3>3
  <2>2. \A id \in DOMAIN id_map : id \in FirstId .. id_generator
    BY <1>4 DEF SessionBase, NumbersOwn
  <2>3. \A id \in DOMAIN id_map' : id \in FirstId .. id_generator
    BY <1>1, <1>2, <1>4, <2>2
  <2>4. id_generator' - 1 = id_generator /\ id_generator' <= InitialOrderLinkId + MaxOrders
    BY <1>2, <1>4
  <2>5. QED
    BY <1>2, <1>4, <1>5, <2>1, <2>3, <2>4 DEF NumbersOwn, GeneratorBounded
<1>7. /\ OwnKept
      /\ OwnOnSide(new, builder.side)'
      /\ \A id, side : OwnOnSide(id, side)' => OwnOnSide(id, side) \/ id = new
  <2>1. \A i \in 1 .. n : i \in 1 .. n + 1
    BY <1>2
  <2>2. n + 1 \in 1 .. n + 1
    BY <1>2
  <2>3. \A i \in 1 .. n + 1 : i \in 1 .. n \/ i = n + 1
    BY <1>2
  <2>4. QED
    BY <1>2, <1>3, <2>1, <2>2, <2>3 DEF OwnKept, Own, OwnOnSide
<1>8. RequestsOwn'
  <2>1. PICK request : request = CreateRequest(new, builder)
    OBVIOUS
  <2>2. request.order_link_id = new /\ request.side = builder.side
    BY <2>1 DEF CreateRequest
  <2>3. RequestOwn(request)'
    BY <1>7, <2>2 DEF RequestOwn, Own, OwnOnSide
  <2>4. QED
    BY <1>2, <1>7, <2>1, <2>3, RequestsStayOwn DEF SessionBase
<1>9. ReportsMade'
  BY DEF SessionBase, ReportsMade, exchange_vars, trades
<1>10. \A k \in Int : k < id_generator => k < id_generator'
  BY <1>2, <1>4
<1>11. \A id \in Ids : id \in Int
  BY OmsAssumption DEF Ids
<1>12. ExecutionsMade'
  <2>1. \A e \in executed : e.order_link_id \in Int
    BY DEF SessionBase, TypeOK, Executions
  <2>2. QED
    BY <1>10, <2>1 DEF SessionBase, ExecutionsMade, exchange_vars, trades
<1>13. XOrdersMade'
  BY <1>10, <1>11 DEF SessionBase, XOrdersMade, exchange_vars
<1>14. SidesAgree'
  <2>1. new \in Ids => xorders[new] = Absent
    BY <1>1, <1>4 DEF SessionBase, XOrdersMade
  <2>2. QED
    BY <1>7, <2>1 DEF SessionBase, SidesAgree, exchange_vars
<1>15. SessionStart'
  BY <1>5 DEF SessionBase, SessionStart, exchange_vars, trades
<1>16. CountedMade'
  BY DEF SessionBase, CountedMade, accounts, exchange_vars, trades
<1>17. QED
  BY <1>6, <1>8, <1>9, <1>12, <1>13, <1>14, <1>15, <1>16 DEF SessionBase

-----------------------------------------------------------------------------
\* The accounts of a session.

\* The executions made since the session began that it has not counted.
Missing == executed \ (session_start \cup Settled)

\* No more executions happened than the numbers they carry.
LEMMA FiniteExecuted ==
    ASSUME SessionBase
    PROVE  /\ IsFiniteSet(executed)
           /\ \A e \in executed : Weight(e) \in Int
<1> DEFINE number == [e \in executed |-> e.exec_id]
<1>1. \A e \in executed : e \in PossibleExecutions
  BY DEF SessionBase, ExecutionsMade
<1>2. /\ \A e \in executed : e.exec_id \in 1 .. MaxExecutions
      /\ \A e \in executed : Weight(e) \in Int
  BY <1>1, ExecutionWeight, 0 \in Int
<1>3. number \in [executed -> 1 .. MaxExecutions]
  BY <1>2
<1>4. \A e, f \in executed : number[e] = number[f] => e = f
  BY DEF SessionBase, ExecutionsMade
<1>5. DOMAIN number = executed
  OBVIOUS
<1> HIDE DEF number
<1>6. number \in Injection(executed, 1 .. MaxExecutions)
  BY <1>3, <1>4, <1>5, Zenon DEF Injection, IsInjective
<1>7. IsFiniteSet(1 .. MaxExecutions)
  BY FS_Interval, TradingAssumption
<1>8. IsFiniteSet(executed)
  BY <1>6, <1>7, FS_Injection
<1>9. QED
  BY <1>2, <1>8

\* The steps of the loop, by what they do to the accounts of a session.
SessionRests == UNCHANGED <<executed, wallet, accounts, session_start, left_behind>>

SessionExecutes(e) ==
    /\ e \in PossibleExecutions
    /\ e.exec_id = next_exec_id
    /\ executed' = executed \cup {e}
    /\ wallet' = wallet + Weight(e)
    /\ UNCHANGED <<accounts, session_start, left_behind>>

SessionCounts(e) ==
    /\ e \in executed
    /\ IsKnown(e.order_link_id)
    /\ ExecutionKey(e) \notin processed_executions
    /\ processed_executions' = processed_executions \cup {ExecutionKey(e)}
    /\ inventory' = inventory + Weight(e)
    /\ UNCHANGED <<executed, wallet, session_start, left_behind>>

SessionStep ==
    SessionRests \/ \E e \in PossibleExecutions : SessionExecutes(e) \/ SessionCounts(e)

\* The accounts of a session are its sum over what is missing.
LEMMA AccountsSum == SessionAccounts <=> wallet - inventory = SumOf(Missing)
BY DEF SessionAccounts, SumOf, Missing

\* And so they are after a step.
LEMMA NextAccountsSum ==
    ASSUME NEW missing, missing = Missing'
    PROVE  SessionAccounts' <=> wallet' - inventory' = SumOf(missing)
<1>1. SessionAccounts' <=> wallet' - inventory' = SumOf(Missing)'
  BY DEF SessionAccounts, SumOf, Missing
<1>2. SumOf(Missing)' = SumOf(missing)
  BY DEF SumOf, MapThenSumSet, MapThenFoldSet, Traded
<1>3. QED
  BY <1>1, <1>2

\* An execution adds its weight to the wallet and to what is missing.
LEMMA ExecutesSession ==
    ASSUME SessionBase, SessionAccounts, NEW e, SessionExecutes(e)
    PROVE  SessionAccounts'
<1>1. /\ e \notin executed
      /\ ExecutionKey(e) \notin processed_executions
  <2>1. \A f \in executed : f.exec_id \in Nat /\ f.exec_id < next_exec_id
    BY DEF SessionBase, ExecutionsMade, TypeOK, Executions
  <2>2. ~(next_exec_id < next_exec_id)
    BY DEF SessionBase, TypeOK
  <2>3. ExecutionKey(e)[2] = next_exec_id
    BY DEF SessionExecutes, ExecutionKey
  <2>4. QED
    BY <2>1, <2>2, <2>3 DEF SessionExecutes, SessionBase, CountedMade
<1>2. e \notin Missing /\ Missing' = Missing \cup {e}
  BY <1>1 DEF SessionExecutes, SessionBase, SessionStart, Missing, Settled, accounts
<1>3. IsFiniteSet(Missing) /\ \A f \in Missing : Weight(f) \in Int
  BY FiniteExecuted, FS_Subset DEF Missing
<1>4. Weight(e) \in Int /\ wallet \in Int /\ inventory \in Int
  BY ExecutionWeight, 0 \in Int DEF SessionExecutes, SessionBase, TypeOK, OmsTypeOK
<1>5. PICK more : more = Missing \cup {e} /\ more = Missing'
  BY <1>2
<1>6. SumOf(Missing) \in Int /\ SumOf(more) = Weight(e) + SumOf(Missing)
  BY <1>2, <1>3, <1>4, <1>5, SumWith
<1>7. wallet' - inventory' = SumOf(more)
  BY <1>4, <1>6, AccountsSum DEF SessionExecutes, accounts
<1>8. QED
  BY <1>5, <1>7, NextAccountsSum

\* An execution that is counted is one that was missing: it is of an order of the session,
\* so the wallet did not contain it when it was read.
LEMMA CountsSession ==
    ASSUME SessionBase, SessionAccounts, NEW e, SessionCounts(e)
    PROVE  SessionAccounts'
<1>1. e \in Missing /\ Missing' = Missing \ {e}
  <2>1. \A f \in executed : ExecutionKey(f) = ExecutionKey(e) <=> f = e
    BY DEF SessionCounts, SessionBase, ExecutionsMade, ExecutionKey
  <2>2. e \notin session_start
    <3>1. /\ FirstId <= e.order_link_id /\ FirstId \in Int /\ e.order_link_id \in Int
      BY SessionNumbers DEF SessionCounts, SessionBase, NumbersOwn, IsKnown
    <3>2. e \in session_start => e.order_link_id < FirstId
      BY DEF SessionBase, SessionStart
    <3>3. QED
      BY <3>1, <3>2
  <2>3. QED
    BY <2>1, <2>2 DEF SessionCounts, Missing, Settled
<1>2. PICK rest : rest = Missing \ {e} /\ rest = Missing'
  BY <1>1
<1>3. IsFiniteSet(rest) /\ \A f \in rest : Weight(f) \in Int
  <2>1. rest \subseteq executed
    BY <1>2 DEF Missing
  <2>2. QED
    BY <2>1, FiniteExecuted, FS_Subset
<1>4. Weight(e) \in Int /\ wallet \in Int /\ inventory \in Int
  BY FiniteExecuted DEF SessionCounts, SessionBase, TypeOK, OmsTypeOK
<1>5. e \notin rest /\ rest \cup {e} = Missing
  BY <1>1, <1>2
<1>6. SumOf(rest) \in Int /\ SumOf(rest \cup {e}) = Weight(e) + SumOf(rest)
  BY <1>3, <1>4, <1>5, SumWith
<1>7. wallet' - inventory' = SumOf(rest)
  <2>1. wallet - inventory = Weight(e) + SumOf(rest)
    BY <1>5, <1>6, AccountsSum
  <2>2. QED
    BY <1>4, <1>6, <2>1 DEF SessionCounts
<1>8. QED
  BY <1>2, <1>7, NextAccountsSum

\* Every step of a session keeps its accounts.
LEMMA StepSession ==
    ASSUME SessionBase, SessionAccounts, SessionStep
    PROVE  SessionAccounts'
<1>1. CASE SessionRests
  <2>1. Missing' = Missing /\ wallet' = wallet /\ inventory' = inventory
    BY <1>1 DEF SessionRests, Missing, Settled, accounts
  <2>2. PICK missing : missing = Missing' /\ missing = Missing
    BY <2>1
  <2>3. wallet' - inventory' = SumOf(missing)
    BY <2>1, <2>2, AccountsSum
  <2>4. QED
    BY <2>2, <2>3, NextAccountsSum
<1>2. QED
  BY <1>1, ExecutesSession, CountsSession DEF SessionStep

-----------------------------------------------------------------------------
\* The steps of the loop, in whatever session.

\* A turn of the strategy.
LEMMA StrategySession ==
    ASSUME SessionBase, StrategyStep, UNCHANGED <<session_start, left_behind>>
    PROVE  SessionBase' /\ SessionRests
<1>1. /\ from_strategy' \in Seq(Builders)
      /\ to_strategy' \in Seq(Int) /\ Len(to_strategy') <= 1
      /\ strategy_inventory' \in Int
      /\ UNCHANGED <<from_order_handler, book, accounts, tasks, exchange_vars,
                     websocket_vars>>
  BY StrategyStepEffect DEF SessionBase
<1>2. TypeOK'
  BY <1>1 DEF SessionBase, TypeOK, OmsTypeOK, book, accounts, exchange_vars, trades,
              websocket_vars
<1>3. Pending' = Pending
  BY <1>1 DEF Pending, websocket_vars
<1>4. SlabAdvances
  BY <1>1, SlabUnchangedAdvances DEF SessionBase, TypeOK
<1>5. RequestsOwn'
  BY <1>1 DEF SessionBase, RequestsOwn, RequestOwn, Own, OwnOnSide, book
<1>6. CountedMade'
  BY <1>1 DEF SessionBase, CountedMade, accounts, exchange_vars, trades
<1>7. QED
  BY <1>1, <1>2, <1>3, <1>4, <1>5, <1>6, QuietSession
     DEF SessionRests, exchange_vars, trades

\* The OMS takes a command.
LEMMA CommandSession ==
    ASSUME SessionBase, OmsRecvFromStrategy, UNCHANGED <<session_start, left_behind>>
    PROVE  SessionBase' /\ SessionRests
<1>1. /\ UNCHANGED <<exchange_vars, websocket_vars, from_order_handler, strategy_inventory>>
      /\ from_strategy' = Tail(from_strategy)
      /\ from_strategy # <<>>
      /\ ForwardOrders(Head(from_strategy))
  BY DEF OmsRecvFromStrategy, RecvFromStrategy
<1>2. Head(from_strategy) \in Builders /\ from_strategy' \in Seq(Builders)
  BY <1>1, RangeTail DEF SessionBase, TypeOK
<1>3. PICK builder \in Builders : ForwardOrders(builder)
  BY <1>1, <1>2
<1>4. OmsTypeOK'
  BY <1>1, <1>3, ForwardOrdersType DEF SessionBase, TypeOK
<1>5. TypeOK'
  BY <1>1, <1>2, <1>4 DEF SessionBase, TypeOK, exchange_vars, trades, websocket_vars
<1>6. Pending' = Pending
  BY <1>1 DEF Pending, websocket_vars
<1>7. UNCHANGED accounts
  BY <1>3 DEF ForwardOrders
<1>8. SessionRests
  BY <1>1, <1>7 DEF SessionRests, exchange_vars, trades
<1>9. CASE SubmitNewOrder(builder)
  BY <1>1, <1>5, <1>6, <1>7, <1>8, <1>9, SubmittedSession
<1>10. CASE UNCHANGED book /\ RequestsOwn'
  <2>1. SlabAdvances
    BY <1>10, SlabUnchangedAdvances DEF SessionBase, TypeOK
  <2>2. CountedMade'
    BY <1>1, <1>7 DEF SessionBase, CountedMade, accounts, exchange_vars, trades
  <2>3. QED
    BY <1>1, <1>5, <1>6, <1>8, <1>10, <2>1, <2>2, QuietSession
<1>11. CASE AmendExistingOrder(builder)
  <2>1. PICK i \in DOMAIN orders :
            LET request == AmendRequest(Amendment(builder, orders[i]))
            IN /\ request.order_link_id = orders[i].order_link_id
               /\ \A t \in Tasks : tasks'[t] = tasks[t] \/ tasks'[t] = request
    BY <1>11, AmendExistingOrderType DEF SessionBase, TypeOK
  <2>2. PICK request : request = AmendRequest(Amendment(builder, orders[i]))
    OBVIOUS
  <2>3. request \notin CreateRequests /\ Own(request.order_link_id)
    BY <2>1, <2>2 DEF AmendRequest, CreateRequests, Own
  <2>4. UNCHANGED book
    BY <1>11 DEF AmendExistingOrder
  <2>5. OwnKept /\ RequestOwn(request)'
    BY <2>3, <2>4 DEF OwnKept, RequestOwn, Own, OwnOnSide, book
  <2>6. RequestsOwn'
    BY <2>1, <2>2, <2>5, RequestsStayOwn DEF SessionBase
  <2>7. QED
    BY <1>10, <2>4, <2>6
<1>12. CASE IgnoreOrder(builder)
  <2>1. UNCHANGED <<book, tasks>>
    BY <1>12 DEF IgnoreOrder
  <2>2. RequestsOwn'
    BY <2>1 DEF SessionBase, RequestsOwn, RequestOwn, Own, OwnOnSide, book
  <2>3. QED
    BY <1>10, <2>1, <2>2
<1>13. QED
  BY <1>3, <1>9, <1>11, <1>12 DEF ForwardOrders

\* The OMS takes a report: it counts an execution, or the accounts stay as they are.
LEMMA EventSession ==
    ASSUME SessionBase, OmsRecvFromOrderHandler, UNCHANGED <<session_start, left_behind>>
    PROVE  SessionBase' /\ SessionStep
<1>1. /\ RecvFromOrderHandler /\ UNCHANGED stream
      /\ UNCHANGED <<exchange_vars, websocket_vars>>
  BY DEF OmsRecvFromOrderHandler, websocket_vars
<1>2. PICK event \in OrderEvents :
          /\ OrderResponse(event)
          /\ from_order_handler' \in Seq(OrderEvents)
          /\ Pending = Pending' \cup {event}
          /\ UNCHANGED <<from_strategy, strategy_inventory>>
  BY <1>1, ReceivedPending DEF SessionBase
<1>3. /\ event \in executed \/ GenuineUpdate(event) \/ event \in SubmissionFailures
      /\ event.type = "ExecutionUpdate" => event \in executed
  <2>1. event \in executed \/ GenuineUpdate(event) \/ event \in SubmissionFailures
    BY <1>2 DEF SessionBase, ReportsMade
  <2>2. QED
    BY <2>1 DEF GenuineUpdate, OrderUpdates, SubmissionFailures
<1>4. IsExchangeReport(event)
  BY <1>3 DEF SessionBase, ExecutionsMade, PossibleExecutions, GenuineUpdate,
              SubmissionFailures, XStatuses, IsExchangeReport
<1>5. SlabAdvances
  BY <1>2, <1>4, OrderResponseAdvances DEF SessionBase, TypeOK
<1>6. OmsTypeOK'
  BY <1>2, <1>4, OrderResponseType DEF SessionBase, TypeOK
<1>7. TypeOK'
  BY <1>1, <1>2, <1>6 DEF SessionBase, TypeOK, exchange_vars, trades, websocket_vars
<1>8. RequestsOwn'
  <2>1. \A t \in Tasks : tasks'[t] = tasks[t] \/ tasks'[t] = RepayRequest
    BY <1>2, OrderResponseSpawns DEF SessionBase, TypeOK
  <2>2. OwnKept
    BY <1>5, AdvancedOwn
  <2>3. QED
    BY <2>1, <2>2, NoOrderOwn, RequestsStayOwn DEF SessionBase
<1>9. SessionStep
  <2>1. CASE CountExecution(event) /\ event.type = "ExecutionUpdate"
    <3>1. event \in executed /\ event \in PossibleExecutions /\ inventory \in Int
      BY <1>3, <2>1 DEF SessionBase, ExecutionsMade, TypeOK, OmsTypeOK
    <3>2. SessionCounts(event)
      BY <1>1, <2>1, <3>1, ExecutionWeight
         DEF CountExecution, IsCounted, SessionCounts, exchange_vars, trades
    <3>3. QED
      BY <3>1, <3>2 DEF SessionStep
  <2>2. CASE UNCHANGED accounts
    BY <1>1, <2>2 DEF SessionStep, SessionRests, exchange_vars, trades
  <2>3. QED
    BY <1>2, <2>1, <2>2 DEF OrderResponse, HandleOrderUpdate, HandleSubmissionFailure,
                            HandleExecutionUpdate, DiscardExecution, oms_vars
<1>10. CountedMade'
  <2>1. next_exec_id' = next_exec_id
    BY <1>1 DEF exchange_vars, trades
  <2>2. CASE UNCHANGED accounts
    BY <2>1, <2>2 DEF SessionBase, CountedMade, accounts
  <2>3. ASSUME NEW e, SessionCounts(e)
        PROVE  CountedMade'
    <3>1. ExecutionKey(e)[2] < next_exec_id
      BY <2>3 DEF SessionCounts, SessionBase, ExecutionsMade, ExecutionKey
    <3>2. QED
      BY <2>1, <2>3, <3>1 DEF SessionCounts, SessionBase, CountedMade
  <2>4. ASSUME NEW e, SessionExecutes(e)
        PROVE  UNCHANGED accounts
    BY <2>4 DEF SessionExecutes
  <2>5. QED
    BY <1>9, <2>2, <2>3, <2>4 DEF SessionStep, SessionRests
<1>11. Pending' \subseteq Pending
  BY <1>2
<1>12. QED
  BY <1>1, <1>5, <1>7, <1>8, <1>9, <1>10, <1>11, QuietSession

\* A task that has its answer carries nothing any more, or the failure of its submission.
LEMMA AnsweredSession ==
    ASSUME SessionBase, NEW t \in Tasks, NEW answer, tasks' = [tasks EXCEPT ![t] = answer],
           answer = Idle \/ (tasks[t] \in CreateRequests /\ answer = Failed(t)),
           UNCHANGED book
    PROVE  /\ tasks' \in [Tasks -> Requests \cup {Idle}]
           /\ RequestsOwn'
<1>1. /\ tasks \in [Tasks -> Requests \cup {Idle}]
      /\ \A u \in Tasks : tasks'[u] = tasks[u] \/ tasks'[u] = answer
  BY DEF SessionBase, TypeOK, OmsTypeOK
<1>2. ASSUME answer # Idle
      PROVE  /\ answer \in FailedRequests
             /\ answer \notin CreateRequests
             /\ answer.order_link_id = tasks[t].order_link_id
             /\ Own(tasks[t].order_link_id)
  <2>1. tasks[t] \in CreateRequests /\ answer = Failed(t)
    BY <1>2
  <2>2. Own(tasks[t].order_link_id)
    BY <2>1 DEF SessionBase, RequestsOwn, RequestOwn
  <2>3. QED
    BY <2>1, <2>2 DEF CreateRequests, FailedRequests, Failed
<1>3. tasks' \in [Tasks -> Requests \cup {Idle}]
  BY <1>1, <1>2 DEF Requests
<1>4. OwnKept
  BY DEF OwnKept, Own, OwnOnSide, book
<1>5. RequestOwn(answer)'
  <2>1. CASE answer = Idle
    BY <2>1, NoOrderOwn DEF RequestOwn
  <2>2. CASE answer # Idle
    <3>1. PICK id : id = tasks[t].order_link_id
      OBVIOUS
    <3>2. Own(id)' /\ answer.order_link_id = id /\ answer \notin CreateRequests
      BY <1>2, <1>4, <2>2, <3>1 DEF OwnKept, Own
    <3>3. QED
      BY <3>2 DEF RequestOwn, Own
  <2>3. QED
    BY <2>1, <2>2
<1>6. RequestsOwn'
  BY <1>1, <1>4, <1>5, RequestsStayOwn DEF SessionBase
<1>7. QED
  BY <1>3, <1>6

\* A task that ends, with the failure of its submission to report or nothing.
LEMMA EndedSession ==
    ASSUME SessionBase, NEW t \in Tasks, NEW answer, tasks' = [tasks EXCEPT ![t] = answer],
           answer = Idle \/ (tasks[t] \in CreateRequests /\ answer = Failed(t)),
           OmsRests, UNCHANGED <<exchange_vars, websocket_vars, session_start, left_behind>>,
           from_order_handler' \in Seq(OrderEvents),
           Pending' \subseteq Pending \cup SubmissionFailures
    PROVE  SessionBase' /\ SessionRests
<1>1. UNCHANGED <<book, accounts>>
  BY DEF OmsRests
<1>2. tasks' \in [Tasks -> Requests \cup {Idle}] /\ RequestsOwn'
  BY <1>1, AnsweredSession
<1>3. OmsTypeOK' /\ from_strategy' \in Seq(Builders)
  BY <1>2 DEF SessionBase, TypeOK, OmsTypeOK, OmsRests, book, accounts
<1>4. TypeOK'
  BY <1>3 DEF SessionBase, TypeOK, exchange_vars, trades, websocket_vars
<1>5. SlabAdvances
  BY <1>1, SlabUnchangedAdvances DEF SessionBase, TypeOK
<1>6. CountedMade'
  BY <1>1 DEF SessionBase, CountedMade, accounts, exchange_vars, trades
<1>7. QED
  BY <1>1, <1>2, <1>4, <1>5, <1>6, QuietSession DEF SessionRests, exchange_vars, trades

\* A submission that is accepted is of an order of the session, on the side it recorded.
LEMMA AcceptedSession ==
    ASSUME SessionBase, NEW t \in Tasks, NEW answer, answer \in {Idle, Failed(t)},
           Accept(t, answer),
           UNCHANGED <<others_of_gateway, duplicates, recorded, session_start, left_behind>>
    PROVE  SessionBase' /\ SessionRests
<1>1. /\ tasks[t] \in CreateRequests
      /\ Change(tasks[t].order_link_id, Accepted(tasks[t]), <<>>)
      /\ tasks' = [tasks EXCEPT ![t] = answer]
      /\ UNCHANGED trades
  BY DEF Accept, Accepted
<1>2. PICK id, xorder : id = tasks[t].order_link_id /\ xorder = Accepted(tasks[t])
  OBVIOUS
<1>3. /\ Own(id) /\ OwnOnSide(id, tasks[t].side)
  BY <1>1, <1>2 DEF SessionBase, RequestsOwn, RequestOwn
<1>4. id \in Ids /\ id < id_generator
  BY <1>3, OwnNumber
<1>5. /\ xorder \in XOrders /\ xorder.side = tasks[t].side
      /\ xorder.order_status \in XStatuses /\ xorder.updated_time >= 1
  BY <1>1, <1>2 DEF Accepted, CreateRequests, XOrders, XStatuses, OrderStatuses, OpenStatuses
<1>6. \A side \in Sides : OwnOnSide(id, side) => xorder.side = side
  <2>1. ASSUME NEW i \in DOMAIN orders, NEW j \in DOMAIN orders,
               orders[i].order_link_id = orders[j].order_link_id
        PROVE  i = j
    <3>1. FirstId + i - 1 = FirstId + j - 1
      BY <2>1 DEF SessionBase, NumbersOwn
    <3>2. i \in Int /\ j \in Int /\ FirstId \in Int
      BY SessionNumbers
    <3>3. QED
      BY <3>1, <3>2
  <2>2. QED
    BY <1>3, <1>5, <2>1 DEF OwnOnSide
<1>7. OmsRests /\ UNCHANGED <<book, accounts, from_order_handler>>
  BY DEF others_of_gateway, OmsRests
<1>8. tasks' \in [Tasks -> Requests \cup {Idle}] /\ RequestsOwn'
  BY <1>1, <1>7, AnsweredSession
<1>9. <<>> \in Seq(Executions) /\ Range(<<>>) = {}
  BY DEF Range
<1>10. /\ executed' = executed /\ next_exec_id' = next_exec_id /\ next_exec_id >= next_exec_id
       /\ executed \subseteq Executions /\ wallet' = wallet /\ wallet' \in Int
  BY <1>1 DEF SessionBase, TypeOK, trades
<1>11. ExecutionsMade'
  BY <1>7, <1>10 DEF SessionBase, ExecutionsMade, book
<1>12. Change(id, xorder, <<>>)
  BY <1>1, <1>2
<1>13. SessionBase'
  BY <1>4, <1>5, <1>6, <1>7, <1>8, <1>9, <1>10, <1>11, <1>12, ChangedSession
<1>14. QED
  BY <1>7, <1>10, <1>13 DEF SessionRests

\* An order that works has an id that was handed out, and the side its session recorded.
LEMMA WorkingSession ==
    ASSUME SessionBase, NEW id \in Ids, Working(id), NEW xorder \in XOrders,
           Succeeds(xorder, xorders[id])
    PROVE  /\ id < id_generator
           /\ \A side \in Sides : OwnOnSide(id, side) => xorder.side = side
           /\ xorder.order_status \in XStatuses
           /\ xorder.updated_time >= 1
<1>1. /\ xorders[id] # Absent /\ xorders[id].updated_time \in Nat
      /\ id < id_generator /\ xorders[id].updated_time >= 1
  BY OrderThatWorks DEF SessionBase, XOrdersMade
<1>2. \A side \in Sides : OwnOnSide(id, side) => xorder.side = side
  BY <1>1 DEF SessionBase, SidesAgree, Succeeds
<1>3. xorder.updated_time >= 1
  BY <1>1 DEF Succeeds, XOrders
<1>4. QED
  BY <1>1, <1>2, <1>3 DEF Succeeds

\* A step of the exchange on an order that executes nothing.
LEMMA UntradedSession ==
    ASSUME SessionBase, NEW id \in Ids, Working(id), NEW xorder \in XOrders,
           Succeeds(xorder, xorders[id]), Change(id, xorder, <<>>),
           tasks' \in [Tasks -> Requests \cup {Idle}], RequestsOwn', OmsRests,
           UNCHANGED <<from_order_handler, trades, duplicates, recorded, session_start, left_behind>>
    PROVE  SessionBase' /\ SessionRests
<1>1. <<>> \in Seq(Executions) /\ Range(<<>>) = {}
  BY DEF Range
<1>2. /\ executed' = executed /\ next_exec_id' = next_exec_id /\ next_exec_id >= next_exec_id
      /\ executed \subseteq Executions /\ wallet' = wallet /\ wallet' \in Int
  BY DEF SessionBase, TypeOK, trades
<1>3. UNCHANGED <<book, accounts>>
  BY DEF OmsRests
<1>4. ExecutionsMade'
  BY <1>2, <1>3 DEF SessionBase, ExecutionsMade, book
<1>5. SessionBase'
  BY <1>1, <1>2, <1>4, WorkingSession, ChangedSession
<1>6. QED
  BY <1>2, <1>3, <1>5 DEF SessionRests

\* An amendment at the exchange is of an order of the session.
LEMMA AmendedSession ==
    ASSUME SessionBase, NEW t \in Tasks, ExchangeAmends(t),
           UNCHANGED <<session_start, left_behind>>
    PROVE  SessionBase' /\ SessionRests
<1>1. tasks[t].order_link_id \in Ids
  <2>1. tasks[t] \in AmendRequests
    BY DEF ExchangeAmends
  <2>2. QED
    BY <2>1, OwnNumber DEF SessionBase, RequestsOwn, RequestOwn
<1>2. PICK id \in Ids, xorder \in XOrders :
          /\ Working(id)
          /\ Succeeds(xorder, xorders[id])
          /\ Change(id, xorder, <<>>)
          /\ tasks' = [tasks EXCEPT ![t] = Idle]
          /\ UNCHANGED <<others_of_gateway, trades, duplicates, recorded>>
  BY <1>1, AmendedOrder DEF SessionBase
<1>3. OmsRests /\ UNCHANGED <<book, from_order_handler>>
  BY <1>2 DEF OmsRests, others_of_gateway
<1>4. tasks' \in [Tasks -> Requests \cup {Idle}] /\ RequestsOwn'
  BY <1>2, <1>3, AnsweredSession
<1>5. QED
  BY <1>2, <1>3, <1>4, UntradedSession

\* What the OMS carries is the same when no task changes.
LEMMA SameTasks ==
    ASSUME SessionBase, UNCHANGED vars_of_oms
    PROVE  /\ OmsRests
           /\ UNCHANGED <<book, accounts, from_order_handler>>
           /\ tasks' \in [Tasks -> Requests \cup {Idle}]
           /\ RequestsOwn'
<1>1. OmsRests /\ UNCHANGED <<book, accounts, from_order_handler, tasks>>
  BY DEF OmsRests, vars_of_oms, oms_vars
<1>2. QED
  BY <1>1 DEF SessionBase, TypeOK, OmsTypeOK, RequestsOwn, RequestOwn, Own, OwnOnSide, book

\* A cancellation at the exchange, of an order of whatever session.
LEMMA CancelledSession ==
    ASSUME SessionBase, NEW id \in Ids, ExchangeCancels(id),
           UNCHANGED <<session_start, left_behind>>
    PROVE  SessionBase' /\ SessionRests
<1>1. PICK xorder \in XOrders :
          /\ Working(id)
          /\ Succeeds(xorder, xorders[id])
          /\ Change(id, xorder, <<>>)
          /\ UNCHANGED <<vars_of_oms, trades, duplicates, recorded>>
  BY CancelledOrder DEF SessionBase
<1>2. QED
  BY <1>1, SameTasks, UntradedSession

\* A fill at the exchange, of an order of whatever session.
LEMMA FilledSession ==
    ASSUME SessionBase, NEW id \in Ids, NEW qty \in 1 .. OrderSize, ExchangeFills(id, qty),
           UNCHANGED <<session_start, left_behind>>
    PROVE  SessionBase' /\ SessionStep
<1>1. PICK execution : execution = Execution(id, qty)
  OBVIOUS
<1>2. next_exec_id \in 1 .. MaxExecutions + 1
  BY DEF SessionBase, ExecutionsMade
<1>3. /\ Working(id)
      /\ next_exec_id \in 1 .. MaxExecutions
      /\ next_exec_id' = next_exec_id + 1
      /\ execution \in PossibleExecutions
      /\ execution \in Executions
      /\ executed' = executed \cup {execution}
      /\ wallet' = wallet + Traded(xorders[id].side, qty)
      /\ UNCHANGED <<vars_of_oms, duplicates, recorded>>
  BY <1>1, <1>2, FilledOrder DEF SessionBase
<1>4. PICK xorder \in XOrders :
          /\ Succeeds(xorder, xorders[id])
          /\ Change(id, xorder, <<execution>>)
  BY <1>1, <1>2, FilledOrder DEF SessionBase
<1>5. /\ execution.order_link_id = id /\ execution.exec_id = next_exec_id
      /\ Weight(execution) = Traded(xorders[id].side, qty)
  BY <1>1 DEF Execution, Weight
<1>6. /\ OmsRests /\ UNCHANGED <<book, accounts, from_order_handler>>
      /\ tasks' \in [Tasks -> Requests \cup {Idle}] /\ RequestsOwn'
  BY <1>3, SameTasks
<1>7. id < id_generator
  BY <1>3, <1>4, WorkingSession
<1>8. ExecutionsMade'
  <2>1. next_exec_id' \in 1 .. MaxExecutions + 1
    BY <1>3, TradingAssumption
  <2>2. \A e \in executed : e.exec_id \in Nat /\ e.exec_id < next_exec_id
    BY DEF SessionBase, TypeOK, Executions, ExecutionsMade
  <2>3. \A e \in executed' : e.exec_id < next_exec_id'
    BY <1>3, <1>5, <2>2
  <2>4. \A e, f \in executed' : e.exec_id = f.exec_id => e = f
    BY <1>3, <1>5, <2>2 DEF SessionBase, ExecutionsMade
  <2>5. \A e \in executed' : e \in PossibleExecutions /\ e.order_link_id < id_generator
    BY <1>3, <1>5, <1>7 DEF SessionBase, ExecutionsMade
  <2>6. id_generator' = id_generator
    BY <1>6 DEF book
  <2>7. QED
    BY <2>1, <2>3, <2>4, <2>5, <2>6 DEF ExecutionsMade
<1>9. <<execution>> \in Seq(Executions) /\ Range(<<execution>>) = {execution}
  BY <1>3 DEF Range
<1>10. wallet' \in Int
  BY <1>3, <1>5, ExecutionWeight, 0 \in Int DEF SessionBase, TypeOK
<1>11. /\ executed \subseteq executed' /\ executed' \subseteq Executions
       /\ Range(<<execution>>) \subseteq executed'
  BY <1>3, <1>9 DEF SessionBase, TypeOK
<1>12. next_exec_id' >= next_exec_id
  BY <1>3
<1>13. SessionBase'
  BY <1>3, <1>4, <1>6, <1>7, <1>8, <1>9, <1>10, <1>11, <1>12, WorkingSession, ChangedSession
<1>14. SessionExecutes(execution)
  BY <1>3, <1>5, <1>6 DEF SessionExecutes
<1>15. QED
  BY <1>3, <1>13, <1>14 DEF SessionStep

\* The steps of the tasks.
LEMMA TaskSession ==
    ASSUME SessionBase, NEW t \in Tasks, TaskStep(t), UNCHANGED <<session_start, left_behind>>
    PROVE  SessionBase' /\ SessionRests
<1>1. CASE ExchangeAccepts(t)
  BY <1>1, AcceptedSession DEF ExchangeAccepts
<1>2. CASE ExchangeAcceptsUnheard(t)
  BY <1>2, AcceptedSession DEF ExchangeAcceptsUnheard
<1>3. CASE ExchangeAmends(t)
  BY <1>3, AmendedSession
<1>4. CASE ExchangeRefuses(t) \/ RequestEnds(t)
  <2>1. UNCHANGED <<others_of_gateway, exchange_vars, websocket_vars>>
    BY <1>4 DEF ExchangeRefuses, RequestEnds
  <2>2. /\ OmsRests /\ from_order_handler' \in Seq(OrderEvents)
        /\ Pending' \subseteq Pending \cup SubmissionFailures
    BY <2>1 DEF OmsRests, others_of_gateway, websocket_vars, Pending, SessionBase, TypeOK
  <2>3. CASE ExchangeRefuses(t)
    <3>1. tasks[t] \in CreateRequests /\ tasks' = [tasks EXCEPT ![t] = Failed(t)]
      BY <2>3 DEF ExchangeRefuses
    <3>2. QED
      BY <2>1, <2>2, <3>1, EndedSession
  <2>4. CASE RequestEnds(t)
    <3>1. tasks' = [tasks EXCEPT ![t] = Idle]
      BY <2>4 DEF RequestEnds
    <3>2. QED
      BY <2>1, <2>2, <3>1, EndedSession
  <2>5. QED
    BY <1>4, <2>3, <2>4
<1>5. CASE TaskReportsFailure(t)
  <2>1. PICK event : event = SubmissionFailed(tasks[t].order_link_id)
    OBVIOUS
  <2>2. /\ OmsRests /\ UNCHANGED <<stream, exchange_vars, websocket_vars>>
        /\ tasks' = [tasks EXCEPT ![t] = Idle]
        /\ SendToOms(event)
        /\ event \in SubmissionFailures /\ event \in OrderEvents
    BY <1>5, <2>1 DEF TaskReportsFailure, OmsRests, websocket_vars, FailedRequests,
                      SubmissionFailed, SubmissionFailures, OrderEvents
  <2>3. from_order_handler' \in Seq(OrderEvents) /\ Pending' = Pending \cup {event}
    BY <2>2, FailurePending DEF SessionBase
  <2>4. QED
    BY <2>2, <2>3, EndedSession
<1>6. QED
  BY <1>1, <1>2, <1>3, <1>4, <1>5 DEF TaskStep

\* A report is delivered; an execution goes to the recorder as well.
LEMMA DeliveredSession ==
    ASSUME SessionBase, NEW id \in Ids, NEW i \in DOMAIN stream[id], Delivered(id, i),
           UNCHANGED <<session_start, left_behind>>
    PROVE  SessionBase' /\ SessionRests
<1>1. PICK event : event = stream[id][i]
  OBVIOUS
<1>2. /\ ProcessResponse(event)
      /\ duplicates' \in Nat
  BY <1>1 DEF Delivered, Deliver, DeliverTwice, SessionBase, TypeOK
<1>3. /\ UNCHANGED <<from_strategy, strategy_inventory, oms_vars, exchange_vars>>
      /\ recorded' = IF event.type = "ExecutionUpdate" THEN recorded \cup {event} ELSE recorded
  BY <1>2 DEF ProcessResponse
<1>4. UNCHANGED <<book, accounts, tasks, to_strategy>>
  BY <1>3 DEF oms_vars
<1>5. /\ stream' \in [Ids -> Seq(OrderUpdates \cup Executions)]
      /\ from_order_handler' \in Seq(OrderEvents)
      /\ Pending' = Pending
      /\ event \in Pending
  BY <1>1, DeliveredPending DEF SessionBase
<1>6. event.type = "ExecutionUpdate" => event \in executed
  BY <1>5 DEF SessionBase, ReportsMade, GenuineUpdate, OrderUpdates, SubmissionFailures
<1>7. recorded' \subseteq executed'
  BY <1>3, <1>6 DEF SessionBase, TypeOK, exchange_vars, trades
<1>8. TypeOK'
  BY <1>2, <1>3, <1>4, <1>5, <1>7
     DEF SessionBase, TypeOK, OmsTypeOK, book, accounts, exchange_vars, trades
<1>9. SlabAdvances
  BY <1>4, SlabUnchangedAdvances DEF SessionBase, TypeOK
<1>10. RequestsOwn'
  BY <1>4 DEF SessionBase, RequestsOwn, RequestOwn, Own, OwnOnSide, book
<1>11. CountedMade'
  BY <1>3, <1>4 DEF SessionBase, CountedMade, accounts, exchange_vars, trades
<1>12. QED
  BY <1>3, <1>4, <1>5, <1>8, <1>9, <1>10, <1>11, QuietSession
     DEF SessionRests, exchange_vars, trades

\* A step in which nothing happens.
LEMMA StutterSession ==
    ASSUME SessionBase, UNCHANGED trading_vars, UNCHANGED <<session_start, left_behind>>
    PROVE  SessionBase' /\ SessionRests
<1>1. /\ UNCHANGED <<book, accounts, exchange_vars, stream, from_order_handler, tasks>>
  BY DEF trading_vars, vars_of_oms, oms_vars, websocket_vars
<1>2. TypeOK'
  BY DEF SessionBase, TypeOK, OmsTypeOK, trading_vars, vars_of_oms, oms_vars, book, accounts,
         exchange_vars, trades, websocket_vars
<1>3. Pending' = Pending
  BY <1>1 DEF Pending
<1>4. SlabAdvances
  BY <1>1, SlabUnchangedAdvances DEF SessionBase, TypeOK
<1>5. RequestsOwn'
  BY <1>1 DEF SessionBase, RequestsOwn, RequestOwn, Own, OwnOnSide, book
<1>6. CountedMade'
  BY <1>1 DEF SessionBase, CountedMade, accounts, exchange_vars, trades
<1>7. QED
  BY <1>1, <1>2, <1>3, <1>4, <1>5, <1>6, QuietSession DEF SessionRests, exchange_vars, trades

\* Every step within a session.
LEMMA NextSession ==
    ASSUME SessionBase, [Next]_trading_vars, UNCHANGED <<session_start, left_behind>>
    PROVE  SessionBase' /\ SessionStep
<1>1. CASE StrategyStep
  BY <1>1, StrategySession DEF SessionStep
<1>2. CASE OmsStep
  BY <1>2, CommandSession, EventSession DEF OmsStep, SessionStep
<1>3. CASE \E t \in Tasks : TaskStep(t)
  BY <1>3, TaskSession DEF SessionStep
<1>4. CASE MarketStep
  BY <1>4, CancelledSession, FilledSession DEF MarketStep, SessionStep
<1>5. CASE WebsocketStep
  BY <1>5, DeliveredSession DEF WebsocketStep, Delivered, SessionStep
<1>6. CASE UNCHANGED trading_vars
  BY <1>6, StutterSession DEF SessionStep
<1>7. QED
  BY <1>1, <1>2, <1>3, <1>4, <1>5, <1>6 DEF Next

-----------------------------------------------------------------------------
\* The first session starts with nothing.
LEMMA InitSession ==
    ASSUME RestartInit
    PROVE  SessionBase /\ SessionAccounts
<1>1. TradingInit /\ session_start = {} /\ left_behind = {}
  BY DEF RestartInit
<1>2. TypeOK /\ GeneratorBounded
  BY <1>1, InitBase DEF Base
<1>3. /\ Len(orders) = 0 /\ DOMAIN orders = {} /\ DOMAIN id_map = {}
      /\ id_generator = InitialOrderLinkId /\ InitialOrderLinkId \in Nat
  BY <1>1, OmsAssumption DEF TradingInit, OmsInit
<1>4. NumbersOwn
  BY <1>3 DEF NumbersOwn, FirstId
<1>5. ReportsMade
  <2>1. /\ Range(from_order_handler) = {}
        /\ \A id \in Ids : Range(stream[id]) = {}
    BY <1>1 DEF TradingInit, OmsInit, Range
  <2>2. QED
    BY <2>1 DEF ReportsMade, Pending
<1>6. ExecutionsMade
  BY <1>1, TradingAssumption DEF TradingInit, ExecutionsMade
<1>7. XOrdersMade /\ SidesAgree
  BY <1>1 DEF TradingInit, XOrdersMade, SidesAgree
<1>8. RequestsOwn
  <2>1. \A t \in Tasks : tasks[t] = Idle
    BY <1>1 DEF TradingInit, OmsInit
  <2>2. Idle \notin CreateRequests \cup AmendRequests \cup FailedRequests
    BY IdleAssumption DEF Requests
  <2>3. QED
    BY <2>1, <2>2 DEF RequestsOwn, RequestOwn
<1>9. SessionStart /\ CountedMade
  BY <1>1 DEF TradingInit, OmsInit, SessionStart, CountedMade
<1>10. SessionAccounts
  <2>1. Missing = {}
    BY <1>1 DEF TradingInit, Missing
  <2>2. wallet - inventory = 0
    BY <1>1, OmsAssumption DEF TradingInit, OmsInit
  <2>3. QED
    BY <2>1, <2>2, SumOfNone, AccountsSum
<1>11. QED
  BY <1>2, <1>4, <1>5, <1>6, <1>7, <1>8, <1>9, <1>10 DEF SessionBase

\* A restart forgets everything but the wallet, and the ids that were handed out.
LEMMA RestartSession ==
    ASSUME SessionBase, Restart
    PROVE  SessionBase' /\ SessionAccounts'
<1>1. /\ session_start' = executed /\ left_behind' = {id \in Ids : xorders[id] # Absent}
      /\ inventory' = wallet
      /\ to_strategy' = <<wallet>> /\ strategy_inventory' = 0
      /\ orders' = <<>> /\ id_map' = <<>>
      /\ id_generator' \in InitialOrderLinkId .. InitialOrderLinkId + MaxOrders
      /\ id_generator' >= id_generator
      /\ processed_executions' = {}
      /\ from_strategy' = <<>> /\ from_order_handler' = <<>>
      /\ tasks' = [t \in Tasks |-> Idle]
      /\ stream' = stream \/ stream' = [id \in Ids |-> <<>>]
      /\ UNCHANGED <<exchange_vars, duplicates, recorded>>
  BY DEF Restart, FirstIdsOfSession
<1>2. /\ Len(orders') = 0 /\ DOMAIN orders' = {} /\ DOMAIN id_map' = {}
      /\ orders' \in Seq(Orders) /\ id_map' \in [DOMAIN id_map' -> 1 .. Len(orders')]
  BY <1>1
<1>3. wallet \in Int
  BY DEF SessionBase, TypeOK
<1>4. OmsTypeOK'
  <2>1. to_strategy' \in Seq(Int) /\ Len(to_strategy') <= 1
    BY <1>1, <1>3
  <2>2. /\ tasks' \in [Tasks -> Requests \cup {Idle}]
        /\ strategy_inventory' \in Int /\ inventory' \in Int
        /\ processed_executions' \subseteq Nat \X Nat
    BY <1>1, <1>3
  <2>3. id_generator' \in Nat
    BY <1>1, SessionNumbers
  <2>4. QED
    BY <1>2, <2>1, <2>2, <2>3 DEF OmsTypeOK
<1>5. TypeOK'
  <2>1. stream' \in [Ids -> Seq(OrderUpdates \cup Executions)]
    <3>1. <<>> \in Seq(OrderUpdates \cup Executions)
      OBVIOUS
    <3>2. stream \in [Ids -> Seq(OrderUpdates \cup Executions)]
      BY DEF SessionBase, TypeOK
    <3>3. QED
      BY <1>1, <3>1, <3>2
  <2>2. from_strategy' \in Seq(Builders) /\ from_order_handler' \in Seq(OrderEvents)
    BY <1>1
  <2>3. QED
    BY <1>1, <1>4, <2>1, <2>2 DEF SessionBase, TypeOK, exchange_vars, trades
<1>6. /\ InitialOrderLinkId \in Nat /\ MaxOrders \in Nat
      /\ id_generator \in Nat /\ id_generator' \in Nat /\ id_generator <= id_generator'
      /\ InitialOrderLinkId <= id_generator'
      /\ id_generator' <= InitialOrderLinkId + MaxOrders
  BY <1>1, SessionNumbers
<1>7. /\ FirstId' = id_generator'
      /\ \A k \in Int : k < id_generator => k < id_generator'
  <2>1. FirstId' = id_generator'
    BY <1>2, <1>6 DEF FirstId
  <2>2. \A k \in Int : k < id_generator => k < id_generator'
    BY <1>6
  <2>3. QED
    BY <2>1, <2>2
<1>8. NumbersOwn' /\ GeneratorBounded'
  BY <1>2, <1>6, <1>7 DEF NumbersOwn, GeneratorBounded
<1>9. ReportsMade'
  <2>1. Range(<<>>) = {}
    BY DEF Range
  <2>2. \A id \in Ids : Range(stream'[id]) \subseteq Range(stream[id])
    BY <1>1, <2>1
  <2>3. Pending' \subseteq Pending
    BY <1>1, <2>1, <2>2 DEF Pending
  <2>4. QED
    BY <1>1, <2>3 DEF SessionBase, ReportsMade, exchange_vars, trades
<1>10. ExecutionsMade' /\ XOrdersMade'
  <2>1. \A e \in executed : e.order_link_id \in Int
    BY DEF SessionBase, TypeOK, Executions
  <2>2. \A id \in Ids : id \in Int
    BY OmsAssumption DEF Ids
  <2>3. QED
    BY <1>1, <1>7, <2>1, <2>2
       DEF SessionBase, ExecutionsMade, XOrdersMade, exchange_vars, trades
<1>11. SidesAgree'
  BY <1>2 DEF SidesAgree, OwnOnSide
<1>12. RequestsOwn'
  <2>1. \A t \in Tasks : tasks'[t] = Idle
    BY <1>1
  <2>2. Idle \notin CreateRequests \cup AmendRequests \cup FailedRequests
    BY IdleAssumption DEF Requests
  <2>3. QED
    BY <2>1, <2>2 DEF RequestsOwn, RequestOwn
<1>13. SessionStart' /\ CountedMade'
  <2>1. \A e \in executed : e.order_link_id < FirstId'
    <3>1. \A e \in executed : e.order_link_id \in Int
      BY DEF SessionBase, TypeOK, Executions
    <3>2. QED
      BY <1>7, <3>1 DEF SessionBase, ExecutionsMade
  <2>2. \A id \in Ids : xorders[id] # Absent => id < FirstId'
    <3>1. \A id \in Ids : id \in Int
      BY OmsAssumption DEF Ids
    <3>2. QED
      BY <1>7, <3>1 DEF SessionBase, XOrdersMade
  <2>3. QED
    BY <1>1, <2>1, <2>2 DEF SessionStart, CountedMade, exchange_vars, trades
<1>14. SessionAccounts'
  <2>1. {} = Missing'
    BY <1>1 DEF Missing, exchange_vars, trades
  <2>2. wallet' - inventory' = 0
    BY <1>1, <1>3 DEF exchange_vars, trades
  <2>3. QED
    BY <2>1, <2>2, SumOfNone, NextAccountsSum
<1>15. QED
  BY <1>5, <1>8, <1>9, <1>10, <1>11, <1>12, <1>13, <1>14 DEF SessionBase

\* Every step, of whatever session and between sessions, keeps what holds of a session.
LEMMA SessionsAlways == RestartSpec => [](SessionBase /\ SessionAccounts)
<1>1. RestartInit => SessionBase /\ SessionAccounts
  BY InitSession
<1>2. ASSUME SessionBase, SessionAccounts, [RestartNext]_restart_vars
      PROVE  SessionBase' /\ SessionAccounts'
  <2>1. CASE Restart
    BY <1>2, <2>1, RestartSession
  <2>2. CASE [Next]_trading_vars /\ UNCHANGED <<session_start, left_behind>>
    BY <1>2, <2>2, NextSession, StepSession
  <2>3. QED
    BY <1>2, <2>1, <2>2 DEF RestartNext, restart_vars, session_vars
<1>3. QED
  BY <1>1, <1>2, PTL DEF RestartSpec

\* The types survive a restart: what an earlier session left in the streams and at the
\* exchange is nothing the new one could not handle (Wallet::new, create_oms_thread).
THEOREM SessionsTypeCorrect == RestartSpec => []TypeOK
<1>1. SessionBase => TypeOK
  BY DEF SessionBase
<1>2. QED
  BY <1>1, SessionsAlways, PTL

\* What separates the inventory from the wallet is exactly the executions made since the
\* session began that it has not counted: an execution that the wallet already contained
\* when it was read is never counted a second time, however late its report comes and
\* however many sessions there were (handle_execution_update, create_oms_thread).
THEOREM SessionsKeepAccounts == RestartSpec => []SessionAccounts
BY SessionsAlways, PTL

\* An order the session has recorded is one it submitted itself, on the side it recorded:
\* what the exchange has under its id is not an order that an earlier session left behind.
\* It rests on the clock that gives a session its first id not being set back, which
\* FirstIdsOfSession assumes (OrderManagementSystem::new, create_oms_thread).
THEOREM SessionsKeepTheirOrders == RestartSpec => []RecordsAreOwnOrders
<1>1. ASSUME SessionBase
      PROVE  RecordsAreOwnOrders
  <2> SUFFICES ASSUME NEW i \in DOMAIN orders,
                      xorders[orders[i].order_link_id] # Absent
               PROVE  /\ xorders[orders[i].order_link_id].side = orders[i].side
                      /\ orders[i].order_link_id \notin left_behind
    BY DEF RecordsAreOwnOrders
  <2> DEFINE id == orders[i].order_link_id
  <2>1. orders[i].side \in Sides
    <3>1. orders \in Seq(Orders) /\ i \in 1 .. Len(orders)
      BY <1>1, LenProperties DEF SessionBase, TypeOK, OmsTypeOK
    <3>2. orders[i] \in Orders
      BY <3>1, ElementOfSeq
    <3>3. QED
      BY <3>2 DEF Orders
  <2>2. id \in Ids /\ FirstId <= id
    BY <1>1, OwnNumber DEF Own
  <2>3. xorders[id].side = orders[i].side
    BY <1>1, <2>1, <2>2 DEF SessionBase, SidesAgree, OwnOnSide
  <2>4. id \in left_behind => id < FirstId
    BY <1>1 DEF SessionBase, SessionStart
  <2>5. id \in Int /\ FirstId \in Int
    BY <1>1, <2>2, SessionNumbers, OmsAssumption DEF Ids
  <2>6. id \notin left_behind
    BY <2>2, <2>4, <2>5
  <2>7. QED
    BY <2>3, <2>6
<1>2. QED
  BY <1>1, SessionsAlways, PTL
=============================================================================
