------------------------------- MODULE Orders -------------------------------
(***************************************************************************)
(* The vocabulary the components exchange (exchange/src/lib.rs): sides,    *)
(* order statuses, the commands of the strategy, the orders the OMS keeps  *)
(* and the events it receives from the exchange.                           *)
(*                                                                         *)
(* Prices and quantities are members of small sets; the average filled     *)
(* price, symbols, order types and time stamps of executions are left out, *)
(* no decision of the program reads them.                                  *)
(***************************************************************************)
EXTENDS Integers

CONSTANTS
    Prices,       \* prices an order can carry
    Quantities    \* quantities an order can carry

ASSUME QuantitiesAssumption == Quantities \subseteq Nat \ {0}

Sides == {"Buy", "Sell"}

OpenStatuses == {"Submitted", "New", "PartiallyFilled", "Untriggered"}
ClosedStatuses == {"Rejected", "PartiallyFilledCanceled", "Filled", "Cancelled",
                   "Triggered", "Deactivated"}
OrderStatuses == OpenStatuses \cup ClosedStatuses

\* Defect: an order that is sent but not yet acknowledged does not count as open.
IsOpenOnceAcknowledged(status) == status \in OpenStatuses \ {"Submitted"}

IsOpen(status) == status \in OpenStatuses

\* "" in the code: an execution the exchange did not identify.
EmptyExecId == 0

-----------------------------------------------------------------------------
\* What the strategy asks for.
Builders == [side : Sides, price : Prices, qty : Quantities]

\* An order as the OMS records it.
Orders == [order_link_id : Nat, order_status : OrderStatuses, side : Sides,
           price : Prices, qty : Quantities, filled_qty : Nat, updated_time : Nat]

\* The record of an order that has just been submitted.
Build(builder, order_link_id) ==
    [order_link_id |-> order_link_id, order_status |-> "Submitted",
     side |-> builder.side, price |-> builder.price, qty |-> builder.qty,
     filled_qty |-> 0, updated_time |-> 0]

-----------------------------------------------------------------------------
\* Events of the private order stream and of the order gateway.
OrderUpdates ==
    [type : {"OrderUpdate"}, order_link_id : Nat, order_status : OrderStatuses,
     price : Prices, qty : Quantities, filled_qty : Nat, updated_time : Nat]

Executions ==
    [type : {"ExecutionUpdate"}, order_link_id : Nat, order_side : Sides,
     exec_id : Nat, exec_qty : Nat, exec_fee : Nat]

SubmissionFailures == [type : {"SubmissionFailed"}, order_link_id : Nat]

OrderEvents == OrderUpdates \cup Executions \cup SubmissionFailures

SubmissionFailed(id) == [type |-> "SubmissionFailed", order_link_id |-> id]

\* The name under which an execution is remembered.
ExecutionKey(execution) == <<execution.order_link_id, execution.exec_id>>
=============================================================================
