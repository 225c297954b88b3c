------------------------------- MODULE Metrics ------------------------------
(***************************************************************************)
(* Metrics (oms/src/metrics.rs): the inventory and the average entry price *)
(* as executions come in.  Quantities, prices and fees are whole numbers   *)
(* of some small unit, so that an inventory within 1e-8 of zero is zero;   *)
(* the average is an exact fraction <<n, d>>, and <<n, 0>> is what the     *)
(* floating-point division by zero leaves: not a number of any use.        *)
(***************************************************************************)
EXTENDS Accounting

CONSTANTS
    InitialInventory,    \* the wallet at startup
    LastPrice,           \* last trade at startup, the price the inventory is entered at
    ExecPrices,          \* prices of executions
    ExecQuantities,      \* quantities of executions
    Fees,                \* fees of executions
    MaxExecutions        \* bound: executions in a behaviour

ASSUME MetricsAssumption ==
    /\ InitialInventory \in Int
    /\ LastPrice \in Nat
    /\ ExecPrices \subseteq Nat \ {0}
    /\ ExecQuantities \subseteq Nat \ {0}
    /\ Fees \subseteq Nat
    /\ \A fee \in Fees, qty \in ExecQuantities : fee < qty

VARIABLES
    net,             \* net_inventory
    gross,           \* gross_inventory
    average,         \* average_entry_price
    entry_prices,    \* prices the present position was built at (history)
    paid,            \* price of the latest execution (history)
    executions       \* executions so far

metrics_vars == <<net, gross, average, entry_prices, paid, executions>>

Fraction(n) == <<n, 1>>

AbsoluteOf(n) == IF n < 0 THEN -n ELSE n

\* f64::signum: +0.0 counts as positive.
IsPositive(n) == n >= 0

-----------------------------------------------------------------------------
\* The cases of Metrics::update, in the order the code tries them.

OpensPosition == net = 0

ExtendsPosition(execution) ==
    IF IsPositive(net) THEN execution.order_side = "Buy" ELSE execution.order_side = "Sell"

\* Value of the position over its size, both without fees.
WeightedAverage(execution) ==
    <<execution.exec_qty * execution.exec_price * average[2] + AbsoluteOf(gross) * average[1],
      AbsoluteOf(GrossAfter(gross, execution)) * average[2]>>

ClosesPosition(execution) == GrossAfter(gross, execution) = 0

CrossesZero(execution) == IsPositive(net) # IsPositive(NetAfter(net, execution))

\* Defect: a position that turns from long to short keeps its average.
AverageAfterKeptOnCrossing(execution) ==
    CASE OpensPosition -> Fraction(execution.exec_price)
      [] ~OpensPosition /\ ExtendsPosition(execution) -> WeightedAverage(execution)
      [] ~OpensPosition /\ ~ExtendsPosition(execution) /\ ClosesPosition(execution)
            -> Fraction(0)
      [] OTHER -> average

\* Defect: only a long position is extended.
AverageAfterLongOnly(execution) ==
    CASE OpensPosition -> Fraction(execution.exec_price)
      [] ~OpensPosition /\ IsPositive(net) /\ execution.order_side = "Buy"
            -> WeightedAverage(execution)
      [] ~OpensPosition /\ ~ExtendsPosition(execution) /\ ClosesPosition(execution)
            -> Fraction(0)
      [] ~OpensPosition /\ ~ExtendsPosition(execution) /\ ~ClosesPosition(execution)
            /\ CrossesZero(execution) -> Fraction(execution.exec_price)
      [] OTHER -> average

AverageAfter(execution) ==
    CASE OpensPosition -> Fraction(execution.exec_price)
      [] ~OpensPosition /\ ExtendsPosition(execution) -> WeightedAverage(execution)
      [] ~OpensPosition /\ ~ExtendsPosition(execution) /\ ClosesPosition(execution)
            -> Fraction(0)
      [] ~OpensPosition /\ ~ExtendsPosition(execution) /\ ~ClosesPosition(execution)
            /\ CrossesZero(execution) -> Fraction(execution.exec_price)
      [] OTHER -> average

\* The prices that make up the position after an execution.
EntryPricesAfter(execution) ==
    CASE OpensPosition \/ CrossesZero(execution) -> {execution.exec_price}
      [] ~OpensPosition /\ ~CrossesZero(execution) /\ ExtendsPosition(execution)
            -> entry_prices \cup {execution.exec_price}
      [] OTHER -> entry_prices

Update(execution) ==
    /\ net' = NetAfter(net, execution)
    /\ gross' = GrossAfter(gross, execution)
    /\ average' = AverageAfter(execution)
    /\ entry_prices' = EntryPricesAfter(execution)
    /\ paid' = execution.exec_price

-----------------------------------------------------------------------------
ExecutionsOf == [order_side : {"Buy", "Sell"}, exec_price : ExecPrices,
                 exec_qty : ExecQuantities, exec_fee : Fees]

MetricsInit ==
    /\ net = InitialInventory
    /\ gross = InitialInventory
    /\ average = Fraction(IF InitialInventory = 0 THEN 0 ELSE LastPrice)
    /\ entry_prices = {LastPrice}
    /\ paid = LastPrice
    /\ executions = 0

MetricsNext ==
    /\ executions < MaxExecutions
    /\ executions' = executions + 1
    /\ \E execution \in ExecutionsOf : Update(execution)

MetricsSpec == MetricsInit /\ [][MetricsNext]_metrics_vars

-----------------------------------------------------------------------------
\* The average entry price of a position lies between the lowest and the highest price it
\* was built at: "average entry price excludes execution fees", so nothing but these prices
\* makes it up, and it is a number whenever there is a position.
AverageWithinEntryPrices ==
    net # 0 => /\ average[2] # 0
               /\ \E price \in entry_prices : price * average[2] <= average[1]
               /\ \E price \in entry_prices : price * average[2] >= average[1]

\* Long or short, the average is what the position cost: an execution that extends it adds
\* its own value to that cost, and one that only reduces it leaves the average alone.
AverageConservesValue ==
    [][LET size == AbsoluteOf(net)
           after == AbsoluteOf(net')
       IN net # 0 /\ net' # 0 /\ IsPositive(net) = IsPositive(net') =>
              /\ after < size => average' = average
              /\ after > size => average'[1] * after * average[2]
                    = (average[1] * size + paid' * (after - size) * average[2])
                          * average'[2]]_metrics_vars
=============================================================================
