----------------------------- MODULE Accounting -----------------------------
(***************************************************************************)
(* What one execution does to the inventory (oms/src/metrics.rs).  A buy   *)
(* pays its fee in the traded asset, so it is subtracted; a sell pays it   *)
(* in the quote asset, so nothing but the quantity leaves the inventory.   *)
(***************************************************************************)
EXTENDS Integers

\* Defect: the fee of a sell is taken from the traded asset too.
NetAfterFeeOnBothSides(net, execution) ==
    IF execution.order_side = "Buy"
    THEN net + execution.exec_qty - execution.exec_fee
    ELSE net - execution.exec_qty - execution.exec_fee

NetAfter(net, execution) ==
    IF execution.order_side = "Buy"
    THEN net + execution.exec_qty - execution.exec_fee
    ELSE net - execution.exec_qty

\* The inventory as it would be without fees.
GrossAfter(gross, execution) ==
    IF execution.order_side = "Buy"
    THEN gross + execution.exec_qty
    ELSE gross - execution.exec_qty
=============================================================================
