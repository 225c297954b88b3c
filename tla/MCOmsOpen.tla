----------------------------- MODULE MCOmsOpen ------------------------------
(***************************************************************************)
(* Two orders, one of each side or both of one, and every report about     *)
(* them the OMS tells apart: an acknowledgement, a fill, a later           *)
(* cancellation, one execution of each side under ids that repeat, and     *)
(* reports about an order it never placed.                                 *)
(***************************************************************************)
EXTENDS OmsOpen, TLC

MCMinInventory == -1
MCInitialInventory == -1

MCCommands == {[side |-> s, price |-> p, qty |-> 1] : s \in Sides, p \in {1, 2}}

Ids == {1, 2}
Stranger == 9

MCEvents ==
    {[type |-> "OrderUpdate", order_link_id |-> id, order_status |-> r.status,
      price |-> 1, qty |-> 1, filled_qty |-> r.filled, updated_time |-> r.time] :
        id \in Ids, r \in {[status |-> "New", filled |-> 0, time |-> 1],
                           [status |-> "Filled", filled |-> 1, time |-> 2],
                           [status |-> "Cancelled", filled |-> 0, time |-> 2]}}
    \cup {[type |-> "ExecutionUpdate", order_link_id |-> x[1], order_side |-> x[2],
           exec_id |-> x[3], exec_qty |-> 2, exec_fee |-> 1] :
              x \in {<<1, "Buy", 1>>, <<2, "Sell", 1>>, <<1, "Buy", EmptyExecId>>,
                     <<Stranger, "Buy", 1>>}}
    \cup {SubmissionFailed(id) : id \in Ids \cup {Stranger}}

Symmetry == Permutations(Tasks)
=============================================================================
