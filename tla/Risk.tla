-------------------------------- MODULE Risk --------------------------------
(***************************************************************************)
(* RiskManager (oms/src/risk.rs): decides what becomes of a command of the *)
(* strategy, from the orders the OMS has recorded and its current          *)
(* inventory.                                                              *)
(***************************************************************************)
EXTENDS Orders, Sequences

CONSTANTS
    MaxInventory,    \* 500.0 in the code
    MinInventory,    \* -500.0 in the code
    NoChange         \* a field an amendment leaves out

ASSUME InventoryLimitsAssumption ==
    /\ MaxInventory \in Int
    /\ MinInventory \in Int

\* Defect: the buy limit lets one more order through when it is reached exactly.
LimitReachedLate(side, inventory) ==
    \/ side = "Buy"  /\ inventory > MaxInventory
    \/ side = "Sell" /\ inventory <= MinInventory

\* The limits look at the inventory only, not at the orders that may still execute.
LimitReached(side, inventory) ==
    \/ side = "Buy"  /\ inventory >= MaxInventory
    \/ side = "Sell" /\ inventory <= MinInventory

\* Slab positions of the open orders of a side.
ExistingOrders(orders, side) ==
    {i \in DOMAIN orders : IsOpen(orders[i].order_status) /\ orders[i].side = side}

\* The first of them in the order of the slab.
ExistingOrder(orders, side) ==
    orders[CHOOSE i \in ExistingOrders(orders, side) :
               \A j \in ExistingOrders(orders, side) : i <= j]

\* Only what differs from the recorded order is sent to the exchange.
Amendment(builder, order) ==
    [order_link_id |-> order.order_link_id,
     price |-> IF builder.price = order.price THEN NoChange ELSE builder.price,
     qty |-> IF builder.qty = order.qty THEN NoChange ELSE builder.qty]

IsNoOp(amendment) == amendment.price = NoChange /\ amendment.qty = NoChange

\* The three outcomes of evaluate_order; at most one holds of any command.
IsNewOrder(orders, builder, inventory) ==
    /\ ~LimitReached(builder.side, inventory)
    /\ ExistingOrders(orders, builder.side) = {}

\* Defect: an order is amended before the exchange has acknowledged it.
IsAmendOrderTooEarly(orders, builder, inventory) ==
    /\ ~LimitReached(builder.side, inventory)
    /\ ExistingOrders(orders, builder.side) # {}
    /\ ~IsNoOp(Amendment(builder, ExistingOrder(orders, builder.side)))

IsAmendOrder(orders, builder, inventory) ==
    /\ ~LimitReached(builder.side, inventory)
    /\ ExistingOrders(orders, builder.side) # {}
    /\ LET existing == ExistingOrder(orders, builder.side)
       IN /\ existing.order_status # "Submitted"
          /\ ~IsNoOp(Amendment(builder, existing))

IsDoNothing(orders, builder, inventory) ==
    /\ ~IsNewOrder(orders, builder, inventory)
    /\ ~IsAmendOrder(orders, builder, inventory)
=============================================================================
