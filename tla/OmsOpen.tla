------------------------------ MODULE OmsOpen -------------------------------
(***************************************************************************)
(* The OMS alone, in an environment that may send any command of Commands  *)
(* and any event of Events at any time: late, duplicated, out of order, of *)
(* orders it never placed.  What holds here owes nothing to the exchange.  *)
(***************************************************************************)
EXTENDS Oms

CONSTANTS
    Commands,    \* what the strategy may ask for
    Events       \* what the websocket and the gateway may report

\* "Submitted" is the OMS's own status: the exchange has none of that name.
ASSUME EnvironmentAssumption ==
    /\ Commands \subseteq Builders
    /\ Events \subseteq OrderEvents
    /\ \A e \in Events : e.type = "OrderUpdate" => e.order_status # "Submitted"

\* The strategy sends one command, or only reads its inventory.
StrategySends(command) == StrategyCycle(<<command>>)
StrategySendsNothing == StrategyCycle(<<>>)

EventArrives(event) ==
    /\ SendToOms(event)
    /\ UNCHANGED <<from_strategy, strategy_inventory, oms_vars>>

TaskEnds(t) ==
    /\ tasks[t] # Idle
    /\ tasks' = [tasks EXCEPT ![t] = Idle]
    /\ UNCHANGED <<from_strategy, from_order_handler, strategy_inventory,
                   book, accounts, to_strategy>>

Next ==
    \/ \E command \in Commands : StrategySends(command)
    \/ StrategySendsNothing
    \/ \E event \in Events : EventArrives(event)
    \/ \E t \in Tasks : TaskEnds(t)
    \/ RecvFromStrategy
    \/ RecvFromOrderHandler

Spec == OmsInit /\ [][Next]_vars_of_oms

-----------------------------------------------------------------------------
\* The OMS has its types, and the channels carry what the environment sends.
TypeOK ==
    /\ OmsTypeOK
    /\ from_strategy \in Seq(Commands)
    /\ from_order_handler \in Seq(Events)

\* A record never goes back to an older report of the exchange, whatever arrives late.
NeverBackInTime ==
    [][\A i \in DOMAIN orders : orders'[i].updated_time >= orders[i].updated_time]_vars_of_oms

\* The inventory moves only when an execution is counted for the first time, and what
\* has been counted is never forgotten.
CountedOnce ==
    [][/\ processed_executions \subseteq processed_executions'
       /\ inventory' # inventory => processed_executions' # processed_executions]_vars_of_oms
=============================================================================
