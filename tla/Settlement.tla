----------------------------- MODULE Settlement -----------------------------
(***************************************************************************)
(* What the bot promises about its inventory: every execution of one of    *)
(* its orders changes the balance, once, and nothing else does.  When the  *)
(* executions happen and when they are settled is left open.               *)
(***************************************************************************)
EXTENDS Accounting

CONSTANTS
    Executions,        \* executions that can happen
    InitialBalance     \* the balance before any of them

VARIABLES
    executed,          \* executions the exchange has made
    settled,           \* those the balance accounts for
    balance

settlement_vars == <<executed, settled, balance>>

Init ==
    /\ executed = {}
    /\ settled = {}
    /\ balance = InitialBalance

Execute(execution) ==
    /\ execution \notin executed
    /\ executed' = executed \cup {execution}
    /\ UNCHANGED <<settled, balance>>

Settle(execution) ==
    /\ execution \in executed \ settled
    /\ settled' = settled \cup {execution}
    /\ balance' = NetAfter(balance, execution)
    /\ UNCHANGED executed

Next == \E execution \in Executions : Execute(execution) \/ Settle(execution)

Spec == Init /\ [][Next]_settlement_vars
=============================================================================
