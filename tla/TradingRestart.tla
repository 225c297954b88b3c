--------------------------- MODULE TradingRestart ---------------------------
(***************************************************************************)
(* Trading, with a bot that dies at any point (the release build aborts on *)
(* a panic, and nothing catches an interrupt) and is started again by its  *)
(* operator.  Nothing is persisted: the new session reads its inventory    *)
(* from the wallet, numbers its orders from the clock, and hears nothing   *)
(* of what the exchange reported in between.  The orders of the dead       *)
(* session stay at the exchange.                                           *)
(*                                                                         *)
(* Assumption: the wall clock is not set back from one session to the next *)
(* (FirstIdsOfSession).  Nothing in the code enforces it.                  *)
(***************************************************************************)
EXTENDS Trading

CONSTANTS
    MaxSessions          \* bound: times the bot is started

ASSUME MaxSessionsAssumption == MaxSessions \in Nat

VARIABLES
    sessions,            \* times the bot was started
    session_start,       \* executions the wallet contained when the session began (history)
    left_behind          \* ids the exchange had orders of when the session began (history)

session_vars == <<sessions, session_start, left_behind>>
restart_vars == <<trading_vars, session_vars>>

RestartInit ==
    /\ TradingInit
    /\ sessions = 1
    /\ session_start = {}
    /\ left_behind = {}

\* Defect: every session numbers its orders from the same id.
SameFirstId == {InitialOrderLinkId}

\* What the wall clock, in microseconds, may show when a session begins: any time that has
\* passed every id of the sessions before.  A session hands out fewer ids than it lasts
\* microseconds, so this holds of a clock that is not set back, which is assumed.
FirstIdsOfSession ==
    {id \in InitialOrderLinkId .. InitialOrderLinkId + MaxOrders : id >= id_generator}

\* create_oms_thread in a new process: Wallet::new, the clock, OrderManagementSystem::new.
Restart ==
    /\ sessions < MaxSessions
    /\ sessions' = sessions + 1
    /\ session_start' = executed
    /\ left_behind' = {id \in Ids : xorders[id] # Absent}
    /\ inventory' = wallet
    /\ to_strategy' = <<wallet>>
    /\ strategy_inventory' = 0
    /\ orders' = <<>>
    /\ id_map' = <<>>
    /\ id_generator' \in FirstIdsOfSession
    /\ processed_executions' = {}
    /\ from_strategy' = <<>>
    /\ from_order_handler' = <<>>
    /\ tasks' = [t \in Tasks |-> Idle]
    /\ stream' \in {stream, [id \in Ids |-> <<>>]}   \* what was not delivered may be lost
    /\ UNCHANGED <<exchange_vars, duplicates, recorded>>

RestartNext ==
    \/ Next /\ UNCHANGED session_vars
    \/ Restart

RestartSpec == RestartInit /\ [][RestartNext]_restart_vars

-----------------------------------------------------------------------------
\* The inventory in the OMS is "the actual inventory in the wallet" (metrics.rs) whenever
\* no report of an execution is under way.
InventoryIsWallet ==
    (\A id \in Ids : \A e \in Underway(id) : e.type # "ExecutionUpdate")
        => inventory = wallet

\* What separates the inventory from the wallet is exactly the executions made since the
\* session began that it has not counted: those under way, and those of orders an earlier
\* session left behind, which it discards.  An execution that the wallet already contained
\* when it was read is never counted a second time, however late its report comes.
SessionAccounts ==
    wallet - inventory = MapThenSumSet(LAMBDA e : Traded(e.order_side, e.exec_qty),
                                       executed \ (session_start \cup Settled))

\* An order the session has recorded is one it submitted itself, and on the side it
\* recorded: what the exchange has under its id is not an order that an earlier session
\* left behind.
RecordsAreOwnOrders ==
    \A i \in DOMAIN orders :
        LET id == orders[i].order_link_id
        IN xorders[id] # Absent => /\ xorders[id].side = orders[i].side
                                   /\ id \notin left_behind
=============================================================================
