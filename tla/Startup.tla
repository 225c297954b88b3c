------------------------------ MODULE Startup -------------------------------
(***************************************************************************)
(* The life of the process (cli/src/main.rs, threads.rs): configuration,   *)
(* five threads started one after the other, each of which initialises     *)
(* itself from blocking requests while the others already run, and their   *)
(* ends.  A panic anywhere aborts the process (panic = "abort").           *)
(*                                                                         *)
(* The handlers of the OMS are in Oms, those of the recorder in Recorder;  *)
(* here a command or an execution is only counted.                         *)
(***************************************************************************)
EXTENDS Configuration, Sequences, FiniteSets

CONSTANTS
    Started,              \* the environments the bot may be started in
    Coin, Symbol,         \* the traded coin and pair of the configuration
    WalletAnswers,        \* bodies of wallet-balance, see ProcessWallet
    InstrumentAnswers,    \* bodies of instruments-info
    TradesAnswers,        \* bodies of recent-trade
    ExecutedSizes,        \* what an execution adds to the inventory
    CommandBound,         \* bound: commands waiting for the OMS
    MaxExecutions         \* bound: executions in a session

ASSUME StartupAssumption ==
    /\ Started \subseteq Environments
    /\ ExecutedSizes \subseteq Int
    /\ \A a \in WalletAnswers : a.ret_code \in Nat
    /\ \A a \in InstrumentAnswers : a.ret_code \in Nat
    /\ \A a \in TradesAnswers : a.ret_code \in Nat

VARIABLES
    environment,          \* what the process was started with
    process,              \* "running", "aborted", "software" or "ok" (exit codes)
    main,                 \* what run does: loads (0), starts the first to the fifth
                          \* thread (1 to 5), waits for them (6 to 10), is done (11)
    thread,               \* state of each thread
    published,            \* has the public websocket published a book?
    to_strategy,          \* the queue of capacity 1 of inventories
    commands,             \* number of commands waiting for the OMS
    forwarded,            \* has the OMS taken up a command?
    executions,           \* executions counted so far
    inventory,            \* inventory of the OMS
    avg_entry_price,      \* average entry price of the OMS at its start
    strategy_inventory    \* local variable of StrategyRunner::cycle

oms_vars == <<to_strategy, inventory, avg_entry_price, executions, forwarded>>
vars == <<environment, process, main, thread, published, commands, oms_vars, strategy_inventory>>

\* In the order they are started and joined.
Threads == <<"public_ws", "private_ws", "oms", "recorder", "strategy">>
ThreadNames == {Threads[k] : k \in 1 .. 5}
ThreadStates == {"unborn", "starting", "pricing", "running", "ended"}

Init ==
    /\ environment \in Started
    /\ process = "running"
    /\ main = 0
    /\ thread = [name \in ThreadNames |-> "unborn"]
    /\ published = FALSE
    /\ to_strategy = <<>>
    /\ commands = 0
    /\ forwarded = FALSE
    /\ executions = 0
    /\ inventory = 0
    /\ avg_entry_price = 0
    /\ strategy_inventory = 0

Is(name, state) == process = "running" /\ thread[name] = state

Goes(name, state) == thread' = [thread EXCEPT ![name] = state]

\* A panic in any thread.
Abort ==
    /\ process' = "aborted"
    /\ UNCHANGED <<environment, main, thread, published, commands, oms_vars, strategy_inventory>>

-----------------------------------------------------------------------------
\* The main thread: run.

LoadConfiguration ==
    /\ process = "running" /\ main = 0
    /\ IF Loads(environment) THEN main' = 1 /\ UNCHANGED process
                             ELSE process' = "software" /\ UNCHANGED main
    /\ UNCHANGED <<environment, thread, published, commands, oms_vars, strategy_inventory>>

\* Defect: a thread is started when the one before it is up.
SpawnThreadInTurn ==
    /\ process = "running" /\ main \in 1 .. 5
    /\ main > 1 => thread[Threads[main - 1]] \in {"running", "ended"}
    /\ Goes(Threads[main], "starting")
    /\ main' = main + 1
    /\ UNCHANGED <<environment, process, published, commands, oms_vars, strategy_inventory>>

\* spawn_named; what a thread does first is its own action.
SpawnThread ==
    /\ process = "running" /\ main \in 1 .. 5
    /\ Goes(Threads[main], "starting")
    /\ main' = main + 1
    /\ UNCHANGED <<environment, process, published, commands, oms_vars, strategy_inventory>>

\* The operating system refuses a thread: run returns the error.
SpawnFails ==
    /\ process = "running" /\ main \in 1 .. 5
    /\ process' = "software"
    /\ UNCHANGED <<environment, main, thread, published, commands, oms_vars, strategy_inventory>>

JoinThread ==
    /\ process = "running" /\ main \in 6 .. 10
    /\ thread[Threads[main - 5]] = "ended"
    /\ main' = main + 1
    /\ process' = IF main = 10 THEN "ok" ELSE process
    /\ UNCHANGED <<environment, thread, published, commands, oms_vars, strategy_inventory>>

-----------------------------------------------------------------------------
\* The websocket threads.

WebSocketConnects(name) ==
    /\ Is(name, "starting")
    /\ Goes(name, "running")
    /\ UNCHANGED <<environment, process, main, published, commands, oms_vars, strategy_inventory>>

\* client.run returns, with an error or not: the thread ends and nothing else happens.
WebSocketEnds(name) ==
    /\ Is(name, "running")
    /\ Goes(name, "ended")
    /\ UNCHANGED <<environment, process, main, published, commands, oms_vars, strategy_inventory>>

BookArrives ==
    /\ Is("public_ws", "running")
    /\ published' = TRUE
    /\ UNCHANGED <<environment, process, main, thread, commands, oms_vars, strategy_inventory>>

-----------------------------------------------------------------------------
\* The OMS thread.

CoinsOf(account) == {account[i].coin : i \in DOMAIN account}

\* Wallet::process_response: one account, and no coin twice in it.
IsWallet(answer) ==
    /\ answer.ret_code = 0
    /\ Len(answer.accounts) = 1
    /\ Cardinality(CoinsOf(answer.accounts[1])) = Len(answer.accounts[1])

\* wallet.coins.get(coin).unwrap_or(0.0): a coin the wallet does not list counts as none.
InventoryIn(answer) ==
    LET account == answer.accounts[1]
    IN IF Coin \in CoinsOf(account)
       THEN account[CHOOSE i \in DOMAIN account : account[i].coin = Coin].equity ELSE 0

\* OrderManagementSystem::new pushes the inventory, then cycle begins.
OmsStarts(initial, price) ==
    /\ inventory' = initial
    /\ avg_entry_price' = price
    /\ to_strategy' = <<initial>>
    /\ Goes("oms", "running")

\* Wallet::new; an empty position has no price to ask for.
OmsReadsWallet(answer) ==
    /\ Is("oms", "starting")
    /\ IsWallet(answer)
    /\ IF InventoryIn(answer) = 0
       THEN OmsStarts(0, 0)
       ELSE /\ inventory' = InventoryIn(answer)
            /\ Goes("oms", "pricing")
            /\ UNCHANGED <<to_strategy, avg_entry_price>>
    /\ UNCHANGED <<environment, process, main, published, commands, executions, forwarded,
                   strategy_inventory>>

\* Trades::new: the position counts as bought at the price of the last trade.
OmsReadsTrades(answer) ==
    /\ Is("oms", "pricing")
    /\ answer.ret_code = 0 /\ answer.prices # <<>>
    /\ OmsStarts(inventory, answer.prices[1])
    /\ UNCHANGED <<environment, process, main, published, commands, executions, forwarded,
                   strategy_inventory>>

\* The request fails, is refused, or its body is not what is expected.
OmsPanics ==
    /\ \/ /\ Is("oms", "starting")
          /\ \E answer \in WalletAnswers : ~IsWallet(answer)
       \/ /\ Is("oms", "pricing")
          /\ \E answer \in TradesAnswers : answer.ret_code # 0 \/ answer.prices = <<>>
    /\ Abort

OmsTakesCommand ==
    /\ Is("oms", "running")
    /\ commands > 0
    /\ commands' = commands - 1
    /\ forwarded' = TRUE
    /\ UNCHANGED <<environment, process, main, thread, published, to_strategy, inventory,
                   avg_entry_price, executions, strategy_inventory>>

\* Only orders of this session count, and only the private websocket reports them, which
\* may have ended since: its channel still has what it sent.
OmsCountsExecution(size) ==
    /\ Is("oms", "running") /\ thread["private_ws"] \in {"running", "ended"}
    /\ forwarded
    /\ executions < MaxExecutions
    /\ executions' = executions + 1
    /\ inventory' = inventory + size
    /\ to_strategy' = <<inventory'>>
    /\ UNCHANGED <<environment, process, main, thread, published, commands, forwarded,
                   avg_entry_price, strategy_inventory>>

-----------------------------------------------------------------------------
\* The recorder thread: it ends with the private websocket, its only source of events.

RecorderStarts ==
    /\ Is("recorder", "starting")
    /\ Goes("recorder", "running")
    /\ UNCHANGED <<environment, process, main, published, commands, oms_vars, strategy_inventory>>

\* Defect: the OMS keeps a sender of the recorder's channel, as it does of its own.
RecorderWaitsForOms ==
    /\ Is("recorder", "running")
    /\ thread["private_ws"] = "ended" /\ thread["oms"] = "ended"
    /\ Goes("recorder", "ended")
    /\ UNCHANGED <<environment, process, main, published, commands, oms_vars, strategy_inventory>>

RecorderReturns ==
    /\ Is("recorder", "running")
    /\ thread["private_ws"] = "ended"
    /\ Goes("recorder", "ended")
    /\ UNCHANGED <<environment, process, main, published, commands, oms_vars, strategy_inventory>>

-----------------------------------------------------------------------------
\* The strategy thread.

\* The configured pair is in the answer, and the metadata of its first entry is what the
\* parsing and the assertions of InstrumentInfo::new accept (get_instrument_info).
HasInstrument(answer) ==
    /\ answer.ret_code = 0
    /\ \E i \in DOMAIN answer.instruments :
           /\ answer.instruments[i].symbol = Symbol /\ answer.instruments[i].usable
           /\ \A j \in 1 .. i - 1 : answer.instruments[j].symbol # Symbol

PopOr(default) == IF to_strategy = <<>> THEN default ELSE to_strategy[1]

\* Defect: what the queue holds at the start is dropped.
StrategyStartsAtZero(answer) ==
    /\ Is("strategy", "starting")
    /\ HasInstrument(answer)
    /\ Goes("strategy", "running")
    /\ strategy_inventory' = 0
    /\ to_strategy' = <<>>
    /\ UNCHANGED <<environment, process, main, published, commands, inventory,
                   avg_entry_price, executions, forwarded>>

\* get_instrument_info, then the first line of cycle.
StrategyStarts(answer) ==
    /\ Is("strategy", "starting")
    /\ HasInstrument(answer)
    /\ Goes("strategy", "running")
    /\ strategy_inventory' = PopOr(0)
    /\ to_strategy' = <<>>
    /\ UNCHANGED <<environment, process, main, published, commands, inventory,
                   avg_entry_price, executions, forwarded>>

StrategyPanics ==
    /\ Is("strategy", "starting")
    /\ \E answer \in InstrumentAnswers : ~HasInstrument(answer)
    /\ Abort

\* One turn of the loop; without a book it asks for nothing.
StrategyCycle ==
    /\ Is("strategy", "running")
    /\ strategy_inventory' = PopOr(strategy_inventory)
    /\ to_strategy' = <<>>
    /\ IF published
       THEN commands + 2 <= CommandBound /\ commands' = commands + 2
       ELSE UNCHANGED commands
    /\ UNCHANGED <<environment, process, main, thread, published, inventory,
                   avg_entry_price, executions, forwarded>>

-----------------------------------------------------------------------------
MainStep == LoadConfiguration \/ SpawnThread \/ SpawnFails \/ JoinThread

WebSocketStep ==
    \/ \E name \in {"public_ws", "private_ws"} : WebSocketConnects(name) \/ WebSocketEnds(name)
    \/ BookArrives

OmsStarting ==
    \/ \E answer \in WalletAnswers : OmsReadsWallet(answer)
    \/ \E answer \in TradesAnswers : OmsReadsTrades(answer)
    \/ OmsPanics

OmsStep == OmsStarting \/ OmsTakesCommand \/ \E size \in ExecutedSizes : OmsCountsExecution(size)

RecorderStep == RecorderStarts \/ RecorderReturns

StrategyStarting ==
    StrategyPanics \/ \E answer \in InstrumentAnswers : StrategyStarts(answer)

Next ==
    \/ MainStep
    \/ WebSocketStep
    \/ OmsStep
    \/ RecorderStep
    \/ StrategyStarting
    \/ StrategyCycle

Spec == Init /\ [][Next]_vars

\* The main thread and the recorder run, and the requests of the starting threads are
\* answered one way or the other.
Fairness ==
    /\ WF_vars(LoadConfiguration \/ SpawnThread)
    /\ WF_vars(OmsStarting)
    /\ WF_vars(RecorderStep)
    /\ WF_vars(StrategyStarting)

FairSpec == Spec /\ Fairness

-----------------------------------------------------------------------------
\* Where a variable is looked for, the process' own environment first.
Sources(env) == <<env.process, env.dotenv, env.secrets>>

\* A text a required variable can have.
IsUsable(name, text) ==
    /\ text \notin {"unset", "blank"}
    /\ name = "MMA_ORDER_SIZE" => text = "number"
    /\ name = "MMA_TESTNET" => text = "bool"

\* The first source that sets the variable at all has a usable text for it.
IsConfigured(env, name) ==
    \E k \in 1 .. 3 : /\ IsUsable(name, Sources(env)[k][name])
                      /\ \A j \in 1 .. k - 1 : Sources(env)[j][name] = "unset"

\* No thread is ever started, and so no order placed, unless both files are there and the
\* first source that sets a required variable, if only to nothing, has a usable text for
\* it: a blank one is never passed over for the text of a file that comes later
\* (AppConfig::load before create_public_ws_thread, in run).
NothingStartsMisconfigured ==
    (\E name \in ThreadNames : thread[name] # "unborn") =>
        /\ environment.dotenv_found /\ environment.secrets_found
        /\ \A name \in RequiredVariables : IsConfigured(environment, name)

\* Once the OMS is up, the strategy has its inventory as soon as it has taken what is in
\* the queue, in whichever order the two threads came up and however often the inventory
\* changed before the strategy looked (the first two lines of StrategyRunner::cycle).
StrategyCatchesUp ==
    thread["oms"] = "running" /\ thread["strategy"] = "running" =>
        PopOr(strategy_inventory) = inventory

\* The bot comes up or says that it does not: the threads do not wait for each other.
ComesUpOrEnds ==
    <>(process # "running" \/ (thread["oms"] = "running" /\ thread["strategy"] = "running"))

\* When the private websocket ends, so does the recorder, with the markouts it holds; only
\* an abort can come before it (RecvTimeoutError::Disconnected).
RecorderEndsWithWebSocket ==
    (thread["private_ws"] = "ended" /\ main \in 6 .. 10)
        ~> (thread["recorder"] = "ended" \/ process # "running")
=============================================================================
