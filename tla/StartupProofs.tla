--------------------------- MODULE StartupProofs ---------------------------
(***************************************************************************)
(* Theorems about the life of the process (Startup): in every environment, *)
(* whatever the requests of the starting threads are answered and in       *)
(* whichever order the threads come up.                                    *)
(***************************************************************************)
EXTENDS Startup, TLAPS

-----------------------------------------------------------------------------
\* Threads are started in their order, none before the configuration is there, and a thread
\* that is started never goes back.

\* Threads from the one to be started next on have not been started.
SpawnedInOrder == \A k \in 1 .. 5 : main <= k => thread[Threads[k]] = "unborn"

StartedInv ==
    /\ environment \in Environments
    /\ main \in 0 .. 11
    /\ main # 0 => Loads(environment)
    /\ thread \in [ThreadNames -> ThreadStates]
    /\ SpawnedInOrder

\* The names of the threads, and their places.
LEMMA ThreadsAre ==
    /\ Threads[1] = "public_ws" /\ Threads[2] = "private_ws" /\ Threads[3] = "oms"
    /\ Threads[4] = "recorder" /\ Threads[5] = "strategy"
    /\ ThreadNames = {"public_ws", "private_ws", "oms", "recorder", "strategy"}
    /\ \A k \in 1 .. 5 : k = 1 \/ k = 2 \/ k = 3 \/ k = 4 \/ k = 5
    /\ \A j, k \in 1 .. 5 : Threads[j] = Threads[k] => j = k
    /\ \A k \in 1 .. 5 : Threads[k] \in ThreadNames
    /\ \A name \in ThreadNames : \E k \in 1 .. 5 : name = Threads[k]
<1>1. \A k \in 1 .. 5 : k = 1 \/ k = 2 \/ k = 3 \/ k = 4 \/ k = 5
  OBVIOUS
<1>2. /\ Threads[1] = "public_ws" /\ Threads[2] = "private_ws" /\ Threads[3] = "oms"
      /\ Threads[4] = "recorder" /\ Threads[5] = "strategy"
  BY DEF Threads
<1>3. {1, 2, 3, 4, 5} \subseteq 1 .. 5
  OBVIOUS
<1>4. ThreadNames = {"public_ws", "private_ws", "oms", "recorder", "strategy"}
  BY <1>1, <1>2, <1>3 DEF ThreadNames
<1>5. QED
  BY <1>1, <1>2, <1>3, <1>4

\* What a step does to the threads: one of them is born, in its turn, or one that has been
\* started goes on.
ThreadStep ==
    \/ UNCHANGED <<main, thread>>
    \/ main = 0 /\ main' = 1 /\ Loads(environment) /\ thread' = thread
    \/ main \in 1 .. 5 /\ main' = main + 1 /\ Goes(Threads[main], "starting")
    \/ main \in 6 .. 10 /\ main' = main + 1 /\ thread' = thread
    \/ /\ main' = main
       /\ \E name \in ThreadNames, state \in ThreadStates \ {"unborn", "starting"} :
              thread[name] # "unborn" /\ Goes(name, state)

\* Every step is one of these.
LEMMA StepsOfThreads ==
    ASSUME StartedInv, [Next]_vars
    PROVE  ThreadStep /\ environment' = environment
<1>1. CASE UNCHANGED vars
  BY <1>1 DEF vars, ThreadStep
<1>2. CASE MainStep
  BY <1>2 DEF MainStep, LoadConfiguration, SpawnThread, SpawnFails, JoinThread, ThreadStep
<1>3. ASSUME NEW name \in ThreadNames, NEW from \in ThreadStates \ {"unborn"},
             NEW state \in {"pricing", "running", "ended"},
             Is(name, from), Goes(name, state), UNCHANGED <<main, environment>>
      PROVE  ThreadStep /\ environment' = environment
  BY <1>3 DEF ThreadStep, Is, ThreadStates
<1>4. CASE WebSocketStep
  <2>1. {"public_ws", "private_ws"} \subseteq ThreadNames
        /\ {"starting", "running"} \subseteq ThreadStates \ {"unborn"}
    BY ThreadsAre DEF ThreadStates
  <2>2. CASE BookArrives
    BY <2>2 DEF BookArrives, ThreadStep
  <2>3. QED
    BY <1>3, <1>4, <2>1, <2>2 DEF WebSocketStep, WebSocketConnects, WebSocketEnds
<1>5. CASE OmsStep
  <2>1. /\ "oms" \in ThreadNames
        /\ {"starting", "pricing"} \subseteq ThreadStates \ {"unborn"}
    BY ThreadsAre DEF ThreadStates
  <2>2. ASSUME NEW answer \in WalletAnswers, OmsReadsWallet(answer)
        PROVE  ThreadStep /\ environment' = environment
    BY <1>3, <2>1, <2>2 DEF OmsReadsWallet, OmsStarts
  <2>3. ASSUME NEW answer \in TradesAnswers, OmsReadsTrades(answer)
        PROVE  ThreadStep /\ environment' = environment
    BY <1>3, <2>1, <2>3 DEF OmsReadsTrades, OmsStarts
  <2>4. CASE OmsPanics
    BY <2>4 DEF OmsPanics, Abort, ThreadStep
  <2>5. QED
    BY <1>5, <2>2, <2>3, <2>4 DEF OmsStep, OmsStarting, OmsTakesCommand, OmsCountsExecution,
       ThreadStep
<1>6. CASE RecorderStep
  <2>1. "recorder" \in ThreadNames /\ {"starting", "running"} \subseteq ThreadStates \ {"unborn"}
    BY ThreadsAre DEF ThreadStates
  <2>2. QED
    BY <1>3, <1>6, <2>1 DEF RecorderStep, RecorderStarts, RecorderReturns
<1>7. CASE StrategyStarting
  <2>1. "strategy" \in ThreadNames /\ "starting" \in ThreadStates \ {"unborn"}
    BY ThreadsAre DEF ThreadStates
  <2>2. CASE StrategyPanics
    BY <2>2 DEF StrategyPanics, Abort, ThreadStep
  <2>3. ASSUME NEW answer \in InstrumentAnswers, StrategyStarts(answer)
        PROVE  ThreadStep /\ environment' = environment
    BY <1>3, <2>1, <2>3 DEF StrategyStarts
  <2>4. QED
    BY <1>7, <2>2, <2>3 DEF StrategyStarting
<1>8. CASE StrategyCycle
  BY <1>8 DEF StrategyCycle, ThreadStep
<1>9. QED
  BY <1>1, <1>2, <1>4, <1>5, <1>6, <1>7, <1>8 DEF Next

\* They keep the order in which threads are started.
LEMMA StartedStep ==
    ASSUME StartedInv, ThreadStep, environment' = environment
    PROVE  StartedInv'
<1>1. environment' \in Environments /\ thread \in [ThreadNames -> ThreadStates]
  BY DEF StartedInv
<1>2. CASE UNCHANGED <<main, thread>>
  BY <1>2 DEF StartedInv, SpawnedInOrder
<1>3. CASE main = 0 /\ main' = 1 /\ Loads(environment) /\ thread' = thread
  BY <1>3 DEF StartedInv, SpawnedInOrder
<1>4. CASE main \in 1 .. 5 /\ main' = main + 1 /\ Goes(Threads[main], "starting")
  <2>1. main' \in 0 .. 11 /\ main' # 0 /\ Loads(environment')
    BY <1>4 DEF StartedInv
  <2>2. thread' \in [ThreadNames -> ThreadStates]
    BY <1>1, <1>4, ThreadsAre DEF Goes, ThreadStates
  <2>3. ASSUME NEW k \in 1 .. 5, main' <= k PROVE thread'[Threads[k]] = "unborn"
    <3>1. main <= k /\ k # main
      BY <1>4, <2>3
    <3>2. Threads[k] # Threads[main] /\ Threads[k] \in ThreadNames
      BY <1>4, <3>1, ThreadsAre
    <3>3. thread[Threads[k]] = "unborn"
      BY <3>1 DEF StartedInv, SpawnedInOrder
    <3>4. QED
      BY <1>1, <1>4, <3>2, <3>3 DEF Goes
  <2>4. QED
    BY <1>1, <2>1, <2>2, <2>3 DEF StartedInv, SpawnedInOrder
<1>5. CASE main \in 6 .. 10 /\ main' = main + 1 /\ thread' = thread
  BY <1>5 DEF StartedInv, SpawnedInOrder
<1>6. ASSUME main' = main, NEW name \in ThreadNames,
             NEW state \in ThreadStates \ {"unborn", "starting"},
             thread[name] # "unborn", Goes(name, state)
      PROVE  StartedInv'
  <2>1. thread' = [thread EXCEPT ![name] = state]
    BY <1>6 DEF Goes
  <2>2. thread' \in [ThreadNames -> ThreadStates]
    BY <1>1, <2>1
  <2>3. ASSUME NEW k \in 1 .. 5, main' <= k PROVE thread'[Threads[k]] = "unborn"
    <3>1. thread[Threads[k]] = "unborn" /\ Threads[k] \in ThreadNames
      BY <1>6, <2>3, ThreadsAre DEF StartedInv, SpawnedInOrder
    <3>2. QED
      BY <1>1, <1>6, <2>1, <3>1
  <2>4. QED
    BY <1>1, <1>6, <2>2, <2>3 DEF StartedInv, SpawnedInOrder
<1>7. QED
  BY <1>2, <1>3, <1>4, <1>5, <1>6 DEF ThreadStep

\* Nothing is started at first.
LEMMA InitStarted == Init => StartedInv
BY StartupAssumption, ThreadsAre DEF Init, StartedInv, SpawnedInOrder, ThreadStates

\* The source that decides about a required variable is the first that sets it, and it has
\* a usable text.
LEMMA LoadedIsUsable ==
    ASSUME NEW env \in Environments, Loads(env)
    PROVE  /\ env.dotenv_found /\ env.secrets_found
           /\ \A name \in RequiredVariables : IsConfigured(env, name)
<1>1. /\ \A name \in RequiredVariables : EnvVar(env, name) \notin {"unset", "blank"}
      /\ EnvVar(env, "MMA_ORDER_SIZE") = "number" /\ EnvVar(env, "MMA_TESTNET") = "bool"
  BY DEF Loads, RequiredEnv, ParseOrderSize, ParseTestnet
<1>2. \A name \in RequiredVariables : IsUsable(name, EnvVar(env, name))
  BY <1>1 DEF IsUsable
<1>3. /\ Sources(env)[1] = env.process /\ Sources(env)[2] = env.dotenv
      /\ Sources(env)[3] = env.secrets
  BY DEF Sources
<1>4. /\ \A j \in 1 .. 1 - 1 : FALSE
      /\ \A j \in 1 .. 2 - 1 : j = 1
      /\ \A j \in 1 .. 3 - 1 : j = 1 \/ j = 2
      /\ 1 \in 1 .. 3 /\ 2 \in 1 .. 3 /\ 3 \in 1 .. 3
  OBVIOUS
<1>5. ASSUME NEW name \in RequiredVariables
      PROVE  IsConfigured(env, name)
  <2>1. CASE env.process[name] # "unset"
    <3>1. IsUsable(name, Sources(env)[1][name])
      BY <1>2, <1>3, <2>1 DEF EnvVar
    <3>2. QED
      BY <1>4, <3>1 DEF IsConfigured
  <2>2. CASE env.process[name] = "unset" /\ env.dotenv[name] # "unset"
    <3>1. IsUsable(name, Sources(env)[2][name]) /\ Sources(env)[1][name] = "unset"
      BY <1>2, <1>3, <2>2 DEF EnvVar
    <3>2. QED
      BY <1>4, <3>1 DEF IsConfigured
  <2>3. CASE env.process[name] = "unset" /\ env.dotenv[name] = "unset"
    <3>1. /\ IsUsable(name, Sources(env)[3][name])
          /\ Sources(env)[1][name] = "unset" /\ Sources(env)[2][name] = "unset"
      BY <1>2, <1>3, <2>3 DEF EnvVar
    <3>2. QED
      BY <1>4, <3>1 DEF IsConfigured
  <2>4. QED
    BY <2>1, <2>2, <2>3
<1>6. QED
  BY <1>5 DEF Loads

-----------------------------------------------------------------------------
\* No thread is ever started, in any environment, unless both files are there and the first
\* source that sets a required variable has a usable text for it.
THEOREM NeverStartsMisconfigured == Spec => []NothingStartsMisconfigured
<1>1. StartedInv /\ [Next]_vars => StartedInv'
  BY StepsOfThreads, StartedStep
<1>2. ASSUME StartedInv PROVE NothingStartsMisconfigured
  <2> SUFFICES ASSUME NEW name \in ThreadNames, thread[name] # "unborn"
               PROVE  Loads(environment) /\ environment \in Environments
    BY LoadedIsUsable DEF NothingStartsMisconfigured
  <2>1. main # 0
    <3>1. PICK k \in 1 .. 5 : name = Threads[k]
      BY ThreadsAre
    <3>2. QED
      BY <1>2, <3>1 DEF StartedInv, SpawnedInOrder
  <2>2. QED
    BY <1>2, <2>1 DEF StartedInv
<1>3. QED
  BY <1>1, <1>2, InitStarted, PTL DEF Spec

-----------------------------------------------------------------------------
\* The inventory of the OMS is in the queue, or the strategy has taken it.
InventoryAtHand ==
    thread["oms"] = "running" =>
        \/ to_strategy = <<inventory>>
        \/ to_strategy = <<>> /\ strategy_inventory = inventory /\ thread["strategy"] = "running"

\* What the strategy takes out of the queue is what is in it.
LEMMA PopOfOne ==
    ASSUME NEW default
    PROVE  /\ to_strategy = <<>> => PopOr(default) = default
           /\ to_strategy = <<inventory>> => PopOr(default) = inventory
BY DEF PopOr

\* A step that touches neither inventory nor queue, starts neither of the two threads' work
\* and ends neither.
LEMMA InventoryRests ==
    ASSUME InventoryAtHand,
           UNCHANGED <<to_strategy, inventory, strategy_inventory>>,
           thread'["oms"] = "running" => thread["oms"] = "running",
           thread["strategy"] = "running" => thread'["strategy"] = "running"
    PROVE  InventoryAtHand'
BY DEF InventoryAtHand

\* Every step leaves the inventory at hand.
LEMMA InventoryStep ==
    ASSUME StartedInv, InventoryAtHand, [Next]_vars
    PROVE  InventoryAtHand'
<1> DEFINE Rests == UNCHANGED <<to_strategy, inventory, strategy_inventory>>
<1>1. /\ thread \in [ThreadNames -> ThreadStates]
      /\ ThreadNames = {"public_ws", "private_ws", "oms", "recorder", "strategy"}
  BY ThreadsAre DEF StartedInv
<1>2. CASE UNCHANGED vars
  BY <1>2, InventoryRests DEF vars, oms_vars
<1>3. CASE MainStep
  <2>1. CASE SpawnThread
    <3>1. thread[Threads[main]] = "unborn" /\ main \in 1 .. 5
      BY <2>1 DEF SpawnThread, StartedInv, SpawnedInOrder
    <3>2. /\ thread' = [thread EXCEPT ![Threads[main]] = "starting"]
          /\ Rests
      BY <2>1 DEF SpawnThread, Goes, oms_vars
    <3>3. Threads[main] \in ThreadNames
      BY <3>1, ThreadsAre
    <3>4. /\ thread'["oms"] = "running" => thread["oms"] = "running"
          /\ thread["strategy"] = "running" => thread'["strategy"] = "running"
      BY <1>1, <3>1, <3>2, <3>3
    <3>5. QED
      BY <3>2, <3>4, InventoryRests
  <2>2. QED
    BY <1>3, <2>1, InventoryRests
       DEF MainStep, LoadConfiguration, SpawnFails, JoinThread, oms_vars
<1>4. ASSUME NEW name \in {"public_ws", "private_ws", "recorder"}, NEW state,
             Goes(name, state), Rests
      PROVE  InventoryAtHand'
  BY <1>1, <1>4, InventoryRests DEF Goes
<1>5. CASE WebSocketStep
  <2>1. CASE BookArrives
    BY <2>1, InventoryRests DEF BookArrives, oms_vars
  <2>2. QED
    BY <1>4, <1>5, <2>1 DEF WebSocketStep, WebSocketConnects, WebSocketEnds, oms_vars
<1>6. CASE RecorderStep
  BY <1>4, <1>6 DEF RecorderStep, RecorderStarts, RecorderReturns, oms_vars
<1>7. CASE OmsStep
  <2>1. ASSUME NEW answer \in WalletAnswers, OmsReadsWallet(answer) PROVE InventoryAtHand'
    <3>1. CASE InventoryIn(answer) = 0
      BY <2>1, <3>1 DEF OmsReadsWallet, OmsStarts, InventoryAtHand
    <3>2. CASE InventoryIn(answer) # 0
      <4>1. thread' = [thread EXCEPT !["oms"] = "pricing"]
        BY <2>1, <3>2 DEF OmsReadsWallet, Goes
      <4>2. thread'["oms"] = "pricing"
        BY <1>1, <4>1
      <4>3. QED
        BY <4>2 DEF InventoryAtHand
    <3>3. QED
      BY <3>1, <3>2
  <2>2. ASSUME NEW answer \in TradesAnswers, OmsReadsTrades(answer) PROVE InventoryAtHand'
    BY <2>2 DEF OmsReadsTrades, OmsStarts, InventoryAtHand
  <2>3. CASE OmsPanics
    BY <2>3, InventoryRests DEF OmsPanics, Abort, oms_vars
  <2>4. CASE OmsTakesCommand
    BY <2>4, InventoryRests DEF OmsTakesCommand
  <2>5. ASSUME NEW size \in ExecutedSizes, OmsCountsExecution(size) PROVE InventoryAtHand'
    BY <2>5 DEF OmsCountsExecution, InventoryAtHand
  <2>6. QED
    BY <1>7, <2>1, <2>2, <2>3, <2>4, <2>5 DEF OmsStep, OmsStarting
<1>8. CASE StrategyStarting
  <2>1. CASE StrategyPanics
    BY <2>1, InventoryRests DEF StrategyPanics, Abort, oms_vars
  <2>2. ASSUME NEW answer \in InstrumentAnswers, StrategyStarts(answer)
        PROVE  InventoryAtHand'
    <3>1. thread' = [thread EXCEPT !["strategy"] = "running"] /\ thread["strategy"] = "starting"
      BY <2>2 DEF StrategyStarts, Goes, Is
    <3>2. thread'["strategy"] = "running" /\ thread'["oms"] = thread["oms"]
      BY <1>1, <3>1
    <3>3. /\ to_strategy' = <<>> /\ strategy_inventory' = PopOr(0)
          /\ inventory' = inventory
      BY <2>2 DEF StrategyStarts
    <3>4. thread["oms"] = "running" => to_strategy = <<inventory>>
      BY <3>1 DEF InventoryAtHand
    <3>5. QED
      BY <3>2, <3>3, <3>4, PopOfOne DEF InventoryAtHand
  <2>3. QED
    BY <1>8, <2>1, <2>2 DEF StrategyStarting
<1>9. CASE StrategyCycle
  <2>1. /\ to_strategy' = <<>> /\ strategy_inventory' = PopOr(strategy_inventory)
        /\ inventory' = inventory /\ thread' = thread /\ thread["strategy"] = "running"
    BY <1>9 DEF StrategyCycle, Is
  <2>2. QED
    BY <2>1, PopOfOne DEF InventoryAtHand
<1>10. QED
  BY <1>2, <1>3, <1>5, <1>6, <1>7, <1>8, <1>9 DEF Next

-----------------------------------------------------------------------------
\* Once the OMS is up, the strategy has its inventory as soon as it has taken what is in the
\* queue: in whichever order the two threads come up, whatever inventory the wallet holds,
\* and however often it changes before the strategy looks.
THEOREM AlwaysCatchesUp == Spec => []StrategyCatchesUp
<1>1. Init => StartedInv /\ InventoryAtHand
  <2>1. ASSUME Init PROVE thread["oms"] # "running"
    BY <2>1, ThreadsAre DEF Init
  <2>2. QED
    BY <2>1, InitStarted DEF InventoryAtHand
<1>2. StartedInv /\ InventoryAtHand /\ [Next]_vars => (StartedInv /\ InventoryAtHand)'
  BY StepsOfThreads, StartedStep, InventoryStep
<1>3. InventoryAtHand => StrategyCatchesUp
  BY PopOfOne DEF InventoryAtHand, StrategyCatchesUp
<1>4. QED
  BY <1>1, <1>2, <1>3, PTL DEF Spec
=============================================================================
