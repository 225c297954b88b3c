------------------------------ MODULE Recorder ------------------------------
(***************************************************************************)
(* The markout engine (recorder/src/lib.rs): for every execution it waits  *)
(* for the first books it sees 1, 5 and 10 seconds after it, and logs the  *)
(* three together.  Books come through a queue of capacity 1 and           *)
(* executions through a channel, each from a thread of its own.            *)
(*                                                                         *)
(* A book is its time and whether both sides have a level; the middle      *)
(* price and the imbalance are functions of the book, so a data point is   *)
(* the time of the book it was taken from.                                 *)
(***************************************************************************)
EXTENDS Integers, Sequences, FiniteSets, SequencesExt

CONSTANTS
    H1, H5, H10,      \* the horizons: 1000, 5000 and 10000 ms in the code
    ExecIds,          \* bound: executions, in the order they happen
    MaxTime,          \* bound: time of the exchange
    MaxFillTime,      \* bound: executions happen up to this time
    MaxDuplicates,    \* bound: executions delivered twice
    NA                \* a data point that has not been taken, None in the code

ASSUME RecorderAssumption ==
    /\ H1 \in Nat /\ H5 \in Nat /\ H10 \in Nat
    /\ H1 < H5 /\ H5 < H10
    /\ ExecIds \subseteq Nat /\ IsFiniteSet(ExecIds)
    /\ MaxTime \in Nat
    /\ NA \notin Nat

VARIABLES
    now,              \* time of the exchange
    executed,         \* executions so far: id -> fill_ts
    undelivered,      \* executions the websocket has not delivered, in order
    delivered,        \* how often each was delivered (history)
    connected,        \* does the private websocket still hold its end of the channel?
    from_book,        \* ArrayQueue of capacity 1
    order_events,     \* channel of executions
    trades,           \* MarkoutEngine::trades, by execution id
    pc,               \* what MarkoutEngine::cycle does next
    completed,        \* what it has logged, in order
    seen              \* times of the books processed while an execution was pending (history)

outside == <<now, executed, undelivered, delivered, connected>>
engine == <<trades, pc, completed, seen>>
recorder_vars == <<outside, from_book, order_events, engine>>

Times == 0 .. MaxTime
DataPoints == Times \cup {NA}
PendingMarkouts == [fill_ts : Times, mid_1s : DataPoints, mid_5s : DataPoints,
                    mid_10s : DataPoints]
Books == [cts : Times, two_sided : BOOLEAN]

RecorderInit ==
    /\ now = 0
    /\ executed = <<>>
    /\ undelivered = <<>>
    /\ delivered = [id \in ExecIds |-> 0]
    /\ connected = TRUE
    /\ from_book = <<>>
    /\ order_events = <<>>
    /\ trades = <<>>
    /\ pc = "book"
    /\ completed = <<>>
    /\ seen = [id \in ExecIds |-> {}]

-----------------------------------------------------------------------------
\* A map with one more entry, or another value in an entry it has.
Insert(map, key, value) ==
    [k \in DOMAIN map \cup {key} |-> IF k = key THEN value ELSE map[k]]

\* The exchange and the two websockets, until the panic that aborts the process.

Alive == pc # "panicked"

TimePasses ==
    /\ Alive /\ now < MaxTime
    /\ now' = now + 1
    /\ UNCHANGED <<executed, undelivered, delivered, connected, from_book, order_events,
                   engine>>

\* The public websocket: force_push of the book as it is now.
BookArrives(two_sided) ==
    /\ Alive
    /\ from_book' = <<[cts |-> now, two_sided |-> two_sided]>>
    /\ UNCHANGED <<outside, order_events, engine>>

\* The next execution happens.
OrderExecutes(id) ==
    /\ Alive /\ now <= MaxFillTime
    /\ id \notin DOMAIN executed
    /\ \A earlier \in ExecIds : earlier < id => earlier \in DOMAIN executed
    /\ executed' = Insert(executed, id, now)
    /\ undelivered' = Append(undelivered, id)
    /\ UNCHANGED <<now, delivered, connected, from_book, order_events, engine>>

Deliver(id) ==
    /\ Alive /\ connected
    /\ order_events' = Append(order_events, [exec_id |-> id, exec_ts |-> executed[id]])
    /\ delivered' = [delivered EXCEPT ![id] = @ + 1]

\* The private websocket: to_recorder.send.
ExecutionArrives ==
    /\ undelivered # <<>>
    /\ Deliver(Head(undelivered))
    /\ undelivered' = Tail(undelivered)
    /\ UNCHANGED <<now, executed, connected, from_book, engine>>

\* An execution is delivered again, at any later time.
ExecutionRepeats(id) ==
    /\ delivered[id] = 1
    /\ Cardinality({twice \in ExecIds : delivered[twice] > 1}) < MaxDuplicates
    /\ Deliver(id)
    /\ UNCHANGED <<now, executed, undelivered, connected, from_book, engine>>

\* The private websocket ends, and with its thread the only sender.
PrivateWebSocketEnds ==
    /\ Alive /\ connected
    /\ connected' = FALSE
    /\ UNCHANGED <<now, executed, undelivered, delivered, from_book, order_events, engine>>

-----------------------------------------------------------------------------
\* update_prices: the data points whose horizon has elapsed and that are still missing.

\* Defect: the horizon must be passed, not only reached.
SampleLate(taken, due, cts) == IF taken = NA /\ due < cts THEN cts ELSE taken

\* Defect: a later book replaces the data point.
SampleLast(taken, due, cts) == IF due <= cts THEN cts ELSE taken

Sample(taken, due, cts) == IF taken = NA /\ due <= cts THEN cts ELSE taken

UpdatedMarkout(markout, cts) ==
    [markout EXCEPT !.mid_1s = Sample(@, markout.fill_ts + H1, cts),
                    !.mid_5s = Sample(@, markout.fill_ts + H5, cts),
                    !.mid_10s = Sample(@, markout.fill_ts + H10, cts)]

UpdatePrices(cts) == [id \in DOMAIN trades |-> UpdatedMarkout(trades[id], cts)]

\* take_completed_markouts
IsComplete(markout) == markout.mid_1s # NA /\ markout.mid_5s # NA /\ markout.mid_10s # NA

\* By fill time, then by id; ids are given out in order, as order link ids are.
IsBefore(x, y) == x.fill_ts < y.fill_ts \/ (x.fill_ts = y.fill_ts /\ x.exec_id < y.exec_id)

\* Defect: the latest first.
InReverse(markouts) ==
    CHOOSE s \in SetToSeqs(markouts) : \A i, j \in DOMAIN s : i < j => IsBefore(s[j], s[i])

\* sort_by; no two markouts of the map share an id.
InOrder(markouts) ==
    CHOOSE s \in SetToSeqs(markouts) : \A i, j \in DOMAIN s : i < j => IsBefore(s[i], s[j])

\* What is logged, with the books that were there to choose from.
CompletedMarkout(id, pending) ==
    [exec_id |-> id, fill_ts |-> pending.fill_ts, mid_1s |-> pending.mid_1s,
     mid_5s |-> pending.mid_5s, mid_10s |-> pending.mid_10s, seen |-> seen'[id]]

\* Defect: completed markouts are logged but stay in the map.
ProcessOrderBookKeepingTrades(cts) ==
    LET updated == UpdatePrices(cts)
        done == {id \in DOMAIN updated : IsComplete(updated[id])}
    IN /\ trades' = updated
       /\ completed' = completed \o InOrder({CompletedMarkout(id, updated[id]) : id \in done})

ProcessOrderBook(cts) ==
    LET updated == UpdatePrices(cts)
        done == {id \in DOMAIN updated : IsComplete(updated[id])}
    IN /\ trades' = [id \in DOMAIN updated \ done |-> updated[id]]
       /\ completed' = completed \o InOrder({CompletedMarkout(id, updated[id]) : id \in done})

-----------------------------------------------------------------------------
\* MarkoutEngine::cycle: a book if there is one, then an event or a timeout.

TakeBook ==
    /\ pc = "book"
    /\ from_book # <<>> /\ Head(from_book).two_sided
    /\ seen' = [id \in ExecIds |-> IF id \in DOMAIN trades
                                  THEN seen[id] \cup {Head(from_book).cts} ELSE {}]
    /\ ProcessOrderBook(Head(from_book).cts)
    /\ from_book' = <<>>
    /\ pc' = "event"
    /\ UNCHANGED <<outside, order_events>>

\* first().unwrap() on an empty side; the release build aborts.
PanicOnEmptySide ==
    /\ pc = "book"
    /\ from_book # <<>> /\ ~Head(from_book).two_sided
    /\ from_book' = <<>>
    /\ pc' = "panicked"
    /\ UNCHANGED <<outside, order_events, trades, completed, seen>>

NoBook ==
    /\ pc = "book"
    /\ from_book = <<>>
    /\ pc' = "event"
    /\ UNCHANGED <<outside, from_book, order_events, trades, completed, seen>>

\* HashMap::insert: a repeated execution starts again.
UpdateTrades(execution) ==
    trades' = Insert(trades, execution.exec_id,
                     [fill_ts |-> execution.exec_ts, mid_1s |-> NA, mid_5s |-> NA,
                      mid_10s |-> NA])

TakeEvent ==
    /\ pc = "event"
    /\ order_events # <<>>
    /\ UpdateTrades(Head(order_events))
    /\ order_events' = Tail(order_events)
    /\ pc' = "book"
    /\ seen' = [seen EXCEPT ![Head(order_events).exec_id] = {}]
    /\ UNCHANGED <<outside, from_book, completed>>

Timeout ==
    /\ pc = "event"
    /\ order_events = <<>> /\ connected
    /\ pc' = "book"
    /\ UNCHANGED <<outside, from_book, order_events, trades, completed, seen>>

\* The channel is disconnected: the thread ends, with the markouts that are pending.
Return ==
    /\ pc = "event"
    /\ order_events = <<>> /\ ~connected
    /\ pc' = "returned"
    /\ UNCHANGED <<outside, from_book, order_events, trades, completed, seen>>

Cycle == TakeBook \/ PanicOnEmptySide \/ NoBook \/ TakeEvent \/ Timeout \/ Return

RecorderNext ==
    \/ TimePasses
    \/ \E two_sided \in BOOLEAN : BookArrives(two_sided)
    \/ \E id \in ExecIds : OrderExecutes(id) \/ ExecutionRepeats(id)
    \/ ExecutionArrives
    \/ PrivateWebSocketEnds
    \/ Cycle

RecorderSpec == RecorderInit /\ [][RecorderNext]_recorder_vars

\* The thread runs, the exchange's time passes, and books of the current time keep coming;
\* deliveries are made.
RecorderFairness ==
    /\ WF_recorder_vars(TimePasses)
    /\ WF_recorder_vars(BookArrives(TRUE))
    /\ WF_recorder_vars(ExecutionArrives)
    /\ WF_recorder_vars(Cycle)

FairRecorderSpec == RecorderSpec /\ RecorderFairness

-----------------------------------------------------------------------------
Events == [exec_id : ExecIds, exec_ts : Times]
Logged == [exec_id : ExecIds, fill_ts : Times, mid_1s : DataPoints, mid_5s : DataPoints,
           mid_10s : DataPoints, seen : SUBSET Times]

\* What the exchange, the channels and the engine hold has its type, only what has executed
\* is waited for, and nothing waits in the map that could have been logged.
RecorderTypeOK ==
    /\ now \in Times
    /\ DOMAIN executed \subseteq ExecIds /\ executed \in [DOMAIN executed -> Times]
    /\ undelivered \in Seq(ExecIds)
    /\ delivered \in [ExecIds -> Nat]
    /\ connected \in BOOLEAN
    /\ order_events \in Seq(Events)
    /\ completed \in Seq(Logged)
    /\ seen \in [ExecIds -> SUBSET Times]
    /\ from_book \in Seq(Books) /\ Len(from_book) <= 1
    /\ trades \in [DOMAIN trades -> PendingMarkouts]
    /\ DOMAIN trades \subseteq DOMAIN executed
    /\ \A id \in DOMAIN trades : ~IsComplete(trades[id])
    /\ pc \in {"book", "event", "panicked", "returned"}

\* The first of these books at or after a time.
FirstFrom(times, due) ==
    LET elapsed == {t \in times : due <= t}
    IN IF elapsed = {} THEN NA ELSE CHOOSE t \in elapsed : \A u \in elapsed : t <= u

SampledFrom(markout, times) ==
    /\ markout.mid_1s = FirstFrom(times, markout.fill_ts + H1)
    /\ markout.mid_5s = FirstFrom(times, markout.fill_ts + H5)
    /\ markout.mid_10s = FirstFrom(times, markout.fill_ts + H10)

\* Each data point, logged or pending, is that of the first book at or after its horizon
\* among all the engine processed while the execution was pending, and of no other
\* (update_prices, book by book; books in between may be lost in the queue).
SamplesAreFirstElapsed ==
    /\ \A id \in DOMAIN trades : SampledFrom(trades[id], seen[id])
    /\ \A i \in DOMAIN completed : SampledFrom(completed[i], completed[i].seen)

\* Where a delivered execution can be.
Occurrences(id) ==
    Cardinality({i \in DOMAIN completed : completed[i].exec_id = id})
    + Cardinality({i \in DOMAIN order_events : order_events[i].exec_id = id})
    + Cardinality({id} \cap DOMAIN trades)

\* A markout is logged at most once per delivery, and an execution delivered once is in
\* exactly one place until it is logged, even as the thread ends: none is lost or doubled
\* between the channel, the map and the log (update_trades, take_completed_markouts).
EachDeliveryOnce ==
    \A id \in ExecIds : /\ Occurrences(id) <= delivered[id]
                        /\ delivered[id] = 1 => Occurrences(id) = 1

\* The whole log is in the order of the fills, not only what one book completes, as long
\* as no execution is repeated (sort_by in take_completed_markouts, and the channel).
LogInFillOrder ==
    (\A id \in ExecIds : delivered[id] <= 1) =>
        \A i, j \in DOMAIN completed : i < j => completed[i].fill_ts <= completed[j].fill_ts

\* Every execution that is delivered is logged in the end, while books keep coming, unless
\* the thread ends: with the websocket, or on a book with an empty side.
MarkoutsComplete ==
    \A id \in ExecIds :
        delivered[id] > 0 ~> \/ \E i \in DOMAIN completed : completed[i].exec_id = id
                             \/ pc \in {"panicked", "returned"}
=============================================================================
