----------------------------- MODULE OrderBook ------------------------------
(***************************************************************************)
(* The public websocket (exchange/src/bybit/public_ws.rs): the local order *)
(* book, kept from the snapshots and deltas of the exchange, and its way   *)
(* to the two threads that read it, the strategy through a triple buffer   *)
(* and the recorder through a queue of capacity 1.                         *)
(*                                                                         *)
(* The exchange is external: `depth` is the book it has, and `feed` what   *)
(* it has sent about it over one connection, which keeps the order.  The   *)
(* triple buffer is a library: a reader finds in it the last book that was *)
(* published whole.                                                        *)
(***************************************************************************)
EXTENDS Integers, Sequences, FiniteSets, SequencesExt

CONSTANTS
    Prices,       \* prices of levels
    Sizes,        \* sizes of levels
    MaxItems,     \* bound: levels a delta names
    MaxTs,        \* bound: messages of the exchange in a behaviour
    FeedBound     \* bound: messages under way

ASSUME OrderBookAssumption ==
    /\ Prices \subseteq Nat \ {0} /\ IsFiniteSet(Prices)
    /\ Sizes \subseteq Nat \ {0}

VARIABLES
    depth,         \* the book at the exchange: side -> price -> size, 0 for no level
    clock,         \* ts of the last message the exchange sent
    feed,          \* messages the websocket thread has not processed
    order_book,    \* PublicWebSocket::order_book
    book_step,     \* what the websocket thread does next
    published,     \* the triple buffer: the last published book
    recorder_queue, \* ArrayQueue of capacity 1
    strategy_ts,   \* ts of the book the strategy read last
    recorder_ts    \* ts of the book the recorder took last

exchange_vars == <<depth, clock>>
readers == <<strategy_ts, recorder_ts>>
book_vars == <<exchange_vars, feed, order_book, book_step, published, recorder_queue, readers>>

BookSides == {"bids", "asks"}

\* Parsed from a pair of strings.
Level(price, size) == [price |-> price, size |-> size]
Levels == [price : Prices, size : Sizes \cup {0}]

\* OrderBook::default(); ts and cts always carry the same time.
EmptyBook == [bids |-> <<>>, asks |-> <<>>, cts |-> 0]

BookInit ==
    /\ depth = [side \in BookSides |-> [p \in Prices |-> 0]]
    /\ clock = 0
    /\ feed = <<>>
    /\ order_book = EmptyBook
    /\ book_step = "receive"
    /\ published = EmptyBook
    /\ recorder_queue = <<>>
    /\ strategy_ts = 0
    /\ recorder_ts = 0

-----------------------------------------------------------------------------
\* The exchange.

\* A matching engine never leaves a bid at or above an ask.
Uncrossed(book) ==
    \A bid, ask \in Prices : book["bids"][bid] > 0 /\ book["asks"][ask] > 0 => bid < ask

\* Every book the exchange can have.
XBooks == {d \in [BookSides -> [Prices -> Sizes \cup {0}]] : Uncrossed(d)}

\* The price of x is better than that of y.
IsBetter(side, x, y) == IF side = "asks" THEN x.price < y.price ELSE x.price > y.price

\* Levels of different prices, best first.
BestFirst(levels, side) ==
    CHOOSE s \in SetToSeqs(levels) : \A i, j \in DOMAIN s : i < j => IsBetter(side, s[i], s[j])

\* The levels of a side.
Sorted(side, sizes) ==
    BestFirst({Level(p, sizes[p]) : p \in {q \in Prices : sizes[q] > 0}}, side)

\* Every order in which a delta can name these levels.
Listings(sizes, prices) ==
    {[i \in DOMAIN s |-> Level(s[i], sizes[s[i]])] : s \in SetToSeqs(prices)}

\* The sizes of a side, with those of some of its prices changed.
Override(sizes, changed) ==
    [p \in Prices |-> IF p \in DOMAIN changed THEN changed[p] ELSE sizes[p]]

CanSend == Len(feed) < FeedBound /\ clock < MaxTs

Send(message) ==
    /\ clock' = clock + 1
    /\ feed' = Append(feed, message)

\* The book changes; the delta names the levels that changed, in any order, and may repeat
\* the state of others, a level that is gone or never was included.
SendDelta(bids, asks) ==
    /\ CanSend
    /\ clock > 0
    /\ Cardinality(bids) + Cardinality(asks) \in 1 .. MaxItems
    /\ \E b \in [bids -> Sizes \cup {0}], a \in [asks -> Sizes \cup {0}] :
           LET after == [depth EXCEPT !["bids"] = Override(@, b), !["asks"] = Override(@, a)]
           IN /\ Uncrossed(after)
              /\ depth' = after
              /\ \E lb \in Listings(b, bids), la \in Listings(a, asks) :
                     Send([type |-> "delta", u |-> 2, b |-> lb, a |-> la, ts |-> clock + 1])
    /\ UNCHANGED <<order_book, book_step, published, recorder_queue, readers>>

\* The whole book, at the start of a subscription or, with u = 1, after a restart of the
\* service, under either type.
SendSnapshot(type, u) ==
    /\ CanSend
    /\ u = 1 \/ type = "snapshot"
    /\ \E book \in XBooks :
           /\ depth' = book
           /\ Send([type |-> type, u |-> u, b |-> Sorted("bids", book["bids"]),
                    a |-> Sorted("asks", book["asks"]), ts |-> clock + 1])
    /\ UNCHANGED <<order_book, book_step, published, recorder_queue, readers>>

-----------------------------------------------------------------------------
\* The websocket thread.

\* The level of that price takes the new size; a price that is not there is pushed.
SetLevel(levels, item) ==
    IF \E i \in DOMAIN levels : levels[i].price = item.price
    THEN [i \in DOMAIN levels |-> IF levels[i].price = item.price THEN item ELSE levels[i]]
    ELSE Append(levels, item)

\* The loop over the items of one side.
SetLevels(levels, items) == FoldLeft(SetLevel, levels, items)

\* retain; the order of what is left is that of the sort that follows.
RetainNonEmpty(levels) == {level \in ToSet(levels) : level.size # 0}

\* Defect: the levels are not sorted.
KeepOrder(levels, side) == SetToSeq(levels)

\* sort_by: ascending asks, descending bids; no two levels share a price.
SortByPrice(levels, side) == BestFirst(levels, side)

ProcessDelta(levels, items, side) ==
    SortByPrice(RetainNonEmpty(SetLevels(levels, items)), side)

\* Defect: only the type of a message is looked at.
IsSnapshotByType(message) == message.type = "snapshot"

IsSnapshot(message) == message.type = "snapshot" \/ message.u = 1

\* A snapshot is taken as it comes.
Updated(side, items, message) ==
    IF IsSnapshot(message) THEN items ELSE ProcessDelta(order_book[side], items, side)

\* process_orderbook_response, in three steps of which other threads can see the last two.
UpdateOrderBook ==
    /\ book_step = "receive"
    /\ feed # <<>>
    /\ LET message == Head(feed)
       IN order_book' = [bids |-> Updated("bids", message.b, message),
                         asks |-> Updated("asks", message.a, message),
                         cts |-> message.ts]
    /\ feed' = Tail(feed)
    /\ book_step' = "publish"
    /\ UNCHANGED <<exchange_vars, published, recorder_queue, readers>>

Publish ==
    /\ book_step = "publish"
    /\ published' = order_book
    /\ book_step' = "record"
    /\ UNCHANGED <<exchange_vars, feed, order_book, recorder_queue, readers>>

\* Defect: a channel instead of a queue of capacity 1.
QueueForRecorder ==
    /\ book_step = "record"
    /\ recorder_queue' = Append(recorder_queue, order_book)
    /\ book_step' = "receive"
    /\ UNCHANGED <<exchange_vars, feed, order_book, published, readers>>

\* Defect: push instead of force_push leaves a full queue as it is.
PushToRecorder ==
    /\ book_step = "record"
    /\ recorder_queue' = IF recorder_queue = <<>> THEN <<order_book>> ELSE recorder_queue
    /\ book_step' = "receive"
    /\ UNCHANGED <<exchange_vars, feed, order_book, published, readers>>

ForcePushToRecorder ==
    /\ book_step = "record"
    /\ recorder_queue' = <<order_book>>
    /\ book_step' = "receive"
    /\ UNCHANGED <<exchange_vars, feed, order_book, published, readers>>

-----------------------------------------------------------------------------
\* StrategyRunner::cycle reads whatever was published last.
StrategyReads ==
    /\ strategy_ts' = published.cts
    /\ UNCHANGED <<exchange_vars, feed, order_book, book_step, published, recorder_queue,
                   recorder_ts>>

\* MarkoutEngine::cycle takes a book if there is one.
RecorderPops ==
    /\ recorder_queue # <<>>
    /\ recorder_ts' = Head(recorder_queue).cts
    /\ recorder_queue' = <<>>
    /\ UNCHANGED <<exchange_vars, feed, order_book, book_step, published, strategy_ts>>

BookNext ==
    \/ \E type \in {"snapshot", "delta"}, u \in {1, 2} : SendSnapshot(type, u)
    \/ \E bids, asks \in SUBSET Prices : SendDelta(bids, asks)
    \/ UpdateOrderBook
    \/ Publish
    \/ ForcePushToRecorder
    \/ StrategyReads
    \/ RecorderPops

BookSpec == BookInit /\ [][BookNext]_book_vars

-----------------------------------------------------------------------------
BooksOfLevels == [bids : Seq(Levels), asks : Seq(Levels), cts : Nat]

Messages ==
    [type : {"snapshot", "delta"}, u : {1, 2}, b : Seq(Levels), a : Seq(Levels), ts : Nat]

\* The books of the exchange, the websocket thread and its readers are books, and what is
\* under way are messages.
BookTypeOK ==
    /\ depth \in [BookSides -> [Prices -> Sizes \cup {0}]]
    /\ clock \in Nat
    /\ feed \in Seq(Messages)
    /\ order_book \in BooksOfLevels
    /\ book_step \in {"receive", "publish", "record"}
    /\ published \in BooksOfLevels
    /\ recorder_queue \in Seq(BooksOfLevels) /\ Len(recorder_queue) <= 1
    /\ strategy_ts \in Nat
    /\ recorder_ts \in Nat

\* The size a side of a book offers at a price.
SizeAt(levels, price) ==
    IF \E i \in DOMAIN levels : levels[i].price = price
    THEN levels[CHOOSE i \in DOMAIN levels : levels[i].price = price].size ELSE 0

\* The local book is the book of the exchange once every message is processed, whatever
\* deltas, in whatever order of their levels, and snapshots of either kind built it up
\* (process_delta, and "u" = 1 in process_orderbook_response).
BookFollowsExchange ==
    feed = <<>> => \A p \in Prices : /\ SizeAt(order_book.bids, p) = depth["bids"][p]
                                     /\ SizeAt(order_book.asks, p) = depth["asks"][p]

\* A side is strictly sorted, best price first, and has no empty level.
WellFormed(book) ==
    /\ \A i, j \in DOMAIN book.bids : i < j => book.bids[i].price > book.bids[j].price
    /\ \A i, j \in DOMAIN book.asks : i < j => book.asks[i].price < book.asks[j].price
    /\ \A i \in DOMAIN book.bids : book.bids[i].size > 0
    /\ \A i \in DOMAIN book.asks : book.asks[i].size > 0

\* The first of these levels is the best the exchange has on the side, if it has any.
IsBestOf(side, levels, sizes) ==
    IF levels = <<>>
    THEN \A p \in Prices : sizes[p] = 0
    ELSE /\ sizes[levels[1].price] = levels[1].size
         /\ \A p \in Prices :
                sizes[p] > 0 => p = levels[1].price \/ IsBetter(side, levels[1], Level(p, sizes[p]))

\* Both readers look at the first level of a side only.  In every book they can get it is
\* the best of that book and has a size, and the bid is below the ask; and once every
\* message is processed it is the best price of the exchange, with its size
\* (compute_orders, update_prices).
FirstLevelsAreBest ==
    \A book \in {published} \cup ToSet(recorder_queue) :
        /\ WellFormed(book)
        /\ book.bids # <<>> /\ book.asks # <<>> => book.bids[1].price < book.asks[1].price
        /\ feed = <<>> /\ book_step = "receive" =>
               /\ IsBestOf("bids", book.bids, depth["bids"])
               /\ IsBestOf("asks", book.asks, depth["asks"])

\* Between two messages the latest book is where each reader finds it: published for the
\* strategy, and in the queue unless the recorder has taken it.  And what a reader finds,
\* even in the middle of a publication, is never older than what it has read before.
LatestBookReachesReaders ==
    /\ book_step = "receive" =>
           /\ published = order_book
           /\ IF recorder_queue = <<>> THEN recorder_ts = order_book.cts
                                    ELSE Head(recorder_queue) = order_book
    /\ strategy_ts <= published.cts
    /\ recorder_queue # <<>> => recorder_ts <= Head(recorder_queue).cts
=============================================================================
