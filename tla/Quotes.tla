------------------------------- MODULE Quotes -------------------------------
(***************************************************************************)
(* The prices of SimpleStrategy (strategy/src/simple/mod.rs), in exact     *)
(* arithmetic, with what becomes of them on the way to the exchange: the   *)
(* rounding to the decimal places of the instrument, the limits of the     *)
(* risk manager, and the assertion of the order gateway.                   *)
(*                                                                         *)
(* Prices are counted in units of the last decimal place that is printed.  *)
(* A price before rounding is a fraction: its numerator over the common    *)
(* denominator of the micro price and the skew.                            *)
(***************************************************************************)
EXTENDS Integers

CONSTANTS
    InstrumentTicks, \* texts of priceFilter.tickSize an instrument may have
    BookPrices,      \* prices of first levels, in ticks
    BookSizes,       \* sizes of first levels
    Inventories,     \* inventories the strategy can be given
    Drifts,          \* what executes before the OMS takes up the orders
    MaxInventory,    \* 500.0 in the code
    MinInventory     \* -500.0 in the code

\* The text of a number: the digits before the point and after it, if it has one.
TickTexts == [integer : Nat, integer_digits : Nat \ {0}, point : BOOLEAN,
              fraction : Nat, fraction_digits : Nat]

ASSUME QuotesAssumption ==
    /\ InstrumentTicks \subseteq TickTexts
    /\ \A text \in InstrumentTicks :
           /\ text.integer + text.fraction > 0
           /\ ~text.point => text.fraction = 0
    /\ BookPrices \subseteq Nat
    /\ BookSizes \subseteq Nat
    /\ Inventories \subseteq Int /\ Drifts \subseteq Int
    /\ MinInventory \in Int /\ MaxInventory \in Int

VARIABLES
    tick_text,    \* tickSize of the instrument
    bid,          \* first level of the bids, or NoLevel
    ask,          \* first level of the asks, or NoLevel
    inventory,    \* what the strategy was given
    quote         \* what it asks for: <<>> or the two prices

quotes_vars == <<tick_text, bid, ask, inventory, quote>>

-----------------------------------------------------------------------------
\* process_instrument_info_response: the length of the text, less the place of the point
\* (0 when there is none), less one.
DecimalPlaces(text) ==
    LET length == text.integer_digits + (IF text.point THEN 1 + text.fraction_digits ELSE 0)
        find == IF text.point THEN text.integer_digits ELSE 0
    IN length - find - 1

\* Arithmetic, said of the texts at hand for the proofs, whose provers do not know powers.
ASSUME PowersAssumption ==
    \A text \in InstrumentTicks : 10 ^ DecimalPlaces(text) \in Nat \ {0}

\* One tick in units of the last decimal place.
Tick == tick_text.integer * 10 ^ DecimalPlaces(tick_text)
        + (IF tick_text.point THEN tick_text.fraction ELSE 0)

BaseSpread == 2      \* BASE_SPREAD
SkewDivisor == 100   \* 1 / SKEW_FACTOR

Denominator == SkewDivisor * (bid.size + ask.size)

AsFraction(price) == price * Denominator

\* The size of a side weighs the price of that side.
MicroPrice == SkewDivisor * (bid.price * bid.size + ask.price * ask.size)

\* Defect: the skew has the wrong sign, and a long position asks for more.
ReservationPriceLeaningIn(i) == MicroPrice + i * Tick * (bid.size + ask.size)

ReservationPrice(i) == MicroPrice - i * Tick * (bid.size + ask.size)

\* Defect: the bid is compared with the best bid.
BidPriceComparedWithBid(i) ==
    LET price == ReservationPrice(i) - AsFraction(BaseSpread * Tick)
    IN IF price >= AsFraction(bid.price) THEN AsFraction(ask.price - Tick) ELSE price

\* Defect: a bid that reaches the best ask is not moved.
BidPriceUnclamped(i) == ReservationPrice(i) - AsFraction(BaseSpread * Tick)

BidPrice(i) ==
    LET price == ReservationPrice(i) - AsFraction(BaseSpread * Tick)
    IN IF price >= AsFraction(ask.price) THEN AsFraction(ask.price - Tick) ELSE price

\* Defect: an ask at or below the best bid is not moved.
AskPriceUnclamped(i) == ReservationPrice(i) + AsFraction(BaseSpread * Tick)

AskPrice(i) ==
    LET price == ReservationPrice(i) + AsFraction(BaseSpread * Tick)
    IN IF price <= AsFraction(bid.price) THEN AsFraction(bid.price + Tick) ELSE price

\* The nearest printed price; a tie goes either way, since the float is not the fraction.
Printed(price) ==
    LET floor == price \div Denominator
        twice == 2 * (price - AsFraction(floor))
    IN (IF twice <= Denominator THEN {floor} ELSE {})
       \cup (IF twice >= Denominator THEN {floor + 1} ELSE {})

\* The two prices compute_orders can come to with an inventory.
ComputeOrders(i) == Printed(BidPrice(i)) \X Printed(AskPrice(i))

-----------------------------------------------------------------------------
NoLevel == [price |-> 0, size |-> 0]

Levels == [price : {p * Tick : p \in BookPrices}, size : BookSizes]

QuotesInit ==
    /\ tick_text \in InstrumentTicks
    /\ bid = NoLevel
    /\ ask = NoLevel
    /\ inventory = 0
    /\ quote = <<>>

\* A book of the exchange is not crossed; a side may be empty.
BookChanges ==
    /\ bid' \in Levels \cup {NoLevel}
    /\ ask' \in Levels \cup {NoLevel}
    /\ bid'.price < ask'.price \/ NoLevel \in {bid', ask'}
    /\ quote' = <<>>
    /\ UNCHANGED <<tick_text, inventory>>

InventoryChanges ==
    /\ inventory' \in Inventories
    /\ quote' = <<>>
    /\ UNCHANGED <<tick_text, bid, ask>>

\* execute: both sides must have a first level, with a price and a size.
IsValidTop == bid.price > 0 /\ bid.size > 0 /\ ask.price > 0 /\ ask.size > 0

Execute ==
    /\ IsValidTop
    /\ quote' \in ComputeOrders(inventory)
    /\ UNCHANGED <<tick_text, bid, ask, inventory>>

\* "Empty book", "Invalid top-of-book values"
ExecuteInvalid ==
    /\ ~IsValidTop
    /\ quote' = <<>>
    /\ UNCHANGED <<tick_text, bid, ask, inventory>>

QuotesNext == BookChanges \/ InventoryChanges \/ Execute \/ ExecuteInvalid

QuotesSpec == QuotesInit /\ [][QuotesNext]_quotes_vars

-----------------------------------------------------------------------------
\* The two orders of one turn keep the spread, twice the base spread, up to one unit of
\* rounding, wherever skew and clamps take them: they can never trade with each other
\* (compute_orders).
SpreadIsKept == quote # <<>> => quote[2] - quote[1] >= 2 * BaseSpread * Tick - 1

\* A quote never goes through the best price of the other side, though it may reach it: the
\* clamps come before the rounding, which can undo them (a post-only order is then
\* cancelled by the exchange).
NotThroughTheBook == quote # <<>> => quote[1] <= ask.price /\ quote[2] >= bid.price

\* More inventory never raises a quote, except by the one tick that a clamp takes back
\* while rounding had reached the other side (compute_orders, price_shift).
InventoryLowersQuotes ==
    IsValidTop =>
        \A less, more \in Inventories : less < more =>
            \A q \in ComputeOrders(less), r \in ComputeOrders(more) :
                r[1] <= q[1] + Tick /\ r[2] <= q[2] + Tick

\* How far a bid the risk manager lets through can be below the micro price, in ticks, when
\* the inventory has moved by drift since it was computed.
DeepestBid(drift) == BaseSpread + 1 + (MaxInventory - drift) \div SkewDivisor

\* A price that the risk manager lets through is positive, as serialize_price asserts of it
\* (a panic there aborts the bot), even if the strategy works with another inventory than
\* the OMS by then: the limits keep the skew of bids small, the clamp catches the asks.
AcceptedPricesArePositive ==
    quote # <<>> =>
        \A drift \in Drifts :
            /\ inventory + drift < MaxInventory /\ bid.price > DeepestBid(drift) * Tick
                   => quote[1] > 0
            /\ inventory + drift > MinInventory => quote[2] > 0
=============================================================================
