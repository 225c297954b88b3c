----------------------------- MODULE DeskProofs -----------------------------
(***************************************************************************)
(* Theorems about the three parts of Desk, for any number of requests and  *)
(* executions, any book and any tick size: the prices of the strategy      *)
(* (Quotes), the answers of the gateway (Gateway) and the figures kept of  *)
(* the executions (Metrics).                                               *)
(***************************************************************************)
EXTENDS Desk, SequenceTheorems, TLAPS

\* A step of Desk is one of the three parts, and the other two rest.
LEMMA StepsOfDesk ==
    ASSUME [DeskNext]_desk_vars
    PROVE  [QuotesNext]_quotes_vars /\ [GatewayNext]_gateway_vars /\ [MetricsNext]_metrics_vars
BY DEF DeskNext, OfQuotes, OfGateway, OfMetrics, desk_vars

-----------------------------------------------------------------------------
\* Arithmetic of prices as multiples of a common denominator.

\* A product does not decrease with a factor.
LEMMA ProductGrows ==
    ASSUME NEW x \in Int, NEW y \in Int, NEW d \in Nat, x <= y
    PROVE  x * d <= y * d
OBVIOUS

\* A product of positive numbers is at least each of them.
LEMMA ProductIsPositive ==
    ASSUME NEW x \in Nat \ {0}, NEW d \in Nat \ {0}
    PROVE  x * d \in Nat /\ x * d >= d /\ x * d >= x
OBVIOUS

\* A common denominator cancels, and less than one of it does not count.
LEMMA DenominatorCancels ==
    ASSUME NEW x \in Int, NEW y \in Int, NEW d \in Nat \ {0}, x * d > y * d - d
    PROVE  x >= y
<1>1. SUFFICES ASSUME x <= y - 1 PROVE FALSE
  OBVIOUS
<1>2. x * d <= (y - 1) * d
  BY <1>1, ProductGrows
<1>3. (y - 1) * d = y * d - d
  OBVIOUS
<1>4. QED
  BY <1>2, <1>3

-----------------------------------------------------------------------------
\* The prices of the strategy.

\* The tick is at least one unit of the last decimal place: a text has digits.
TickIsPositive == tick_text \in InstrumentTicks => Tick \in Nat \ {0}

LEMMA TickSize == TickIsPositive
<1> SUFFICES ASSUME tick_text \in InstrumentTicks PROVE Tick \in Nat \ {0}
  BY DEF TickIsPositive
<1> DEFINE power == 10 ^ DecimalPlaces(tick_text)
<1>1. power \in Nat \ {0}
  BY PowersAssumption
<1>2. tick_text \in TickTexts /\ tick_text.integer + tick_text.fraction > 0
  BY QuotesAssumption
<1>3. QED
  <2>1. tick_text.point => Tick = tick_text.integer * power + tick_text.fraction
    BY DEF Tick
  <2>2. ~tick_text.point => Tick = tick_text.integer * power + 0
    BY DEF Tick
  <2> HIDE DEF power
  <2>3. /\ tick_text.integer \in Nat /\ tick_text.fraction \in Nat
        /\ ~tick_text.point => tick_text.fraction = 0
        /\ tick_text.point \in BOOLEAN
    BY <1>2, QuotesAssumption DEF TickTexts
  <2>4. tick_text.integer * power \in Nat
        /\ (tick_text.integer > 0 => tick_text.integer * power > 0)
    BY <1>1, <2>3, ProductIsPositive
  <2>5. QED
    BY <1>2, <2>1, <2>2, <2>3, <2>4

\* A first level is none, or a price that is a whole number of ticks, with a size.
IsLevel(level) ==
    /\ level.price \in Nat /\ level.size \in Nat
    /\ \E p \in Nat : level.price = p * Tick

\* The levels are not crossed, and a quote is one that compute_orders makes of them.
QuotesInv ==
    /\ tick_text \in InstrumentTicks
    /\ IsLevel(bid) /\ IsLevel(ask)
    /\ inventory \in Int
    /\ IsValidTop => bid.price < ask.price
    /\ quote # <<>> => IsValidTop /\ quote \in ComputeOrders(inventory)

\* Nothing is quoted at first.
LEMMA InitQuotes == QuotesInit => QuotesInv
<1> SUFFICES ASSUME QuotesInit PROVE QuotesInv
  OBVIOUS
<1>1. Tick \in Nat
  BY TickSize DEF TickIsPositive, QuotesInit
<1>2. NoLevel.price = 0 * Tick /\ NoLevel.price = 0 /\ NoLevel.size = 0
  BY <1>1 DEF NoLevel
<1>3. IsLevel(bid) /\ IsLevel(ask) /\ ~IsValidTop
  BY <1>2 DEF QuotesInit, IsLevel, IsValidTop
<1>4. QED
  BY <1>3 DEF QuotesInit, QuotesInv

\* Every step keeps the invariant of the quotes.
LEMMA QuotesStep ==
    ASSUME QuotesInv, [QuotesNext]_quotes_vars
    PROVE  QuotesInv'
<1>1. ASSUME UNCHANGED <<tick_text, bid, ask, inventory>>
      PROVE  /\ Tick' = Tick /\ IsLevel(bid)' = IsLevel(bid) /\ IsLevel(ask)' = IsLevel(ask)
             /\ IsValidTop' = IsValidTop /\ ComputeOrders(inventory)' = ComputeOrders(inventory)
  BY <1>1 DEF IsLevel, Tick, IsValidTop, ComputeOrders, BidPrice, AskPrice,
     ReservationPrice, MicroPrice, AsFraction, Denominator, Printed
<1>2. CASE BookChanges
  <2>1. Tick \in Nat \ {0} /\ Tick' = Tick
    BY <1>2, TickSize DEF QuotesInv, TickIsPositive, BookChanges, Tick
  <2>2. ASSUME NEW level \in Levels \cup {NoLevel}
        PROVE  /\ level.price \in Nat /\ level.size \in Nat
               /\ \E p \in Nat : level.price = p * Tick
    <3>1. CASE level = NoLevel
      <4>1. level.price = 0 * Tick /\ level.size = 0
        BY <2>1, <3>1 DEF NoLevel
      <4>2. QED
        BY <2>1, <4>1
    <3>2. CASE level \in Levels
      <4>1. PICK p \in BookPrices : level.price = p * Tick
        BY <3>2 DEF Levels
      <4>2. level.size \in Nat /\ p \in Nat
        BY <3>2, QuotesAssumption DEF Levels
      <4>3. QED
        BY <2>1, <4>1, <4>2
    <3>3. QED
      BY <3>1, <3>2
  <2>3. IsLevel(bid)' /\ IsLevel(ask)'
    BY <1>2, <2>1, <2>2 DEF BookChanges, IsLevel
  <2>4. IsValidTop' => bid'.price < ask'.price
    BY <1>2 DEF BookChanges, IsValidTop, NoLevel
  <2>5. QED
    BY <1>2, <2>3, <2>4 DEF BookChanges, QuotesInv
<1>3. CASE InventoryChanges
  BY <1>3, QuotesAssumption DEF InventoryChanges, QuotesInv, IsLevel, Tick, IsValidTop
<1>4. CASE UNCHANGED quotes_vars
  BY <1>1, <1>4 DEF quotes_vars, QuotesInv
<1>5. CASE Execute
  BY <1>1, <1>5 DEF Execute, QuotesInv
<1>6. CASE ExecuteInvalid
  BY <1>1, <1>6 DEF ExecuteInvalid, QuotesInv
<1>7. QED
  BY <1>2, <1>3, <1>4, <1>5, <1>6 DEF QuotesNext

\* What is printed is the nearest whole number: the denominator is d, the fraction n / d.
IsNearest(q, n, d) == q \in Int /\ 2 * n - d <= 2 * (q * d) /\ 2 * (q * d) <= 2 * n + d

LEMMA PrintedIsNearest ==
    ASSUME Denominator \in Nat \ {0}, NEW price \in Int, NEW q \in Printed(price)
    PROVE  IsNearest(q, price, Denominator)
<1> DEFINE d == Denominator
<1> DEFINE floor == price \div d
<1>1. floor \in Int /\ floor * d <= price /\ price < floor * d + d
  BY DEF d
<1>2. \/ q = floor /\ 2 * (price - floor * d) <= d
      \/ q = floor + 1 /\ 2 * (price - floor * d) >= d
  BY DEF Printed, AsFraction
<1> HIDE DEF floor, d
<1>3. floor * d \in Int /\ (floor + 1) * d = floor * d + d /\ d \in Nat \ {0}
  BY <1>1 DEF d
<1>4. QED
  BY <1>1, <1>2, <1>3 DEF IsNearest, d

\* Before rounding: the reservation price less and plus the base spread, unless that reaches
\* the other side of the book.
PriceFacts(i) ==
    /\ Denominator \in Nat \ {0} /\ Tick \in Nat \ {0}
    /\ bid.price \in Nat \ {0} /\ ask.price \in Nat /\ bid.price < ask.price
    /\ ReservationPrice(i) \in Int /\ Tick * Denominator \in Int
    /\ bid.price * Denominator \in Int /\ ask.price * Denominator \in Int
    /\ bid.price * Denominator < ask.price * Denominator
    /\ \/ /\ ReservationPrice(i) - 2 * (Tick * Denominator) >= ask.price * Denominator
          /\ BidPrice(i) = ask.price * Denominator - Tick * Denominator
       \/ /\ ReservationPrice(i) - 2 * (Tick * Denominator) < ask.price * Denominator
          /\ BidPrice(i) = ReservationPrice(i) - 2 * (Tick * Denominator)
    /\ \/ /\ ReservationPrice(i) + 2 * (Tick * Denominator) <= bid.price * Denominator
          /\ AskPrice(i) = bid.price * Denominator + Tick * Denominator
       \/ /\ ReservationPrice(i) + 2 * (Tick * Denominator) > bid.price * Denominator
          /\ AskPrice(i) = ReservationPrice(i) + 2 * (Tick * Denominator)

LEMMA PricesBeforeRounding ==
    ASSUME QuotesInv, IsValidTop, NEW i \in Int
    PROVE  PriceFacts(i)
<1> DEFINE T == Tick
<1> DEFINE D == Denominator
<1> DEFINE R == ReservationPrice(i)
<1> DEFINE b == bid.price
<1> DEFINE a == ask.price
<1>1. T \in Nat \ {0}
  BY TickSize DEF QuotesInv, TickIsPositive
<1>2. /\ b \in Nat \ {0} /\ a \in Nat /\ b < a
      /\ bid.size \in Nat \ {0} /\ ask.size \in Nat \ {0}
  BY DEF QuotesInv, IsLevel, IsValidTop
<1>3. bid.size + ask.size \in Nat \ {0}
  BY <1>2
<1>4. D \in Nat \ {0}
  BY <1>3 DEF Denominator, SkewDivisor
<1>5. R \in Int
  <2>1. i * T \in Int /\ (i * T) * (bid.size + ask.size) \in Int
    BY <1>1, <1>3
  <2>2. MicroPrice \in Int
    BY <1>2 DEF MicroPrice, SkewDivisor
  <2>3. QED
    BY <2>1, <2>2 DEF ReservationPrice
<1>6. AsFraction(BaseSpread * T) = 2 * (T * D)
  BY <1>1, <1>4 DEF AsFraction, BaseSpread
<1>7. AsFraction(a - T) = a * D - T * D /\ AsFraction(b + T) = b * D + T * D
  BY <1>1, <1>2, <1>4 DEF AsFraction
<1>8. AsFraction(a) = a * D /\ AsFraction(b) = b * D
  BY DEF AsFraction
<1>9. BidPrice(i) = IF R - 2 * (T * D) >= a * D THEN a * D - T * D ELSE R - 2 * (T * D)
  BY <1>6, <1>7, <1>8 DEF BidPrice
<1>10. AskPrice(i) = IF R + 2 * (T * D) <= b * D THEN b * D + T * D ELSE R + 2 * (T * D)
  BY <1>6, <1>7, <1>8 DEF AskPrice
<1> HIDE DEF T, D, R, a, b
<1>11. T * D \in Int /\ b * D \in Int /\ a * D \in Int
  BY <1>1, <1>2, <1>4
<1>12. b * D < a * D
  <2>1. a * D > b * D - D /\ (a - 1) * D >= b * D /\ (a - 1) * D = a * D - D
    BY <1>2, <1>4, ProductGrows
  <2>2. QED
    BY <1>4, <1>11, <2>1
<1>13. QED
  BY <1>1, <1>2, <1>4, <1>5, <1>9, <1>10, <1>11, <1>12 DEF PriceFacts, T, D, R, a, b

\* What is quoted, as fractions.
LEMMA QuotedPrices ==
    ASSUME QuotesInv, IsValidTop, NEW i \in Int, NEW q \in ComputeOrders(i)
    PROVE  /\ PriceFacts(i)
           /\ IsNearest(q[1], BidPrice(i), Denominator)
           /\ IsNearest(q[2], AskPrice(i), Denominator)
           /\ q[1] \in Int /\ q[2] \in Int
           /\ q[1] * Denominator \in Int /\ q[2] * Denominator \in Int
           /\ BidPrice(i) \in Int /\ AskPrice(i) \in Int
           /\ Denominator \in Nat \ {0} /\ Tick \in Nat \ {0} /\ Tick * Denominator \in Int
<1>1. PriceFacts(i)
  BY PricesBeforeRounding
<1>2. BidPrice(i) \in Int /\ AskPrice(i) \in Int /\ Denominator \in Nat \ {0}
  BY <1>1 DEF PriceFacts
<1>3. q[1] \in Printed(BidPrice(i)) /\ q[2] \in Printed(AskPrice(i))
  BY DEF ComputeOrders
<1>4. IsNearest(q[1], BidPrice(i), Denominator) /\ IsNearest(q[2], AskPrice(i), Denominator)
  BY <1>2, <1>3, PrintedIsNearest
<1>5. q[1] \in Int /\ q[2] \in Int
  BY <1>4 DEF IsNearest
<1>6. q[1] * Denominator \in Int /\ q[2] * Denominator \in Int
  BY <1>2, <1>5
<1>7. Tick \in Nat \ {0} /\ Tick * Denominator \in Int
  BY <1>1 DEF PriceFacts
<1>8. QED
  BY <1>1, <1>2, <1>4, <1>5, <1>6, <1>7

\* The ask before rounding is at least four ticks above the bid.
LEMMA SpreadBeforeRounding ==
    ASSUME NEW i \in Int, PriceFacts(i)
    PROVE  AskPrice(i) - BidPrice(i) >= 4 * (Tick * Denominator)
<1>1. Tick * Denominator > 0
  BY ProductIsPositive DEF PriceFacts
<1>2. QED
  BY <1>1 DEF PriceFacts

-----------------------------------------------------------------------------
\* The invariant of the quotes holds in every behaviour.
LEMMA QuotesInvariant == DeskSpec => []QuotesInv
<1>1. DeskInit => QuotesInv
  BY InitQuotes DEF DeskInit
<1>2. QuotesInv /\ [DeskNext]_desk_vars => QuotesInv'
  BY StepsOfDesk, QuotesStep
<1>3. QED
  BY <1>1, <1>2, PTL DEF DeskSpec

\* The two orders of one turn keep twice the base spread, up to one unit of rounding, for
\* every tick size, book and inventory.
THEOREM SpreadIsAlwaysKept == DeskSpec => []SpreadIsKept
<1>1. ASSUME QuotesInv PROVE SpreadIsKept
  <2> SUFFICES ASSUME quote # <<>> PROVE quote[2] - quote[1] >= 4 * Tick - 1
    BY TickSize, <1>1 DEF SpreadIsKept, BaseSpread, QuotesInv, TickIsPositive
  <2> DEFINE D == Denominator
  <2> DEFINE apart == quote[2] - quote[1]
  <2>1. IsValidTop /\ quote \in ComputeOrders(inventory) /\ inventory \in Int
    BY <1>1 DEF QuotesInv
  <2>2. /\ PriceFacts(inventory)
        /\ IsNearest(quote[1], BidPrice(inventory), D)
        /\ IsNearest(quote[2], AskPrice(inventory), D)
        /\ quote[1] \in Int /\ quote[2] \in Int
        /\ quote[1] * D \in Int /\ quote[2] * D \in Int
    BY <1>1, <2>1, QuotedPrices
  <2>3. AskPrice(inventory) - BidPrice(inventory) >= 4 * (Tick * D)
    BY <2>1, <2>2, SpreadBeforeRounding
  <2>4. /\ BidPrice(inventory) \in Int /\ AskPrice(inventory) \in Int
        /\ D \in Nat \ {0} /\ Tick \in Nat \ {0} /\ Tick * D \in Int
    BY <1>1, <2>1, QuotedPrices
  <2> HIDE DEF D
  <2>5. quote[2] * D - quote[1] * D >= 4 * (Tick * D) - D
    <3>1. /\ 2 * (quote[1] * D) <= 2 * BidPrice(inventory) + D
          /\ 2 * AskPrice(inventory) - D <= 2 * (quote[2] * D)
      BY <2>2 DEF IsNearest
    <3> DEFINE ask_d == quote[2] * D
    <3> DEFINE bid_d == quote[1] * D
    <3> DEFINE tick_d == Tick * D
    <3>2. ask_d \in Int /\ bid_d \in Int /\ tick_d \in Int
      BY <2>2, <2>4
    <3> HIDE DEF ask_d, bid_d, tick_d
    <3>3. ask_d - bid_d >= 4 * tick_d - D
      BY <2>3, <2>4, <3>1, <3>2 DEF ask_d, bid_d, tick_d
    <3>4. QED
      BY <3>3 DEF ask_d, bid_d, tick_d
  <2>6. apart * D = quote[2] * D - quote[1] * D /\ (4 * Tick - 1) * D = 4 * (Tick * D) - D
    BY <2>2, <2>4
  <2>7. apart * D > (4 * Tick - 1) * D - D
    <3> DEFINE apart_d == quote[2] * D - quote[1] * D
    <3> DEFINE tick_d == 4 * (Tick * D)
    <3>1. apart_d \in Int /\ tick_d \in Int /\ D > 0
      BY <2>2, <2>4
    <3>2. apart_d >= tick_d - D
      BY <2>5
    <3> HIDE DEF apart_d, tick_d
    <3>3. apart_d > tick_d - D - D
      BY <2>4, <3>1, <3>2
    <3> HIDE DEF apart
    <3>4. QED
      BY <2>6, <3>3 DEF apart_d, tick_d
  <2>8. apart \in Int /\ 4 * Tick - 1 \in Int
    BY <2>2, <2>4
  <2> HIDE DEF apart
  <2>9. apart >= 4 * Tick - 1
    BY <2>4, <2>7, <2>8, DenominatorCancels
  <2>10. QED
    BY <2>9 DEF apart
<1>2. QED
  BY <1>1, QuotesInvariant, PTL

\* A price that is at most n, before rounding, is printed as at most n.
LEMMA RoundedBelow ==
    ASSUME NEW q, NEW d \in Nat \ {0}, NEW p \in Int, IsNearest(q, p, d), NEW n \in Int,
           p <= n * d
    PROVE  q <= n
<1>1. q \in Int /\ 2 * (q * d) <= 2 * p + d
  BY DEF IsNearest
<1> DEFINE qd == q * d
<1> DEFINE nd == n * d
<1>2. qd \in Int /\ nd \in Int /\ 2 * qd <= 2 * p + d /\ p <= nd
  BY <1>1
<1> HIDE DEF qd, nd
<1>3. nd > qd - d
  BY <1>2
<1>4. n * d > q * d - d
  BY <1>3 DEF qd, nd
<1>5. QED
  BY <1>1, <1>4, DenominatorCancels

\* A price that is more than n by at least a half is printed as more than n.
LEMMA RoundedAboveHalf ==
    ASSUME NEW q, NEW d \in Nat \ {0}, NEW p \in Int, IsNearest(q, p, d), NEW n \in Int,
           2 * p > 2 * (n * d) - d
    PROVE  q >= n
<1>1. q \in Int /\ 2 * p - d <= 2 * (q * d)
  BY DEF IsNearest
<1> DEFINE qd == q * d
<1> DEFINE nd == n * d
<1>2. qd \in Int /\ nd \in Int /\ 2 * p - d <= 2 * qd /\ 2 * p > 2 * nd - d
  BY <1>1
<1> HIDE DEF qd, nd
<1>3. qd > nd - d
  BY <1>2
<1>4. q * d > n * d - d
  BY <1>3 DEF qd, nd
<1>5. QED
  BY <1>1, <1>4, DenominatorCancels

\* A price that is at least n is printed as at least n.
LEMMA RoundedAbove ==
    ASSUME NEW q, NEW d \in Nat \ {0}, NEW p \in Int, IsNearest(q, p, d), NEW n \in Int,
           n * d <= p
    PROVE  q >= n
<1> DEFINE nd == n * d
<1>1. nd \in Int /\ nd <= p
  OBVIOUS
<1> HIDE DEF nd
<1>2. 2 * p > 2 * nd - d
  BY <1>1
<1>3. 2 * p > 2 * (n * d) - d
  BY <1>2 DEF nd
<1>4. QED
  BY <1>3, RoundedAboveHalf

\* Rounding keeps the order of two prices up to one unit.
LEMMA RoundingKeepsOrder ==
    ASSUME NEW q, NEW r, NEW d \in Nat \ {0}, NEW low \in Int, NEW high \in Int,
           IsNearest(q, high, d), IsNearest(r, low, d), low <= high
    PROVE  r <= q + 1
<1>1. q \in Int /\ r \in Int /\ 2 * high - d <= 2 * (q * d) /\ 2 * (r * d) <= 2 * low + d
  BY DEF IsNearest
<1> DEFINE qd == q * d
<1> DEFINE rd == r * d
<1>2. qd \in Int /\ rd \in Int /\ 2 * high - d <= 2 * qd /\ 2 * rd <= 2 * low + d
  BY <1>1
<1> HIDE DEF qd, rd
<1>3. rd <= qd + d
  BY <1>2
<1>4. (q + 2) * d = qd + 2 * d /\ (r + 1) * d = rd + d
  BY <1>1 DEF qd, rd
<1>5. (q + 2) * d > (r + 1) * d - d
  BY <1>2, <1>3, <1>4
<1>6. q + 2 \in Int /\ r + 1 \in Int
  BY <1>1
<1>7. q + 2 >= r + 1
  BY <1>5, <1>6, DenominatorCancels
<1>8. QED
  BY <1>1, <1>7

\* A quote never goes through the best price of the other side, for every tick size, book
\* and inventory: rounding can undo a clamp, but by no more than it moved.
THEOREM NeverThroughTheBook == DeskSpec => []NotThroughTheBook
<1>1. ASSUME QuotesInv PROVE NotThroughTheBook
  <2> SUFFICES ASSUME quote # <<>> PROVE quote[1] <= ask.price /\ quote[2] >= bid.price
    BY DEF NotThroughTheBook
  <2>1. IsValidTop /\ quote \in ComputeOrders(inventory) /\ inventory \in Int
    BY <1>1 DEF QuotesInv
  <2>2. /\ PriceFacts(inventory)
        /\ IsNearest(quote[1], BidPrice(inventory), Denominator)
        /\ IsNearest(quote[2], AskPrice(inventory), Denominator)
        /\ BidPrice(inventory) \in Int /\ AskPrice(inventory) \in Int
        /\ Denominator \in Nat \ {0} /\ Tick \in Nat \ {0}
    BY <1>1, <2>1, QuotedPrices
  <2>3. bid.price \in Int /\ ask.price \in Int
    BY <2>2 DEF PriceFacts
  <2>4. Tick * Denominator > 0
    BY <2>2, ProductIsPositive
  <2> DEFINE tick_d == Tick * Denominator
             bid_d == bid.price * Denominator
             ask_d == ask.price * Denominator
             reservation == ReservationPrice(inventory)
  <2>10. /\ tick_d \in Int /\ bid_d \in Int /\ ask_d \in Int /\ reservation \in Int
         /\ tick_d > 0
         /\ \/ BidPrice(inventory) = ask_d - tick_d
            \/ BidPrice(inventory) = reservation - 2 * tick_d /\ reservation - 2 * tick_d < ask_d
         /\ \/ AskPrice(inventory) = bid_d + tick_d
            \/ AskPrice(inventory) = reservation + 2 * tick_d /\ reservation + 2 * tick_d > bid_d
    BY <2>2, <2>4, Zenon DEF PriceFacts
  <2> HIDE DEF tick_d, bid_d, ask_d, reservation
  <2>5. BidPrice(inventory) <= ask.price * Denominator
    <3>1. BidPrice(inventory) <= ask_d
      BY <2>10
    <3>2. QED
      BY <3>1 DEF ask_d
  <2>6. bid.price * Denominator <= AskPrice(inventory)
    <3>1. bid_d <= AskPrice(inventory)
      BY <2>10
    <3>2. QED
      BY <3>1 DEF bid_d
  <2>7. quote[1] <= ask.price
    BY <2>2, <2>3, <2>5, RoundedBelow, Zenon
  <2>8. quote[2] >= bid.price
    BY <2>2, <2>3, <2>6, RoundedAbove, Zenon
  <2>9. QED
    BY <2>7, <2>8
<1>2. QED
  BY <1>1, QuotesInvariant, PTL

\* The skew lowers the reservation price.
LEMMA InventoryLowersReservation ==
    ASSUME QuotesInv, IsValidTop, NEW less \in Int, NEW more \in Int, less < more
    PROVE  ReservationPrice(more) <= ReservationPrice(less)
<1> DEFINE size == bid.size + ask.size
<1>1. Tick \in Nat /\ size \in Nat
  BY TickSize DEF QuotesInv, TickIsPositive, IsLevel
<1>2. MicroPrice \in Int
  BY DEF QuotesInv, IsLevel, MicroPrice, SkewDivisor
<1> HIDE DEF size
<1>3. less * Tick <= more * Tick /\ less * Tick \in Int /\ more * Tick \in Int
  BY <1>1, ProductGrows
<1>4. (less * Tick) * size <= (more * Tick) * size
  BY <1>1, <1>3, ProductGrows
<1>5. (less * Tick) * size \in Int /\ (more * Tick) * size \in Int
  BY <1>1, <1>3
<1>6. QED
  BY <1>2, <1>4, <1>5 DEF ReservationPrice, size

\* Of two inventories in one market the larger is never quoted higher, except by the one
\* tick that a clamp takes back while rounding had reached the other side.
THEOREM InventoryAlwaysLowersQuotes == DeskSpec => []InventoryLowersQuotes
<1>1. ASSUME QuotesInv PROVE InventoryLowersQuotes
  <2> SUFFICES ASSUME IsValidTop, NEW less \in Inventories, NEW more \in Inventories, less < more,
                      NEW q \in ComputeOrders(less), NEW r \in ComputeOrders(more)
               PROVE  r[1] <= q[1] + Tick /\ r[2] <= q[2] + Tick
    BY DEF InventoryLowersQuotes
  <2> DEFINE D == Denominator
  <2> DEFINE tick_d == Tick * D
  <2> DEFINE ask_d == ask.price * D
  <2> DEFINE bid_d == bid.price * D
  <2>1. less \in Int /\ more \in Int
    BY QuotesAssumption
  <2>2. ReservationPrice(more) <= ReservationPrice(less)
    BY <1>1, <2>1, InventoryLowersReservation
  <2>3. /\ PriceFacts(less) /\ PriceFacts(more)
        /\ IsNearest(q[1], BidPrice(less), D) /\ IsNearest(q[2], AskPrice(less), D)
        /\ IsNearest(r[1], BidPrice(more), D) /\ IsNearest(r[2], AskPrice(more), D)
        /\ q[1] \in Int /\ q[2] \in Int /\ r[1] \in Int /\ r[2] \in Int
    BY <1>1, <2>1, QuotedPrices
  <2>4. /\ BidPrice(less) \in Int /\ AskPrice(less) \in Int
        /\ BidPrice(more) \in Int /\ AskPrice(more) \in Int
        /\ D \in Nat \ {0} /\ Tick \in Nat \ {0} /\ tick_d \in Int
    BY <1>1, <2>1, QuotedPrices
  <2>5. /\ bid.price \in Int /\ ask.price \in Int /\ ask_d \in Int /\ bid_d \in Int
        /\ ask.price - Tick \in Int /\ bid.price + Tick \in Int
        /\ (ask.price - Tick) * D = ask_d - tick_d /\ (bid.price + Tick) * D = bid_d + tick_d
    BY <2>3, <2>4 DEF PriceFacts
  <2>6. tick_d > 0
    BY <2>4, ProductIsPositive
  <2>7. r[1] <= q[1] + Tick
    <3>1. CASE BidPrice(more) <= BidPrice(less)
      <4>1. r[1] <= q[1] + 1
        BY <2>3, <2>4, <3>1, RoundingKeepsOrder, Zenon
      <4>2. QED
        BY <2>3, <2>4, <4>1
    <3>2. CASE BidPrice(more) > BidPrice(less)
      <4>1. BidPrice(less) = ask_d - tick_d /\ BidPrice(more) <= ask_d
        BY <2>2, <2>3, <2>4, <2>5, <2>6, <3>2 DEF PriceFacts
      <4>2. (ask.price - Tick) * D <= BidPrice(less)
            /\ BidPrice(more) <= ask.price * D
        BY <2>4, <2>5, <4>1
      <4>3. q[1] >= ask.price - Tick
        BY <2>3, <2>4, <2>5, <4>2, RoundedAbove, Zenon
      <4>4. r[1] <= ask.price
        BY <2>3, <2>4, <2>5, <4>2, RoundedBelow, Zenon
      <4>5. QED
        BY <2>3, <2>4, <2>5, <4>3, <4>4
    <3>3. QED
      BY <2>4, <3>1, <3>2
  <2>8. r[2] <= q[2] + Tick
    <3>1. CASE AskPrice(more) <= AskPrice(less)
      <4>1. r[2] <= q[2] + 1
        BY <2>3, <2>4, <3>1, RoundingKeepsOrder, Zenon
      <4>2. QED
        BY <2>3, <2>4, <4>1
    <3>2. CASE AskPrice(more) > AskPrice(less)
      <4>1. AskPrice(more) = bid_d + tick_d /\ AskPrice(less) >= bid_d
        BY <2>2, <2>3, <2>4, <2>5, <2>6, <3>2 DEF PriceFacts
      <4>2. bid.price * D <= AskPrice(less)
            /\ AskPrice(more) <= (bid.price + Tick) * D
        BY <2>4, <2>5, <4>1
      <4>3. q[2] >= bid.price
        BY <2>3, <2>4, <2>5, <4>2, RoundedAbove, Zenon
      <4>4. r[2] <= bid.price + Tick
        BY <2>3, <2>4, <2>5, <4>2, RoundedBelow, Zenon
      <4>5. QED
        BY <2>3, <2>4, <2>5, <4>3, <4>4
    <3>3. QED
      BY <2>4, <3>1, <3>2
  <2>9. QED
    BY <2>7, <2>8
<1>2. QED
  BY <1>1, QuotesInvariant, PTL

\* A bid that is not clamped is more than half a unit of the last decimal place, before
\* rounding, if the risk manager lets it through.
LEMMA AcceptedBidIsPositive ==
    ASSUME QuotesInv, IsValidTop, NEW drift \in Int,
           inventory + drift < MaxInventory, bid.price > DeepestBid(drift) * Tick
    PROVE  2 * (ReservationPrice(inventory) - 2 * (Tick * Denominator)) > Denominator
<1> DEFINE size == bid.size + ask.size
<1> DEFINE tick_size == Tick * size
<1> DEFINE floor == (MaxInventory - drift) \div 100
<1>1. Tick \in Nat \ {0} /\ size \in Nat \ {0} /\ inventory \in Int
  <2>1. tick_text \in InstrumentTicks /\ inventory \in Int
    BY DEF QuotesInv
  <2>2. Tick \in Nat \ {0}
    BY <2>1, TickSize, Zenon DEF TickIsPositive
  <2>3. bid.size \in Nat /\ ask.size \in Nat /\ bid.size > 0
    BY DEF QuotesInv, IsLevel, IsValidTop
  <2>4. QED
    BY <2>1, <2>2, <2>3
<1>2. PICK p \in Nat : bid.price = p * Tick
  BY DEF QuotesInv, IsLevel
<1>3. floor \in Int /\ MaxInventory - drift < floor * 100 + 100 /\ MaxInventory \in Int
  BY QuotesAssumption
<1>4. DeepestBid(drift) = 3 + floor
  BY DEF DeepestBid, BaseSpread, SkewDivisor
<1> HIDE DEF floor
<1>5. p >= 4 + floor
  <2>1. SUFFICES ASSUME p <= 3 + floor PROVE FALSE
    BY <1>2, <1>3
  <2>2. p * Tick <= (3 + floor) * Tick
    BY <1>1, <1>2, <1>3, <2>1, ProductGrows
  <2>3. p * Tick \in Int /\ (3 + floor) * Tick \in Int
    BY <1>1, <1>2, <1>3
  <2>4. QED
    BY <1>2, <1>4, <2>2, <2>3
<1> DEFINE units == 100 * p - inventory - 200
<1>6. units \in Int /\ units >= 102
  BY <1>1, <1>2, <1>3, <1>5
<1>7. tick_size \in Nat /\ tick_size >= size /\ tick_size > 0
  BY <1>1, ProductIsPositive
<1>8. MicroPrice >= 100 * (p * tick_size) /\ MicroPrice \in Int
  <2>1. /\ bid.price \in Nat /\ ask.price \in Nat /\ bid.price < ask.price
        /\ bid.size \in Nat /\ ask.size \in Nat
    BY DEF QuotesInv, IsLevel, IsValidTop
  <2>2. bid.price * ask.size <= ask.price * ask.size
    BY <2>1, ProductGrows
  <2>3. bid.price * bid.size \in Int /\ ask.price * ask.size \in Int
        /\ bid.price * ask.size \in Int
    BY <2>1
  <2>4. bid.price * size = bid.price * bid.size + bid.price * ask.size
    BY <2>1
  <2>5. bid.price * size = p * tick_size
    BY <1>1, <1>2
  <2>6. QED
    BY <2>2, <2>3, <2>4, <2>5 DEF MicroPrice, SkewDivisor
<1>9. ReservationPrice(inventory) = MicroPrice - inventory * tick_size
  BY <1>1 DEF ReservationPrice
<1>10. Denominator = 100 * size /\ Tick * Denominator = 100 * tick_size
  BY <1>1 DEF Denominator, SkewDivisor
<1> HIDE DEF size, tick_size
<1>11. units * tick_size = 100 * (p * tick_size) - inventory * tick_size - 200 * tick_size
       /\ p * tick_size \in Int /\ inventory * tick_size \in Int
  BY <1>1, <1>2, <1>7
<1> HIDE DEF units
<1>12. 102 * tick_size <= units * tick_size /\ units * tick_size \in Int
  BY <1>6, <1>7, ProductGrows
<1>13. QED
  BY <1>1, <1>7, <1>8, <1>9, <1>10, <1>11, <1>12

\* A price that the risk manager lets through is positive, for every instrument, book and
\* limits, and whatever executes between the quote and the evaluation of its orders.
THEOREM AcceptedPricesAlwaysPositive == DeskSpec => []AcceptedPricesArePositive
<1>1. ASSUME QuotesInv PROVE AcceptedPricesArePositive
  <2> SUFFICES ASSUME quote # <<>>, NEW drift \in Drifts
               PROVE  /\ inventory + drift < MaxInventory /\ bid.price > DeepestBid(drift) * Tick
                             => quote[1] > 0
                      /\ inventory + drift > MinInventory => quote[2] > 0
    BY DEF AcceptedPricesArePositive
  <2> DEFINE D == Denominator
  <2>1. IsValidTop /\ quote \in ComputeOrders(inventory) /\ inventory \in Int
    BY <1>1 DEF QuotesInv
  <2>2. /\ PriceFacts(inventory)
        /\ IsNearest(quote[1], BidPrice(inventory), D)
        /\ IsNearest(quote[2], AskPrice(inventory), D)
        /\ BidPrice(inventory) \in Int /\ AskPrice(inventory) \in Int
        /\ D \in Nat \ {0} /\ Tick \in Nat \ {0}
        /\ quote[1] \in Int /\ quote[2] \in Int
    BY <1>1, <2>1, QuotedPrices
  <2>3. bid.price \in Int /\ bid.price > 0
    <3>1. bid.price \in Nat \ {0}
      BY <2>2 DEF PriceFacts
    <3>2. QED
      BY <3>1
  <2>4. Tick * D > 0
    BY <2>2, ProductIsPositive
  <2>5. quote[2] > 0
    <3>1. bid.price * D <= AskPrice(inventory)
      <4>1. /\ bid.price * D \in Int /\ Tick * D \in Int
            /\ \/ AskPrice(inventory) = bid.price * D + Tick * D
               \/ /\ ReservationPrice(inventory) + 2 * (Tick * D) > bid.price * D
                  /\ AskPrice(inventory) = ReservationPrice(inventory) + 2 * (Tick * D)
        BY <2>2 DEF PriceFacts
      <4> HIDE DEF D
      <4>2. QED
        BY <2>2, <2>4, <4>1
    <3>2. quote[2] >= bid.price
      BY <2>2, <2>3, <3>1, RoundedAbove, Zenon
    <3>3. QED
      BY <2>2, <2>3, <3>2
  <2>6. ASSUME inventory + drift < MaxInventory, bid.price > DeepestBid(drift) * Tick
        PROVE  quote[1] > 0
    <3>1. drift \in Int
      BY QuotesAssumption
    <3>2. 2 * (ReservationPrice(inventory) - 2 * (Tick * D)) > D
      BY <1>1, <2>1, <2>6, <3>1, AcceptedBidIsPositive
    <3>3. 1 * D = D /\ 1 \in Int
      BY <2>2
    <3>4. 2 * BidPrice(inventory) > 2 * (1 * D) - D
      <4>1. CASE BidPrice(inventory) = ReservationPrice(inventory) - 2 * (Tick * D)
        BY <2>2, <3>2, <3>3, <4>1
      <4>2. CASE BidPrice(inventory) = ask.price * D - Tick * D
        <5>1. ask.price >= 1 + Tick /\ ask.price \in Int
          <6>1. PICK a \in Nat : ask.price = a * Tick
            BY <1>1 DEF QuotesInv, IsLevel
          <6>2. PICK b \in Nat : bid.price = b * Tick
            BY <1>1 DEF QuotesInv, IsLevel
          <6>3. b # 0 /\ bid.price < ask.price /\ ask.price \in Int
            BY <2>2, <2>3, <6>2 DEF PriceFacts
          <6>4. bid.price >= Tick
            BY <2>2, <6>2, <6>3, ProductIsPositive
          <6>5. QED
            BY <2>2, <2>3, <6>3, <6>4
        <5>2. (1 + Tick) * D <= ask.price * D /\ (1 + Tick) * D = D + Tick * D
              /\ ask.price * D \in Int /\ Tick * D \in Int
          BY <2>2, <5>1, ProductGrows
        <5>3. QED
          BY <2>2, <3>3, <4>2, <5>2
      <4>3. QED
        BY <2>2, <4>1, <4>2 DEF PriceFacts
    <3>5. quote[1] >= 1
      BY <2>2, <3>3, <3>4, RoundedAboveHalf, Zenon
    <3>6. QED
      BY <2>2, <3>5
  <2>7. QED
    BY <2>5, <2>6
<1>2. QED
  BY <1>1, QuotesInvariant, PTL

-----------------------------------------------------------------------------
\* The answers of the gateway.

Outcomes == {"waiting", "Accepted", "Rejected", "Unknown"}

\* Every request has one outcome; the id of an order is the place of its submission; and the
\* OMS has heard of no request whose task still waits.
GatewayInv ==
    /\ requests \in Seq([kind : Kinds, order_link_id : Nat])
    /\ outcome \in Seq(Outcomes) /\ Len(outcome) = Len(requests)
    /\ \A k \in Submissions : requests[k].order_link_id = k
    /\ failures \in Seq(Nat)
    /\ OnlySubmissionsFail

\* There are no requests at first.
LEMMA InitGateway == GatewayInit => GatewayInv
BY DEF GatewayInit, GatewayInv, OnlySubmissionsFail, Submissions, RequestIndexes

\* A request that is dispatched fails later, if at all.
LEMMA DispatchStep ==
    ASSUME GatewayInv, NEW kind \in Kinds, NEW id \in Nat, NEW body_is_made \in BOOLEAN,
           kind = "create" => id = Len(requests) + 1,
           Dispatch(kind, id, body_is_made)
    PROVE  GatewayInv'
<1> DEFINE request == [kind |-> kind, order_link_id |-> id]
<1>1. CASE ~body_is_made
  BY <1>1 DEF Dispatch, GatewayInv, OnlySubmissionsFail, Submissions, RequestIndexes
<1>2. CASE body_is_made
  <2>1. /\ requests' = Append(requests, request) /\ outcome' = Append(outcome, "waiting")
        /\ failures' = failures
    BY <1>2 DEF Dispatch
  <2>2. request \in [kind : Kinds, order_link_id : Nat]
    OBVIOUS
  <2>3. /\ requests \in Seq([kind : Kinds, order_link_id : Nat]) /\ outcome \in Seq(Outcomes)
        /\ Len(outcome) = Len(requests) /\ failures \in Seq(Nat)
    BY DEF GatewayInv
  <2>4. /\ requests' \in Seq([kind : Kinds, order_link_id : Nat]) /\ outcome' \in Seq(Outcomes)
        /\ Len(outcome') = Len(requests')
        /\ Len(requests') = Len(requests) + 1
    <3>1. requests' \in Seq([kind : Kinds, order_link_id : Nat])
          /\ Len(requests') = Len(requests) + 1
      BY <2>1, <2>2, <2>3, AppendProperties
    <3>2. "waiting" \in Outcomes
      BY DEF Outcomes
    <3>3. outcome' \in Seq(Outcomes) /\ Len(outcome') = Len(outcome) + 1
      BY <2>1, <2>3, <3>2, AppendProperties
    <3>4. QED
      BY <2>3, <3>1, <3>3
  <2>5. \A k \in 1 .. Len(requests) : requests'[k] = requests[k] /\ outcome'[k] = outcome[k]
    BY <2>1, <2>3
  <2>6. requests'[Len(requests) + 1] = request
    BY <2>1, <2>3
  <2>7. Submissions \subseteq 1 .. Len(requests) /\ Submissions \subseteq Submissions'
    BY <2>3, <2>4, <2>5 DEF Submissions, RequestIndexes
  <2>8. \A k \in Submissions' : requests'[k].order_link_id = k
    <3> SUFFICES ASSUME NEW k \in Submissions' PROVE requests'[k].order_link_id = k
      OBVIOUS
    <3>1. k \in 1 .. Len(requests') /\ requests'[k].kind = "create"
      BY <2>4 DEF Submissions, RequestIndexes
    <3>2. CASE k \in 1 .. Len(requests)
      BY <2>3, <2>5, <3>1, <3>2 DEF GatewayInv, Submissions, RequestIndexes
    <3>3. CASE k = Len(requests) + 1
      BY <2>6, <3>1, <3>3
    <3>4. QED
      BY <2>3, <2>4, <3>1, <3>2, <3>3
  <2>9. OnlySubmissionsFail'
    <3>1. \A i \in DOMAIN failures' : /\ failures'[i] \in Submissions
                                      /\ outcome[failures'[i]] \in {"Rejected", "Unknown"}
      BY <2>1 DEF GatewayInv, OnlySubmissionsFail
    <3>2. \A i, j \in DOMAIN failures' : failures'[i] = failures'[j] => i = j
      BY <2>1 DEF GatewayInv, OnlySubmissionsFail
    <3>3. QED
      BY <2>5, <2>7, <3>1, <3>2 DEF OnlySubmissionsFail
  <2>10. QED
    BY <2>1, <2>3, <2>4, <2>8, <2>9 DEF GatewayInv
<1>3. QED
  BY <1>1, <1>2

\* The task of a request ends once, and reports only a submission it has no acceptance of.
LEMMA TaskEndsStep ==
    ASSUME GatewayInv, NEW k \in RequestIndexes, TaskEnds(k)
    PROVE  GatewayInv'
<1>1. CASE aborted' = TRUE /\ UNCHANGED <<outcome, failures>>
  BY <1>1 DEF TaskEnds, GatewayInv, OnlySubmissionsFail, Submissions, RequestIndexes
<1>2. ASSUME NEW answer,
             outcome' = [outcome EXCEPT ![k] = SendRequest(answer)],
             ReportOutcome(k, SendRequest(answer))
      PROVE  GatewayInv'
  <2> DEFINE result == SendRequest(answer)
  <2>1. result \in {"Accepted", "Rejected", "Unknown"}
    BY DEF SendRequest, ClassifyResponse
  <2> HIDE DEF result
  <2>2. /\ requests \in Seq([kind : Kinds, order_link_id : Nat]) /\ outcome \in Seq(Outcomes)
        /\ Len(outcome) = Len(requests) /\ failures \in Seq(Nat)
        /\ requests' = requests /\ Submissions' = Submissions /\ outcome[k] = "waiting"
    BY DEF GatewayInv, TaskEnds, Submissions, RequestIndexes
  <2>3. k \in DOMAIN outcome
    BY <2>2 DEF RequestIndexes
  <2>4. /\ outcome' \in Seq(Outcomes) /\ Len(outcome') = Len(outcome)
        /\ outcome'[k] = result
        /\ \A i \in DOMAIN outcome \ {k} : outcome'[i] = outcome[i]
    BY <1>2, <2>1, <2>2, <2>3 DEF Outcomes, result
  <2>5. \A i \in DOMAIN failures : /\ failures[i] \in Submissions /\ failures[i] # k
                                   /\ failures[i] \in DOMAIN outcome \ {k}
                                   /\ outcome'[failures[i]] \in {"Rejected", "Unknown"}
    BY <2>2, <2>4 DEF GatewayInv, OnlySubmissionsFail, Submissions, RequestIndexes
  <2>6. CASE k \in Submissions /\ result # "Accepted"
    <3>1. failures' = Append(failures, k)
      BY <1>2, <2>6 DEF ReportOutcome, Report, GatewayInv, result
    <3>2. k \in Nat
      BY <2>2 DEF RequestIndexes
    <3>3. failures' \in Seq(Nat) /\ DOMAIN failures' = 1 .. Len(failures) + 1
          /\ failures'[Len(failures) + 1] = k
          /\ \A i \in 1 .. Len(failures) : failures'[i] = failures[i]
          /\ DOMAIN failures = 1 .. Len(failures)
      BY <2>2, <3>1, <3>2
    <3>4. \A i \in DOMAIN failures' : i \in DOMAIN failures \/ i = Len(failures) + 1
      BY <2>2, <3>3
    <3>5. \A i, j \in DOMAIN failures' : failures'[i] = failures'[j] => i = j
      <4>1. \A i \in DOMAIN failures : failures'[i] = failures[i] /\ failures'[i] # k
        BY <2>5, <3>3
      <4>2. \A i, j \in DOMAIN failures : failures[i] = failures[j] => i = j
        BY DEF GatewayInv, OnlySubmissionsFail
      <4>3. QED
        BY <3>3, <3>4, <4>1, <4>2, Zenon
    <3>6. \A i \in DOMAIN failures' : /\ failures'[i] \in Submissions
                                      /\ outcome'[failures'[i]] \in {"Rejected", "Unknown"}
      <4>1. ASSUME NEW i \in DOMAIN failures
            PROVE  /\ failures'[i] \in Submissions
                   /\ outcome'[failures'[i]] \in {"Rejected", "Unknown"}
        <5>1. failures'[i] = failures[i]
          BY <3>3
        <5>2. QED
          BY <2>5, <5>1
      <4>2. k \in Submissions /\ outcome'[k] \in {"Rejected", "Unknown"}
        BY <2>1, <2>4, <2>6
      <4>3. QED
        BY <3>3, <3>4, <4>1, <4>2, Zenon
    <3>7. QED
      BY <2>2, <2>4, <3>3, <3>5, <3>6 DEF GatewayInv, OnlySubmissionsFail
  <2>7. CASE ~(k \in Submissions /\ result # "Accepted")
    <3>1. failures' = failures
      BY <1>2, <2>7 DEF ReportOutcome, result
    <3>2. QED
      BY <2>2, <2>4, <2>5, <3>1 DEF GatewayInv, OnlySubmissionsFail
  <2>8. QED
    BY <2>6, <2>7
<1>3. QED
  BY <1>1, <1>2 DEF TaskEnds

\* Every step keeps the invariant of the gateway.
LEMMA GatewayStep ==
    ASSUME GatewayInv, [GatewayNext]_gateway_vars
    PROVE  GatewayInv'
<1>1. CASE UNCHANGED gateway_vars
  BY <1>1 DEF gateway_vars, GatewayInv, OnlySubmissionsFail, Submissions, RequestIndexes
<1>2. /\ requests \in Seq([kind : Kinds, order_link_id : Nat])
      /\ Len(requests) + 1 \in Nat /\ NoOrderId \in Nat
      /\ \A k \in 1 .. Len(requests) : requests[k] \in [kind : Kinds, order_link_id : Nat]
  <2>1. requests \in Seq([kind : Kinds, order_link_id : Nat])
    BY DEF GatewayInv
  <2>2. \A k \in 1 .. Len(requests) : requests[k] \in [kind : Kinds, order_link_id : Nat]
    BY <2>1, ElementOfSeq, Zenon
  <2>3. Len(requests) \in Nat
    BY <2>1
  <2>4. QED
    BY <2>1, <2>2, <2>3 DEF NoOrderId
<1>3. ASSUME NEW qty \in Numbers, NEW price \in Numbers, SubmitOrder(qty, price)
      PROVE  GatewayInv'
  <2>1. SubmitOrderBody(qty, price) \in BOOLEAN /\ "create" \in Kinds
    BY DEF SubmitOrderBody, SerializeQuantity, SerializePrice, Kinds
  <2>2. QED
    BY <1>2, <1>3, <2>1, DispatchStep DEF SubmitOrder
<1>4. ASSUME NEW k \in Submissions, NEW new_qty \in BOOLEAN, NEW new_price \in BOOLEAN,
             NEW qty \in Numbers, NEW price \in Numbers,
             AmendOrder(k, new_qty, qty, new_price, price)
      PROVE  GatewayInv'
  <2>1. AmendOrderBody(new_qty, qty, new_price, price) \in BOOLEAN /\ "amend" \in Kinds
    BY DEF AmendOrderBody, SerializeQuantity, SerializePrice, Kinds
  <2>2. requests[k].order_link_id \in Nat
    <3>1. k \in 1 .. Len(requests)
      BY <1>2 DEF Submissions, RequestIndexes
    <3>2. requests[k] \in [kind : Kinds, order_link_id : Nat]
      BY <1>2, <3>1
    <3>3. QED
      BY <3>2
  <2>3. QED
    BY <1>4, <2>1, <2>2, DispatchStep DEF AmendOrder
<1>5. CASE RepayLiability \/ CancelAll
  BY <1>2, <1>5, DispatchStep DEF RepayLiability, CancelAll, Kinds
<1>6. ASSUME NEW k \in RequestIndexes, ExchangeDecides(k) PROVE GatewayInv'
  BY <1>6 DEF ExchangeDecides, GatewayInv, OnlySubmissionsFail, Submissions, RequestIndexes
<1>7. QED
  BY <1>1, <1>3, <1>4, <1>5, <1>6, TaskEndsStep DEF GatewayNext

\* The OMS hears of a failure at most once for an order, and only if the task of its own
\* submission ended without an acceptance (which the exchange may have given, when the answer
\* is lost or a server error), however many requests are under way and whatever becomes of
\* them (report_submission_outcome).
THEOREM OnlySubmissionsEverFail == DeskSpec => []OnlySubmissionsFail
<1>1. DeskInit => GatewayInv
  BY InitGateway DEF DeskInit
<1>2. GatewayInv /\ [DeskNext]_desk_vars => GatewayInv'
  BY StepsOfDesk, GatewayStep
<1>3. GatewayInv => OnlySubmissionsFail
  BY DEF GatewayInv
<1>4. QED
  BY <1>1, <1>2, <1>3, PTL DEF DeskSpec

-----------------------------------------------------------------------------
\* The average entry price.

\* The average is a fraction between two prices of entry, and without fees the two
\* inventories are one.
AverageInv ==
    /\ net \in Int /\ gross = net
    /\ average \in Int \X Int
    /\ entry_prices \subseteq Nat
    /\ AverageWithinEntryPrices
    /\ net # 0 => average[2] > 0

\* The wallet at startup counts as bought at the last price.
LEMMA InitMetrics == MetricsInit => AverageInv
<1> SUFFICES ASSUME MetricsInit PROVE AverageInv
  OBVIOUS
<1>1. /\ net \in Int /\ gross = net /\ LastPrice \in Nat /\ entry_prices = {LastPrice}
      /\ average = <<IF net = 0 THEN 0 ELSE LastPrice, 1>>
  BY MetricsAssumption DEF MetricsInit, Fraction
<1>2. QED
  BY <1>1 DEF AverageInv, AverageWithinEntryPrices

\* An execution without a fee changes the size of a position it extends by its quantity.
LEMMA ExecutedWithoutFee ==
    ASSUME AverageInv, Fees \subseteq {0}, NEW execution \in ExecutionsOf, Update(execution)
    PROVE  /\ net' \in Int /\ gross' = net'
           /\ net' = GrossAfter(gross, execution) /\ net' = NetAfter(net, execution)
           /\ execution.exec_qty \in Nat \ {0} /\ execution.exec_price \in Nat \ {0}
           /\ execution.order_side \in {"Buy", "Sell"}
           /\ execution.order_side = "Buy" => net' = net + execution.exec_qty
           /\ execution.order_side = "Sell" => net' = net - execution.exec_qty
           /\ average' = AverageAfter(execution)
           /\ entry_prices' = EntryPricesAfter(execution)
           /\ paid' = execution.exec_price
<1>1. /\ execution.exec_qty \in Nat \ {0} /\ execution.exec_price \in Nat \ {0}
      /\ execution.order_side \in {"Buy", "Sell"} /\ execution.exec_fee = 0
  BY MetricsAssumption DEF ExecutionsOf
<1>2. QED
  BY <1>1 DEF AverageInv, Update, NetAfter, GrossAfter

\* What becomes of the average, case by case.
LEMMA CasesOfAverage ==
    ASSUME AverageInv, Fees \subseteq {0}, NEW execution \in ExecutionsOf, Update(execution)
    PROVE  \/ net' = 0
           \/ /\ net' # 0 /\ (net = 0 \/ IsPositive(net) # IsPositive(net'))
              /\ average' = <<execution.exec_price, 1>>
              /\ entry_prices' = {execution.exec_price}
           \/ /\ net # 0 /\ net' # 0 /\ IsPositive(net) = IsPositive(net')
              /\ AbsoluteOf(net') = AbsoluteOf(net) + execution.exec_qty
              /\ average' = WeightedAverage(execution)
              /\ entry_prices' = entry_prices \cup {execution.exec_price}
           \/ /\ net # 0 /\ net' # 0 /\ IsPositive(net) = IsPositive(net')
              /\ AbsoluteOf(net') = AbsoluteOf(net) - execution.exec_qty
              /\ average' = average /\ entry_prices' = entry_prices
<1>1. /\ net \in Int /\ gross = net
      /\ net' \in Int /\ gross' = net'
      /\ net' = GrossAfter(gross, execution) /\ net' = NetAfter(net, execution)
      /\ execution.exec_qty \in Nat \ {0} /\ execution.exec_price \in Nat \ {0}
      /\ execution.order_side \in {"Buy", "Sell"}
      /\ execution.order_side = "Buy" => net' = net + execution.exec_qty
      /\ execution.order_side = "Sell" => net' = net - execution.exec_qty
      /\ average' = AverageAfter(execution)
      /\ entry_prices' = EntryPricesAfter(execution)
  BY ExecutedWithoutFee DEF AverageInv
<1>2. CASE net' = 0
  BY <1>2
<1>3. CASE net' # 0 /\ net = 0
  BY <1>1, <1>3 DEF AverageAfter, EntryPricesAfter, OpensPosition, Fraction
<1>4. CASE net' # 0 /\ net # 0 /\ ExtendsPosition(execution)
  <2>1. /\ IsPositive(net) = IsPositive(net')
        /\ AbsoluteOf(net') = AbsoluteOf(net) + execution.exec_qty
    BY <1>1, <1>4 DEF ExtendsPosition, IsPositive, AbsoluteOf
  <2>2. average' = WeightedAverage(execution)
    BY <1>1, <1>4 DEF AverageAfter, OpensPosition
  <2>3. entry_prices' = entry_prices \cup {execution.exec_price}
    BY <1>1, <1>4, <2>1 DEF EntryPricesAfter, OpensPosition, CrossesZero
  <2>4. QED
    BY <1>4, <2>1, <2>2, <2>3
<1>5. CASE net' # 0 /\ net # 0 /\ ~ExtendsPosition(execution) /\ CrossesZero(execution)
  <2>1. ~ClosesPosition(execution) /\ ~OpensPosition
    BY <1>1, <1>5 DEF ClosesPosition, OpensPosition
  <2>2. average' = <<execution.exec_price, 1>>
    BY <1>1, <1>5, <2>1 DEF AverageAfter, Fraction
  <2>3. entry_prices' = {execution.exec_price}
    BY <1>1, <1>5 DEF EntryPricesAfter
  <2>4. IsPositive(net) # IsPositive(net')
    BY <1>1, <1>5 DEF CrossesZero
  <2>5. QED
    BY <1>5, <2>2, <2>3, <2>4
<1>6. CASE net' # 0 /\ net # 0 /\ ~ExtendsPosition(execution) /\ ~CrossesZero(execution)
  <2>1. ~ClosesPosition(execution) /\ ~OpensPosition
    BY <1>1, <1>6 DEF ClosesPosition, OpensPosition
  <2>2. average' = average
    BY <1>1, <1>6, <2>1 DEF AverageAfter
  <2>3. entry_prices' = entry_prices
    BY <1>1, <1>6, <2>1 DEF EntryPricesAfter
  <2>4. IsPositive(net) = IsPositive(net')
    BY <1>1, <1>6 DEF CrossesZero
  <2>5. AbsoluteOf(net') = AbsoluteOf(net) - execution.exec_qty
    BY <1>1, <1>6, <2>4 DEF ExtendsPosition, IsPositive, AbsoluteOf
  <2>6. QED
    BY <1>6, <2>2, <2>3, <2>4, <2>5
<1>7. QED
  BY <1>2, <1>3, <1>4, <1>5, <1>6

\* The weighted average, in numbers: s is the size before, x and q price and quantity.
LEMMA WeightedAverageIs ==
    ASSUME AverageInv, Fees \subseteq {0}, NEW execution \in ExecutionsOf, Update(execution),
           AbsoluteOf(net') = AbsoluteOf(net) + execution.exec_qty,
           average' = WeightedAverage(execution)
    PROVE  /\ AbsoluteOf(net) \in Nat
           /\ average' = << execution.exec_qty * execution.exec_price * average[2]
                               + AbsoluteOf(net) * average[1],
                            (AbsoluteOf(net) + execution.exec_qty) * average[2] >>
<1>1. /\ gross = net /\ net' = GrossAfter(gross, execution) /\ net \in Int
  BY ExecutedWithoutFee DEF AverageInv
<1>2. AbsoluteOf(net) \in Nat
  BY <1>1 DEF AbsoluteOf
<1>3. QED
  BY <1>1, <1>2 DEF WeightedAverage

\* A price not above the average and not above the price paid is not above the new average,
\* and the same from above.
LEMMA MeanIsBetween ==
    ASSUME NEW n \in Int, NEW d \in Nat, NEW s \in Nat, NEW q \in Nat, NEW x \in Int, NEW p \in Int
    PROVE  /\ p * d <= n /\ p <= x => p * ((s + q) * d) <= q * x * d + s * n
           /\ n <= p * d /\ x <= p => q * x * d + s * n <= p * ((s + q) * d)
<1>1. p * ((s + q) * d) = (p * d) * s + p * (q * d)
  OBVIOUS
<1>2. q * x * d + s * n = n * s + x * (q * d)
  OBVIOUS
<1>3. q * d \in Nat /\ p * d \in Int
  OBVIOUS
<1>4. ASSUME p * d <= n, p <= x
      PROVE  p * ((s + q) * d) <= q * x * d + s * n
  <2>1. (p * d) * s <= n * s
    BY <1>3, <1>4, ProductGrows
  <2>2. p * (q * d) <= x * (q * d)
    BY <1>3, <1>4, ProductGrows
  <2>3. QED
    BY <1>1, <1>2, <2>1, <2>2
<1>5. ASSUME n <= p * d, x <= p
      PROVE  q * x * d + s * n <= p * ((s + q) * d)
  <2>1. n * s <= (p * d) * s
    BY <1>3, <1>5, ProductGrows
  <2>2. x * (q * d) <= p * (q * d)
    BY <1>3, <1>5, ProductGrows
  <2>3. QED
    BY <1>1, <1>2, <2>1, <2>2
<1>6. QED
  BY <1>4, <1>5

\* Every execution keeps the average between the prices of entry.
LEMMA AverageStep ==
    ASSUME AverageInv, Fees \subseteq {0}, [MetricsNext]_metrics_vars
    PROVE  AverageInv'
<1>1. CASE UNCHANGED metrics_vars
  BY <1>1 DEF metrics_vars, AverageInv, AverageWithinEntryPrices
<1>2. ASSUME NEW execution \in ExecutionsOf, Update(execution) PROVE AverageInv'
  <2> DEFINE x == execution.exec_price
  <2> DEFINE q == execution.exec_qty
  <2> DEFINE s == AbsoluteOf(net)
  <2> DEFINE n == average[1]
  <2> DEFINE d == average[2]
  <2>1. /\ net' \in Int /\ gross' = net'
        /\ q \in Nat \ {0} /\ x \in Nat \ {0}
        /\ net \in Int /\ n \in Int /\ d \in Int /\ entry_prices \subseteq Nat
        /\ average' = AverageAfter(execution) /\ entry_prices' = EntryPricesAfter(execution)
    BY <1>2, ExecutedWithoutFee DEF AverageInv
  <2>2. entry_prices' \subseteq Nat
    BY <2>1 DEF EntryPricesAfter
  <2>3. s \in Nat /\ (net # 0 => s > 0)
    BY <2>1 DEF AbsoluteOf
  <2>4. CASE net' = 0
    <3>1. average' \in Int \X Int
      <4>1. q * x * d + AbsoluteOf(gross) * n \in Int
            /\ AbsoluteOf(GrossAfter(gross, execution)) * d \in Int
        <5>1. q * x * d \in Int
          BY <2>1
        <5>2. AbsoluteOf(gross) * n \in Int
          BY <2>1, <2>3 DEF AverageInv
        <5>3. AbsoluteOf(GrossAfter(gross, execution)) \in Int
          BY <1>2, <2>1, ExecutedWithoutFee DEF AbsoluteOf
        <5>4. AbsoluteOf(GrossAfter(gross, execution)) * d \in Int
          BY <2>1, <5>3
        <5>5. QED
          BY <5>1, <5>2, <5>4
      <4>2. WeightedAverage(execution) \in Int \X Int
        BY <4>1 DEF WeightedAverage
      <4>3. QED
        BY <2>1, <4>2 DEF AverageAfter, Fraction, AverageInv
    <3>2. QED
      BY <2>1, <2>2, <2>4, <3>1 DEF AverageInv, AverageWithinEntryPrices
  <2>5. CASE average' = <<x, 1>> /\ entry_prices' = {x}
    <3>1. average'[1] = x /\ average'[2] = 1
      BY <2>5
    <3>2. x * average'[2] = average'[1]
      BY <2>1, <3>1
    <3>3. AverageWithinEntryPrices'
      BY <2>1, <2>5, <3>1, <3>2 DEF AverageWithinEntryPrices
    <3>4. QED
      BY <2>1, <2>2, <2>5, <3>1, <3>3 DEF AverageInv
  <2>6. CASE /\ net # 0 /\ net' # 0
             /\ AbsoluteOf(net') = s + q
             /\ average' = WeightedAverage(execution)
             /\ entry_prices' = entry_prices \cup {x}
    <3>1. d > 0 /\ d \in Nat
      BY <2>1, <2>6 DEF AverageInv
    <3>2. average' = <<q * x * d + s * n, (s + q) * d>>
      BY <1>2, <2>6, WeightedAverageIs
    <3>3. PICK low \in entry_prices : low * d <= n
      BY <2>6 DEF AverageInv, AverageWithinEntryPrices
    <3>4. PICK high \in entry_prices : high * d >= n
      BY <2>6 DEF AverageInv, AverageWithinEntryPrices
    <3>5. low \in Int /\ high \in Int /\ n <= high * d
      BY <2>1, <3>3, <3>4
    <3>6. (s + q) * d \in Nat \ {0} /\ q * x * d + s * n \in Int
      <4>1. s + q \in Nat \ {0} /\ q * x * d \in Int /\ s * n \in Int
        BY <2>1, <2>3
      <4>2. QED
        BY <3>1, <4>1, ProductIsPositive
    <3>7. /\ low * d <= n /\ low <= x => low * ((s + q) * d) <= q * x * d + s * n
          /\ n <= high * d /\ x <= high => q * x * d + s * n <= high * ((s + q) * d)
          /\ x * d <= n /\ x <= x => x * ((s + q) * d) <= q * x * d + s * n
          /\ n <= x * d /\ x <= x => q * x * d + s * n <= x * ((s + q) * d)
      <4>1. q \in Nat /\ x \in Int
        BY <2>1
      <4>2. QED
        BY <2>1, <2>3, <3>1, <3>5, <4>1, MeanIsBetween, Zenon
    <3>8. /\ low > x => x * d <= n
          /\ high < x => n <= x * d
      <4>1. low > x => x * d <= low * d
        BY <2>1, <3>1, <3>5, ProductGrows
      <4>2. high < x => high * d <= x * d
        BY <2>1, <3>1, <3>5, ProductGrows
      <4>3. low * d \in Int /\ high * d \in Int /\ x * d \in Int
        BY <2>1, <3>1, <3>5
      <4>4. QED
        BY <2>1, <3>3, <3>5, <4>1, <4>2, <4>3
    <3>9. \E price \in entry_prices' : price * ((s + q) * d) <= q * x * d + s * n
      <4>1. CASE low <= x
        BY <2>6, <3>3, <3>7, <4>1
      <4>2. CASE low > x
        BY <2>1, <2>6, <3>7, <3>8, <4>2
      <4>3. QED
        BY <2>1, <3>5, <4>1, <4>2
    <3>10. \E price \in entry_prices' : q * x * d + s * n <= price * ((s + q) * d)
      <4>1. CASE x <= high
        BY <2>6, <3>5, <3>7, <3>4, <4>1
      <4>2. CASE x > high
        BY <2>1, <2>6, <3>7, <3>8, <4>2
      <4>3. QED
        BY <2>1, <3>5, <4>1, <4>2
    <3> DEFINE n_after == q * x * d + s * n
    <3> DEFINE d_after == (s + q) * d
    <3>11. /\ average' = <<n_after, d_after>> /\ n_after \in Int /\ d_after \in Nat \ {0}
           /\ \E price \in entry_prices' : price * d_after <= n_after
           /\ \E price \in entry_prices' : n_after <= price * d_after
      BY <3>2, <3>6, <3>9, <3>10
    <3> HIDE DEF n_after, d_after
    <3>12. \E price \in entry_prices' : price * d_after >= n_after
      <4>1. PICK price \in entry_prices' : n_after <= price * d_after
        BY <3>11
      <4>2. price * d_after \in Int
        BY <2>2, <3>11
      <4>3. QED
        BY <3>11, <4>1, <4>2
    <3>13. average'[1] = n_after /\ average'[2] = d_after
      BY <3>11
    <3>14. AverageWithinEntryPrices'
      BY <3>11, <3>12, <3>13 DEF AverageWithinEntryPrices
    <3>15. QED
      BY <2>1, <2>2, <3>11, <3>13, <3>14 DEF AverageInv
  <2>7. CASE net # 0 /\ net' # 0 /\ average' = average /\ entry_prices' = entry_prices
    BY <2>1, <2>7 DEF AverageInv, AverageWithinEntryPrices
  <2>8. QED
    BY <1>2, <2>4, <2>5, <2>6, <2>7, CasesOfAverage
<1>3. QED
  BY <1>1, <1>2 DEF MetricsNext

\* The invariant of the average holds in every behaviour without fees.
LEMMA AverageInvariant ==
    ASSUME Fees \subseteq {0}
    PROVE  DeskSpec => []AverageInv
<1>1. DeskInit => AverageInv
  BY InitMetrics DEF DeskInit
<1>2. AverageInv /\ [DeskNext]_desk_vars => AverageInv'
  BY StepsOfDesk, AverageStep
<1>3. QED
  BY <1>1, <1>2, PTL DEF DeskSpec

\* Without fees, the average entry price of a position always lies between the lowest and the
\* highest price it was built at, through any number of executions that open, extend, reduce,
\* close and turn it.
THEOREM AverageStaysWithinPrices ==
    ASSUME Fees \subseteq {0}
    PROVE  DeskSpec => []AverageWithinEntryPrices
<1>1. AverageInv => AverageWithinEntryPrices
  BY DEF AverageInv
<1>2. QED
  BY <1>1, AverageInvariant, PTL

\* Without fees, an execution that extends a position adds its own value to what the position
\* cost, and one that only reduces it leaves the average alone.
THEOREM AverageAlwaysConservesValue ==
    ASSUME Fees \subseteq {0}
    PROVE  DeskSpec => AverageConservesValue
<1> DEFINE Conserves ==
        LET size == AbsoluteOf(net)
            after == AbsoluteOf(net')
        IN net # 0 /\ net' # 0 /\ IsPositive(net) = IsPositive(net') =>
               /\ after < size => average' = average
               /\ after > size => average'[1] * after * average[2]
                     = (average[1] * size + paid' * (after - size) * average[2])
                           * average'[2]
<1>1. ASSUME AverageInv, [DeskNext]_desk_vars PROVE [Conserves]_metrics_vars
  <2> SUFFICES ASSUME NEW execution \in ExecutionsOf, Update(execution),
                      net # 0, net' # 0, IsPositive(net) = IsPositive(net')
               PROVE  Conserves
    BY <1>1, StepsOfDesk DEF MetricsNext
  <2> DEFINE x == execution.exec_price
  <2> DEFINE q == execution.exec_qty
  <2> DEFINE s == AbsoluteOf(net)
  <2> DEFINE n == average[1]
  <2> DEFINE d == average[2]
  <2>1. /\ net' \in Int /\ q \in Nat \ {0} /\ x \in Nat \ {0} /\ paid' = x
        /\ net \in Int /\ n \in Int /\ d \in Int
    BY <1>1, ExecutedWithoutFee DEF AverageInv
  <2>2. s \in Nat
    BY <2>1 DEF AbsoluteOf
  <2>3. CASE AbsoluteOf(net') = s + q /\ average' = WeightedAverage(execution)
    <3>1. average'[1] = q * x * d + s * n /\ average'[2] = (s + q) * d
      BY <1>1, <2>3, WeightedAverageIs
    <3>2. AbsoluteOf(net') - s = q /\ AbsoluteOf(net') > s
      BY <2>1, <2>2, <2>3
    <3>3. (q * x * d + s * n) * (s + q) * d = (n * s + x * q * d) * ((s + q) * d)
      <4>1. q * x * d = x * q * d /\ s * n = n * s
        BY <2>1, <2>2
      <4>2. QED
        BY <2>1, <2>2, <4>1
    <3>4. average'[1] * AbsoluteOf(net') * d = (n * s + paid' * (AbsoluteOf(net') - s) * d) * average'[2]
      BY <2>1, <2>3, <3>1, <3>2, <3>3
    <3>5. ~(AbsoluteOf(net') < AbsoluteOf(net))
      <4>1. AbsoluteOf(net') \in Int /\ AbsoluteOf(net) \in Int
        BY <2>1 DEF AbsoluteOf
      <4> DEFINE before == AbsoluteOf(net)
      <4> DEFINE after == AbsoluteOf(net')
      <4>2. before \in Int /\ after \in Int /\ after > before
        BY <3>2, <4>1
      <4> HIDE DEF before, after
      <4>3. ~(after < before)
        BY <4>2
      <4>4. QED
        BY <4>3 DEF before, after
    <3>6. QED
      BY <3>4, <3>5, Zenon
  <2>4. CASE AbsoluteOf(net') = s - q /\ average' = average
    BY <2>1, <2>2, <2>4
  <2>5. QED
    BY <1>1, <2>3, <2>4, CasesOfAverage
<1>2. QED
  BY <1>1, AverageInvariant, PTL DEF DeskSpec, AverageConservesValue
=============================================================================
