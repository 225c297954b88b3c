----------------------------- MODULE FeedsProofs ----------------------------
(***************************************************************************)
(* Theorems about the feeds.  The local order book, for every grid of      *)
(* prices, every size and every number of messages: what process_delta     *)
(* makes of a book, and that the book the readers get is the exchange's.   *)
(* The private websocket, for any messages: what is sent on of each.       *)
(* The recorder, for any horizons, number of executions, time and order of *)
(* deliveries: what it samples, and what becomes of each execution.        *)
(***************************************************************************)
EXTENDS Feeds, SequenceTheorems, FiniteSetTheorems, WellFoundedInduction, TLAPS

-----------------------------------------------------------------------------
\* A step of the composition is one of one feed, by definition, and rests for the others: what
\* is proved of each on its own holds of the composition.
LEMMA FeedsAreIndependent == FeedsSpec => BookSpec /\ StreamSpec /\ RecorderSpec
<1>1. FeedsInit => BookInit /\ StreamInit /\ RecorderInit
  BY DEF FeedsInit
<1>2. [FeedsNext]_feeds_vars
          => /\ [BookNext]_book_vars /\ [StreamNext]_stream_vars
             /\ [RecorderNext]_recorder_vars
  BY DEF FeedsNext, OfBook, OfStream, OfRecorder, feeds_vars
<1>3. QED
  BY <1>1, <1>2, PTL DEF FeedsSpec, BookSpec, StreamSpec, RecorderSpec

-----------------------------------------------------------------------------
\* A set of natural numbers that is not empty has a least member.
LEMMA LeastNumber ==
    ASSUME NEW S, S \subseteq Nat, S # {}
    PROVE  \E i \in S : \A j \in S : i <= j
<1>1. ASSUME NEW j \in Nat, NEW i \in Nat, j < i
      PROVE  <<j, i>> \in OpToRel(<, Nat)
  BY <1>1, Zenon DEF OpToRel
<1>2. PICK i \in S : \A j \in S : ~ (<<j, i>> \in OpToRel(<, Nat))
  BY WFMin, NatLessThanWellFounded
<1>3. \A j \in S : ~ (j < i)
  BY <1>1, <1>2
<1>4. QED
  BY <1>3

-----------------------------------------------------------------------------
\* Sorting.

\* A listing of a set names each of its members.
LEMMA ListingNamesAll ==
    ASSUME NEW S, IsFiniteSet(S), NEW s \in SetToSeqs(S)
    PROVE  /\ s \in Seq(S)
           /\ Len(s) = Cardinality(S) /\ Cardinality(S) \in Nat
           /\ DOMAIN s = 1 .. Cardinality(S)
           /\ \A x \in S : \E i \in DOMAIN s : s[i] = x
           /\ \A i, j \in DOMAIN s : s[i] = s[j] => i = j
<1> DEFINE n == Cardinality(S)
<1>1. n \in Nat
  BY FS_CardinalityType
<1>2. s \in [1 .. n -> S] /\ \A i, j \in 1 .. n : i # j => s[i] # s[j]
  BY DEF SetToSeqs
<1>3. s \in Injection(1 .. n, S)
  BY <1>2 DEF Injection, IsInjective
<1>4. IsFiniteSet(1 .. n) /\ Cardinality(1 .. n) = n
  <2>1. 1 \in Int /\ n \in Int
    BY <1>1
  <2>2. /\ IsFiniteSet(1 .. n)
        /\ Cardinality(1 .. n) = IF 1 > n THEN 0 ELSE n - 1 + 1
    BY <2>1, FS_Interval
  <2>3. QED
    BY <1>1, <2>2
<1>5. s \in Surjection(1 .. n, S)
  BY <1>3, <1>4, FS_Injection
<1>6. \A x \in S : \E i \in 1 .. n : s[i] = x
  BY <1>5 DEF Surjection
<1>7. s \in Seq(S) /\ Len(s) = n /\ DOMAIN s = 1 .. n
  BY <1>1, <1>2
<1>8. QED
  BY <1>1, <1>2, <1>6, <1>7

IsStrictOrder(R, S) ==
    /\ \A x \in S : <<x, x>> \notin R
    /\ \A x, y \in S : x # y => <<x, y>> \in R \/ <<y, x>> \in R
    /\ \A x, y, z \in S : <<x, y>> \in R /\ <<y, z>> \in R => <<x, z>> \in R

ListedBy(R, s) == \A i, j \in DOMAIN s : i < j => <<s[i], s[j]>> \in R

\* A finite set that is not empty has a first member.
LEMMA FirstMember ==
    ASSUME NEW R, NEW S, IsFiniteSet(S), S # {}, IsStrictOrder(R, S)
    PROVE  \E m \in S : \A x \in S \ {m} : <<m, x>> \in R
<1> DEFINE HasFirst(T) == \E m \in T : \A x \in T \ {m} : <<m, x>> \in R
           Bad == {n \in Nat : \E T \in SUBSET S : /\ T # {} /\ IsFiniteSet(T)
                                                  /\ Cardinality(T) = n /\ ~HasFirst(T)}
<1>1. Bad = {}
  <2> SUFFICES ASSUME Bad # {} PROVE FALSE
    OBVIOUS
  <2>1. PICK n \in Bad : \A k \in Bad : n <= k
    <3>1. Bad \subseteq Nat
      OBVIOUS
    <3> HIDE DEF Bad
    <3>2. QED
      BY <3>1, LeastNumber
  <2>2. PICK T \in SUBSET S : /\ T # {} /\ IsFiniteSet(T)
                              /\ Cardinality(T) = n /\ ~HasFirst(T)
    BY <2>1
  <2>3. PICK y \in T : TRUE
    BY <2>2
  <2> DEFINE rest == T \ {y}
  <2>4. IsFiniteSet(rest) /\ Cardinality(rest) = n - 1 /\ rest \in SUBSET S
    BY <2>2, <2>3, FS_RemoveElement
  <2>5. rest # {}
    <3> SUFFICES ASSUME rest = {} PROVE FALSE
      OBVIOUS
    <3>1. \A x \in T \ {y} : <<y, x>> \in R
      OBVIOUS
    <3>2. QED
      BY <2>2, <2>3, <3>1
  <2>6. n - 1 \in Nat /\ ~(n <= n - 1)
    <3>1. Cardinality(rest) \in Nat /\ n \in Nat
      BY <2>1, <2>4, FS_CardinalityType
    <3>2. QED
      BY <2>4, <3>1
  <2>7. HasFirst(rest)
    <3>1. n - 1 \notin Bad
      <4> HIDE DEF Bad
      <4>1. QED
        BY <2>1, <2>6
    <3> HIDE DEF rest, HasFirst
    <3>2. QED
      BY <2>4, <2>5, <2>6, <3>1
  <2>8. PICK m \in rest : \A x \in rest \ {m} : <<m, x>> \in R
    BY <2>7
  <2>9. CASE <<m, y>> \in R
    <3>1. m \in T /\ \A x \in T \ {m} : <<m, x>> \in R
      BY <2>8, <2>9
    <3>2. QED
      BY <2>2, <3>1
  <2>10. CASE <<y, m>> \in R
    <3>1. \A x \in T \ {y} : <<y, x>> \in R
      <4> SUFFICES ASSUME NEW x \in T \ {y} PROVE <<y, x>> \in R
        OBVIOUS
      <4>1. CASE x = m
        BY <2>10, <4>1
      <4>2. CASE x # m
        <5>1. <<m, x>> \in R
          BY <2>8, <4>2
        <5>2. x \in S /\ y \in S /\ m \in S
          BY <2>3, <2>8
        <5>3. QED
          BY <2>10, <5>1, <5>2 DEF IsStrictOrder
      <4>3. QED
        BY <4>1, <4>2
    <3>2. QED
      BY <2>2, <2>3, <3>1
  <2>11. m \in S /\ y \in S /\ m # y
    BY <2>3, <2>8
  <2>12. QED
    BY <2>9, <2>10, <2>11 DEF IsStrictOrder
<1>2. Cardinality(S) \in Nat
  BY FS_CardinalityType
<1>3. QED
  BY <1>1, <1>2

\* A finite set can be listed in a strict order of its members.
LEMMA OrderedListing ==
    ASSUME NEW R, NEW S, IsFiniteSet(S), IsStrictOrder(R, S)
    PROVE  \E s \in SetToSeqs(S) : ListedBy(R, s)
<1> DEFINE Bad == {n \in Nat : \E T \in SUBSET S : /\ IsFiniteSet(T) /\ Cardinality(T) = n
                                                  /\ \A s \in SetToSeqs(T) : ~ListedBy(R, s)}
<1>1. Bad = {}
  <2> SUFFICES ASSUME Bad # {} PROVE FALSE
    OBVIOUS
  <2>1. PICK n \in Bad : \A k \in Bad : n <= k
    <3>1. Bad \subseteq Nat
      OBVIOUS
    <3> HIDE DEF Bad
    <3>2. QED
      BY <3>1, LeastNumber
  <2>2. PICK T \in SUBSET S : /\ IsFiniteSet(T) /\ Cardinality(T) = n
                              /\ \A s \in SetToSeqs(T) : ~ListedBy(R, s)
    BY <2>1
  <2>3. n \in Nat
    BY <2>1
  <2>4. T # {}
    <3> SUFFICES ASSUME T = {} PROVE FALSE
      OBVIOUS
    <3>1. n = 0
      BY <2>2, FS_EmptySet
    <3>2. <<>> \in SetToSeqs(T)
      <4>1. 1 .. Cardinality(T) = {}
        BY <2>2, <3>1
      <4>2. <<>> \in [{} -> T]
        OBVIOUS
      <4>3. QED
        BY <4>1, <4>2 DEF SetToSeqs
    <3>3. ListedBy(R, <<>>)
      BY DEF ListedBy
    <3>4. QED
      BY <2>2, <3>2, <3>3
  <2>5. PICK m \in T : \A x \in T \ {m} : <<m, x>> \in R
    <3>1. IsStrictOrder(R, T)
      BY DEF IsStrictOrder
    <3>2. QED
      BY <2>2, <2>4, <3>1, FirstMember
  <2> DEFINE rest == T \ {m}
  <2>6. /\ IsFiniteSet(rest) /\ Cardinality(rest) = n - 1 /\ n - 1 \in Nat
        /\ rest \in SUBSET S /\ ~(n <= n - 1)
    <3>1. IsFiniteSet(rest) /\ Cardinality(rest) = n - 1
      BY <2>2, FS_RemoveElement
    <3>2. n # 0
      BY <2>2, <2>4, FS_EmptySet
    <3>3. QED
      BY <2>2, <2>3, <3>1, <3>2
  <2>7. PICK r \in SetToSeqs(rest) : ListedBy(R, r)
    <3>1. n - 1 \notin Bad
      <4> HIDE DEF Bad
      <4>1. QED
        BY <2>1, <2>6
    <3> HIDE DEF rest
    <3>2. QED
      BY <2>6, <3>1
  <2>8. /\ r \in [1 .. n - 1 -> rest]
        /\ \A i, j \in 1 .. n - 1 : i # j => r[i] # r[j]
        /\ \A i, j \in 1 .. n - 1 : i < j => <<r[i], r[j]>> \in R
    BY <2>6, <2>7 DEF SetToSeqs, ListedBy
  <2> DEFINE s == [i \in 1 .. n |-> IF i = 1 THEN m ELSE r[i - 1]]
  <2>9. \A i \in 1 .. n : i # 1 => i - 1 \in 1 .. n - 1
    BY <2>3
  <2>10. s \in [1 .. n -> T]
    BY <2>8, <2>9
  <2>11. \A i, j \in 1 .. n : i # j => s[i] # s[j]
    BY <2>3, <2>8, <2>9
  <2>12. ASSUME NEW i \in 1 .. n, NEW j \in 1 .. n, i < j
         PROVE  <<s[i], s[j]>> \in R
    <3>1. j # 1 /\ j - 1 \in 1 .. n - 1 /\ s[j] = r[j - 1]
      BY <2>3, <2>9, <2>12
    <3>2. CASE i = 1
      BY <2>5, <2>8, <3>1, <3>2
    <3>3. CASE i # 1
      <4>1. i - 1 \in 1 .. n - 1 /\ i - 1 < j - 1 /\ s[i] = r[i - 1]
        BY <2>3, <2>9, <2>12, <3>3
      <4>2. QED
        BY <2>8, <3>1, <4>1
    <3>4. QED
      BY <3>2, <3>3
  <2>13. s \in SetToSeqs(T) /\ ListedBy(R, s)
    <3>1. DOMAIN s = 1 .. n
      OBVIOUS
    <3> HIDE DEF s
    <3>2. QED
      BY <2>2, <2>10, <2>11, <2>12, <3>1 DEF SetToSeqs, ListedBy
  <2>14. QED
    BY <2>2, <2>13
<1>2. Cardinality(S) \in Nat
  BY FS_CardinalityType
<1>3. QED
  BY <1>1, <1>2

\* Levels by which a book can be sorted: no two share a price.
OnePerPrice(levels) == \A x, y \in levels : x.price = y.price => x = y

InPriceOrder(side, s) == \A i, j \in DOMAIN s : i < j => IsBetter(side, s[i], s[j])

\* sort_by: the levels, each once and best first.
LEMMA BestFirstSorts ==
    ASSUME NEW side, NEW S \in SUBSET Levels, IsFiniteSet(S), OnePerPrice(S)
    PROVE  /\ BestFirst(S, side) \in SetToSeqs(S)
           /\ InPriceOrder(side, BestFirst(S, side))
<1> DEFINE R == {pair \in S \X S : IsBetter(side, pair[1], pair[2])}
<1>1. \A x, y \in S : <<x, y>> \in R <=> IsBetter(side, x, y)
  OBVIOUS
<1>2. \A x \in S : x.price \in Nat
  BY OrderBookAssumption DEF Levels
<1>3. IsStrictOrder(R, S)
  <2> HIDE DEF R
  <2>1. \A x, y \in S : x # y => x.price # y.price
    BY DEF OnePerPrice
  <2>2. QED
    BY <1>1, <1>2, <2>1 DEF IsStrictOrder, IsBetter
<1>4. PICK s \in SetToSeqs(S) : ListedBy(R, s)
  BY <1>3, OrderedListing
<1>5. \A i \in DOMAIN s : s[i] \in S
  BY DEF SetToSeqs
<1>6. \A i, j \in DOMAIN s : i < j => IsBetter(side, s[i], s[j])
  BY <1>1, <1>4, <1>5 DEF ListedBy
<1>7. QED
  BY <1>6 DEF BestFirst, InPriceOrder

-----------------------------------------------------------------------------
\* The entries of a delta, one after the other.

\* The greatest of the numbers up to n.
LEMMA GreatestUpTo ==
    ASSUME NEW n \in Nat, NEW s \in SUBSET (1 .. n), n \in s
    PROVE  Max(s) = n
<1>1. n \in s /\ \A y \in s : n >= y
  OBVIOUS
<1>2. \A x \in s : (\A y \in s : x >= y) => x = n
  <2> SUFFICES ASSUME NEW x \in s, \A y \in s : x >= y PROVE x = n
    OBVIOUS
  <2>1. x \in 1 .. n /\ x >= n
    BY <1>1
  <2>2. QED
    BY <2>1
<1>3. QED
  BY <1>1, <1>2 DEF Max

\* The levels after each of n entries.
Folded(f, levels, entries, n) ==
    /\ f[0] = levels
    /\ \A i \in 1 .. n : f[i] = SetLevel(f[i - 1], entries[i])
    /\ SetLevels(levels, entries) = f[n]

\* Entries are processed one after the other: a delta makes of the levels what its last one
\* makes of what those before it made.
LEMMA FoldOfItems ==
    ASSUME NEW levels, NEW entries, NEW N \in Nat, DOMAIN entries = 1 .. N
    PROVE  \E f : Folded(f, levels, entries, N)
<1> DEFINE Step(g, s) == IF s = {} THEN levels
                         ELSE LET x == Max(s) IN SetLevel(g[s \ {x}], entries[x])
           Folds(g, n) == g = [s \in SUBSET (1 .. n) |-> Step(g, s)]
           Without == {n \in Nat : ~\E g : Folds(g, n)}
<1>1. Without = {}
  <2> SUFFICES ASSUME Without # {} PROVE FALSE
    OBVIOUS
  <2>1. PICK n \in Without : \A m \in Without : n <= m
    <3>1. Without \subseteq Nat
      OBVIOUS
    <3> HIDE DEF Without
    <3>2. QED
      BY <3>1, LeastNumber
  <2>2. n \in Nat /\ ~\E g : Folds(g, n)
    BY <2>1
  <2>3. n # 0
    <3> SUFFICES ASSUME n = 0 PROVE FALSE
      OBVIOUS
    <3> DEFINE g == [s \in SUBSET (1 .. n) |-> levels]
    <3>1. \A s \in SUBSET (1 .. n) : s = {}
      OBVIOUS
    <3>2. Folds(g, n)
      BY <3>1
    <3>3. QED
      BY <2>2, <3>2
  <2>4. n - 1 \in Nat /\ n - 1 \notin Without
    <3> HIDE DEF Without
    <3>1. n - 1 \in Nat /\ ~(n <= n - 1)
      BY <2>2, <2>3
    <3>2. QED
      BY <2>1, <3>1
  <2>5. PICK g : Folds(g, n - 1)
    BY <2>4
  <2> DEFINE h == [s \in SUBSET (1 .. n) |-> IF n \in s THEN SetLevel(g[s \ {n}], entries[n])
                                                        ELSE g[s]]
  <2>6. \A s \in SUBSET (1 .. n) : n \notin s => s \in SUBSET (1 .. n - 1)
    BY <2>2
  <2>7. ASSUME NEW s \in SUBSET (1 .. n) PROVE h[s] = Step(h, s)
    <3>1. CASE n \in s
      <4>1. s # {} /\ Max(s) = n
        BY <2>2, <3>1, GreatestUpTo
      <4>2. s \ {n} \in SUBSET (1 .. n) /\ n \notin s \ {n}
        OBVIOUS
      <4>3. h[s \ {n}] = g[s \ {n}]
        BY <4>2
      <4>4. h[s] = SetLevel(g[s \ {n}], entries[n])
        BY <3>1
      <4> HIDE DEF h, Folds
      <4>5. QED
        BY <4>1, <4>3, <4>4
    <3>2. CASE n \notin s
      <4>1. s \in SUBSET (1 .. n - 1)
        BY <2>6, <3>2
      <4>2. g[s] = Step(g, s)
        BY <2>5, <4>1
      <4>3. s \ {Max(s)} \in SUBSET (1 .. n) /\ n \notin s \ {Max(s)}
        BY <3>2
      <4>4. h[s \ {Max(s)}] = g[s \ {Max(s)}] /\ h[s] = g[s]
        BY <3>2, <4>3
      <4> HIDE DEF h, Folds
      <4>5. QED
        BY <4>2, <4>4
    <3>3. QED
      BY <3>1, <3>2
  <2>8. Folds(h, n)
    <3>1. h = [s \in SUBSET (1 .. n) |-> h[s]]
      OBVIOUS
    <3> HIDE DEF h, Step
    <3>2. QED
      BY <2>7, <3>1
  <2>9. QED
    BY <2>2, <2>8
<1> DEFINE iter == CHOOSE iter : iter = [s \in SUBSET (1 .. N) |->
               IF s = {} THEN levels ELSE LET x == Max(s) IN SetLevel(iter[s \ {x}], entries[x])]
<1>2. SetLevels(levels, entries) = iter[1 .. N]
  BY DEF SetLevels, FoldLeft, MapThenFoldSet
<1>3. Folds(iter, N)
  <2>1. \E g : Folds(g, N)
    BY <1>1
  <2>2. QED
    BY <2>1
<1> DEFINE f == [i \in 0 .. N |-> iter[1 .. i]]
<1> HIDE DEF iter
<1>4. f[0] = levels
  <2>1. (1 .. 0) = {} /\ {} \in SUBSET (1 .. N)
    OBVIOUS
  <2>2. iter[{}] = levels
    BY <1>3, <2>1
  <2>3. QED
    BY <2>1, <2>2
<1>5. ASSUME NEW i \in 1 .. N PROVE f[i] = SetLevel(f[i - 1], entries[i])
  <2>1. /\ i \in Nat /\ (1 .. i) \in SUBSET (1 .. N) /\ i \in 1 .. i
        /\ (1 .. i) # {} /\ (1 .. i) \ {i} = 1 .. i - 1
    OBVIOUS
  <2>2. Max(1 .. i) = i
    BY <2>1, GreatestUpTo
  <2>3. iter[1 .. i] = SetLevel(iter[1 .. i - 1], entries[i])
    BY <1>3, <2>1, <2>2
  <2>4. i \in 0 .. N /\ i - 1 \in 0 .. N
    OBVIOUS
  <2>5. QED
    BY <2>3, <2>4
<1>6. N \in 0 .. N /\ f[N] = iter[1 .. N]
  OBVIOUS
<1> HIDE DEF f
<1>7. Folded(f, levels, entries, N)
  BY <1>2, <1>4, <1>5, <1>6 DEF Folded
<1>8. QED
  BY <1>7

\* What one entry makes of the levels, as sets.
LEMMA SetLevelSets ==
    ASSUME NEW levels \in Seq(Levels), NEW item \in Levels
    PROVE  /\ SetLevel(levels, item) \in Seq(Levels)
           /\ ToSet(SetLevel(levels, item))
                  = {x \in ToSet(levels) : x.price # item.price} \cup {item}
<1>1. CASE \E i \in DOMAIN levels : levels[i].price = item.price
  <2> DEFINE after == [i \in DOMAIN levels |->
                           IF levels[i].price = item.price THEN item ELSE levels[i]]
  <2>1. SetLevel(levels, item) = after
    BY <1>1 DEF SetLevel
  <2>2. DOMAIN levels = 1 .. Len(levels) /\ Len(levels) \in Nat
    BY LenProperties
  <2>3. \A i \in DOMAIN levels : levels[i] \in Levels
    BY <2>2, ElementOfSeq
  <2>4. after \in Seq(Levels)
    <3>1. after \in [1 .. Len(levels) -> Levels]
      BY <2>2, <2>3
    <3> HIDE DEF after
    <3>2. QED
      BY <2>2, <3>1
  <2>5. ToSet(after) = {x \in ToSet(levels) : x.price # item.price} \cup {item}
    BY <1>1 DEF ToSet
  <2>6. QED
    BY <2>1, <2>4, <2>5
<1>2. CASE ~\E i \in DOMAIN levels : levels[i].price = item.price
  <2>1. SetLevel(levels, item) = Append(levels, item)
    BY <1>2 DEF SetLevel
  <2>2. /\ Append(levels, item) \in Seq(Levels)
        /\ DOMAIN levels = 1 .. Len(levels) /\ Len(levels) \in Nat
        /\ DOMAIN Append(levels, item) = 1 .. Len(levels) + 1
        /\ \A i \in 1 .. Len(levels) : Append(levels, item)[i] = levels[i]
        /\ Append(levels, item)[Len(levels) + 1] = item
    BY LenProperties, AppendProperties
  <2>3. ToSet(Append(levels, item)) = ToSet(levels) \cup {item}
    <3>1. \A i \in 1 .. Len(levels) + 1 : i \in 1 .. Len(levels) \/ i = Len(levels) + 1
      BY <2>2
    <3>2. \A i \in 1 .. Len(levels) : i \in 1 .. Len(levels) + 1
      BY <2>2
    <3>3. Len(levels) + 1 \in 1 .. Len(levels) + 1
      BY <2>2
    <3>4. QED
      BY <2>2, <3>1, <3>2, <3>3 DEF ToSet
  <2>4. {x \in ToSet(levels) : x.price # item.price} = ToSet(levels)
    BY <1>2 DEF ToSet
  <2>5. QED
    BY <2>1, <2>2, <2>3, <2>4
<1>3. QED
  BY <1>1, <1>2

\* No two entries of a delta are about one price.
ItemsApart(entries) == \A i, j \in DOMAIN entries : entries[i].price = entries[j].price => i = j

\* What all entries of a delta make of the levels.
LEMMA FoldSets ==
    ASSUME NEW levels \in Seq(Levels), NEW entries \in Seq(Levels), ItemsApart(entries)
    PROVE  /\ SetLevels(levels, entries) \in Seq(Levels)
           /\ ToSet(SetLevels(levels, entries))
                  = {x \in ToSet(levels) : \A i \in DOMAIN entries : entries[i].price # x.price}
                        \cup ToSet(entries)
<1> DEFINE N == Len(entries)
<1>1. N \in Nat /\ DOMAIN entries = 1 .. N /\ \A i \in 1 .. N : entries[i] \in Levels
  BY LenProperties, ElementOfSeq
<1> HIDE DEF N
<1>2. PICK f : Folded(f, levels, entries, N)
  BY <1>1, FoldOfItems
<1> DEFINE Good(i) == /\ f[i] \in Seq(Levels)
                      /\ ToSet(f[i])
                           = {x \in ToSet(levels) : \A j \in 1 .. i : entries[j].price # x.price}
                                 \cup {entries[j] : j \in 1 .. i}
           Bad == {i \in 0 .. N : ~Good(i)}
<1>3. Bad = {}
  <2> SUFFICES ASSUME Bad # {} PROVE FALSE
    OBVIOUS
  <2>1. PICK n \in Bad : \A m \in Bad : n <= m
    <3>1. Bad \subseteq Nat
      BY <1>1
    <3> HIDE DEF Bad
    <3>2. QED
      BY <3>1, LeastNumber
  <2>2. n \in 0 .. N /\ ~Good(n)
    BY <2>1
  <2>3. n # 0
    <3>1. (1 .. 0) = {}
      OBVIOUS
    <3>2. Good(0)
      BY <1>2, <3>1 DEF Folded
    <3>3. QED
      BY <2>2, <3>2
  <2>4. n - 1 \in 0 .. N /\ n \in 1 .. N /\ ~(n <= n - 1)
    BY <1>1, <2>2, <2>3
  <2>5. Good(n - 1)
    <3>1. n - 1 \notin Bad
      <4> HIDE DEF Bad
      <4>1. QED
        BY <2>1, <2>4
    <3>2. QED
      BY <2>4, <3>1
  <2>6. /\ f[n] \in Seq(Levels)
        /\ ToSet(f[n]) = {x \in ToSet(f[n - 1]) : x.price # entries[n].price} \cup {entries[n]}
    <3>1. f[n - 1] \in Seq(Levels) /\ entries[n] \in Levels
      BY <1>1, <2>4, <2>5
    <3>2. f[n] = SetLevel(f[n - 1], entries[n])
      BY <1>2, <2>4 DEF Folded
    <3>3. /\ SetLevel(f[n - 1], entries[n]) \in Seq(Levels)
          /\ ToSet(SetLevel(f[n - 1], entries[n]))
                 = {x \in ToSet(f[n - 1]) : x.price # entries[n].price} \cup {entries[n]}
      BY <3>1, SetLevelSets
    <3>4. QED
      BY <3>2, <3>3
  <2>7. 1 .. n = (1 .. n - 1) \cup {n} /\ n \notin 1 .. n - 1
    BY <1>1, <2>4
  <2>8. \A j \in 1 .. n - 1 : entries[j].price # entries[n].price
    <3>1. \A j \in 1 .. n - 1 : j \in DOMAIN entries /\ j # n /\ n \in DOMAIN entries
      BY <1>1, <2>4
    <3>2. QED
      BY <3>1 DEF ItemsApart
  <2>9. Good(n)
    <3> DEFINE before == {entries[j] : j \in 1 .. n - 1}
               kept == {x \in ToSet(levels) : \A j \in 1 .. n - 1 : entries[j].price # x.price}
    <3>1. ToSet(f[n - 1]) = kept \cup before
      BY <2>5
    <3>2. {entries[j] : j \in 1 .. n} = before \cup {entries[n]}
      BY <2>7
    <3>3. {x \in ToSet(levels) : \A j \in 1 .. n : entries[j].price # x.price}
              = {x \in kept : x.price # entries[n].price}
      BY <2>7
    <3>4. {x \in before : x.price # entries[n].price} = before
      BY <2>8
    <3> HIDE DEF before, kept
    <3>5. QED
      BY <2>6, <3>1, <3>2, <3>3, <3>4
  <2>10. QED
    BY <2>2, <2>9
<1>4. Good(N)
  <2>1. N \in 0 .. N
    BY <1>1
  <2>2. QED
    BY <1>3, <2>1
<1>5. {entries[j] : j \in 1 .. N} = ToSet(entries)
  BY <1>1 DEF ToSet
<1>6. QED
  BY <1>1, <1>2, <1>4, <1>5 DEF Folded


-----------------------------------------------------------------------------
\* The sides of a book.

SizesOf == [Prices -> Sizes \cup {0}]

\* The levels a side of these sizes has.
Offers(sizes) == {Level(p, sizes[p]) : p \in {q \in Prices : sizes[q] > 0}}

\* These levels are a side of these sizes, best first.
IsSide(side, levels, sizes) ==
    /\ levels \in Seq(Levels)
    /\ InPriceOrder(side, levels)
    /\ ToSet(levels) = Offers(sizes)

\* The entries name what is different.
Changed(before, entries, after) ==
    \A p \in Prices :
        \/ \E i \in DOMAIN entries : entries[i].price = p /\ after[p] = entries[i].size
        \/ (\A i \in DOMAIN entries : entries[i].price # p) /\ after[p] = before[p]

\* Sizes are natural numbers, and so is that of a price nobody offers at.
LEMMA SizesAreNumbers ==
    ASSUME NEW sizes \in SizesOf, NEW p \in Prices
    PROVE  sizes[p] \in Nat
<1>1. \A size \in Sizes \cup {0} : size \in Nat
  BY OrderBookAssumption
<1>2. sizes[p] \in Sizes \cup {0}
  BY DEF SizesOf
<1>3. QED
  BY <1>1, <1>2

\* The levels of a side are finitely many, each of a price of its own.
LEMMA OffersAreLevels ==
    ASSUME NEW sizes \in SizesOf
    PROVE  /\ Offers(sizes) \in SUBSET Levels
           /\ OnePerPrice(Offers(sizes))
           /\ IsFiniteSet(Offers(sizes))
<1> DEFINE used == {q \in Prices : sizes[q] > 0}
           offer == [p \in used |-> Level(p, sizes[p])]
<1>1. Offers(sizes) \in SUBSET Levels /\ OnePerPrice(Offers(sizes))
  BY DEF Offers, Levels, Level, OnePerPrice, SizesOf
<1>2. IsFiniteSet(used)
  BY OrderBookAssumption, FS_Subset
<1>3. offer \in Surjection(used, Offers(sizes))
  BY DEF Surjection, Offers
<1>4. QED
  BY <1>1, <1>2, <1>3, FS_Surjection

\* Levels listed best first are a side.
LEMMA BestFirstIsSide ==
    ASSUME NEW side, NEW sizes \in SizesOf
    PROVE  IsSide(side, BestFirst(Offers(sizes), side), sizes)
<1> DEFINE s == BestFirst(Offers(sizes), side)
<1>1. s \in SetToSeqs(Offers(sizes)) /\ InPriceOrder(side, s)
  BY OffersAreLevels, BestFirstSorts
<1>2. /\ s \in Seq(Offers(sizes))
      /\ \A x \in Offers(sizes) : \E i \in DOMAIN s : s[i] = x
  BY <1>1, OffersAreLevels, ListingNamesAll
<1>3. s \in Seq(Levels)
  BY <1>2, OffersAreLevels, SeqMonotonic
<1>4. \A i \in DOMAIN s : s[i] \in Offers(sizes)
  BY <1>2, ElementOfSeq, LenProperties
<1>5. ToSet(s) = Offers(sizes)
  BY <1>2, <1>4 DEF ToSet
<1>6. QED
  BY <1>1, <1>3, <1>5 DEF IsSide

\* process_delta: of a side it makes the side of the changed sizes.
LEMMA DeltaMakesSide ==
    ASSUME NEW side, NEW before \in SizesOf, NEW after \in SizesOf,
           NEW levels, IsSide(side, levels, before),
           NEW entries \in Seq(Levels), ItemsApart(entries), Changed(before, entries, after)
    PROVE  IsSide(side, ProcessDelta(levels, entries, side), after)
<1>1. ToSet(SetLevels(levels, entries))
          = {x \in Offers(before) : \A i \in DOMAIN entries : entries[i].price # x.price}
                \cup ToSet(entries)
  BY FoldSets DEF IsSide
<1>2. \A i \in DOMAIN entries : entries[i] \in Levels
  BY ElementOfSeq, LenProperties
<1>3. \A p \in Prices : after[p] \in Nat /\ before[p] \in Nat
  BY SizesAreNumbers
<1>4. RetainNonEmpty(SetLevels(levels, entries)) = Offers(after)
  <2>1. ASSUME NEW x \in RetainNonEmpty(SetLevels(levels, entries)) PROVE x \in Offers(after)
    <3>1. x \in ToSet(SetLevels(levels, entries)) /\ x.size # 0
      BY DEF RetainNonEmpty
    <3>2. CASE x \in Offers(before) /\ \A i \in DOMAIN entries : entries[i].price # x.price
      <4>1. PICK p \in Prices : before[p] > 0 /\ x = Level(p, before[p])
        BY <3>2 DEF Offers
      <4>2. x.price = p
        BY <4>1 DEF Level
      <4>3. after[p] = before[p]
        BY <3>2, <4>2 DEF Changed
      <4>4. QED
        BY <4>1, <4>3 DEF Offers
    <3>3. CASE x \in ToSet(entries)
      <4>1. PICK i \in DOMAIN entries : x = entries[i]
        BY <3>3 DEF ToSet
      <4>2. x \in Levels /\ x.price \in Prices
        BY <1>2, <4>1 DEF Levels
      <4>3. PICK j \in DOMAIN entries : entries[j].price = x.price /\ after[x.price] = entries[j].size
        BY <4>1, <4>2 DEF Changed
      <4>4. after[x.price] = x.size
        BY <4>1, <4>3 DEF ItemsApart
      <4>5. x = Level(x.price, after[x.price])
        BY <4>2, <4>4 DEF Levels, Level
      <4>6. after[x.price] > 0
        BY <1>3, <3>1, <4>2, <4>4
      <4>7. QED
        BY <4>2, <4>5, <4>6 DEF Offers
    <3>4. QED
      BY <1>1, <3>1, <3>2, <3>3
  <2>2. ASSUME NEW p \in Prices, after[p] > 0
        PROVE  Level(p, after[p]) \in RetainNonEmpty(SetLevels(levels, entries))
    <3>1. Level(p, after[p]).size # 0 /\ Level(p, after[p]).price = p
      BY <1>3, <2>2 DEF Level
    <3>2. CASE \E i \in DOMAIN entries : entries[i].price = p /\ after[p] = entries[i].size
      <4>1. PICK i \in DOMAIN entries : entries[i].price = p /\ after[p] = entries[i].size
        BY <3>2
      <4>2. entries[i] = Level(p, after[p])
        BY <1>2, <4>1 DEF Levels, Level
      <4>3. Level(p, after[p]) \in ToSet(entries)
        BY <4>2 DEF ToSet
      <4>4. QED
        BY <1>1, <3>1, <4>3 DEF RetainNonEmpty
    <3>3. CASE (\A i \in DOMAIN entries : entries[i].price # p) /\ after[p] = before[p]
      <4>1. Level(p, after[p]) \in Offers(before)
        BY <2>2, <3>3 DEF Offers
      <4>2. QED
        BY <1>1, <3>1, <3>3, <4>1 DEF RetainNonEmpty
    <3>4. QED
      BY <3>2, <3>3 DEF Changed
  <2>3. Offers(after) \subseteq RetainNonEmpty(SetLevels(levels, entries))
    BY <2>2 DEF Offers
  <2>4. QED
    BY <2>1, <2>3
<1>5. ProcessDelta(levels, entries, side) = BestFirst(Offers(after), side)
  BY <1>4 DEF ProcessDelta, SortByPrice
<1>6. QED
  BY <1>5, BestFirstIsSide

\* However a delta lists the prices of a side that changed, it names what is different.
LEMMA ListingChanges ==
    ASSUME NEW before \in SizesOf, NEW prices \in SUBSET Prices,
           NEW sizes \in [prices -> Sizes \cup {0}], NEW entries \in Listings(sizes, prices)
    PROVE  /\ entries \in Seq(Levels)
           /\ ItemsApart(entries)
           /\ Override(before, sizes) \in SizesOf
           /\ Changed(before, entries, Override(before, sizes))
<1>1. PICK s \in SetToSeqs(prices) : entries = [i \in DOMAIN s |-> Level(s[i], sizes[s[i]])]
  BY DEF Listings
<1>2. IsFiniteSet(prices)
  BY OrderBookAssumption, FS_Subset
<1>3. /\ s \in Seq(prices) /\ Cardinality(prices) \in Nat
      /\ DOMAIN s = 1 .. Cardinality(prices)
      /\ \A x \in prices : \E i \in DOMAIN s : s[i] = x
      /\ \A i, j \in DOMAIN s : s[i] = s[j] => i = j
  BY <1>2, ListingNamesAll
<1>4. \A i \in DOMAIN s : s[i] \in prices
  BY <1>3, ElementOfSeq, LenProperties
<1>5. /\ DOMAIN entries = DOMAIN s
      /\ \A i \in DOMAIN s : entries[i].price = s[i] /\ entries[i].size = sizes[s[i]]
  BY <1>1 DEF Level
<1>6. entries \in Seq(Levels)
  <2>1. \A i \in DOMAIN s : Level(s[i], sizes[s[i]]) \in Levels
    BY <1>4 DEF Level, Levels
  <2>2. entries \in [1 .. Cardinality(prices) -> Levels]
    BY <1>1, <1>3, <2>1
  <2>3. QED
    BY <1>3, <2>2
<1>7. ItemsApart(entries)
  BY <1>3, <1>5 DEF ItemsApart
<1>8. Override(before, sizes) \in SizesOf
  BY DEF Override, SizesOf
<1>9. Changed(before, entries, Override(before, sizes))
  <2> SUFFICES ASSUME NEW p \in Prices
               PROVE  \/ \E i \in DOMAIN entries : /\ entries[i].price = p
                                                /\ Override(before, sizes)[p] = entries[i].size
                      \/ /\ \A i \in DOMAIN entries : entries[i].price # p
                         /\ Override(before, sizes)[p] = before[p]
    BY DEF Changed
  <2>1. CASE p \in prices
    <3>1. PICK i \in DOMAIN s : s[i] = p
      BY <1>3, <2>1
    <3>2. Override(before, sizes)[p] = sizes[p]
      BY <2>1 DEF Override
    <3>3. QED
      BY <1>5, <3>1, <3>2
  <2>2. CASE p \notin prices
    <3>1. Override(before, sizes)[p] = before[p]
      BY <2>2 DEF Override
    <3>2. \A i \in DOMAIN entries : entries[i].price # p
      BY <1>4, <1>5, <2>2
    <3>3. QED
      BY <3>1, <3>2
  <2>3. QED
    BY <2>1, <2>2
<1>10. QED
  BY <1>6, <1>7, <1>8, <1>9

\* What a side offers at a price.
LEMMA SizeOfSide ==
    ASSUME NEW side, NEW levels, NEW sizes \in SizesOf, IsSide(side, levels, sizes),
           NEW p \in Prices
    PROVE  SizeAt(levels, p) = sizes[p]
<1>1. \A i \in DOMAIN levels : levels[i] \in Offers(sizes)
  BY DEF IsSide, ToSet
<1>2. \A x \in Offers(sizes) : \E i \in DOMAIN levels : levels[i] = x
  BY DEF IsSide, ToSet
<1>3. \A x \in Offers(sizes) : x.size = sizes[x.price] /\ x.size > 0
  BY DEF Offers, Level
<1>4. CASE \E i \in DOMAIN levels : levels[i].price = p
  <2> DEFINE k == CHOOSE i \in DOMAIN levels : levels[i].price = p
  <2>1. k \in DOMAIN levels /\ levels[k].price = p
    BY <1>4
  <2>2. SizeAt(levels, p) = levels[k].size
    BY <1>4 DEF SizeAt
  <2> HIDE DEF k
  <2>3. QED
    BY <1>1, <1>3, <2>1, <2>2
<1>5. CASE ~\E i \in DOMAIN levels : levels[i].price = p
  <2>1. SizeAt(levels, p) = 0
    BY <1>5 DEF SizeAt
  <2>2. ~(sizes[p] > 0)
    <3> SUFFICES ASSUME sizes[p] > 0 PROVE FALSE
      OBVIOUS
    <3>1. Level(p, sizes[p]) \in Offers(sizes) /\ Level(p, sizes[p]).price = p
      BY DEF Offers, Level
    <3>2. QED
      BY <1>2, <1>5, <3>1
  <2>3. sizes[p] \in Nat
    BY SizesAreNumbers
  <2>4. QED
    BY <2>1, <2>2, <2>3
<1>6. QED
  BY <1>4, <1>5


-----------------------------------------------------------------------------
\* The invariant: the messages under way lead from the local book to the book of the
\* exchange, through books the exchange has had.

\* This book of the websocket thread is that of the exchange.
IsBookOf(book, xbook) ==
    /\ IsSide("bids", book.bids, xbook["bids"])
    /\ IsSide("asks", book.asks, xbook["asks"])

\* What the message says of the books of the exchange before and after it.
Takes(message, before, after) ==
    IF IsSnapshot(message)
    THEN /\ IsSide("bids", message.b, after["bids"])
         /\ IsSide("asks", message.a, after["asks"])
    ELSE /\ ItemsApart(message.b) /\ Changed(before["bids"], message.b, after["bids"])
         /\ ItemsApart(message.a) /\ Changed(before["asks"], message.a, after["asks"])

\* The books of the exchange that the messages under way lead through.
LeadsThrough(books) ==
    /\ IsBookOf(order_book, books[0])
    /\ books[Len(feed)] = depth
    /\ \A i \in 1 .. Len(feed) : Takes(feed[i], books[i - 1], books[i])

FeedLeads == \E books \in [0 .. Len(feed) -> XBooks] : LeadsThrough(books)

\* The book a reader gets is one an exchange can have.
IsGenuine(book) == book \in BooksOfLevels /\ \E xbook \in XBooks : IsBookOf(book, xbook)

\* Where the latest book is, as far as the websocket thread has got.
LatestBook ==
    /\ book_step \in {"record", "receive"} => published = order_book
    /\ book_step = "receive" => IF recorder_queue = <<>> THEN recorder_ts = order_book.cts
                                                     ELSE Head(recorder_queue) = order_book

BookInv ==
    /\ BookTypeOK
    /\ FeedLeads
    /\ \A book \in {published} \cup ToSet(recorder_queue) : IsGenuine(book)
    /\ LatestBook

\* The empty book is that of an exchange nobody has an order at.
LEMMA InitBook == BookInit => BookInv
<1> SUFFICES ASSUME BookInit PROVE BookInv
  OBVIOUS
<1>1. Offers([p \in Prices |-> 0]) = {}
  BY DEF Offers
<1>2. IsSide("bids", <<>>, [p \in Prices |-> 0]) /\ IsSide("asks", <<>>, [p \in Prices |-> 0])
  BY <1>1 DEF IsSide, InPriceOrder, ToSet
<1>3. depth \in XBooks
  BY DEF BookInit, XBooks, Uncrossed, BookSides
<1>4. IsBookOf(EmptyBook, depth)
  BY <1>2 DEF BookInit, IsBookOf, EmptyBook, BookSides
<1>5. EmptyBook \in BooksOfLevels
  BY DEF EmptyBook, BooksOfLevels
<1>6. BookTypeOK
  BY <1>3, <1>5 DEF BookInit, BookTypeOK, XBooks
<1>7. FeedLeads
  <2> DEFINE books == [i \in 0 .. 0 |-> depth]
  <2>1. feed = <<>> /\ order_book = EmptyBook /\ Len(feed) = 0
    BY DEF BookInit
  <2>2. books \in [0 .. Len(feed) -> XBooks]
    BY <1>3, <2>1
  <2>3. LeadsThrough(books)
    BY <1>4, <2>1 DEF LeadsThrough
  <2>4. QED
    BY <2>2, <2>3 DEF FeedLeads
<1>8. \A book \in {published} \cup ToSet(recorder_queue) : IsGenuine(book)
  BY <1>3, <1>4, <1>5 DEF BookInit, IsGenuine, ToSet
<1>9. LatestBook
  BY DEF BookInit, LatestBook, EmptyBook
<1>10. QED
  BY <1>6, <1>7, <1>8, <1>9 DEF BookInv

\* The exchange sends what takes its last book to the new one.
LEMMA SentLeads ==
    ASSUME BookInv, NEW message \in Messages, NEW after \in XBooks,
           Takes(message, depth, after), Send(message), depth' = after,
           UNCHANGED <<order_book, book_step, published, recorder_queue, readers>>
    PROVE  BookInv'
<1>1. PICK books \in [0 .. Len(feed) -> XBooks] : LeadsThrough(books)
  BY DEF BookInv, FeedLeads
<1> DEFINE n == Len(feed)
           longer == [i \in 0 .. n + 1 |-> IF i = n + 1 THEN after ELSE books[i]]
<1>2. /\ feed \in Seq(Messages) /\ feed' = Append(feed, message)
      /\ n \in Nat /\ Len(feed') = n + 1 /\ feed' \in Seq(Messages)
      /\ \A i \in 1 .. n : feed'[i] = feed[i]
      /\ feed'[n + 1] = message
  BY LenProperties, AppendProperties DEF BookInv, BookTypeOK, Send
<1> HIDE DEF n
<1>3. longer \in [0 .. n + 1 -> XBooks]
  <2>1. \A i \in 0 .. n + 1 : i # n + 1 => i \in 0 .. n
    BY <1>2
  <2>2. \A i \in 0 .. n : books[i] \in XBooks
    BY <1>1 DEF n
  <2>3. QED
    BY <2>1, <2>2
<1>4. longer[0] = books[0] /\ longer[n + 1] = after /\ books[n] = depth
  BY <1>1, <1>2 DEF LeadsThrough, n
<1>5. ASSUME NEW i \in 1 .. n + 1 PROVE Takes(feed'[i], longer[i - 1], longer[i])
  <2>1. CASE i = n + 1
    <3>1. i - 1 = n /\ n \in 0 .. n + 1 /\ n # n + 1
      BY <1>2, <2>1
    <3>2. longer[i - 1] = depth /\ longer[i] = after /\ feed'[i] = message
      BY <1>2, <1>4, <2>1, <3>1
    <3>3. QED
      BY <3>2
  <2>2. CASE i # n + 1
    <3>1. i \in 1 .. n /\ i - 1 \in 0 .. n + 1 /\ i - 1 # n + 1 /\ i \in 0 .. n + 1
      BY <1>2, <2>2
    <3>2. longer[i - 1] = books[i - 1] /\ longer[i] = books[i] /\ feed'[i] = feed[i]
      BY <1>2, <2>2, <3>1
    <3>3. QED
      BY <1>1, <3>1, <3>2 DEF LeadsThrough, n
  <2>3. QED
    BY <2>1, <2>2
<1>6. IsBookOf(order_book', longer[0])
  BY <1>1, <1>4 DEF LeadsThrough, IsBookOf
<1>7. FeedLeads'
  <2> HIDE DEF longer
  <2>1. \A i \in 1 .. Len(feed') : Takes(feed'[i], longer[i - 1], longer[i])
    BY <1>2, <1>5
  <2>2. longer[Len(feed')] = depth'
    BY <1>2, <1>4
  <2>3. longer \in [0 .. Len(feed') -> XBooks]
    BY <1>2, <1>3
  <2>4. QED
    BY <1>6, <2>1, <2>2, <2>3 DEF FeedLeads, LeadsThrough, Takes, IsSnapshot
<1>8. BookTypeOK'
  <2>1. clock' \in Nat
    BY DEF BookInv, BookTypeOK, Send
  <2>2. QED
    BY <1>2, <2>1 DEF BookInv, BookTypeOK, XBooks, readers
<1>9. LatestBook' /\ \A book \in ({published} \cup ToSet(recorder_queue))' : IsGenuine(book)'
  BY DEF BookInv, LatestBook, IsGenuine, IsBookOf, readers
<1>10. QED
  BY <1>2, <1>7, <1>8, <1>9 DEF BookInv

\* A delta says what is different.
LEMMA SendDeltaBook ==
    ASSUME BookInv, NEW bids \in SUBSET Prices, NEW asks \in SUBSET Prices,
           SendDelta(bids, asks)
    PROVE  BookInv'
<1>1. PICK b \in [bids -> Sizes \cup {0}], a \in [asks -> Sizes \cup {0}] :
          LET after == [depth EXCEPT !["bids"] = Override(@, b), !["asks"] = Override(@, a)]
          IN /\ Uncrossed(after)
             /\ depth' = after
             /\ \E lb \in Listings(b, bids), la \in Listings(a, asks) :
                    Send([type |-> "delta", u |-> 2, b |-> lb, a |-> la, ts |-> clock + 1])
  BY DEF SendDelta
<1>2. PICK lb \in Listings(b, bids), la \in Listings(a, asks) :
          Send([type |-> "delta", u |-> 2, b |-> lb, a |-> la, ts |-> clock + 1])
  BY <1>1
<1> DEFINE message == [type |-> "delta", u |-> 2, b |-> lb, a |-> la, ts |-> clock + 1]
           after == [depth EXCEPT !["bids"] = Override(@, b), !["asks"] = Override(@, a)]
<1>3. depth \in [BookSides -> SizesOf] /\ clock \in Nat
  BY DEF BookInv, BookTypeOK, SizesOf
<1>4. depth["bids"] \in SizesOf /\ depth["asks"] \in SizesOf
  BY <1>3 DEF BookSides
<1>5. /\ after["bids"] = Override(depth["bids"], b)
      /\ after["asks"] = Override(depth["asks"], a)
      /\ DOMAIN after = BookSides
  BY <1>3 DEF BookSides
<1>6. /\ lb \in Seq(Levels) /\ ItemsApart(lb)
      /\ Override(depth["bids"], b) \in SizesOf
      /\ Changed(depth["bids"], lb, Override(depth["bids"], b))
  BY <1>4, ListingChanges
<1>7. /\ la \in Seq(Levels) /\ ItemsApart(la)
      /\ Override(depth["asks"], a) \in SizesOf
      /\ Changed(depth["asks"], la, Override(depth["asks"], a))
  BY <1>4, ListingChanges
<1>8. after \in XBooks
  <2>1. after \in [BookSides -> SizesOf]
    BY <1>3, <1>6, <1>7 DEF BookSides
  <2>2. QED
    BY <1>1, <2>1 DEF XBooks, SizesOf
<1>9. message \in Messages /\ ~IsSnapshot(message)
  BY <1>3, <1>6, <1>7 DEF Messages, IsSnapshot
<1>10. message.b = lb /\ message.a = la
  OBVIOUS
<1>11. Takes(message, depth, after)
  <2> HIDE DEF message, after
  <2>1. QED
    BY <1>5, <1>6, <1>7, <1>9, <1>10 DEF Takes
<1>12. depth' = after /\ Send(message)
  BY <1>1, <1>2
<1> HIDE DEF message, after
<1>13. QED
  BY <1>8, <1>9, <1>11, <1>12, SentLeads DEF SendDelta

\* A snapshot says everything.
LEMMA SendSnapshotBook ==
    ASSUME BookInv, NEW type \in {"snapshot", "delta"}, NEW u \in {1, 2},
           SendSnapshot(type, u)
    PROVE  BookInv'
<1>1. PICK book \in XBooks :
          /\ depth' = book
          /\ Send([type |-> type, u |-> u, b |-> Sorted("bids", book["bids"]),
                   a |-> Sorted("asks", book["asks"]), ts |-> clock + 1])
  BY DEF SendSnapshot
<1> DEFINE message == [type |-> type, u |-> u, b |-> Sorted("bids", book["bids"]),
                       a |-> Sorted("asks", book["asks"]), ts |-> clock + 1]
<1>2. book["bids"] \in SizesOf /\ book["asks"] \in SizesOf /\ clock \in Nat
  BY DEF XBooks, SizesOf, BookSides, BookInv, BookTypeOK
<1>3. /\ IsSide("bids", Sorted("bids", book["bids"]), book["bids"])
      /\ IsSide("asks", Sorted("asks", book["asks"]), book["asks"])
  BY <1>2, BestFirstIsSide DEF Sorted, Offers
<1>4. message \in Messages
  BY <1>2, <1>3 DEF Messages, IsSide
<1>5. /\ message.b = Sorted("bids", book["bids"]) /\ message.a = Sorted("asks", book["asks"])
      /\ IsSnapshot(message)
  BY DEF SendSnapshot, IsSnapshot
<1> HIDE DEF message
<1>6. Takes(message, depth, book)
  BY <1>3, <1>5 DEF Takes
<1>7. Send(message)
  BY <1>1 DEF message
<1>8. QED
  BY <1>1, <1>4, <1>6, <1>7, SentLeads DEF SendSnapshot

\* process_orderbook_response: the book of the exchange becomes the next one.
LEMMA UpdateOrderBookBook ==
    ASSUME BookInv, UpdateOrderBook
    PROVE  BookInv'
<1>1. PICK books \in [0 .. Len(feed) -> XBooks] : LeadsThrough(books)
  BY DEF BookInv, FeedLeads
<1> DEFINE n == Len(feed)
           message == Head(feed)
           rest == [i \in 0 .. n - 1 |-> books[i + 1]]
<1>2. /\ feed \in Seq(Messages) /\ feed # <<>> /\ n \in Nat /\ n >= 1
      /\ feed' = Tail(feed) /\ feed' \in Seq(Messages) /\ Len(feed') = n - 1
      /\ message = feed[1] /\ message \in Messages
      /\ \A i \in 1 .. n - 1 : feed'[i] = feed[i + 1]
  BY HeadTailProperties, LenProperties, EmptySeq DEF BookInv, BookTypeOK, UpdateOrderBook
<1>3. order_book' = [bids |-> Updated("bids", message.b, message),
                     asks |-> Updated("asks", message.a, message), cts |-> message.ts]
  BY DEF UpdateOrderBook
<1>4. /\ books[0] \in XBooks /\ books[1] \in XBooks
      /\ IsBookOf(order_book, books[0]) /\ Takes(message, books[0], books[1])
  <2>1. 0 \in 0 .. n /\ 1 \in 0 .. n /\ 1 \in 1 .. n /\ 1 - 1 = 0
    BY <1>2
  <2>2. QED
    BY <1>1, <1>2, <2>1 DEF LeadsThrough
<1> HIDE DEF n, message
<1>5. \A side \in BookSides : books[0][side] \in SizesOf /\ books[1][side] \in SizesOf
  BY <1>4 DEF XBooks, SizesOf
<1>6. message.b \in Seq(Levels) /\ message.a \in Seq(Levels) /\ message.ts \in Nat
  BY <1>2 DEF Messages
<1>7. IsSide("bids", Updated("bids", message.b, message), books[1]["bids"])
  <2>1. CASE IsSnapshot(message)
    BY <1>4, <2>1 DEF Takes, Updated
  <2>2. CASE ~IsSnapshot(message)
    <3>1. "bids" \in BookSides
      BY DEF BookSides
    <3>2. IsSide("bids", order_book.bids, books[0]["bids"]) /\ order_book["bids"] = order_book.bids
      BY <1>4 DEF IsBookOf
    <3>3. ItemsApart(message.b) /\ Changed(books[0]["bids"], message.b, books[1]["bids"])
      BY <1>4, <2>2 DEF Takes
    <3>4. IsSide("bids", ProcessDelta(order_book.bids, message.b, "bids"), books[1]["bids"])
      BY <1>5, <1>6, <3>1, <3>2, <3>3, DeltaMakesSide
    <3>5. QED
      BY <2>2, <3>2, <3>4 DEF Updated
  <2>3. QED
    BY <2>1, <2>2
<1>8. IsSide("asks", Updated("asks", message.a, message), books[1]["asks"])
  <2>1. CASE IsSnapshot(message)
    BY <1>4, <2>1 DEF Takes, Updated
  <2>2. CASE ~IsSnapshot(message)
    <3>1. "asks" \in BookSides
      BY DEF BookSides
    <3>2. IsSide("asks", order_book.asks, books[0]["asks"]) /\ order_book["asks"] = order_book.asks
      BY <1>4 DEF IsBookOf
    <3>3. ItemsApart(message.a) /\ Changed(books[0]["asks"], message.a, books[1]["asks"])
      BY <1>4, <2>2 DEF Takes
    <3>4. IsSide("asks", ProcessDelta(order_book.asks, message.a, "asks"), books[1]["asks"])
      BY <1>5, <1>6, <3>1, <3>2, <3>3, DeltaMakesSide
    <3>5. QED
      BY <2>2, <3>2, <3>4 DEF Updated
  <2>3. QED
    BY <2>1, <2>2
<1>9. IsBookOf(order_book', books[1]) /\ order_book' \in BooksOfLevels
  BY <1>3, <1>6, <1>7, <1>8 DEF IsBookOf, BooksOfLevels, IsSide
<1>10. rest \in [0 .. n - 1 -> XBooks]
  <2>1. \A i \in 0 .. n - 1 : i + 1 \in 0 .. Len(feed)
    BY <1>2 DEF n
  <2>2. QED
    BY <2>1
<1>11. FeedLeads'
  <2>1. rest[0] = books[1] /\ rest[n - 1] = books[n]
    BY <1>2
  <2>2. ASSUME NEW i \in 1 .. n - 1 PROVE Takes(feed'[i], rest[i - 1], rest[i])
    <3>1. /\ i - 1 \in 0 .. n - 1 /\ i \in 0 .. n - 1 /\ i + 1 \in 1 .. n
          /\ i - 1 + 1 = i /\ i + 1 - 1 = i
      BY <1>2
    <3>2. rest[i - 1] = books[i] /\ rest[i] = books[i + 1] /\ feed'[i] = feed[i + 1]
      BY <1>2, <3>1
    <3>3. Takes(feed[i + 1], books[i], books[i + 1])
      BY <1>1, <3>1 DEF LeadsThrough, n
    <3>4. QED
      BY <3>2, <3>3
  <2>3. books[n] = depth /\ depth' = depth
    BY <1>1 DEF LeadsThrough, n, UpdateOrderBook, exchange_vars
  <2> HIDE DEF rest
  <2>4. /\ rest \in [0 .. Len(feed') -> XBooks]
        /\ IsBookOf(order_book', rest[0])
        /\ rest[Len(feed')] = depth'
        /\ \A i \in 1 .. Len(feed') : Takes(feed'[i], rest[i - 1], rest[i])
    BY <1>2, <1>9, <1>10, <2>1, <2>2, <2>3
  <2>5. QED
    BY <2>4 DEF FeedLeads, LeadsThrough, IsBookOf, Takes, IsSnapshot
<1>12. BookTypeOK'
  BY <1>2, <1>9 DEF BookInv, BookTypeOK, UpdateOrderBook, exchange_vars, readers
<1>13. LatestBook'
  BY DEF LatestBook, UpdateOrderBook
<1>14. \A book \in ({published} \cup ToSet(recorder_queue))' : IsGenuine(book)'
  BY DEF BookInv, IsGenuine, IsBookOf, UpdateOrderBook
<1>15. QED
  BY <1>2, <1>11, <1>12, <1>13, <1>14 DEF BookInv


\* The local book is one an exchange can have.
LEMMA LocalBookIsGenuine ==
    ASSUME BookInv
    PROVE  IsGenuine(order_book)
<1>1. PICK books \in [0 .. Len(feed) -> XBooks] : LeadsThrough(books)
  BY DEF BookInv, FeedLeads
<1>2. Len(feed) \in Nat
  BY LenProperties DEF BookInv, BookTypeOK
<1>3. books[0] \in XBooks
  BY <1>1, <1>2
<1>4. QED
  BY <1>1, <1>3 DEF IsGenuine, LeadsThrough, BookInv, BookTypeOK

\* Nothing arrives, and the local book stays as it is.
LEMMA LocalBookRests ==
    ASSUME BookInv, UNCHANGED <<exchange_vars, feed, order_book>>
    PROVE  FeedLeads'
BY DEF BookInv, FeedLeads, LeadsThrough, IsBookOf, Takes, IsSnapshot, exchange_vars

\* Every step of the exchange, the websocket thread and the readers keeps the invariant.
LEMMA NextBookInv ==
    ASSUME BookInv, [BookNext]_book_vars
    PROVE  BookInv'
<1>1. CASE \E type \in {"snapshot", "delta"}, u \in {1, 2} : SendSnapshot(type, u)
  BY <1>1, SendSnapshotBook
<1>2. CASE \E bids, asks \in SUBSET Prices : SendDelta(bids, asks)
  BY <1>2, SendDeltaBook
<1>3. CASE UpdateOrderBook
  BY <1>3, UpdateOrderBookBook
<1>4. CASE Publish
  <2>1. FeedLeads'
    BY <1>4, LocalBookRests DEF Publish
  <2>2. \A book \in ({published} \cup ToSet(recorder_queue))' : IsGenuine(book)'
    BY <1>4, LocalBookIsGenuine DEF Publish, BookInv, IsGenuine, IsBookOf
  <2>3. BookTypeOK' /\ LatestBook'
    BY <1>4 DEF Publish, BookInv, BookTypeOK, LatestBook, exchange_vars, readers
  <2>4. QED
    BY <2>1, <2>2, <2>3 DEF BookInv
<1>5. CASE ForcePushToRecorder
  <2>1. FeedLeads'
    BY <1>5, LocalBookRests DEF ForcePushToRecorder
  <2>2. recorder_queue' = <<order_book>> /\ order_book \in BooksOfLevels
    BY <1>5 DEF ForcePushToRecorder, BookInv, BookTypeOK
  <2>3. /\ ToSet(<<order_book>>) = {order_book}
        /\ <<order_book>> \in Seq(BooksOfLevels) /\ Len(<<order_book>>) <= 1
        /\ <<order_book>> # <<>> /\ Head(<<order_book>>) = order_book
    BY <2>2 DEF ToSet
  <2>4. \A book \in ({published} \cup ToSet(recorder_queue))' : IsGenuine(book)'
    BY <1>5, <2>2, <2>3, LocalBookIsGenuine
       DEF ForcePushToRecorder, BookInv, IsGenuine, IsBookOf
  <2>5. BookTypeOK' /\ LatestBook'
    BY <1>5, <2>2, <2>3
       DEF ForcePushToRecorder, BookInv, BookTypeOK, LatestBook, exchange_vars, readers
  <2>6. QED
    BY <2>1, <2>4, <2>5 DEF BookInv
<1>6. CASE StrategyReads
  <2>1. FeedLeads'
    BY <1>6, LocalBookRests DEF StrategyReads
  <2>2. \A book \in ({published} \cup ToSet(recorder_queue))' : IsGenuine(book)'
    BY <1>6 DEF StrategyReads, BookInv, IsGenuine, IsBookOf
  <2>3. BookTypeOK' /\ LatestBook'
    BY <1>6 DEF StrategyReads, BookInv, BookTypeOK, BooksOfLevels, LatestBook, exchange_vars
  <2>4. QED
    BY <2>1, <2>2, <2>3 DEF BookInv
<1>7. CASE RecorderPops
  <2>1. FeedLeads'
    BY <1>7, LocalBookRests DEF RecorderPops
  <2>2. Head(recorder_queue) \in BooksOfLevels
    BY <1>7, HeadTailProperties DEF RecorderPops, BookInv, BookTypeOK
  <2>3. \A book \in ({published} \cup ToSet(recorder_queue))' : IsGenuine(book)'
    BY <1>7 DEF RecorderPops, BookInv, IsGenuine, IsBookOf, ToSet
  <2>4. BookTypeOK' /\ LatestBook'
    BY <1>7, <2>2
       DEF RecorderPops, BookInv, BookTypeOK, BooksOfLevels, LatestBook, exchange_vars
  <2>5. QED
    BY <2>1, <2>3, <2>4 DEF BookInv
<1>8. CASE UNCHANGED book_vars
  <2>1. FeedLeads'
    BY <1>8, LocalBookRests DEF book_vars
  <2>2. \A book \in ({published} \cup ToSet(recorder_queue))' : IsGenuine(book)'
    BY <1>8 DEF book_vars, BookInv, IsGenuine, IsBookOf
  <2>3. BookTypeOK' /\ LatestBook'
    BY <1>8 DEF book_vars, BookInv, BookTypeOK, LatestBook, exchange_vars, readers
  <2>4. QED
    BY <2>1, <2>2, <2>3 DEF BookInv
<1>9. QED
  BY <1>1, <1>2, <1>3, <1>4, <1>5, <1>6, <1>7, <1>8 DEF BookNext

\* The messages of the exchange carry the times from that of the local book to that of its
\* clock, and no reader has read what is newer than what is there to be read.
BookTimes ==
    /\ order_book.cts = clock - Len(feed)
    /\ \A i \in DOMAIN feed : feed[i].ts = order_book.cts + i
    /\ strategy_ts <= published.cts /\ recorder_ts <= published.cts
    /\ published.cts <= order_book.cts
    /\ recorder_queue # <<>> => /\ recorder_ts <= Head(recorder_queue).cts
                                /\ Head(recorder_queue).cts <= published.cts

\* Those times are numbers.
LEMMA BookTimesAreNumbers ==
    ASSUME BookTypeOK
    PROVE  /\ order_book.cts \in Nat /\ published.cts \in Nat /\ clock \in Nat
           /\ strategy_ts \in Nat /\ recorder_ts \in Nat /\ Len(feed) \in Nat
           /\ recorder_queue # <<>> => Head(recorder_queue).cts \in Nat
           /\ DOMAIN feed = 1 .. Len(feed)
<1>1. /\ Len(feed) \in Nat /\ DOMAIN feed = 1 .. Len(feed)
      /\ recorder_queue # <<>> => Head(recorder_queue) \in BooksOfLevels
  BY LenProperties, HeadTailProperties DEF BookTypeOK
<1>2. QED
  BY <1>1 DEF BookTypeOK, BooksOfLevels

\* A message the exchange sends carries the next time.
LEMMA SendTimes ==
    ASSUME BookInv, BookTimes, NEW message \in Messages, message.ts = clock + 1, Send(message),
           UNCHANGED <<order_book, published, recorder_queue, strategy_ts, recorder_ts>>
    PROVE  BookTimes'
<1> DEFINE n == Len(feed)
<1>1. /\ n \in Nat /\ clock \in Nat /\ order_book.cts \in Nat /\ DOMAIN feed = 1 .. n
  BY BookTimesAreNumbers DEF BookInv
<1>2. /\ clock' = clock + 1 /\ feed' = Append(feed, message) /\ feed \in Seq(Messages)
  BY DEF Send, BookInv, BookTypeOK
<1>3. /\ Len(feed') = n + 1 /\ DOMAIN feed' = 1 .. n + 1
      /\ \A i \in 1 .. n : feed'[i] = feed[i]
      /\ feed'[n + 1] = message
  BY <1>1, <1>2, AppendProperties
<1> HIDE DEF n
<1>4. order_book.cts = clock - n /\ \A i \in 1 .. n : feed[i].ts = order_book.cts + i
  BY <1>1 DEF BookTimes, n
<1>5. order_book.cts = (clock + 1) - (n + 1)
  BY <1>1, <1>4
<1>6. \A i \in 1 .. n + 1 : feed'[i].ts = order_book.cts + i
  BY <1>1, <1>3, <1>4
<1>7. QED
  BY <1>2, <1>3, <1>5, <1>6 DEF BookTimes

\* The local book takes the time of the message it is made from.
LEMMA UpdateTimes ==
    ASSUME BookInv, BookTimes, UpdateOrderBook
    PROVE  BookTimes'
<1> DEFINE n == Len(feed)
<1>1. /\ n \in Nat /\ clock \in Nat /\ order_book.cts \in Nat /\ published.cts \in Nat
      /\ DOMAIN feed = 1 .. n
  BY BookTimesAreNumbers DEF BookInv
<1>2. /\ feed # <<>> /\ feed' = Tail(feed) /\ feed \in Seq(Messages)
      /\ order_book'.cts = Head(feed).ts
      /\ UNCHANGED <<clock, published, recorder_queue, strategy_ts, recorder_ts>>
  BY DEF UpdateOrderBook, exchange_vars, readers, BookInv, BookTypeOK
<1>3. /\ n >= 1 /\ Len(feed') = n - 1 /\ DOMAIN feed' = 1 .. n - 1 /\ Head(feed) = feed[1]
      /\ \A i \in 1 .. n - 1 : feed'[i] = feed[i + 1]
  <2>1. /\ Tail(feed) \in Seq(Messages) /\ Len(Tail(feed)) = n - 1 /\ Head(feed) = feed[1]
        /\ \A i \in 1 .. Len(Tail(feed)) : Tail(feed)[i] = feed[i + 1]
    BY <1>2, HeadTailProperties
  <2>2. DOMAIN Tail(feed) = 1 .. Len(Tail(feed)) /\ n # 0
    BY <1>2, <2>1, LenProperties, EmptySeq
  <2>3. QED
    BY <1>1, <1>2, <2>1, <2>2
<1> HIDE DEF n
<1>4. order_book.cts = clock - n /\ \A i \in 1 .. n : feed[i].ts = order_book.cts + i
  BY <1>1 DEF BookTimes, n
<1>5. order_book'.cts = order_book.cts + 1
  BY <1>1, <1>2, <1>3, <1>4
<1>6. order_book'.cts = clock - (n - 1)
  BY <1>1, <1>4, <1>5
<1>7. \A i \in 1 .. n - 1 : feed'[i].ts = order_book'.cts + i
  <2>1. ASSUME NEW i \in 1 .. n - 1 PROVE feed'[i].ts = order_book'.cts + i
    <3>1. i \in Int /\ i + 1 \in 1 .. n
      BY <1>1
    <3>2. feed'[i].ts = order_book.cts + (i + 1)
      BY <1>3, <1>4, <3>1
    <3>3. QED
      BY <1>1, <1>5, <3>1, <3>2
  <2>2. QED
    BY <2>1
<1>8. published.cts <= order_book'.cts
  BY <1>1, <1>5 DEF BookTimes
<1>9. QED
  BY <1>2, <1>3, <1>6, <1>7, <1>8 DEF BookTimes

\* The books the readers find, and have read, never get older.
LEMMA NextBookTimes ==
    ASSUME BookInv, BookTimes, [BookNext]_book_vars
    PROVE  BookTimes'
<1>1. /\ order_book.cts \in Nat /\ published.cts \in Nat /\ clock \in Nat
      /\ strategy_ts \in Nat /\ recorder_ts \in Nat
      /\ recorder_queue # <<>> => Head(recorder_queue).cts \in Nat
  BY BookTimesAreNumbers DEF BookInv
<1>2. CASE \E type \in {"snapshot", "delta"}, u \in {1, 2} : SendSnapshot(type, u)
  <2>1. PICK type \in {"snapshot", "delta"}, u \in {1, 2} : SendSnapshot(type, u)
    BY <1>2
  <2>2. PICK book \in XBooks :
            Send([type |-> type, u |-> u, b |-> Sorted("bids", book["bids"]),
                  a |-> Sorted("asks", book["asks"]), ts |-> clock + 1])
    BY <2>1 DEF SendSnapshot
  <2>3. book["bids"] \in SizesOf /\ book["asks"] \in SizesOf
    BY DEF XBooks, SizesOf, BookSides
  <2>4. Sorted("bids", book["bids"]) \in Seq(Levels) /\ Sorted("asks", book["asks"]) \in Seq(Levels)
    BY <2>3, BestFirstIsSide DEF Sorted, Offers, IsSide
  <2> DEFINE message == [type |-> type, u |-> u, b |-> Sorted("bids", book["bids"]),
                         a |-> Sorted("asks", book["asks"]), ts |-> clock + 1]
  <2>5. message \in Messages /\ message.ts = clock + 1 /\ Send(message)
    BY <1>1, <2>2, <2>4 DEF Messages
  <2> HIDE DEF message
  <2>6. UNCHANGED <<order_book, published, recorder_queue, strategy_ts, recorder_ts>>
    BY <2>1 DEF SendSnapshot, readers
  <2>7. QED
    BY <2>5, <2>6, SendTimes
<1>3. CASE \E bids, asks \in SUBSET Prices : SendDelta(bids, asks)
  <2>1. PICK bids \in SUBSET Prices, asks \in SUBSET Prices : SendDelta(bids, asks)
    BY <1>3
  <2>2. PICK b \in [bids -> Sizes \cup {0}], a \in [asks -> Sizes \cup {0}] :
            \E lb \in Listings(b, bids), la \in Listings(a, asks) :
                Send([type |-> "delta", u |-> 2, b |-> lb, a |-> la, ts |-> clock + 1])
    BY <2>1 DEF SendDelta
  <2>3. PICK lb \in Listings(b, bids), la \in Listings(a, asks) :
            Send([type |-> "delta", u |-> 2, b |-> lb, a |-> la, ts |-> clock + 1])
    BY <2>2
  <2>4. depth["bids"] \in SizesOf /\ depth["asks"] \in SizesOf
    BY DEF BookInv, BookTypeOK, SizesOf, BookSides
  <2>5. lb \in Seq(Levels) /\ la \in Seq(Levels)
    BY <2>4, ListingChanges
  <2> DEFINE message == [type |-> "delta", u |-> 2, b |-> lb, a |-> la, ts |-> clock + 1]
  <2>6. message \in Messages /\ message.ts = clock + 1 /\ Send(message)
    BY <1>1, <2>3, <2>5 DEF Messages
  <2> HIDE DEF message
  <2>7. UNCHANGED <<order_book, published, recorder_queue, strategy_ts, recorder_ts>>
    BY <2>1 DEF SendDelta, readers
  <2>8. QED
    BY <2>6, <2>7, SendTimes
<1>4. CASE UpdateOrderBook
  BY <1>4, UpdateTimes
<1>5. CASE Publish
  <2>1. /\ published' = order_book
        /\ UNCHANGED <<clock, feed, order_book, recorder_queue, strategy_ts, recorder_ts>>
    BY <1>5 DEF Publish, exchange_vars, readers
  <2>2. QED
    BY <1>1, <2>1 DEF BookTimes
<1>6. CASE ForcePushToRecorder
  <2>1. /\ recorder_queue' = <<order_book>> /\ book_step = "record"
        /\ UNCHANGED <<clock, feed, order_book, published, strategy_ts, recorder_ts>>
    BY <1>6 DEF ForcePushToRecorder, exchange_vars, readers
  <2>2. published = order_book /\ Head(recorder_queue') = order_book
    BY <2>1 DEF BookInv, LatestBook
  <2>3. QED
    BY <1>1, <2>1, <2>2 DEF BookTimes
<1>7. CASE StrategyReads
  <2>1. /\ strategy_ts' = published.cts
        /\ UNCHANGED <<clock, feed, order_book, published, recorder_queue, recorder_ts>>
    BY <1>7 DEF StrategyReads, exchange_vars
  <2>2. QED
    BY <1>1, <2>1 DEF BookTimes
<1>8. CASE RecorderPops
  <2>1. /\ recorder_queue # <<>> /\ recorder_ts' = Head(recorder_queue).cts
        /\ recorder_queue' = <<>>
        /\ UNCHANGED <<clock, feed, order_book, published, strategy_ts>>
    BY <1>8 DEF RecorderPops, exchange_vars
  <2>2. QED
    BY <1>1, <2>1 DEF BookTimes
<1>9. CASE UNCHANGED book_vars
  BY <1>9 DEF book_vars, exchange_vars, readers, BookTimes
<1>10. QED
  BY <1>2, <1>3, <1>4, <1>5, <1>6, <1>7, <1>8, <1>9 DEF BookNext

\* The invariant holds in every state.
LEMMA BookAlways == BookSpec => [](BookInv /\ BookTimes)
<1>1. BookInit => BookTimes
  <2> SUFFICES ASSUME BookInit PROVE BookTimes
    OBVIOUS
  <2>1. Len(<<>>) = 0 /\ DOMAIN <<>> = {}
    OBVIOUS
  <2>2. /\ order_book.cts = 0 /\ published.cts = 0 /\ feed = <<>> /\ recorder_queue = <<>>
        /\ clock = 0 /\ strategy_ts = 0 /\ recorder_ts = 0
    BY DEF BookInit, EmptyBook
  <2>3. order_book.cts = clock - Len(feed)
    <3>1. Len(feed) = 0
      BY <2>1, <2>2, Zenon
    <3>2. 0 = 0 - 0
      OBVIOUS
    <3>3. QED
      BY <2>2, <3>1, <3>2, Zenon
  <2>4. strategy_ts <= published.cts /\ recorder_ts <= published.cts
        /\ published.cts <= order_book.cts
    BY <2>2
  <2>5. \A i \in DOMAIN feed : feed[i].ts = order_book.cts + i
    BY <2>1, <2>2
  <2>6. QED
    BY <2>2, <2>3, <2>4, <2>5, Zenon DEF BookTimes
<1>2. BookInv /\ BookTimes /\ [BookNext]_book_vars => (BookInv /\ BookTimes)'
  BY NextBookInv, NextBookTimes
<1>3. QED
  BY <1>1, <1>2, InitBook, PTL DEF BookSpec

-----------------------------------------------------------------------------
\* The variables of the public websocket and its readers always have their types.
THEOREM BookTypeCorrect == BookSpec => []BookTypeOK
<1>1. BookInv => BookTypeOK
  BY DEF BookInv
<1>2. QED
  BY <1>1, BookAlways, PTL

\* The local book is the book of the exchange once every message is processed, whatever
\* deltas, in whatever order of their levels, and snapshots of either kind built it up
\* (process_delta, and "u" = 1 in process_orderbook_response).
THEOREM BookIsExchangeBook == BookSpec => []BookFollowsExchange
<1>1. BookInv => BookFollowsExchange
  <2> SUFFICES ASSUME BookInv, feed = <<>>, NEW p \in Prices
               PROVE  /\ SizeAt(order_book.bids, p) = depth["bids"][p]
                      /\ SizeAt(order_book.asks, p) = depth["asks"][p]
    BY DEF BookFollowsExchange
  <2>1. PICK books \in [0 .. Len(feed) -> XBooks] : LeadsThrough(books)
    BY DEF BookInv, FeedLeads
  <2>2. IsBookOf(order_book, depth)
    BY <2>1 DEF LeadsThrough
  <2>3. depth["bids"] \in SizesOf /\ depth["asks"] \in SizesOf
    BY DEF BookInv, BookTypeOK, SizesOf, BookSides
  <2>4. QED
    BY <2>2, <2>3, SizeOfSide DEF IsBookOf
<1>2. QED
  BY <1>1, BookAlways, PTL

\* A side of these sizes has the best of them first.
LEMMA SideHasBestFirst ==
    ASSUME NEW side \in BookSides, NEW levels, NEW sizes \in SizesOf, IsSide(side, levels, sizes)
    PROVE  IsBestOf(side, levels, sizes)
<1>1. /\ levels \in Seq(Levels) /\ InPriceOrder(side, levels)
      /\ \A i \in DOMAIN levels : levels[i] \in Offers(sizes)
      /\ \A x \in Offers(sizes) : \E i \in DOMAIN levels : levels[i] = x
  BY DEF IsSide, ToSet
<1>2. /\ Len(levels) \in Nat /\ DOMAIN levels = 1 .. Len(levels)
      /\ levels # <<>> => Len(levels) # 0
      /\ levels = <<>> => Len(levels) = 0
  BY <1>1, LenProperties, EmptySeq
<1>3. \A p \in Prices : sizes[p] > 0 =>
          \E i \in DOMAIN levels : levels[i] = Level(p, sizes[p])
  BY <1>1 DEF Offers
<1>4. CASE levels = <<>>
  <2>1. ASSUME NEW p \in Prices PROVE sizes[p] = 0
    <3>1. sizes[p] \in Nat
      BY SizesAreNumbers
    <3>2. ~(sizes[p] > 0)
      BY <1>2, <1>3, <1>4
    <3>3. QED
      BY <3>1, <3>2
  <2>2. QED
    BY <1>4, <2>1 DEF IsBestOf
<1>5. CASE levels # <<>>
  <2>1. 1 \in DOMAIN levels
    BY <1>2, <1>5
  <2>2. sizes[levels[1].price] = levels[1].size
    BY <1>1, <2>1 DEF Offers, Level
  <2>3. ASSUME NEW p \in Prices, sizes[p] > 0
        PROVE  p = levels[1].price \/ IsBetter(side, levels[1], Level(p, sizes[p]))
    <3>1. PICK i \in DOMAIN levels : levels[i] = Level(p, sizes[p])
      BY <1>3, <2>3
    <3>2. CASE i = 1
      BY <3>1, <3>2 DEF Level
    <3>3. CASE i # 1
      <4>1. 1 < i
        BY <1>2, <3>3
      <4>2. IsBetter(side, levels[1], levels[i])
        BY <1>1, <2>1, <4>1 DEF InPriceOrder
      <4>3. QED
        BY <3>1, <4>2
    <3>4. QED
      BY <3>2, <3>3
  <2>4. QED
    BY <1>5, <2>2, <2>3 DEF IsBestOf
<1>6. QED
  BY <1>4, <1>5

\* In every book a reader can get, each side is strictly sorted and has no empty level, and
\* the first bid is below the first ask; and with every message processed the first level
\* of a side, what compute_orders and update_prices read, is the best of the exchange.
THEOREM FirstLevelsStayBest == BookSpec => []FirstLevelsAreBest
<1>1. ASSUME NEW book, IsGenuine(book)
      PROVE  /\ WellFormed(book)
             /\ book.bids # <<>> /\ book.asks # <<>>
                    => book.bids[1].price < book.asks[1].price
  <2>1. PICK xbook \in XBooks : IsBookOf(book, xbook)
    BY <1>1 DEF IsGenuine
  <2>2. /\ \A i \in DOMAIN book.bids : book.bids[i] \in Offers(xbook["bids"])
        /\ \A i \in DOMAIN book.asks : book.asks[i] \in Offers(xbook["asks"])
    BY <2>1 DEF IsBookOf, IsSide, ToSet
  <2>3. \A sizes : \A x \in Offers(sizes) :
            x.price \in Prices /\ sizes[x.price] > 0 /\ x.size = sizes[x.price]
    BY DEF Offers, Level
  <2>4. WellFormed(book)
    <3>1. /\ \A i, j \in DOMAIN book.bids : i < j => IsBetter("bids", book.bids[i], book.bids[j])
          /\ \A i, j \in DOMAIN book.asks : i < j => IsBetter("asks", book.asks[i], book.asks[j])
      BY <2>1 DEF IsBookOf, IsSide, InPriceOrder
    <3>2. /\ \A i \in DOMAIN book.bids : book.bids[i].size > 0
          /\ \A i \in DOMAIN book.asks : book.asks[i].size > 0
      BY <2>2, <2>3
    <3>3. QED
      BY <3>1, <3>2 DEF WellFormed, IsBetter
  <2>5. ASSUME book.bids # <<>>, book.asks # <<>>
        PROVE  book.bids[1].price < book.asks[1].price
    <3>1. book.bids \in Seq(Levels) /\ book.asks \in Seq(Levels)
      BY <2>1 DEF IsBookOf, IsSide
    <3>2. 1 \in DOMAIN book.bids /\ 1 \in DOMAIN book.asks
      BY <2>5, <3>1, LenProperties, EmptySeq
    <3>3. /\ book.bids[1].price \in Prices /\ xbook["bids"][book.bids[1].price] > 0
          /\ book.asks[1].price \in Prices /\ xbook["asks"][book.asks[1].price] > 0
      BY <2>2, <2>3, <3>2
    <3>4. QED
      BY <3>3 DEF XBooks, Uncrossed
  <2>6. QED
    BY <2>4, <2>5
<1>2. ASSUME BookInv, feed = <<>>, book_step = "receive",
             NEW book \in {published} \cup ToSet(recorder_queue)
      PROVE  /\ IsBestOf("bids", book.bids, depth["bids"])
             /\ IsBestOf("asks", book.asks, depth["asks"])
  <2>1. book = order_book
    <3>1. published = order_book
      BY <1>2 DEF BookInv, LatestBook
    <3>2. ASSUME book \in ToSet(recorder_queue) PROVE book = order_book
      <4>1. /\ recorder_queue \in Seq(BooksOfLevels) /\ Len(recorder_queue) <= 1
        BY <1>2 DEF BookInv, BookTypeOK
      <4>2. PICK i \in DOMAIN recorder_queue : book = recorder_queue[i]
        BY <3>2 DEF ToSet
      <4>3. i = 1 /\ recorder_queue # <<>>
        BY <4>1, <4>2, LenProperties, EmptySeq
      <4>4. Head(recorder_queue) = recorder_queue[1]
        BY <4>1, <4>3, HeadTailProperties
      <4>5. QED
        BY <1>2, <4>2, <4>3, <4>4 DEF BookInv, LatestBook
    <3>3. QED
      BY <3>1, <3>2
  <2>2. PICK books \in [0 .. Len(feed) -> XBooks] : LeadsThrough(books)
    BY <1>2 DEF BookInv, FeedLeads
  <2>3. IsBookOf(order_book, depth)
    BY <1>2, <2>2 DEF LeadsThrough
  <2>4. depth["bids"] \in SizesOf /\ depth["asks"] \in SizesOf
    BY <1>2 DEF BookInv, BookTypeOK, SizesOf, BookSides
  <2>5. "bids" \in BookSides /\ "asks" \in BookSides
    BY DEF BookSides
  <2>6. QED
    BY <2>1, <2>3, <2>4, <2>5, SideHasBestFirst DEF IsBookOf
<1>3. BookInv => FirstLevelsAreBest
  BY <1>1, <1>2 DEF BookInv, FirstLevelsAreBest
<1>4. QED
  BY <1>3, BookAlways, PTL

\* Between two messages the latest book is where each reader finds it, and at no time does a
\* reader find one that is older than what it has read: neither force_push on a full queue
\* nor the triple buffer takes it back.
THEOREM LatestBookIsFound == BookSpec => []LatestBookReachesReaders
<1>1. BookInv /\ BookTimes => LatestBookReachesReaders
  BY DEF BookInv, LatestBook, BookTimes, LatestBookReachesReaders
<1>2. QED
  BY <1>1, BookAlways, PTL

-----------------------------------------------------------------------------
\* The types of the recorder.

\* What has executed, and how often each was delivered.
ExecutedTypes ==
    /\ now \in Times
    /\ DOMAIN executed \subseteq ExecIds
    /\ \A id \in DOMAIN executed : executed[id] \in Times /\ executed[id] <= now
    /\ undelivered \in Seq(ExecIds)
    /\ \A i \in DOMAIN undelivered : undelivered[i] \in DOMAIN executed
    /\ delivered \in [ExecIds -> Nat]
    /\ \A id \in ExecIds : delivered[id] > 0 => id \in DOMAIN executed

\* The two queues.
QueuesTypes ==
    /\ from_book \in Seq(Books) /\ Len(from_book) <= 1
    /\ \A i \in DOMAIN from_book : from_book[i].cts <= now
    /\ order_events \in Seq(Events)
    /\ \A i \in DOMAIN order_events :
           /\ order_events[i].exec_id \in DOMAIN executed
           /\ order_events[i].exec_ts = executed[order_events[i].exec_id]

\* What the engine has.
EngineTypes ==
    /\ DOMAIN trades \subseteq DOMAIN executed
    /\ \A id \in DOMAIN trades : /\ trades[id] \in PendingMarkouts
                                 /\ trades[id].fill_ts = executed[id]
                                 /\ ~IsComplete(trades[id])
    /\ trades = [id \in DOMAIN trades |-> trades[id]]
    /\ pc \in {"book", "event", "panicked", "returned"}
    /\ completed \in Seq(Logged)
    /\ seen \in [ExecIds -> SUBSET Times]

\* The books an execution has seen are not newer than the one in the queue.
SeenTimes ==
    \A id \in ExecIds : \A t \in seen[id] :
        t <= now /\ \A i \in DOMAIN from_book : t <= from_book[i].cts

RecorderBase == ExecutedTypes /\ QueuesTypes /\ EngineTypes /\ SeenTimes

\* Times are numbers, and none of them is the missing data point.
LEMMA TimesAreNumbers ==
    /\ \A t \in Times : t \in Nat /\ t # NA
    /\ 0 \in Times
    /\ now \in Times /\ now < MaxTime => now + 1 \in Times
BY RecorderAssumption DEF Times

\* The recorder starts with nothing.
LEMMA InitRecorder == RecorderInit => RecorderBase
<1> SUFFICES ASSUME RecorderInit PROVE RecorderBase
  OBVIOUS
<1>1. DOMAIN executed = {} /\ DOMAIN trades = {} /\ trades = <<>>
  BY DEF RecorderInit
<1>2. ExecutedTypes
  BY <1>1, TimesAreNumbers DEF RecorderInit, ExecutedTypes
<1>3. QueuesTypes
  BY DEF RecorderInit, QueuesTypes
<1>4. EngineTypes /\ SeenTimes
  BY <1>1 DEF RecorderInit, EngineTypes, SeenTimes
<1>5. QED
  BY <1>2, <1>3, <1>4 DEF RecorderBase

\* A sampled data point is that of the book, or the one there was.
LEMMA SampledTypes ==
    ASSUME NEW markout \in PendingMarkouts, NEW cts \in Times
    PROVE  /\ UpdatedMarkout(markout, cts) \in PendingMarkouts
           /\ UpdatedMarkout(markout, cts).fill_ts = markout.fill_ts
           /\ UpdatedMarkout(markout, cts).mid_1s
                  = Sample(markout.mid_1s, markout.fill_ts + H1, cts)
           /\ UpdatedMarkout(markout, cts).mid_5s
                  = Sample(markout.mid_5s, markout.fill_ts + H5, cts)
           /\ UpdatedMarkout(markout, cts).mid_10s
                  = Sample(markout.mid_10s, markout.fill_ts + H10, cts)
<1>1. /\ Sample(markout.mid_1s, markout.fill_ts + H1, cts) \in DataPoints
      /\ Sample(markout.mid_5s, markout.fill_ts + H5, cts) \in DataPoints
      /\ Sample(markout.mid_10s, markout.fill_ts + H10, cts) \in DataPoints
  BY DEF PendingMarkouts, DataPoints, Sample
<1>2. QED
  BY <1>1 DEF UpdatedMarkout, PendingMarkouts

\* What a book makes of the map and the log: the markouts it completes leave the map and
\* are logged, each once and in order.
Batch(cts) == {CompletedMarkout(id, UpdatedMarkout(trades[id], cts)) :
                   id \in {x \in DOMAIN trades : IsComplete(UpdatedMarkout(trades[x], cts))}}

BookTaken(cts, batch) ==
    /\ DOMAIN trades' = {id \in DOMAIN trades : ~IsComplete(UpdatedMarkout(trades[id], cts))}
    /\ trades' = [id \in DOMAIN trades' |-> trades'[id]]
    /\ \A id \in DOMAIN trades' : trades'[id] = UpdatedMarkout(trades[id], cts)
    /\ completed' = completed \o batch
    /\ batch \in Seq(Batch(cts))
    /\ \A x \in Batch(cts) : \E i \in DOMAIN batch : batch[i] = x
    /\ \A i, j \in DOMAIN batch : i < j => IsBefore(batch[i], batch[j])
    /\ \A i, j \in DOMAIN batch : batch[i] = batch[j] => i = j

\* The book in the queue is not newer than the time, nor older than what was seen.
LEMMA HeadOfBooks ==
    ASSUME RecorderBase, from_book # <<>>
    PROVE  /\ Head(from_book).cts \in Times
           /\ Head(from_book).cts <= now
           /\ \A id \in ExecIds : \A t \in seen[id] : t <= Head(from_book).cts
<1>1. from_book \in Seq(Books)
  BY DEF RecorderBase, QueuesTypes
<1>2. Head(from_book) \in Books /\ Head(from_book) = from_book[1] /\ 1 \in DOMAIN from_book
  BY <1>1, HeadTailProperties, LenProperties, EmptySeq
<1>3. Head(from_book).cts \in Times
  BY <1>2 DEF Books
<1>4. QED
  BY <1>2, <1>3 DEF RecorderBase, QueuesTypes, SeenTimes

\* What TakeBook does, with the order of the batch made explicit.
LEMMA BookIsTaken ==
    ASSUME RecorderBase, TakeBook
    PROVE  \E batch : BookTaken(Head(from_book).cts, batch)
<1> DEFINE cts == Head(from_book).cts
           updated == UpdatePrices(cts)
           done == {id \in DOMAIN updated : IsComplete(updated[id])}
           S == {CompletedMarkout(id, updated[id]) : id \in done}
<1>1. cts \in Times
  BY HeadOfBooks DEF TakeBook
<1>2. /\ trades' = [id \in DOMAIN updated \ done |-> updated[id]]
      /\ completed' = completed \o InOrder(S)
  BY DEF TakeBook, ProcessOrderBook
<1> HIDE DEF cts
<1>3. /\ DOMAIN updated = DOMAIN trades
      /\ \A id \in DOMAIN trades : updated[id] = UpdatedMarkout(trades[id], cts)
  BY DEF UpdatePrices
<1> HIDE DEF updated
<1>4. S = Batch(cts)
  BY <1>3 DEF Batch
<1>5. IsFiniteSet(S)
  <2>1. IsFiniteSet(done)
    <3>1. done \subseteq ExecIds
      BY <1>3 DEF RecorderBase, EngineTypes, ExecutedTypes
    <3>2. QED
      BY <3>1, RecorderAssumption, FS_Subset
  <2> DEFINE f == [id \in done |-> CompletedMarkout(id, updated[id])]
  <2>2. f \in Surjection(done, S)
    BY DEF Surjection
  <2>3. QED
    BY <2>1, <2>2, FS_Surjection
<1>6. \A x \in S : x.fill_ts \in Nat /\ x.exec_id \in Nat
  <2> SUFFICES ASSUME NEW id \in done
               PROVE  LET x == CompletedMarkout(id, updated[id])
                      IN x.fill_ts \in Nat /\ x.exec_id \in Nat
    OBVIOUS
  <2>1. id \in DOMAIN trades /\ id \in ExecIds /\ trades[id] \in PendingMarkouts
    BY <1>3 DEF RecorderBase, EngineTypes, ExecutedTypes
  <2>2. updated[id].fill_ts \in Times
    BY <1>1, <1>3, <2>1, SampledTypes DEF PendingMarkouts
  <2>3. QED
    BY <2>1, <2>2, TimesAreNumbers, RecorderAssumption DEF CompletedMarkout
<1>7. \A x, y \in S : x.exec_id = y.exec_id => x = y
  BY DEF CompletedMarkout
<1> HIDE DEF S
<1> DEFINE R == {pair \in S \X S : IsBefore(pair[1], pair[2])}
<1>8. \A x, y \in S : <<x, y>> \in R <=> IsBefore(x, y)
  OBVIOUS
<1>9. IsStrictOrder(R, S)
  <2> HIDE DEF R
  <2>1. QED
    BY <1>6, <1>7, <1>8 DEF IsStrictOrder, IsBefore
<1>10. PICK s \in SetToSeqs(S) : ListedBy(R, s)
  BY <1>5, <1>9, OrderedListing
<1>11. \A i \in DOMAIN s : s[i] \in S
  BY DEF SetToSeqs
<1>12. \A i, j \in DOMAIN s : i < j => IsBefore(s[i], s[j])
  BY <1>8, <1>10, <1>11 DEF ListedBy
<1>13. /\ InOrder(S) \in SetToSeqs(S)
       /\ \A i, j \in DOMAIN InOrder(S) : i < j => IsBefore(InOrder(S)[i], InOrder(S)[j])
  BY <1>12 DEF InOrder
<1>14. /\ InOrder(S) \in Seq(S)
       /\ \A x \in S : \E i \in DOMAIN InOrder(S) : InOrder(S)[i] = x
       /\ \A i, j \in DOMAIN InOrder(S) : InOrder(S)[i] = InOrder(S)[j] => i = j
  BY <1>5, <1>13, ListingNamesAll
<1>15. /\ DOMAIN trades' = {id \in DOMAIN trades : ~IsComplete(UpdatedMarkout(trades[id], cts))}
       /\ trades' = [id \in DOMAIN trades' |-> trades'[id]]
       /\ \A id \in DOMAIN trades' : trades'[id] = UpdatedMarkout(trades[id], cts)
  BY <1>2, <1>3
<1>16. BookTaken(cts, InOrder(S))
  BY <1>2, <1>4, <1>13, <1>14, <1>15 DEF BookTaken
<1>17. QED
  BY <1>16 DEF cts


-----------------------------------------------------------------------------
\* The types are kept.

\* A step of the others leaves the engine its types.
LEMMA EngineRests ==
    ASSUME RecorderBase, UNCHANGED <<engine, executed>>
    PROVE  EngineTypes'
BY DEF RecorderBase, EngineTypes, engine

\* Time that passes keeps the types.
LEMMA TimePassesBase ==
    ASSUME RecorderBase, TimePasses
    PROVE  RecorderBase'
<1>1. now' \in Times /\ now <= now'
  BY TimesAreNumbers, RecorderAssumption DEF TimePasses, RecorderBase, ExecutedTypes, Times
<1>2. EngineTypes'
  BY EngineRests DEF TimePasses
<1>3. now \in Nat /\ now' \in Nat
  BY <1>1, TimesAreNumbers DEF RecorderBase, ExecutedTypes
<1>4. ExecutedTypes'
  <2>1. \A id \in DOMAIN executed : executed[id] \in Nat
    BY TimesAreNumbers DEF RecorderBase, ExecutedTypes
  <2>2. QED
    BY <1>1, <1>3, <2>1 DEF TimePasses, RecorderBase, ExecutedTypes
<1>5. QueuesTypes'
  <2>1. \A i \in DOMAIN from_book : from_book[i].cts \in Nat
    <3>1. \A i \in DOMAIN from_book : from_book[i] \in Books
      BY LenProperties, ElementOfSeq DEF RecorderBase, QueuesTypes
    <3>2. QED
      BY <3>1, TimesAreNumbers DEF Books
  <2>2. QED
    BY <1>1, <1>3, <2>1 DEF TimePasses, RecorderBase, QueuesTypes
<1>6. SeenTimes'
  <2>1. \A id \in ExecIds : \A t \in seen[id] : t \in Nat
    BY TimesAreNumbers DEF RecorderBase, EngineTypes
  <2>2. QED
    BY <1>1, <1>3, <2>1 DEF TimePasses, RecorderBase, SeenTimes, engine
<1>7. QED
  BY <1>2, <1>4, <1>5, <1>6 DEF RecorderBase

\* A new book keeps the types.
LEMMA BookArrivesBase ==
    ASSUME RecorderBase, NEW two_sided \in BOOLEAN, BookArrives(two_sided)
    PROVE  RecorderBase'
<1> DEFINE book == [cts |-> now, two_sided |-> two_sided]
<1>1. from_book' = <<book>> /\ book \in Books /\ book.cts = now
  BY DEF BookArrives, RecorderBase, ExecutedTypes, Books
<1>2. now \in Nat
  BY TimesAreNumbers DEF RecorderBase, ExecutedTypes
<1> HIDE DEF book
<1>3. /\ <<book>> \in Seq(Books) /\ Len(<<book>>) <= 1
      /\ \A i \in DOMAIN <<book>> : <<book>>[i] = book
  BY <1>1
<1>4. EngineTypes' /\ ExecutedTypes'
  BY EngineRests DEF BookArrives, outside, RecorderBase, ExecutedTypes
<1>5. QueuesTypes'
  BY <1>1, <1>2, <1>3 DEF BookArrives, outside, RecorderBase, QueuesTypes
<1>6. SeenTimes'
  BY <1>1, <1>2, <1>3 DEF BookArrives, outside, engine, RecorderBase, SeenTimes
<1>7. QED
  BY <1>4, <1>5, <1>6 DEF RecorderBase

\* An execution that happens keeps the types.
LEMMA OrderExecutesBase ==
    ASSUME RecorderBase, NEW id \in ExecIds, OrderExecutes(id)
    PROVE  RecorderBase'
<1>1. /\ DOMAIN executed' = DOMAIN executed \cup {id} /\ executed'[id] = now
      /\ \A x \in DOMAIN executed : executed'[x] = executed[x]
      /\ id \notin DOMAIN executed
  BY DEF OrderExecutes, Insert
<1>2. undelivered' = Append(undelivered, id) /\ undelivered \in Seq(ExecIds)
  BY DEF OrderExecutes, RecorderBase, ExecutedTypes
<1>3. /\ undelivered' \in Seq(ExecIds)
      /\ \A i \in DOMAIN undelivered' :
             \/ i \in DOMAIN undelivered /\ undelivered'[i] = undelivered[i]
             \/ undelivered'[i] = id
  <2>1. /\ Append(undelivered, id) \in Seq(ExecIds)
        /\ DOMAIN undelivered = 1 .. Len(undelivered) /\ Len(undelivered) \in Nat
        /\ DOMAIN Append(undelivered, id) = 1 .. Len(undelivered) + 1
        /\ \A i \in 1 .. Len(undelivered) : Append(undelivered, id)[i] = undelivered[i]
        /\ Append(undelivered, id)[Len(undelivered) + 1] = id
    BY <1>2, LenProperties, AppendProperties
  <2>2. \A i \in 1 .. Len(undelivered) + 1 : i \in 1 .. Len(undelivered) \/ i = Len(undelivered) + 1
    BY <2>1
  <2>3. QED
    BY <1>2, <2>1, <2>2
<1>4. now \in Nat
  BY TimesAreNumbers DEF RecorderBase, ExecutedTypes
<1>5. ExecutedTypes'
  BY <1>1, <1>3, <1>4 DEF OrderExecutes, RecorderBase, ExecutedTypes
<1>6. QueuesTypes'
  BY <1>1 DEF OrderExecutes, RecorderBase, QueuesTypes
<1>7. EngineTypes' /\ SeenTimes'
  BY <1>1 DEF OrderExecutes, engine, RecorderBase, EngineTypes, SeenTimes
<1>8. QED
  BY <1>5, <1>6, <1>7 DEF RecorderBase

\* A delivery of an execution that happened.
LEMMA DeliveryBase ==
    ASSUME RecorderBase, NEW id \in DOMAIN executed, Deliver(id),
           UNCHANGED <<now, executed, connected, from_book, engine>>,
           undelivered' \in Seq(ExecIds),
           \A i \in DOMAIN undelivered' : undelivered'[i] \in DOMAIN executed
    PROVE  RecorderBase'
<1> DEFINE event == [exec_id |-> id, exec_ts |-> executed[id]]
<1>1. order_events \in Seq(Events) /\ event \in Events /\ order_events' = Append(order_events, event)
  BY DEF Deliver, RecorderBase, ExecutedTypes, QueuesTypes, Events
<1>2. event.exec_id = id /\ event.exec_ts = executed[id]
  OBVIOUS
<1> HIDE DEF event
<1>3. /\ order_events' \in Seq(Events)
      /\ \A i \in DOMAIN order_events' :
             \/ i \in DOMAIN order_events /\ order_events'[i] = order_events[i]
             \/ order_events'[i] = event
  <2>1. /\ Append(order_events, event) \in Seq(Events)
        /\ DOMAIN order_events = 1 .. Len(order_events) /\ Len(order_events) \in Nat
        /\ DOMAIN Append(order_events, event) = 1 .. Len(order_events) + 1
        /\ \A i \in 1 .. Len(order_events) : Append(order_events, event)[i] = order_events[i]
        /\ Append(order_events, event)[Len(order_events) + 1] = event
    BY <1>1, LenProperties, AppendProperties
  <2>2. \A i \in 1 .. Len(order_events) + 1 :
            i \in 1 .. Len(order_events) \/ i = Len(order_events) + 1
    BY <2>1
  <2>3. QED
    BY <1>1, <2>1, <2>2
<1>4. QueuesTypes'
  BY <1>2, <1>3 DEF RecorderBase, QueuesTypes
<1>5. ExecutedTypes'
  BY DEF Deliver, RecorderBase, ExecutedTypes
<1>6. EngineTypes' /\ SeenTimes'
  BY EngineRests DEF engine, RecorderBase, SeenTimes
<1>7. QED
  BY <1>4, <1>5, <1>6 DEF RecorderBase

\* A delivery keeps the types.
LEMMA ExecutionArrivesBase ==
    ASSUME RecorderBase, ExecutionArrives
    PROVE  RecorderBase'
<1>1. undelivered \in Seq(ExecIds) /\ undelivered # <<>> /\ undelivered' = Tail(undelivered)
  BY DEF ExecutionArrives, RecorderBase, ExecutedTypes
<1>2. /\ Head(undelivered) = undelivered[1] /\ 1 \in DOMAIN undelivered
      /\ Tail(undelivered) \in Seq(ExecIds)
      /\ \A i \in DOMAIN Tail(undelivered) :
             i + 1 \in DOMAIN undelivered /\ Tail(undelivered)[i] = undelivered[i + 1]
  BY <1>1, HeadTailProperties, LenProperties, EmptySeq
<1>3. Head(undelivered) \in DOMAIN executed
  BY <1>2 DEF RecorderBase, ExecutedTypes
<1>4. \A i \in DOMAIN undelivered' : undelivered'[i] \in DOMAIN executed
  BY <1>1, <1>2 DEF RecorderBase, ExecutedTypes
<1>5. QED
  BY <1>1, <1>2, <1>3, <1>4, DeliveryBase DEF ExecutionArrives

\* A repeated delivery keeps the types.
LEMMA ExecutionRepeatsBase ==
    ASSUME RecorderBase, NEW id \in ExecIds, ExecutionRepeats(id)
    PROVE  RecorderBase'
<1>1. id \in DOMAIN executed
  BY DEF ExecutionRepeats, RecorderBase, ExecutedTypes
<1>2. undelivered' = undelivered
  BY DEF ExecutionRepeats
<1>3. QED
  BY <1>1, <1>2, DeliveryBase DEF ExecutionRepeats, RecorderBase, ExecutedTypes

\* What a book completes is fit for the log.
LEMMA BatchTypes ==
    ASSUME RecorderBase, NEW cts \in Times, (seen \in [ExecIds -> SUBSET Times])'
    PROVE  Batch(cts) \subseteq Logged
<1> SUFFICES ASSUME NEW id \in DOMAIN trades
             PROVE  CompletedMarkout(id, UpdatedMarkout(trades[id], cts)) \in Logged
  BY DEF Batch
<1>1. id \in ExecIds /\ trades[id] \in PendingMarkouts
  BY DEF RecorderBase, EngineTypes, ExecutedTypes
<1>2. UpdatedMarkout(trades[id], cts) \in PendingMarkouts
  BY <1>1, SampledTypes
<1> DEFINE updated == UpdatedMarkout(trades[id], cts)
<1> HIDE DEF updated
<1>3. seen'[id] \in SUBSET Times
  BY <1>1
<1>4. CompletedMarkout(id, updated) \in Logged
  BY <1>1, <1>2, <1>3 DEF CompletedMarkout, Logged, PendingMarkouts, updated
<1>5. QED
  BY <1>4 DEF updated

\* A book that is taken keeps the types.
LEMMA TakeBookBase ==
    ASSUME RecorderBase, TakeBook
    PROVE  RecorderBase'
<1> DEFINE cts == Head(from_book).cts
<1>1. PICK batch : BookTaken(cts, batch)
  BY BookIsTaken
<1>2. cts \in Times /\ cts <= now /\ \A id \in ExecIds : \A t \in seen[id] : t <= cts
  BY HeadOfBooks DEF TakeBook
<1>3. seen' = [id \in ExecIds |-> IF id \in DOMAIN trades THEN seen[id] \cup {cts} ELSE {}]
  BY DEF TakeBook
<1>4. from_book' = <<>> /\ pc' = "event" /\ UNCHANGED <<outside, order_events>>
  BY DEF TakeBook
<1> HIDE DEF cts
<1>5. seen' \in [ExecIds -> SUBSET Times]
  BY <1>2, <1>3 DEF RecorderBase, EngineTypes
<1>6. completed' \in Seq(Logged)
  <2>1. batch \in Seq(Logged)
    BY <1>1, <1>2, <1>5, BatchTypes, SeqMonotonic DEF BookTaken
  <2>2. completed \in Seq(Logged) /\ completed' = completed \o batch
    BY <1>1 DEF BookTaken, RecorderBase, EngineTypes
  <2>3. QED
    BY <2>1, <2>2, ConcatProperties
<1>7. \A id \in DOMAIN trades' : /\ id \in DOMAIN trades
                                /\ trades'[id] \in PendingMarkouts
                                /\ trades'[id].fill_ts = trades[id].fill_ts
                                /\ ~IsComplete(trades'[id])
  <2> SUFFICES ASSUME NEW id \in DOMAIN trades'
               PROVE  /\ id \in DOMAIN trades
                      /\ trades'[id] \in PendingMarkouts
                      /\ trades'[id].fill_ts = trades[id].fill_ts
                      /\ ~IsComplete(trades'[id])
    OBVIOUS
  <2>1. /\ id \in DOMAIN trades /\ ~IsComplete(UpdatedMarkout(trades[id], cts))
        /\ trades'[id] = UpdatedMarkout(trades[id], cts)
    BY <1>1 DEF BookTaken
  <2>2. trades[id] \in PendingMarkouts
    BY <2>1 DEF RecorderBase, EngineTypes
  <2>3. QED
    BY <1>2, <2>1, <2>2, SampledTypes
<1>8. trades' = [id \in DOMAIN trades' |-> trades'[id]]
  BY <1>1 DEF BookTaken
<1>9. EngineTypes'
  <2>1. executed' = executed
    BY <1>4 DEF outside
  <2>2. DOMAIN trades' \subseteq DOMAIN executed'
    BY <1>7, <2>1 DEF RecorderBase, EngineTypes
  <2>3. \A id \in DOMAIN trades' : /\ trades'[id] \in PendingMarkouts
                                  /\ trades'[id].fill_ts = executed'[id]
                                  /\ ~IsComplete(trades'[id])
    BY <1>7, <2>1 DEF RecorderBase, EngineTypes
  <2>4. QED
    BY <1>4, <1>5, <1>6, <1>8, <2>2, <2>3 DEF EngineTypes, IsComplete
<1>10. ExecutedTypes' /\ QueuesTypes'
  BY <1>4 DEF outside, RecorderBase, ExecutedTypes, QueuesTypes
<1>11. SeenTimes'
  BY <1>2, <1>3, <1>4 DEF outside, RecorderBase, SeenTimes
<1>12. QED
  BY <1>9, <1>10, <1>11 DEF RecorderBase

\* The next event of the channel.
LEMMA HeadOfEvents ==
    ASSUME RecorderBase, order_events # <<>>
    PROVE  /\ Head(order_events) \in Events /\ Head(order_events) = order_events[1]
           /\ 1 \in DOMAIN order_events
           /\ Head(order_events).exec_id \in DOMAIN executed
           /\ Head(order_events).exec_ts = executed[Head(order_events).exec_id]
           /\ Tail(order_events) \in Seq(Events)
           /\ \A i \in DOMAIN Tail(order_events) :
                  /\ i + 1 \in DOMAIN order_events
                  /\ Tail(order_events)[i] = order_events[i + 1]
<1>1. order_events \in Seq(Events)
  BY DEF RecorderBase, QueuesTypes
<1>2. /\ Head(order_events) \in Events /\ Head(order_events) = order_events[1]
      /\ 1 \in DOMAIN order_events
      /\ Tail(order_events) \in Seq(Events)
      /\ \A i \in DOMAIN Tail(order_events) :
             i + 1 \in DOMAIN order_events /\ Tail(order_events)[i] = order_events[i + 1]
  BY <1>1, HeadTailProperties, LenProperties, EmptySeq
<1>3. QED
  BY <1>2 DEF RecorderBase, QueuesTypes

\* A markout that has just begun.
Begun(event) == [fill_ts |-> event.exec_ts, mid_1s |-> NA, mid_5s |-> NA, mid_10s |-> NA]

\* What an event makes of the map.
LEMMA EventIsTaken ==
    ASSUME RecorderBase, TakeEvent
    PROVE  LET event == Head(order_events)
           IN /\ event.exec_id \in ExecIds
              /\ DOMAIN trades' = DOMAIN trades \cup {event.exec_id}
              /\ trades' = [id \in DOMAIN trades' |-> trades'[id]]
              /\ trades'[event.exec_id] = Begun(event)
              /\ \A id \in DOMAIN trades : id # event.exec_id => trades'[id] = trades[id]
              /\ seen'[event.exec_id] = {}
              /\ \A id \in ExecIds : id # event.exec_id => seen'[id] = seen[id]
              /\ seen' \in [ExecIds -> SUBSET Times]
<1> DEFINE event == Head(order_events)
<1>1. event.exec_id \in ExecIds /\ seen \in [ExecIds -> SUBSET Times]
  BY HeadOfEvents DEF TakeEvent, RecorderBase, ExecutedTypes, EngineTypes
<1>2. trades' = Insert(trades, event.exec_id, Begun(event))
  BY DEF TakeEvent, UpdateTrades, Begun
<1>3. seen' = [seen EXCEPT ![event.exec_id] = {}]
  BY DEF TakeEvent
<1> HIDE DEF event
<1>4. /\ DOMAIN trades' = DOMAIN trades \cup {event.exec_id}
      /\ trades' = [id \in DOMAIN trades' |-> trades'[id]]
      /\ trades'[event.exec_id] = Begun(event)
      /\ \A id \in DOMAIN trades : id # event.exec_id => trades'[id] = trades[id]
  BY <1>2 DEF Insert
<1>5. QED
  BY <1>1, <1>3, <1>4 DEF event

\* An event that is taken keeps the types.
LEMMA TakeEventBase ==
    ASSUME RecorderBase, TakeEvent
    PROVE  RecorderBase'
<1> DEFINE event == Head(order_events)
<1>1. /\ event \in Events /\ event.exec_id \in DOMAIN executed
      /\ event.exec_ts = executed[event.exec_id]
      /\ Tail(order_events) \in Seq(Events)
      /\ \A i \in DOMAIN Tail(order_events) :
             i + 1 \in DOMAIN order_events /\ Tail(order_events)[i] = order_events[i + 1]
  BY HeadOfEvents DEF TakeEvent
<1>2. /\ event.exec_id \in ExecIds
      /\ DOMAIN trades' = DOMAIN trades \cup {event.exec_id}
      /\ trades' = [id \in DOMAIN trades' |-> trades'[id]]
      /\ trades'[event.exec_id] = Begun(event)
      /\ \A id \in DOMAIN trades : id # event.exec_id => trades'[id] = trades[id]
      /\ seen'[event.exec_id] = {}
      /\ \A id \in ExecIds : id # event.exec_id => seen'[id] = seen[id]
      /\ seen' \in [ExecIds -> SUBSET Times]
  BY EventIsTaken
<1>3. /\ order_events' = Tail(order_events) /\ pc' = "book"
      /\ UNCHANGED <<outside, from_book, completed>>
  BY DEF TakeEvent
<1> HIDE DEF event
<1>4. Begun(event) \in PendingMarkouts /\ ~IsComplete(Begun(event))
      /\ Begun(event).fill_ts = event.exec_ts
  BY <1>1 DEF Begun, PendingMarkouts, Events, DataPoints, IsComplete
<1>5. EngineTypes'
  <2>1. executed' = executed
    BY <1>3 DEF outside
  <2>2. DOMAIN trades' \subseteq DOMAIN executed'
    BY <1>1, <1>2, <2>1 DEF RecorderBase, EngineTypes
  <2>3. \A id \in DOMAIN trades' : /\ trades'[id] \in PendingMarkouts
                                  /\ trades'[id].fill_ts = executed'[id]
                                  /\ ~IsComplete(trades'[id])
    BY <1>1, <1>2, <1>4, <2>1 DEF RecorderBase, EngineTypes
  <2>4. QED
    BY <1>2, <1>3, <2>2, <2>3 DEF RecorderBase, EngineTypes, IsComplete
<1>6. ExecutedTypes'
  BY <1>3 DEF outside, RecorderBase, ExecutedTypes
<1>7. QueuesTypes'
  BY <1>1, <1>3 DEF outside, RecorderBase, QueuesTypes
<1>8. SeenTimes'
  BY <1>2, <1>3 DEF outside, RecorderBase, SeenTimes
<1>9. QED
  BY <1>5, <1>6, <1>7, <1>8 DEF RecorderBase

\* The steps of the thread that move neither the map nor the log.
IdleStep == PrivateWebSocketEnds \/ PanicOnEmptySide \/ NoBook \/ Timeout \/ Return
                \/ UNCHANGED recorder_vars

\* What these steps leave alone, and the values they give the rest.
LEMMA IdleRests ==
    ASSUME RecorderBase, IdleStep
    PROVE  /\ UNCHANGED <<now, executed, undelivered, delivered, order_events, trades,
                          completed, seen>>
           /\ from_book' \in {from_book, <<>>}
           /\ pc' \in {"book", "event", "panicked", "returned"}
BY DEF IdleStep, PrivateWebSocketEnds, PanicOnEmptySide, NoBook, Timeout, Return, recorder_vars,
       engine, outside, RecorderBase, EngineTypes

\* These steps keep the types.
LEMMA IdleBase ==
    ASSUME RecorderBase, IdleStep
    PROVE  RecorderBase'
<1>1. /\ UNCHANGED <<now, executed, undelivered, delivered, order_events, trades, completed,
                     seen>>
      /\ from_book' \in {from_book, <<>>}
      /\ pc' \in {"book", "event", "panicked", "returned"}
  BY IdleRests
<1>2. ExecutedTypes' /\ EngineTypes'
  BY <1>1 DEF RecorderBase, ExecutedTypes, EngineTypes
<1>3. CASE from_book' = from_book
  <2>1. QueuesTypes' /\ SeenTimes'
    BY <1>1, <1>3 DEF RecorderBase, QueuesTypes, SeenTimes
  <2>2. QED
    BY <1>2, <2>1 DEF RecorderBase
<1>4. CASE from_book' = <<>>
  <2>1. <<>> \in Seq(Books) /\ Len(<<>>) <= 1 /\ DOMAIN <<>> = {}
    OBVIOUS
  <2>2. QueuesTypes' /\ SeenTimes'
    BY <1>1, <1>4, <2>1 DEF RecorderBase, QueuesTypes, SeenTimes
  <2>3. QED
    BY <1>2, <2>2 DEF RecorderBase
<1>5. QED
  BY <1>1, <1>3, <1>4

\* Every step keeps the types.
LEMMA NextRecorderBase ==
    ASSUME RecorderBase, [RecorderNext]_recorder_vars
    PROVE  RecorderBase'
BY TimePassesBase, BookArrivesBase, OrderExecutesBase, ExecutionArrivesBase,
   ExecutionRepeatsBase, TakeBookBase, TakeEventBase, IdleBase
   DEF RecorderNext, Cycle, IdleStep

-----------------------------------------------------------------------------
\* Executions have the times they happened at, and the channel is connected or not.
OutsideTypes == executed \in [DOMAIN executed -> Times] /\ connected \in BOOLEAN

\* Only an execution adds to what has executed, and only the end of the websocket ends the
\* connection.
LEMMA NextOutside ==
    ASSUME RecorderBase, OutsideTypes, [RecorderNext]_recorder_vars
    PROVE  OutsideTypes'
<1>1. CASE UNCHANGED <<executed, connected>>
  BY <1>1 DEF OutsideTypes
<1>2. ASSUME NEW id \in ExecIds, OrderExecutes(id) PROVE OutsideTypes'
  <2>1. now \in Times /\ executed' = Insert(executed, id, now) /\ connected' = connected
    BY <1>2 DEF OrderExecutes, RecorderBase, ExecutedTypes
  <2>2. executed' \in [DOMAIN executed \cup {id} -> Times]
    BY <2>1 DEF Insert, OutsideTypes
  <2>3. DOMAIN executed' = DOMAIN executed \cup {id}
    BY <2>1 DEF Insert
  <2>4. QED
    BY <2>1, <2>2, <2>3 DEF OutsideTypes
<1>3. CASE PrivateWebSocketEnds
  BY <1>3 DEF PrivateWebSocketEnds, OutsideTypes
<1>4. TimePasses \/ ExecutionArrives \/ UNCHANGED recorder_vars => UNCHANGED <<executed, connected>>
  BY DEF TimePasses, ExecutionArrives, recorder_vars, outside
<1>5. \A two_sided : BookArrives(two_sided) => UNCHANGED <<executed, connected>>
  BY DEF BookArrives, outside
<1>6. \A id : ExecutionRepeats(id) => UNCHANGED <<executed, connected>>
  BY DEF ExecutionRepeats
<1>7. Cycle => UNCHANGED <<executed, connected>>
  BY DEF Cycle, TakeBook, PanicOnEmptySide, NoBook, TakeEvent, Timeout, Return, outside
<1>8. QED
  BY <1>1, <1>2, <1>3, <1>4, <1>5, <1>6, <1>7 DEF RecorderNext

\* What the exchange, the channels and the engine hold always has its type, only what has
\* executed is waited for, and nothing waits in the map that could have been logged.
THEOREM RecorderTypeCorrect == RecorderSpec => []RecorderTypeOK
<1>1. RecorderInit => OutsideTypes
  <2>1. ASSUME RecorderInit PROVE executed = <<>> /\ connected = TRUE
    BY <2>1 DEF RecorderInit
  <2>2. <<>> \in [DOMAIN <<>> -> Times]
    BY DOMAIN <<>> = {}
  <2>3. QED
    BY <2>1, <2>2 DEF OutsideTypes
<1>2. ASSUME RecorderBase, OutsideTypes PROVE RecorderTypeOK
  <2>1. trades \in [DOMAIN trades -> PendingMarkouts]
    BY <1>2 DEF RecorderBase, EngineTypes
  <2>2. QED
    BY <1>2, <2>1 DEF RecorderBase, ExecutedTypes, QueuesTypes, EngineTypes, OutsideTypes,
       RecorderTypeOK
<1>3. QED
  BY <1>1, <1>2, InitRecorder, NextRecorderBase, NextOutside, PTL DEF RecorderSpec

-----------------------------------------------------------------------------
\* What is sampled.

\* A concatenation has the elements of its parts, in their order.
LEMMA PartsOfConcat ==
    ASSUME NEW S, NEW s \in Seq(S), NEW t \in Seq(S)
    PROVE  /\ s \o t \in Seq(S)
           /\ DOMAIN s = 1 .. Len(s) /\ DOMAIN t = 1 .. Len(t)
           /\ Len(s) \in Nat /\ Len(t) \in Nat
           /\ DOMAIN (s \o t) = 1 .. Len(s) + Len(t)
           /\ \A i \in DOMAIN s : (s \o t)[i] = s[i]
           /\ \A j \in DOMAIN t : (s \o t)[Len(s) + j] = t[j]
           /\ \A i \in DOMAIN (s \o t) :
                  i \in DOMAIN s \/ (i - Len(s) \in DOMAIN t /\ i = Len(s) + (i - Len(s))
                                      /\ i > Len(s))
<1>1. /\ s \o t \in Seq(S) /\ Len(s \o t) = Len(s) + Len(t)
      /\ Len(s) \in Nat /\ Len(t) \in Nat
      /\ DOMAIN s = 1 .. Len(s) /\ DOMAIN t = 1 .. Len(t)
      /\ DOMAIN (s \o t) = 1 .. Len(s \o t)
  BY ConcatProperties, LenProperties
<1>2. \A i \in 1 .. Len(s) + Len(t) : (s \o t)[i] = IF i <= Len(s) THEN s[i] ELSE t[i - Len(s)]
  BY <1>1, ConcatProperties
<1>3. QED
  BY <1>1, <1>2

\* The least of the times at or after one is the first.
LEMMA LeastIsFirst ==
    ASSUME NEW times \in SUBSET Nat, NEW due \in Nat, NEW m \in times, due <= m,
           \A u \in times : due <= u => m <= u
    PROVE  FirstFrom(times, due) = m
<1> DEFINE elapsed == {t \in times : due <= t}
<1>1. m \in elapsed /\ \A u \in elapsed : m <= u /\ u \in Nat
  OBVIOUS
<1>2. FirstFrom(times, due) = CHOOSE t \in elapsed : \A u \in elapsed : t <= u
  BY <1>1 DEF FirstFrom
<1> HIDE DEF elapsed
<1>3. \A t \in elapsed : (\A u \in elapsed : t <= u) => t = m
  BY <1>1
<1>4. QED
  BY <1>1, <1>2, <1>3

\* A data point that is the first of the books so far stays so when a later book is sampled.
LEMMA SampleIsFirst ==
    ASSUME NEW times \in SUBSET Nat, NEW due \in Nat, NEW cts \in Nat,
           \A t \in times : t <= cts
    PROVE  Sample(FirstFrom(times, due), due, cts) = FirstFrom(times \cup {cts}, due)
<1>1. CASE \A t \in times : ~(due <= t)
  <2>1. FirstFrom(times, due) = NA
    BY <1>1 DEF FirstFrom
  <2>2. CASE due <= cts
    <3>1. FirstFrom(times \cup {cts}, due) = cts
      BY <1>1, <2>2, LeastIsFirst
    <3>2. QED
      BY <2>1, <2>2, <3>1 DEF Sample
  <2>3. CASE ~(due <= cts)
    <3>1. FirstFrom(times \cup {cts}, due) = NA
      BY <1>1, <2>3 DEF FirstFrom
    <3>2. QED
      BY <2>1, <2>3, <3>1 DEF Sample
  <2>4. QED
    BY <2>2, <2>3
<1>2. CASE \E t \in times : due <= t
  <2> DEFINE elapsed == {t \in times : due <= t}
  <2>1. elapsed \subseteq Nat /\ elapsed # {}
    BY <1>2
  <2> HIDE DEF elapsed
  <2>2. PICK m \in elapsed : \A u \in elapsed : m <= u
    BY <2>1, LeastNumber
  <2>3. m \in times /\ due <= m /\ m \in Nat /\ \A u \in times : due <= u => m <= u
    BY <2>2 DEF elapsed
  <2>4. FirstFrom(times, due) = m
    BY <2>3, LeastIsFirst
  <2>5. FirstFrom(times \cup {cts}, due) = m
    <3>1. times \cup {cts} \in SUBSET Nat /\ m \in times \cup {cts}
      BY <2>3
    <3>2. \A u \in times \cup {cts} : due <= u => m <= u
      BY <2>3
    <3>3. QED
      BY <2>3, <3>1, <3>2, LeastIsFirst
  <2>6. m # NA
    BY <2>3, RecorderAssumption
  <2>7. QED
    BY <2>4, <2>5, <2>6 DEF Sample
<1>3. QED
  BY <1>1, <1>2

\* A markout that a book updates is sampled from that book too.
LEMMA UpdateKeepsSampled ==
    ASSUME NEW markout \in PendingMarkouts, NEW cts \in Times, NEW times \in SUBSET Times,
           \A t \in times : t <= cts, SampledFrom(markout, times)
    PROVE  SampledFrom(UpdatedMarkout(markout, cts), times \cup {cts})
<1>1. /\ markout.fill_ts \in Nat /\ cts \in Nat /\ times \in SUBSET Nat
      /\ H1 \in Nat /\ H5 \in Nat /\ H10 \in Nat
  BY TimesAreNumbers, RecorderAssumption DEF PendingMarkouts
<1> DEFINE ts == markout.fill_ts
<1> HIDE DEF ts
<1>2. ts + H1 \in Nat /\ ts + H5 \in Nat /\ ts + H10 \in Nat
  BY <1>1 DEF ts
<1>3. /\ Sample(FirstFrom(times, ts + H1), ts + H1, cts) = FirstFrom(times \cup {cts}, ts + H1)
      /\ Sample(FirstFrom(times, ts + H5), ts + H5, cts) = FirstFrom(times \cup {cts}, ts + H5)
      /\ Sample(FirstFrom(times, ts + H10), ts + H10, cts)
             = FirstFrom(times \cup {cts}, ts + H10)
  BY <1>1, <1>2, SampleIsFirst
<1>4. QED
  BY <1>3, SampledTypes DEF SampledFrom, ts

\* A markout that has just begun is sampled from nothing.
LEMMA BegunIsSampled ==
    ASSUME NEW event
    PROVE  SampledFrom(Begun(event), {})
BY DEF SampledFrom, FirstFrom, Begun

\* A logged markout has what the pending one had.
LEMMA LogKeepsSampled ==
    ASSUME NEW id, NEW pending, SampledFrom(pending, seen'[id])
    PROVE  SampledFrom(CompletedMarkout(id, pending), CompletedMarkout(id, pending).seen)
BY DEF SampledFrom, CompletedMarkout

\* A book keeps the samples first.
LEMMA TakeBookSamples ==
    ASSUME RecorderBase, SamplesAreFirstElapsed, TakeBook
    PROVE  SamplesAreFirstElapsed'
<1> DEFINE cts == Head(from_book).cts
<1>1. PICK batch : BookTaken(cts, batch)
  BY BookIsTaken
<1>2. cts \in Times /\ cts <= now /\ \A id \in ExecIds : \A t \in seen[id] : t <= cts
  BY HeadOfBooks DEF TakeBook
<1>3. seen' = [id \in ExecIds |-> IF id \in DOMAIN trades THEN seen[id] \cup {cts} ELSE {}]
  BY DEF TakeBook
<1> HIDE DEF cts
<1>4. \A id \in DOMAIN trades : SampledFrom(UpdatedMarkout(trades[id], cts), seen'[id])
  <2> SUFFICES ASSUME NEW id \in DOMAIN trades
               PROVE  SampledFrom(UpdatedMarkout(trades[id], cts), seen'[id])
    OBVIOUS
  <2>1. /\ id \in ExecIds /\ trades[id] \in PendingMarkouts /\ seen[id] \in SUBSET Times
        /\ SampledFrom(trades[id], seen[id])
    BY DEF RecorderBase, EngineTypes, ExecutedTypes, SamplesAreFirstElapsed
  <2>2. seen'[id] = seen[id] \cup {cts}
    BY <1>3, <2>1
  <2>3. QED
    BY <1>2, <2>1, <2>2, UpdateKeepsSampled
<1>5. \A id \in DOMAIN trades' : SampledFrom(trades'[id], seen'[id])
  BY <1>1, <1>4 DEF BookTaken
<1>6. \A x \in Batch(cts) : SampledFrom(x, x.seen)
  BY <1>4, LogKeepsSampled DEF Batch
<1>7. \A i \in DOMAIN completed' : SampledFrom(completed'[i], completed'[i].seen)
  <2>1. seen' \in [ExecIds -> SUBSET Times]
    BY <1>2, <1>3 DEF RecorderBase, EngineTypes
  <2>2. batch \in Seq(Batch(cts)) /\ batch \in Seq(Logged) /\ completed \in Seq(Logged)
    BY <1>1, <1>2, <2>1, BatchTypes, SeqMonotonic DEF BookTaken, RecorderBase, EngineTypes
  <2>3. \A i \in DOMAIN batch : batch[i] \in Batch(cts)
    BY <2>2, LenProperties, ElementOfSeq
  <2>4. completed' = completed \o batch
    BY <1>1 DEF BookTaken
  <2>5. \A i \in DOMAIN completed' :
            \/ i \in DOMAIN completed /\ completed'[i] = completed[i]
            \/ completed'[i] \in Batch(cts)
    BY <2>2, <2>3, <2>4, PartsOfConcat
  <2>6. QED
    BY <1>6, <2>5 DEF SamplesAreFirstElapsed
<1>8. QED
  BY <1>5, <1>7 DEF SamplesAreFirstElapsed

\* An execution that is taken, again or for the first time, starts with no sample.
LEMMA TakeEventSamples ==
    ASSUME RecorderBase, SamplesAreFirstElapsed, TakeEvent
    PROVE  SamplesAreFirstElapsed'
<1> DEFINE event == Head(order_events)
<1>1. /\ DOMAIN trades' = DOMAIN trades \cup {event.exec_id}
      /\ trades'[event.exec_id] = Begun(event)
      /\ \A id \in DOMAIN trades : id # event.exec_id => trades'[id] = trades[id]
      /\ seen'[event.exec_id] = {}
      /\ \A id \in ExecIds : id # event.exec_id => seen'[id] = seen[id]
  BY EventIsTaken
<1>2. completed' = completed
  BY DEF TakeEvent
<1> HIDE DEF event
<1>3. DOMAIN trades \subseteq ExecIds
  BY DEF RecorderBase, EngineTypes, ExecutedTypes
<1>4. SampledFrom(trades'[event.exec_id], seen'[event.exec_id])
  BY <1>1, BegunIsSampled
<1>5. QED
  BY <1>1, <1>2, <1>3, <1>4 DEF SamplesAreFirstElapsed

\* Every data point, logged or pending, is that of the first book at or after its horizon
\* among those the engine processed while the execution was pending.
THEOREM SamplesFirst == RecorderSpec => []SamplesAreFirstElapsed
<1>1. RecorderInit => SamplesAreFirstElapsed
  BY DEF RecorderInit, SamplesAreFirstElapsed
<1>2. ASSUME RecorderBase, SamplesAreFirstElapsed, [RecorderNext]_recorder_vars
      PROVE  SamplesAreFirstElapsed'
  <2>1. CASE TakeBook
    BY <1>2, <2>1, TakeBookSamples
  <2>2. CASE TakeEvent
    BY <1>2, <2>2, TakeEventSamples
  <2>3. CASE IdleStep
    BY <1>2, <2>3, IdleRests DEF SamplesAreFirstElapsed, SampledFrom
  <2>4. ASSUME UNCHANGED engine PROVE SamplesAreFirstElapsed'
    BY <1>2, <2>4 DEF engine, SamplesAreFirstElapsed, SampledFrom
  <2>5. QED
    BY <1>2, <2>1, <2>2, <2>3, <2>4 DEF RecorderNext, Cycle, IdleStep, TimePasses,
       BookArrives, OrderExecutes, ExecutionArrives, ExecutionRepeats
<1>3. QED
  BY <1>1, <1>2, InitRecorder, NextRecorderBase, PTL DEF RecorderSpec


-----------------------------------------------------------------------------
\* The order of the log.

\* Something is sampled exactly when the last of the books is at or after its time.
LEMMA SampledOnceElapsed ==
    ASSUME NEW times \in SUBSET Nat, NEW cts \in times, \A t \in times : t <= cts,
           NEW due \in Nat
    PROVE  FirstFrom(times, due) # NA <=> due <= cts
<1>1. CASE due <= cts
  <2> DEFINE elapsed == {t \in times : due <= t}
  <2>1. elapsed \subseteq Nat /\ elapsed # {}
    BY <1>1
  <2> HIDE DEF elapsed
  <2>2. PICK m \in elapsed : \A u \in elapsed : m <= u
    BY <2>1, LeastNumber
  <2>3. m \in times /\ due <= m /\ m \in Nat /\ \A u \in times : due <= u => m <= u
    BY <2>2 DEF elapsed
  <2>4. FirstFrom(times, due) = m
    BY <2>3, LeastIsFirst
  <2>5. QED
    BY <1>1, <2>3, <2>4, RecorderAssumption
<1>2. CASE ~(due <= cts)
  <2>1. cts \in Nat /\ \A t \in times : t \in Nat
    OBVIOUS
  <2>2. \A t \in times : ~(due <= t)
    BY <1>2, <2>1
  <2>3. QED
    BY <1>2, <2>2 DEF FirstFrom
<1>3. QED
  BY <1>1, <1>2

\* A markout is complete exactly when its last horizon has elapsed.
LEMMA CompleteOnceElapsed ==
    ASSUME NEW markout, markout.fill_ts \in Nat, NEW times \in SUBSET Nat, NEW cts \in times,
           \A t \in times : t <= cts, SampledFrom(markout, times)
    PROVE  IsComplete(markout) <=> markout.fill_ts + H10 <= cts
<1> DEFINE ts == markout.fill_ts
<1>1. ts \in Nat /\ cts \in Nat
  OBVIOUS
<1> HIDE DEF ts
<1>2. /\ ts + H1 \in Nat /\ ts + H5 \in Nat /\ ts + H10 \in Nat
      /\ ts + H1 <= ts + H10 /\ ts + H5 <= ts + H10
  BY <1>1, RecorderAssumption
<1>3. /\ FirstFrom(times, ts + H1) # NA <=> ts + H1 <= cts
      /\ FirstFrom(times, ts + H5) # NA <=> ts + H5 <= cts
      /\ FirstFrom(times, ts + H10) # NA <=> ts + H10 <= cts
  BY <1>2, SampledOnceElapsed
<1>4. ts + H10 <= cts => ts + H1 <= cts /\ ts + H5 <= cts
  BY <1>1, <1>2
<1>5. QED
  BY <1>3, <1>4 DEF IsComplete, SampledFrom, ts

\* No execution was delivered more than once.
Once == \A id \in ExecIds : delivered[id] <= 1

\* The times of the fills that are logged, in the map, in the channel and undelivered.
LogTimes == {completed[i].fill_ts : i \in DOMAIN completed}
PendingTimes == {trades[id].fill_ts : id \in DOMAIN trades}
EventTimes == {order_events[i].exec_ts : i \in DOMAIN order_events}
ComingTimes == {executed[undelivered[i]] : i \in DOMAIN undelivered}

LogSorted ==
    \A i, j \in DOMAIN completed : i < j => completed[i].fill_ts <= completed[j].fill_ts

EventsSorted ==
    \A i, j \in DOMAIN order_events :
        i < j => order_events[i].exec_ts <= order_events[j].exec_ts

ComingSorted ==
    \A i, j \in DOMAIN undelivered :
        i < j => executed[undelivered[i]] <= executed[undelivered[j]]

\* None of some times is after any of others.
NoneAfter(earlier, later) == \A t \in earlier, u \in later : t <= u

\* Executions keep the order of their fills on the way from the exchange to the log.
FlowInOrder ==
    /\ LogSorted /\ EventsSorted /\ ComingSorted
    /\ NoneAfter(LogTimes, PendingTimes \cup EventTimes \cup ComingTimes \cup {now})
    /\ NoneAfter(PendingTimes, EventTimes \cup ComingTimes)
    /\ NoneAfter(EventTimes, ComingTimes)

\* The times of all of them are numbers, and not in the future.
LEMMA FlowTimes ==
    ASSUME RecorderBase
    PROVE  /\ now \in Nat /\ LogTimes \subseteq Nat
           /\ \A t \in PendingTimes \cup EventTimes \cup ComingTimes : t \in Nat /\ t <= now
           /\ \A i \in DOMAIN undelivered : undelivered[i] \in DOMAIN executed
           /\ \A i \in DOMAIN completed : completed[i] \in Logged
<1>1. \A id \in DOMAIN executed : executed[id] \in Nat /\ executed[id] <= now
  BY TimesAreNumbers DEF RecorderBase, ExecutedTypes
<1>2. \A i \in DOMAIN completed : completed[i] \in Logged
  BY LenProperties, ElementOfSeq DEF RecorderBase, EngineTypes
<1>3. \A i \in DOMAIN completed : completed[i].fill_ts \in Nat
  BY <1>2, TimesAreNumbers DEF Logged
<1>4. now \in Nat
  BY TimesAreNumbers DEF RecorderBase, ExecutedTypes
<1>5. \A t \in PendingTimes : t \in Nat /\ t <= now
  BY <1>1 DEF RecorderBase, EngineTypes, PendingTimes
<1>6. \A t \in EventTimes : t \in Nat /\ t <= now
  BY <1>1 DEF RecorderBase, QueuesTypes, EventTimes
<1>7. \A t \in ComingTimes : t \in Nat /\ t <= now
  BY <1>1 DEF RecorderBase, ExecutedTypes, ComingTimes
<1>8. QED
  BY <1>2, <1>3, <1>4, <1>5, <1>6, <1>7 DEF RecorderBase, ExecutedTypes, LogTimes

\* Time that passes.
LEMMA TimePassesFlow ==
    ASSUME RecorderBase, FlowInOrder, TimePasses
    PROVE  FlowInOrder'
<1>1. now' = now + 1 /\ UNCHANGED <<executed, undelivered, order_events, trades, completed>>
  BY DEF TimePasses, engine
<1>2. UNCHANGED <<LogTimes, PendingTimes, EventTimes, ComingTimes>>
  BY <1>1 DEF LogTimes, PendingTimes, EventTimes, ComingTimes
<1>3. LogSorted' /\ EventsSorted' /\ ComingSorted'
  BY <1>1 DEF FlowInOrder, LogSorted, EventsSorted, ComingSorted
<1>4. NoneAfter(LogTimes, {now'})
  BY <1>1, FlowTimes DEF FlowInOrder, NoneAfter
<1>5. QED
  BY <1>2, <1>3, <1>4 DEF FlowInOrder, NoneAfter

\* An execution that happens is the latest.
LEMMA OrderExecutesFlow ==
    ASSUME RecorderBase, FlowInOrder, NEW id \in ExecIds, OrderExecutes(id)
    PROVE  FlowInOrder'
<1>1. /\ executed'[id] = now
      /\ \A x \in DOMAIN executed : executed'[x] = executed[x]
  BY DEF OrderExecutes, Insert
<1>2. /\ undelivered' = Append(undelivered, id) /\ undelivered \in Seq(ExecIds)
      /\ UNCHANGED <<now, order_events, trades, completed>>
  BY DEF OrderExecutes, engine, RecorderBase, ExecutedTypes
<1>3. /\ DOMAIN undelivered = 1 .. Len(undelivered) /\ Len(undelivered) \in Nat
      /\ DOMAIN undelivered' = 1 .. Len(undelivered) + 1
      /\ \A i \in 1 .. Len(undelivered) : undelivered'[i] = undelivered[i]
      /\ undelivered'[Len(undelivered) + 1] = id
  BY <1>2, LenProperties, AppendProperties
<1> DEFINE n == Len(undelivered)
<1>4. /\ \A i \in DOMAIN undelivered : executed'[undelivered'[i]] = executed[undelivered[i]]
      /\ executed'[undelivered'[n + 1]] = now
      /\ \A i \in DOMAIN undelivered' : i \in DOMAIN undelivered \/ i = n + 1
  BY <1>1, <1>3, FlowTimes
<1>5. \A i \in DOMAIN undelivered : executed[undelivered[i]] \in ComingTimes
  BY DEF ComingTimes
<1>6. ComingTimes' \subseteq ComingTimes \cup {now}
  BY <1>4, <1>5 DEF ComingTimes
<1>7. ComingSorted'
  <2> SUFFICES ASSUME NEW i \in DOMAIN undelivered', NEW j \in DOMAIN undelivered', i < j
               PROVE  executed'[undelivered'[i]] <= executed'[undelivered'[j]]
    BY DEF ComingSorted
  <2>1. i \in DOMAIN undelivered
    BY <1>3
  <2>2. CASE j \in DOMAIN undelivered
    BY <1>4, <2>1, <2>2 DEF FlowInOrder, ComingSorted
  <2>3. CASE j = n + 1
    BY <1>4, <1>5, <2>1, <2>3, FlowTimes
  <2>4. QED
    BY <1>4, <2>2, <2>3
<1>8. UNCHANGED <<LogTimes, PendingTimes, EventTimes, now>>
  BY <1>2 DEF LogTimes, PendingTimes, EventTimes
<1>9. LogSorted' /\ EventsSorted'
  BY <1>2 DEF FlowInOrder, LogSorted, EventsSorted
<1>10. /\ NoneAfter(LogTimes, ComingTimes') /\ NoneAfter(PendingTimes, ComingTimes')
       /\ NoneAfter(EventTimes, ComingTimes')
  BY <1>6, FlowTimes DEF FlowInOrder, NoneAfter
<1>11. QED
  BY <1>7, <1>8, <1>9, <1>10 DEF FlowInOrder, NoneAfter

\* A delivery moves the first of those undelivered to the end of the channel.
LEMMA ExecutionArrivesFlow ==
    ASSUME RecorderBase, FlowInOrder, ExecutionArrives
    PROVE  FlowInOrder'
<1> DEFINE id == Head(undelivered)
           event == [exec_id |-> id, exec_ts |-> executed[id]]
           ts == event.exec_ts
<1>1. /\ undelivered \in Seq(ExecIds) /\ undelivered # <<>> /\ undelivered' = Tail(undelivered)
      /\ order_events' = Append(order_events, event) /\ order_events \in Seq(Events)
      /\ UNCHANGED <<now, executed, trades, completed>>
  BY DEF ExecutionArrives, Deliver, engine, RecorderBase, ExecutedTypes, QueuesTypes
<1>2. /\ id = undelivered[1] /\ 1 \in DOMAIN undelivered
      /\ DOMAIN undelivered = 1 .. Len(undelivered)
      /\ \A i \in DOMAIN Tail(undelivered) :
             i + 1 \in DOMAIN undelivered /\ Tail(undelivered)[i] = undelivered[i + 1]
      /\ DOMAIN Tail(undelivered) \subseteq Nat \ {0}
  <2>1. /\ id = undelivered[1] /\ 1 \in DOMAIN undelivered
        /\ DOMAIN undelivered = 1 .. Len(undelivered)
        /\ Tail(undelivered) \in Seq(ExecIds)
        /\ \A i \in DOMAIN Tail(undelivered) :
               i + 1 \in DOMAIN undelivered /\ Tail(undelivered)[i] = undelivered[i + 1]
    BY <1>1, HeadTailProperties, LenProperties, EmptySeq
  <2>2. DOMAIN Tail(undelivered) = 1 .. Len(Tail(undelivered))
    BY <2>1, LenProperties
  <2>3. QED
    BY <2>1, <2>2
<1>3. ts = executed[undelivered[1]] /\ event \in Events
  BY <1>2 DEF RecorderBase, ExecutedTypes, Events
<1> HIDE DEF event, id
<1>4. /\ DOMAIN order_events = 1 .. Len(order_events) /\ Len(order_events) \in Nat
      /\ DOMAIN order_events' = 1 .. Len(order_events) + 1
      /\ \A i \in 1 .. Len(order_events) : order_events'[i] = order_events[i]
      /\ order_events'[Len(order_events) + 1] = event
  BY <1>1, <1>3, LenProperties, AppendProperties
<1> HIDE DEF ts
<1>5. /\ ts \in ComingTimes
      /\ \A i \in DOMAIN order_events : order_events[i].exec_ts \in EventTimes
  BY <1>2, <1>3 DEF ComingTimes, EventTimes
<1>6. ComingTimes' \subseteq ComingTimes
  BY <1>1, <1>2 DEF ComingTimes
<1>7. NoneAfter({ts}, ComingTimes')
  <2>1. \A i \in DOMAIN undelivered' : ts <= executed[undelivered'[i]]
    <3> SUFFICES ASSUME NEW i \in DOMAIN undelivered' PROVE ts <= executed[undelivered'[i]]
      OBVIOUS
    <3>1. /\ i + 1 \in DOMAIN undelivered /\ 1 < i + 1
          /\ undelivered'[i] = undelivered[i + 1]
      BY <1>1, <1>2
    <3>2. QED
      BY <1>2, <1>3, <3>1 DEF FlowInOrder, ComingSorted
  <2>2. QED
    BY <1>1, <2>1 DEF ComingTimes, NoneAfter
<1>8. EventTimes' \subseteq EventTimes \cup {ts}
  <2>1. \A i \in DOMAIN order_events' : i \in DOMAIN order_events \/ i = Len(order_events) + 1
    BY <1>4
  <2>2. QED
    BY <1>4, <1>5, <2>1 DEF EventTimes, ts
<1>9. EventsSorted'
  <2> SUFFICES ASSUME NEW i \in DOMAIN order_events', NEW j \in DOMAIN order_events', i < j
               PROVE  order_events'[i].exec_ts <= order_events'[j].exec_ts
    BY DEF EventsSorted
  <2>1. i \in DOMAIN order_events
    BY <1>4
  <2>2. order_events[i].exec_ts <= ts
    BY <1>5, <2>1 DEF FlowInOrder, NoneAfter
  <2>3. CASE j \in DOMAIN order_events
    BY <1>4, <2>1, <2>3 DEF FlowInOrder, EventsSorted
  <2>4. CASE j = Len(order_events) + 1
    BY <1>4, <2>1, <2>2, <2>4 DEF ts
  <2>5. QED
    BY <1>4, <2>3, <2>4
<1>10. ComingSorted'
  <2> SUFFICES ASSUME NEW i \in DOMAIN undelivered', NEW j \in DOMAIN undelivered', i < j
               PROVE  executed'[undelivered'[i]] <= executed'[undelivered'[j]]
    BY DEF ComingSorted
  <2>1. /\ i + 1 \in DOMAIN undelivered /\ j + 1 \in DOMAIN undelivered /\ i + 1 < j + 1
        /\ undelivered'[i] = undelivered[i + 1] /\ undelivered'[j] = undelivered[j + 1]
    BY <1>1, <1>2
  <2>2. QED
    BY <1>1, <2>1 DEF FlowInOrder, ComingSorted
<1>11. UNCHANGED <<LogTimes, PendingTimes, now>> /\ LogSorted'
  BY <1>1 DEF LogTimes, PendingTimes, FlowInOrder, LogSorted
<1>12. QED
  BY <1>5, <1>6, <1>7, <1>8, <1>9, <1>10, <1>11 DEF FlowInOrder, NoneAfter

\* The engine takes the first of the channel.
LEMMA TakeEventFlow ==
    ASSUME RecorderBase, FlowInOrder, TakeEvent
    PROVE  FlowInOrder'
<1> DEFINE event == Head(order_events)
           ts == event.exec_ts
<1>1. /\ event = order_events[1] /\ 1 \in DOMAIN order_events
      /\ order_events' = Tail(order_events)
      /\ \A i \in DOMAIN Tail(order_events) :
             i + 1 \in DOMAIN order_events /\ Tail(order_events)[i] = order_events[i + 1]
      /\ Tail(order_events) \in Seq(Events)
  BY HeadOfEvents DEF TakeEvent
<1>2. /\ DOMAIN trades' = DOMAIN trades \cup {event.exec_id}
      /\ trades'[event.exec_id] = Begun(event)
      /\ \A id \in DOMAIN trades : id # event.exec_id => trades'[id] = trades[id]
  BY EventIsTaken
<1>3. UNCHANGED <<now, executed, undelivered, completed>>
  BY DEF TakeEvent, outside
<1>4. DOMAIN Tail(order_events) \subseteq Nat \ {0}
  <2>1. DOMAIN Tail(order_events) = 1 .. Len(Tail(order_events))
    BY <1>1, LenProperties
  <2>2. QED
    BY <2>1
<1> HIDE DEF event
<1>5. \A id \in DOMAIN trades' : \/ id \in DOMAIN trades /\ trades'[id] = trades[id]
                                 \/ trades'[id].fill_ts = ts
  BY <1>2 DEF Begun
<1>6. ts = order_events[1].exec_ts
  BY <1>1
<1> HIDE DEF ts
<1>7. PendingTimes' \subseteq PendingTimes \cup {ts}
  BY <1>5 DEF PendingTimes
<1>8. ts \in EventTimes /\ EventTimes' \subseteq EventTimes
  BY <1>1, <1>6 DEF EventTimes
<1>9. NoneAfter({ts}, EventTimes')
  <2>1. \A i \in DOMAIN order_events' : ts <= order_events'[i].exec_ts
    BY <1>1, <1>4, <1>6 DEF FlowInOrder, EventsSorted
  <2>2. QED
    BY <2>1 DEF EventTimes, NoneAfter
<1>10. EventsSorted'
  <2> SUFFICES ASSUME NEW i \in DOMAIN order_events', NEW j \in DOMAIN order_events', i < j
               PROVE  order_events'[i].exec_ts <= order_events'[j].exec_ts
    BY DEF EventsSorted
  <2>1. /\ i + 1 \in DOMAIN order_events /\ j + 1 \in DOMAIN order_events /\ i + 1 < j + 1
        /\ order_events'[i] = order_events[i + 1] /\ order_events'[j] = order_events[j + 1]
    BY <1>1, <1>4
  <2>2. QED
    BY <2>1 DEF FlowInOrder, EventsSorted
<1>11. UNCHANGED <<LogTimes, ComingTimes, now>> /\ LogSorted' /\ ComingSorted'
  BY <1>3 DEF LogTimes, ComingTimes, FlowInOrder, LogSorted, ComingSorted
<1>12. QED
  BY <1>7, <1>8, <1>9, <1>10, <1>11 DEF FlowInOrder, NoneAfter

\* A book moves markouts from the map to the log, the earlier before the later: it completes
\* all whose last horizon has elapsed, and these are not after those that stay.
LEMMA TakeBookFlow ==
    ASSUME RecorderBase, SamplesAreFirstElapsed, FlowInOrder, TakeBook
    PROVE  FlowInOrder'
<1> DEFINE cts == Head(from_book).cts
           updated(id) == UpdatedMarkout(trades[id], cts)
<1>1. PICK batch : BookTaken(cts, batch)
  BY BookIsTaken
<1>2. cts \in Times /\ cts <= now /\ \A id \in ExecIds : \A t \in seen[id] : t <= cts
  BY HeadOfBooks DEF TakeBook
<1>3. UNCHANGED <<now, executed, undelivered, order_events>>
  BY DEF TakeBook, outside
<1>4. seen' = [id \in ExecIds |-> IF id \in DOMAIN trades THEN seen[id] \cup {cts} ELSE {}]
  BY DEF TakeBook
<1> HIDE DEF cts
<1>5. \A id \in DOMAIN trades :
          /\ updated(id).fill_ts = trades[id].fill_ts /\ trades[id].fill_ts \in Nat
          /\ IsComplete(updated(id)) <=> trades[id].fill_ts + H10 <= cts
  <2> SUFFICES ASSUME NEW id \in DOMAIN trades
               PROVE  /\ updated(id).fill_ts = trades[id].fill_ts
                      /\ trades[id].fill_ts \in Nat
                      /\ IsComplete(updated(id)) <=> trades[id].fill_ts + H10 <= cts
    OBVIOUS
  <2>1. /\ id \in ExecIds /\ trades[id] \in PendingMarkouts /\ seen[id] \in SUBSET Times
        /\ SampledFrom(trades[id], seen[id])
    BY DEF RecorderBase, EngineTypes, ExecutedTypes, SamplesAreFirstElapsed
  <2>2. SampledFrom(updated(id), seen[id] \cup {cts})
    BY <1>2, <2>1, UpdateKeepsSampled
  <2>3. updated(id).fill_ts = trades[id].fill_ts /\ trades[id].fill_ts \in Nat
    BY <1>2, <2>1, SampledTypes, TimesAreNumbers DEF PendingMarkouts
  <2>4. seen[id] \cup {cts} \in SUBSET Nat /\ \A t \in seen[id] \cup {cts} : t <= cts
    BY <1>2, <2>1, TimesAreNumbers
  <2> DEFINE markout == updated(id)
  <2> HIDE DEF updated
  <2>5. IsComplete(markout) <=> markout.fill_ts + H10 <= cts
    BY <2>2, <2>3, <2>4, CompleteOnceElapsed
  <2>6. QED
    BY <2>3, <2>5
<1>6. /\ batch \in Seq(Batch(cts)) /\ completed' = completed \o batch
      /\ batch \in Seq(Logged) /\ completed \in Seq(Logged)
  <2>1. seen' \in [ExecIds -> SUBSET Times]
    BY <1>2, <1>4 DEF RecorderBase, EngineTypes
  <2>2. QED
    BY <1>1, <1>2, <2>1, BatchTypes, SeqMonotonic DEF BookTaken, RecorderBase, EngineTypes
<1> DEFINE Done == {t \in PendingTimes : t + H10 <= cts}
           Left == {t \in PendingTimes : ~(t + H10 <= cts)}
<1>7. \A x \in Batch(cts) : x.fill_ts \in Done
  BY <1>5 DEF Batch, CompletedMarkout, PendingTimes
<1>8. \A i \in DOMAIN batch : batch[i].fill_ts \in Done
  BY <1>6, <1>7, LenProperties, ElementOfSeq
<1>9. PendingTimes' \subseteq Left
  BY <1>1, <1>5 DEF BookTaken, PendingTimes
<1>10. NoneAfter(Done, Left)
  <2>1. cts \in Nat /\ H10 \in Nat /\ \A t \in PendingTimes : t \in Nat
    BY <1>2, TimesAreNumbers, RecorderAssumption, FlowTimes
  <2>2. QED
    BY <2>1 DEF NoneAfter
<1>11. Done \subseteq PendingTimes /\ Left \subseteq PendingTimes
  OBVIOUS
<1> HIDE DEF Done, Left
<1> DEFINE n == Len(completed)
<1>12. /\ \A i \in DOMAIN completed : completed'[i] = completed[i]
       /\ \A j \in DOMAIN batch : completed'[n + j] = batch[j]
       /\ \A i \in DOMAIN completed' :
             i \in DOMAIN completed \/ (i - n \in DOMAIN batch /\ i = n + (i - n) /\ i > n)
       /\ DOMAIN completed = 1 .. n /\ n \in Nat /\ DOMAIN completed' \subseteq Nat
  BY <1>6, PartsOfConcat
<1>13. LogTimes' \subseteq LogTimes \cup Done
  <2>1. \A i \in DOMAIN completed' : completed'[i].fill_ts \in LogTimes \cup Done
    BY <1>8, <1>12 DEF LogTimes
  <2>2. QED
    BY <2>1 DEF LogTimes
<1>14. LogSorted'
  <2> SUFFICES ASSUME NEW i \in DOMAIN completed', NEW j \in DOMAIN completed', i < j
               PROVE  completed'[i].fill_ts <= completed'[j].fill_ts
    BY DEF LogSorted
  <2>1. CASE i \in DOMAIN completed /\ j \in DOMAIN completed
    BY <1>12, <2>1 DEF FlowInOrder, LogSorted
  <2>2. CASE i \in DOMAIN completed /\ j - n \in DOMAIN batch /\ j = n + (j - n)
    <3>1. completed'[i].fill_ts \in LogTimes /\ completed'[j].fill_ts \in PendingTimes
      BY <1>8, <1>11, <1>12, <2>2 DEF LogTimes
    <3>2. QED
      BY <3>1 DEF FlowInOrder, NoneAfter
  <2>3. CASE i \notin DOMAIN completed
    <3>1. i - n \in DOMAIN batch /\ i = n + (i - n) /\ j - n \in DOMAIN batch
          /\ j = n + (j - n) /\ i - n < j - n
      BY <1>12, <2>3
    <3>2. completed'[i] = batch[i - n] /\ completed'[j] = batch[j - n]
      BY <1>12, <3>1
    <3>3. IsBefore(batch[i - n], batch[j - n])
      BY <1>1, <3>1 DEF BookTaken
    <3>4. batch[i - n].fill_ts \in Nat /\ batch[j - n].fill_ts \in Nat
      BY <1>8, <1>11, <3>1, FlowTimes
    <3>5. QED
      BY <3>2, <3>3, <3>4 DEF IsBefore
  <2>4. QED
    BY <1>12, <2>1, <2>2, <2>3
<1>15. UNCHANGED <<EventTimes, ComingTimes, now>> /\ EventsSorted' /\ ComingSorted'
  BY <1>3 DEF EventTimes, ComingTimes, FlowInOrder, EventsSorted, ComingSorted
<1>16. \A t \in Done : t <= now
  BY <1>11, FlowTimes
<1>17. QED
  BY <1>9, <1>10, <1>11, <1>13, <1>14, <1>15, <1>16 DEF FlowInOrder, NoneAfter

\* The log is in the order of the fills, whatever the horizons and however the books come,
\* as long as no execution is delivered twice.
THEOREM LogIsInFillOrder == RecorderSpec => []LogInFillOrder
<1> DEFINE Inv == Once => FlowInOrder
<1>1. RecorderInit => Inv
  <2> SUFFICES ASSUME RecorderInit PROVE FlowInOrder
    OBVIOUS
  <2>1. /\ DOMAIN completed = {} /\ DOMAIN trades = {}
        /\ DOMAIN order_events = {} /\ DOMAIN undelivered = {}
    BY DEF RecorderInit
  <2>2. QED
    BY <2>1 DEF FlowInOrder, LogSorted, EventsSorted, ComingSorted, NoneAfter, LogTimes,
       PendingTimes, EventTimes, ComingTimes
<1>2. ASSUME RecorderBase, SamplesAreFirstElapsed, Inv, [RecorderNext]_recorder_vars, Once'
      PROVE  FlowInOrder'
  <2>1. ASSUME NEW id \in ExecIds PROVE ~ExecutionRepeats(id)
    <3>1. delivered \in [ExecIds -> Nat]
      BY <1>2 DEF RecorderBase, ExecutedTypes
    <3>2. SUFFICES ASSUME ExecutionRepeats(id) PROVE FALSE
      OBVIOUS
    <3>3. delivered[id] = 1 /\ delivered' = [delivered EXCEPT ![id] = @ + 1]
      BY <3>2 DEF ExecutionRepeats, Deliver
    <3>4. delivered'[id] = 2
      BY <3>1, <3>3
    <3>5. QED
      BY <1>2, <3>4 DEF Once
  <2>2. Once
    <3>1. delivered \in [ExecIds -> Nat]
      BY <1>2 DEF RecorderBase, ExecutedTypes
    <3>2. CASE delivered' = delivered
      BY <1>2, <3>2 DEF Once
    <3>3. CASE ExecutionArrives
      <4>1. delivered' = [delivered EXCEPT ![Head(undelivered)] = @ + 1]
        BY <3>3 DEF ExecutionArrives, Deliver
      <4> DEFINE first == Head(undelivered)
      <4> HIDE DEF first
      <4>2. \A id \in ExecIds : delivered[id] <= delivered'[id] /\ delivered'[id] \in Nat
        BY <3>1, <4>1 DEF first
      <4>3. QED
        BY <1>2, <3>1, <4>2 DEF Once
    <3>4. QED
      BY <1>2, <2>1, <3>2, <3>3, IdleRests DEF RecorderNext, Cycle, IdleStep, TimePasses,
         BookArrives, OrderExecutes, TakeBook, TakeEvent, outside
  <2>3. FlowInOrder
    BY <1>2, <2>2
  <2>4. ASSUME UNCHANGED <<now, executed, undelivered, order_events, trades, completed>>
        PROVE  FlowInOrder'
    BY <2>3, <2>4 DEF FlowInOrder, LogSorted, EventsSorted, ComingSorted, NoneAfter, LogTimes,
       PendingTimes, EventTimes, ComingTimes
  <2>5. ASSUME NEW two_sided \in BOOLEAN, BookArrives(two_sided) PROVE FlowInOrder'
    BY <2>4, <2>5 DEF BookArrives, outside, engine
  <2>6. CASE IdleStep
    BY <1>2, <2>4, <2>6, IdleRests
  <2>7. QED
    BY <1>2, <2>1, <2>3, <2>5, <2>6, TimePassesFlow, OrderExecutesFlow, ExecutionArrivesFlow,
       TakeEventFlow, TakeBookFlow DEF RecorderNext, Cycle, IdleStep
<1>3. Inv => LogInFillOrder
  BY DEF LogInFillOrder, FlowInOrder, LogSorted, Once
<1>4. QED
  BY <1>1, <1>2, <1>3, InitRecorder, NextRecorderBase, SamplesFirst, PTL DEF RecorderSpec

-----------------------------------------------------------------------------
\* Where each delivery is.

\* Where an execution is in a sequence, and how often.
Places(s, id) == {i \in DOMAIN s : s[i].exec_id = id}
Count(s, id) == Cardinality(Places(s, id))

\* How often is a number.
LEMMA CountIsNumber ==
    ASSUME NEW S, NEW s \in Seq(S), NEW id
    PROVE  IsFiniteSet(Places(s, id)) /\ Count(s, id) \in Nat
<1>1. Len(s) \in Nat /\ DOMAIN s = 1 .. Len(s)
  BY LenProperties
<1>2. IsFiniteSet(DOMAIN s)
  BY <1>1, FS_Interval
<1>3. IsFiniteSet(Places(s, id))
  BY <1>2, FS_Subset DEF Places
<1>4. QED
  BY <1>3, FS_CardinalityType DEF Count

\* One more element at the end.
LEMMA CountOfAppend ==
    ASSUME NEW S, NEW s \in Seq(S), NEW e \in S, NEW id
    PROVE  Count(Append(s, e), id) = Count(s, id) + (IF e.exec_id = id THEN 1 ELSE 0)
<1> DEFINE n == Len(s) + 1
<1>1. /\ DOMAIN s = 1 .. Len(s) /\ Len(s) \in Nat
      /\ DOMAIN Append(s, e) = 1 .. n
      /\ \A i \in 1 .. Len(s) : Append(s, e)[i] = s[i]
      /\ Append(s, e)[n] = e
  BY LenProperties, AppendProperties
<1>2. n \notin DOMAIN s /\ \A i \in DOMAIN Append(s, e) : i \in DOMAIN s \/ i = n
  BY <1>1
<1> HIDE DEF n
<1>3. n \in DOMAIN Append(s, e) /\ \A i \in DOMAIN s : i \in DOMAIN Append(s, e)
  BY <1>1 DEF n
<1>4. n \notin Places(s, id)
  BY <1>2 DEF Places
<1>5. CASE e.exec_id = id
  <2>1. Places(Append(s, e), id) = Places(s, id) \cup {n}
    BY <1>1, <1>2, <1>3, <1>5 DEF Places
  <2>2. QED
    BY <1>4, <1>5, <2>1, CountIsNumber, FS_AddElement DEF Count
<1>6. CASE e.exec_id # id
  <2>1. Places(Append(s, e), id) = Places(s, id)
    BY <1>1, <1>2, <1>3, <1>6 DEF Places
  <2>2. QED
    BY <1>6, <2>1, CountIsNumber DEF Count
<1>7. QED
  BY <1>5, <1>6

\* One element less at the start.
LEMMA CountOfTail ==
    ASSUME NEW S, NEW s \in Seq(S), s # <<>>, NEW id
    PROVE  Count(s, id) = Count(Tail(s), id) + (IF Head(s).exec_id = id THEN 1 ELSE 0)
<1>1. /\ Tail(s) \in Seq(S) /\ Head(s) = s[1] /\ Len(Tail(s)) = Len(s) - 1
      /\ Len(s) \in Nat /\ Len(s) # 0 /\ DOMAIN s = 1 .. Len(s)
      /\ DOMAIN Tail(s) = 1 .. Len(Tail(s))
  BY HeadTailProperties, LenProperties, EmptySeq
<1>2. \A i \in 1 .. Len(Tail(s)) : Tail(s)[i] = s[i + 1]
  BY <1>1, HeadTailProperties
<1>3. \A i \in DOMAIN Tail(s) : i \in Nat \ {0} /\ i + 1 \in DOMAIN s
  BY <1>1
<1>4. \A i \in DOMAIN s : i = 1 \/ (i - 1 \in DOMAIN Tail(s) /\ i = (i - 1) + 1)
  BY <1>1
<1> DEFINE rest == Places(s, id) \ {1}
           f == [i \in Places(Tail(s), id) |-> i + 1]
<1>5. f \in Bijection(Places(Tail(s), id), rest)
  <2>1. \A i \in Places(Tail(s), id) : f[i] = i + 1 /\ i + 1 \in rest /\ i \in Nat
    BY <1>1, <1>2, <1>3 DEF Places
  <2>2. \A j \in rest : j - 1 \in Places(Tail(s), id) /\ f[j - 1] = j
    BY <1>1, <1>2, <1>4 DEF Places
  <2>3. \A i, j \in Places(Tail(s), id) : f[i] = f[j] => i = j
    BY <2>1
  <2>4. f \in [Places(Tail(s), id) -> rest]
    BY <2>1
  <2> HIDE DEF f
  <2>5. QED
    BY <2>2, <2>3, <2>4 DEF Bijection, Injection, Surjection, IsInjective
<1>6. Cardinality(rest) = Count(Tail(s), id) /\ Count(Tail(s), id) \in Nat
  <2>1. ExistsBijection(Places(Tail(s), id), rest)
    BY <1>5 DEF ExistsBijection
  <2>2. QED
    BY <1>1, <2>1, CountIsNumber, FS_Bijection DEF Count
<1>7. CASE Head(s).exec_id = id
  <2>1. 1 \in Places(s, id)
    BY <1>1, <1>7 DEF Places
  <2>2. IsFiniteSet(Places(s, id)) /\ Count(s, id) \in Nat
    BY CountIsNumber
  <2>3. Cardinality(rest) = Count(s, id) - 1
    BY <2>1, <2>2, FS_RemoveElement DEF Count
  <2>4. QED
    BY <1>6, <1>7, <2>2, <2>3
<1>8. CASE Head(s).exec_id # id
  <2>1. rest = Places(s, id)
    BY <1>1, <1>8 DEF Places
  <2>2. Count(s, id) = Count(Tail(s), id)
    BY <1>6, <2>1 DEF Count
  <2>3. QED
    BY <1>6, <1>8, <2>2
<1>9. QED
  BY <1>7, <1>8

\* A second sequence that has it at most once.
LEMMA CountOfConcat ==
    ASSUME NEW S, NEW s \in Seq(S), NEW t \in Seq(S), NEW id,
           \A i, j \in Places(t, id) : i = j
    PROVE  Count(s \o t, id) = Count(s, id) + (IF Places(t, id) = {} THEN 0 ELSE 1)
<1> DEFINE n == Len(s)
<1>1. /\ DOMAIN s = 1 .. n /\ DOMAIN t = 1 .. Len(t) /\ n \in Nat /\ Len(t) \in Nat
      /\ DOMAIN (s \o t) = 1 .. n + Len(t)
      /\ \A i \in DOMAIN s : (s \o t)[i] = s[i]
      /\ \A j \in DOMAIN t : (s \o t)[n + j] = t[j]
  BY PartsOfConcat
<1> HIDE DEF n
<1>2. /\ \A i \in DOMAIN s : i \in DOMAIN (s \o t)
      /\ \A j \in DOMAIN t : n + j \in DOMAIN (s \o t) /\ n + j \notin DOMAIN s
      /\ \A i \in DOMAIN (s \o t) :
             i \in DOMAIN s \/ (i - n \in DOMAIN t /\ i = n + (i - n))
  BY <1>1
<1>3. CASE Places(t, id) = {}
  <2>1. Places(s \o t, id) = Places(s, id)
    BY <1>1, <1>2, <1>3 DEF Places
  <2>2. QED
    BY <1>3, <2>1, CountIsNumber DEF Count
<1>4. ASSUME NEW j \in Places(t, id)
      PROVE  Count(s \o t, id) = Count(s, id) + 1
  <2>1. j \in DOMAIN t /\ t[j].exec_id = id
    BY DEF Places
  <2>2. Places(s \o t, id) = Places(s, id) \cup {n + j}
    <3>1. \A i \in Places(s \o t, id) : i \in Places(s, id) \cup {n + j}
      BY <1>1, <1>2, <2>1 DEF Places
    <3>2. \A i \in Places(s, id) : i \in Places(s \o t, id)
      BY <1>1, <1>2 DEF Places
    <3>3. n + j \in Places(s \o t, id)
      BY <1>1, <1>2, <2>1 DEF Places
    <3>4. QED
      BY <3>1, <3>2, <3>3
  <2>3. n + j \notin Places(s, id)
    BY <1>2, <2>1 DEF Places
  <2>4. QED
    BY <2>2, <2>3, CountIsNumber, FS_AddElement DEF Count
<1>5. QED
  BY <1>3, <1>4

\* The places of an execution, counted one by one.
LEMMA OccurrencesAre ==
    ASSUME NEW id
    PROVE  /\ Occurrences(id) = Count(completed, id) + Count(order_events, id)
                                    + (IF id \in DOMAIN trades THEN 1 ELSE 0)
           /\ Occurrences(id)' = Count(completed', id) + Count(order_events', id)
                                    + (IF id \in DOMAIN trades' THEN 1 ELSE 0)
<1>1. ASSUME NEW S PROVE Cardinality({id} \cap S) = IF id \in S THEN 1 ELSE 0
  <2>1. CASE id \in S
    <3>1. {id} \cap S = {id}
      BY <2>1
    <3>2. QED
      BY <2>1, <3>1, FS_Singleton
  <2>2. CASE id \notin S
    <3>1. {id} \cap S = {}
      BY <2>2
    <3>2. QED
      BY <2>2, <3>1, FS_EmptySet
  <2>3. QED
    BY <2>1, <2>2
<1>2. QED
  BY <1>1 DEF Occurrences, Count, Places

\* The counts of the invariant are numbers.
LEMMA OccurrenceNumbers ==
    ASSUME RecorderBase, NEW id \in ExecIds
    PROVE  /\ Count(completed, id) \in Nat /\ Count(order_events, id) \in Nat
           /\ delivered[id] \in Nat
BY CountIsNumber DEF RecorderBase, ExecutedTypes, QueuesTypes, EngineTypes

\* A delivery is one more occurrence, in the channel.
LEMMA DeliverOccurs ==
    ASSUME RecorderBase, EachDeliveryOnce, NEW id \in DOMAIN executed, Deliver(id),
           UNCHANGED engine
    PROVE  EachDeliveryOnce'
<1> DEFINE event == [exec_id |-> id, exec_ts |-> executed[id]]
<1>1. /\ order_events \in Seq(Events) /\ event \in Events /\ id \in ExecIds
      /\ order_events' = Append(order_events, event) /\ event.exec_id = id
  BY DEF Deliver, RecorderBase, ExecutedTypes, QueuesTypes, Events
<1>2. delivered' = [delivered EXCEPT ![id] = @ + 1] /\ delivered \in [ExecIds -> Nat]
  BY DEF Deliver, RecorderBase, ExecutedTypes
<1>3. completed' = completed /\ trades' = trades
  BY DEF engine
<1> HIDE DEF event
<1> SUFFICES ASSUME NEW x \in ExecIds
             PROVE  /\ Occurrences(x)' <= delivered'[x]
                    /\ delivered'[x] = 1 => Occurrences(x)' = 1
  BY DEF EachDeliveryOnce
<1> DEFINE more == IF x = id THEN 1 ELSE 0
<1>4. delivered'[x] = delivered[x] + more /\ delivered[x] \in Nat
  BY <1>2
<1>5. Count(order_events', x) = Count(order_events, x) + more
  BY <1>1, CountOfAppend
<1>6. Occurrences(x)' = Occurrences(x) + more /\ Occurrences(x) \in Nat
  <2>1. Occurrences(x)' = Count(completed', x) + Count(order_events', x)
                              + (IF x \in DOMAIN trades' THEN 1 ELSE 0)
    BY OccurrencesAre
  <2>2. Occurrences(x) = Count(completed, x) + Count(order_events, x)
                              + (IF x \in DOMAIN trades THEN 1 ELSE 0)
    BY OccurrencesAre
  <2>3. QED
    BY <1>3, <1>5, <2>1, <2>2, OccurrenceNumbers
<1>7. Occurrences(x) <= delivered[x] /\ (delivered[x] = 1 => Occurrences(x) = 1)
  BY DEF EachDeliveryOnce
<1>8. QED
  BY <1>4, <1>6, <1>7

\* Taking an event moves an occurrence to the map, or drops it where the map has the
\* execution already: it was then delivered again.
LEMMA TakeEventOccurs ==
    ASSUME RecorderBase, EachDeliveryOnce, TakeEvent
    PROVE  EachDeliveryOnce'
<1> DEFINE id == Head(order_events).exec_id
<1>1. DOMAIN trades' = DOMAIN trades \cup {id}
  BY EventIsTaken
<1>2. /\ order_events \in Seq(Events) /\ order_events # <<>>
      /\ order_events' = Tail(order_events) /\ completed' = completed /\ delivered' = delivered
  BY DEF TakeEvent, outside, RecorderBase, QueuesTypes
<1> HIDE DEF id
<1> SUFFICES ASSUME NEW x \in ExecIds
             PROVE  /\ Occurrences(x)' <= delivered'[x]
                    /\ delivered'[x] = 1 => Occurrences(x)' = 1
  BY DEF EachDeliveryOnce
<1> DEFINE a == Count(completed, x)
           b == Count(order_events', x)
           c == IF x = id THEN 1 ELSE 0
           d == IF x \in DOMAIN trades THEN 1 ELSE 0
<1>3. Count(order_events, x) = b + c /\ b \in Nat /\ a \in Nat /\ delivered[x] \in Nat
  <2>1. Count(order_events, x) = b + c
    BY <1>2, CountOfTail DEF id
  <2>2. Tail(order_events) \in Seq(Events)
    BY <1>2, HeadTailProperties
  <2>3. QED
    BY <1>2, <2>1, <2>2, CountIsNumber, OccurrenceNumbers
<1>4. Occurrences(x)' = a + b + (IF x \in DOMAIN trades' THEN 1 ELSE 0)
  BY <1>2, OccurrencesAre
<1>5. Occurrences(x) = a + (b + c) + d
  BY <1>3, OccurrencesAre
<1>6. Occurrences(x) <= delivered[x] /\ (delivered[x] = 1 => Occurrences(x) = 1)
  BY DEF EachDeliveryOnce
<1> HIDE DEF a, b
<1>7. QED
  BY <1>1, <1>2, <1>3, <1>4, <1>5, <1>6

\* A book moves occurrences from the map to the log.
LEMMA TakeBookOccurs ==
    ASSUME RecorderBase, EachDeliveryOnce, TakeBook
    PROVE  EachDeliveryOnce'
<1> DEFINE cts == Head(from_book).cts
<1>1. PICK batch : BookTaken(cts, batch)
  BY BookIsTaken
<1>2. cts \in Times
  BY HeadOfBooks DEF TakeBook
<1>3. seen' = [id \in ExecIds |-> IF id \in DOMAIN trades THEN seen[id] \cup {cts} ELSE {}]
  BY DEF TakeBook
<1>4. UNCHANGED <<delivered, order_events>>
  BY DEF TakeBook, outside
<1> HIDE DEF cts
<1>5. /\ batch \in Seq(Batch(cts)) /\ completed' = completed \o batch
      /\ batch \in Seq(Logged) /\ completed \in Seq(Logged)
  <2>1. seen' \in [ExecIds -> SUBSET Times]
    BY <1>2, <1>3 DEF RecorderBase, EngineTypes
  <2>2. QED
    BY <1>1, <1>2, <2>1, BatchTypes, SeqMonotonic DEF BookTaken, RecorderBase, EngineTypes
<1>6. \A i \in DOMAIN batch : batch[i] \in Batch(cts)
  BY <1>5, LenProperties, ElementOfSeq
<1>7. \A x \in Batch(cts), y \in Batch(cts) : x.exec_id = y.exec_id => x = y
  BY DEF Batch, CompletedMarkout
<1> SUFFICES ASSUME NEW id \in ExecIds
             PROVE  Occurrences(id)' = Occurrences(id)
  BY <1>4 DEF EachDeliveryOnce
<1>8. \A i, j \in Places(batch, id) : i = j
  <2> SUFFICES ASSUME NEW i \in DOMAIN batch, NEW j \in DOMAIN batch,
                      batch[i].exec_id = id, batch[j].exec_id = id
               PROVE  i = j
    BY DEF Places
  <2>1. batch[i] = batch[j]
    BY <1>6, <1>7
  <2>2. QED
    BY <1>1, <2>1 DEF BookTaken
<1>9. Count(completed', id) = Count(completed, id) + (IF Places(batch, id) = {} THEN 0 ELSE 1)
  BY <1>5, <1>8, CountOfConcat
<1>10. Places(batch, id) # {} <=> id \in DOMAIN trades /\ id \notin DOMAIN trades'
  <2>1. id \notin DOMAIN trades' /\ id \in DOMAIN trades
            <=> id \in DOMAIN trades /\ IsComplete(UpdatedMarkout(trades[id], cts))
    BY <1>1 DEF BookTaken
  <2>2. (\E x \in Batch(cts) : x.exec_id = id)
            <=> id \in DOMAIN trades /\ IsComplete(UpdatedMarkout(trades[id], cts))
    <3>1. \A x \in Batch(cts) :
              /\ x.exec_id \in DOMAIN trades
              /\ IsComplete(UpdatedMarkout(trades[x.exec_id], cts))
      BY DEF Batch, CompletedMarkout
    <3>2. ASSUME id \in DOMAIN trades, IsComplete(UpdatedMarkout(trades[id], cts))
          PROVE  \E x \in Batch(cts) : x.exec_id = id
      <4> DEFINE x == CompletedMarkout(id, UpdatedMarkout(trades[id], cts))
      <4>1. x \in Batch(cts)
        BY <3>2 DEF Batch
      <4>2. x.exec_id = id
        BY DEF CompletedMarkout
      <4> HIDE DEF x
      <4>3. QED
        BY <4>1, <4>2
    <3>3. QED
      BY <3>1, <3>2
  <2>3. Places(batch, id) # {} <=> \E x \in Batch(cts) : x.exec_id = id
    <3>1. \A x \in Batch(cts) : \E i \in DOMAIN batch : batch[i] = x
      BY <1>1 DEF BookTaken
    <3>2. QED
      BY <1>6, <3>1 DEF Places
  <2>4. QED
    BY <2>1, <2>2, <2>3
<1>11. DOMAIN trades' \subseteq DOMAIN trades
  BY <1>1 DEF BookTaken
<1>12. /\ Occurrences(id) = Count(completed, id) + Count(order_events, id)
                               + (IF id \in DOMAIN trades THEN 1 ELSE 0)
       /\ Occurrences(id)' = Count(completed', id) + Count(order_events', id)
                               + (IF id \in DOMAIN trades' THEN 1 ELSE 0)
  BY OccurrencesAre
<1>13. QED
  BY <1>4, <1>9, <1>10, <1>11, <1>12, OccurrenceNumbers

\* Every execution that is delivered once is in exactly one place, the channel, the map or
\* the log, and every execution is in no more places than it was delivered.
THEOREM NoneLostOrDoubled == RecorderSpec => []EachDeliveryOnce
<1>1. RecorderInit => EachDeliveryOnce
  <2> SUFFICES ASSUME RecorderInit, NEW id \in ExecIds
               PROVE  Occurrences(id) = 0 /\ delivered[id] = 0
    BY DEF EachDeliveryOnce
  <2>1. /\ completed = <<>> /\ order_events = <<>> /\ DOMAIN trades = {} /\ delivered[id] = 0
    BY DEF RecorderInit
  <2>2. Places(completed, id) = {} /\ Places(order_events, id) = {}
    BY <2>1 DEF Places
  <2>3. Count(completed, id) = 0 /\ Count(order_events, id) = 0
    BY <2>2, FS_EmptySet DEF Count
  <2>4. QED
    BY <2>1, <2>3, OccurrencesAre
<1>2. ASSUME RecorderBase, EachDeliveryOnce, [RecorderNext]_recorder_vars
      PROVE  EachDeliveryOnce'
  <2>1. ASSUME UNCHANGED <<delivered, order_events, trades, completed>>
        PROVE  EachDeliveryOnce'
    BY <1>2, <2>1 DEF EachDeliveryOnce, Occurrences
  <2>2. CASE ExecutionArrives
    <3>1. Head(undelivered) \in DOMAIN executed
      <4>1. undelivered \in Seq(ExecIds) /\ undelivered # <<>>
        BY <1>2, <2>2 DEF ExecutionArrives, RecorderBase, ExecutedTypes
      <4>2. Head(undelivered) = undelivered[1] /\ 1 \in DOMAIN undelivered
        BY <4>1, HeadTailProperties, LenProperties, EmptySeq
      <4>3. QED
        BY <1>2, <4>2 DEF RecorderBase, ExecutedTypes
    <3>2. QED
      BY <1>2, <2>2, <3>1, DeliverOccurs DEF ExecutionArrives
  <2>3. ASSUME NEW id \in ExecIds, ExecutionRepeats(id) PROVE EachDeliveryOnce'
    <3>1. id \in DOMAIN executed
      BY <1>2, <2>3 DEF ExecutionRepeats, RecorderBase, ExecutedTypes
    <3>2. QED
      BY <1>2, <2>3, <3>1, DeliverOccurs DEF ExecutionRepeats
  <2>4. CASE IdleStep
    BY <1>2, <2>1, <2>4, IdleRests
  <2>5. QED
    BY <1>2, <2>1, <2>2, <2>3, <2>4, TakeEventOccurs, TakeBookOccurs DEF RecorderNext, Cycle,
       IdleStep, TimePasses, BookArrives, OrderExecutes, outside, engine
<1>3. QED
  BY <1>1, <1>2, InitRecorder, NextRecorderBase, PTL DEF RecorderSpec

-----------------------------------------------------------------------------
\* The private websocket.

\* What of the first n items, for every n, is of some kinds.
KeptOf(f, kinds, s) ==
    /\ DOMAIN f = 0 .. Len(s)
    /\ f[0] = <<>>
    /\ \A i \in 1 .. Len(s) : f[i] = IF s[i] \in kinds THEN Append(f[i - 1], s[i]) ELSE f[i - 1]

\* The items are looked at one after the other.
LEMMA KeptOneByOne ==
    ASSUME NEW S, NEW s \in Seq(S), NEW kinds
    PROVE  \E f : KeptOf(f, kinds, s) /\ OnlyOf(kinds, s) = f[Len(s)]
<1> DEFINE N == Len(s)
           Step(g, i) == IF i = 0 THEN <<>>
                         ELSE IF s[i] \in kinds THEN Append(g[i - 1], s[i]) ELSE g[i - 1]
           Keeps(g, n) == g = [i \in 0 .. n |-> Step(g, i)]
           Without == {n \in Nat : ~\E g : Keeps(g, n)}
<1>0. N \in Nat
  BY LenProperties
<1>1. Without = {}
  <2> SUFFICES ASSUME Without # {} PROVE FALSE
    OBVIOUS
  <2>1. PICK n \in Without : \A m \in Without : n <= m
    <3>1. Without \subseteq Nat
      OBVIOUS
    <3> HIDE DEF Without
    <3>2. QED
      BY <3>1, LeastNumber
  <2>2. n \in Nat /\ ~\E g : Keeps(g, n)
    BY <2>1
  <2>3. n # 0
    <3> SUFFICES ASSUME n = 0 PROVE FALSE
      OBVIOUS
    <3> DEFINE g == [i \in 0 .. n |-> <<>>]
    <3>1. \A i \in 0 .. n : i = 0
      OBVIOUS
    <3>2. Keeps(g, n)
      BY <3>1
    <3>3. QED
      BY <2>2, <3>2
  <2>4. n - 1 \in Nat /\ n - 1 \notin Without
    <3> HIDE DEF Without
    <3>1. n - 1 \in Nat /\ ~(n <= n - 1)
      BY <2>2, <2>3
    <3>2. QED
      BY <2>1, <3>1
  <2>5. PICK g : Keeps(g, n - 1)
    BY <2>4
  <2> DEFINE h == [i \in 0 .. n |-> IF i = n THEN Step(g, n) ELSE g[i]]
  <2>6. ASSUME NEW i \in 0 .. n PROVE h[i] = Step(h, i)
    <3>1. CASE i = 0
      <4>1. i \in 0 .. n - 1
        BY <2>2, <2>3, <3>1
      <4>2. g[i] = <<>> /\ i # n
        BY <2>3, <2>5, <3>1, <4>1
      <4>3. h[i] = <<>>
        BY <4>2
      <4> HIDE DEF h
      <4>4. QED
        BY <3>1, <4>3
    <3>2. CASE i # 0
      <4>1. i - 1 \in 0 .. n /\ i - 1 # n
        BY <2>2, <3>2
      <4>2. h[i - 1] = g[i - 1]
        BY <4>1
      <4>3. h[i] = Step(g, i)
        <5>1. CASE i = n
          BY <5>1
        <5>2. CASE i # n
          <6>1. i \in 0 .. n - 1
            BY <2>2, <5>2
          <6>2. g[i] = Step(g, i)
            BY <2>5, <6>1
          <6>3. h[i] = g[i]
            BY <5>2
          <6> HIDE DEF h, Keeps, Step
          <6>4. QED
            BY <6>2, <6>3
        <5>3. QED
          BY <5>1, <5>2
      <4> HIDE DEF h, Keeps
      <4>4. QED
        BY <3>2, <4>2, <4>3
    <3>3. QED
      BY <3>1, <3>2
  <2>7. Keeps(h, n)
    <3>1. h = [i \in 0 .. n |-> h[i]]
      OBVIOUS
    <3> HIDE DEF h, Step
    <3>2. QED
      BY <2>6, <3>1
  <2>8. QED
    BY <2>2, <2>7
<1> DEFINE f == CHOOSE f : f = [n \in 0 .. Len(s) |->
               IF n = 0 THEN <<>>
               ELSE IF s[n] \in kinds THEN Append(f[n - 1], s[n]) ELSE f[n - 1]]
<1>2. OnlyOf(kinds, s) = f[N]
  BY DEF OnlyOf
<1>3. Keeps(f, N)
  <2>1. \E g : Keeps(g, N)
    BY <1>0, <1>1
  <2>2. QED
    BY <2>1
<1> HIDE DEF f
<1>4. DOMAIN f = 0 .. N
  BY <1>3
<1>5. 0 \in 0 .. N /\ \A i \in 1 .. N : i \in 0 .. N /\ i # 0
  BY <1>0
<1>6. f[0] = <<>>
  BY <1>3, <1>5
<1>7. \A i \in 1 .. N : f[i] = IF s[i] \in kinds THEN Append(f[i - 1], s[i]) ELSE f[i - 1]
  BY <1>3, <1>5
<1>8. KeptOf(f, kinds, s)
  BY <1>4, <1>6, <1>7 DEF KeptOf
<1>9. QED
  BY <1>2, <1>8

\* Nothing is kept of nothing.
LEMMA KeptOfNothing == \A kinds : OnlyOf(kinds, <<>>) = <<>>
<1> SUFFICES ASSUME NEW kinds PROVE OnlyOf(kinds, <<>>) = <<>>
  OBVIOUS
<1>1. <<>> \in Seq(Items) /\ Len(<<>>) = 0
  OBVIOUS
<1>2. PICK f : KeptOf(f, kinds, <<>>) /\ OnlyOf(kinds, <<>>) = f[Len(<<>>)]
  BY <1>1, KeptOneByOne
<1>3. QED
  BY <1>1, <1>2 DEF KeptOf

\* Of one item more that item is kept, or nothing more.
LEMMA KeptOfAppend ==
    ASSUME NEW S, NEW s \in Seq(S), NEW e \in S, NEW kinds
    PROVE  OnlyOf(kinds, Append(s, e))
               = IF e \in kinds THEN Append(OnlyOf(kinds, s), e) ELSE OnlyOf(kinds, s)
<1> DEFINE N == Len(s)
           t == Append(s, e)
<1>2. /\ N \in Nat /\ t \in Seq(S) /\ Len(t) = N + 1 /\ t[N + 1] = e
      /\ \A i \in 1 .. N : t[i] = s[i]
  BY LenProperties, AppendProperties
<1>3. PICK f : KeptOf(f, kinds, s) /\ OnlyOf(kinds, s) = f[Len(s)]
  BY KeptOneByOne
<1>4. PICK g : KeptOf(g, kinds, t) /\ OnlyOf(kinds, t) = g[Len(t)]
  BY <1>2, KeptOneByOne
<1> HIDE DEF N, t
<1> DEFINE Differ == {i \in 0 .. N : f[i] # g[i]}
<1>5. Differ = {}
  <2> SUFFICES ASSUME Differ # {} PROVE FALSE
    OBVIOUS
  <2>1. PICK n \in Differ : \A m \in Differ : n <= m
    <3>1. Differ \subseteq Nat
      BY <1>2
    <3> HIDE DEF Differ
    <3>2. QED
      BY <3>1, LeastNumber
  <2>2. n \in 0 .. N /\ f[n] # g[n]
    BY <2>1
  <2>3. n # 0
    BY <1>3, <1>4, <2>2 DEF KeptOf
  <2>4. /\ n \in 1 .. N /\ n \in 1 .. N + 1 /\ n - 1 \in 0 .. N /\ ~(n <= n - 1)
    BY <1>2, <2>2, <2>3
  <2>5. f[n - 1] = g[n - 1]
    BY <2>1, <2>4
  <2>6. f[n] = IF s[n] \in kinds THEN Append(f[n - 1], s[n]) ELSE f[n - 1]
    BY <1>3, <2>4 DEF KeptOf, N
  <2>7. g[n] = IF t[n] \in kinds THEN Append(g[n - 1], t[n]) ELSE g[n - 1]
    BY <1>2, <1>4, <2>4 DEF KeptOf
  <2>8. t[n] = s[n]
    BY <1>2, <2>4
  <2>9. QED
    BY <2>2, <2>5, <2>6, <2>7, <2>8
<1>6. f[N] = g[N]
  BY <1>2, <1>5
<1>7. N + 1 \in 1 .. N + 1 /\ (N + 1) - 1 = N
  BY <1>2
<1>8. g[N + 1] = IF e \in kinds THEN Append(g[N], e) ELSE g[N]
  BY <1>2, <1>4, <1>7 DEF KeptOf
<1>9. OnlyOf(kinds, s) = f[N] /\ OnlyOf(kinds, t) = g[N + 1]
  BY <1>2, <1>3, <1>4 DEF N
<1>10. QED
  BY <1>6, <1>8, <1>9 DEF t

\* What is kept of two sequences is that of the one and then of the other.
SplitsAt(kinds, s, t) == OnlyOf(kinds, s \o t) = OnlyOf(kinds, s) \o OnlyOf(kinds, t)

\* What is kept of items are items, and sequences may be looked at one after the other.
LEMMA KeptOfConcat ==
    ASSUME NEW S, NEW s \in Seq(S), NEW t \in Seq(S), NEW kinds
    PROVE  OnlyOf(kinds, s) \in Seq(S) /\ SplitsAt(kinds, s, t)
<1>1. ASSUME NEW u \in Seq(S) PROVE OnlyOf(kinds, u) \in Seq(S)
  <2> DEFINE Bad == {n \in Nat : \E v \in Seq(S) : Len(v) = n /\ OnlyOf(kinds, v) \notin Seq(S)}
  <2>1. Bad = {}
    <3> SUFFICES ASSUME Bad # {} PROVE FALSE
      OBVIOUS
    <3>1. PICK n \in Bad : \A m \in Bad : n <= m
      <4>1. Bad \subseteq Nat
        OBVIOUS
      <4> HIDE DEF Bad
      <4>2. QED
        BY <4>1, LeastNumber
    <3>2. PICK v \in Seq(S) : Len(v) = n /\ OnlyOf(kinds, v) \notin Seq(S)
      BY <3>1
    <3>3. CASE v = <<>>
      <4>1. OnlyOf(kinds, v) = <<>>
        BY <3>3, KeptOfNothing
      <4>2. QED
        BY <3>2, <4>1
    <3>4. CASE v # <<>>
      <4>1. PICK w \in Seq(S), e \in S : v = Append(w, e)
        BY <3>2, <3>4, SequenceEmptyOrAppend
      <4>2. Len(w) \in Nat /\ n = Len(w) + 1
        BY <3>2, <4>1, LenProperties, AppendProperties
      <4>3. Len(w) \notin Bad
        <5> HIDE DEF Bad
        <5>1. ~(n <= Len(w))
          BY <4>2
        <5>2. QED
          BY <3>1, <5>1
      <4>4. OnlyOf(kinds, w) \in Seq(S)
        BY <4>2, <4>3
      <4>5. OnlyOf(kinds, v)
                = IF e \in kinds THEN Append(OnlyOf(kinds, w), e) ELSE OnlyOf(kinds, w)
        BY <4>1, KeptOfAppend
      <4>6. OnlyOf(kinds, v) \in Seq(S)
        BY <4>4, <4>5, AppendProperties
      <4>7. QED
        BY <3>2, <4>6
    <3>5. QED
      BY <3>3, <3>4
  <2>2. Len(u) \in Nat /\ Len(u) \notin Bad
    <3>1. Len(u) \in Nat
      BY LenProperties
    <3> HIDE DEF Bad
    <3>2. QED
      BY <2>1, <3>1
  <2>3. QED
    BY <2>2
<1>2. SplitsAt(kinds, s, t)
  <2> DEFINE Bad == {n \in Nat : \E v \in Seq(S) : Len(v) = n /\ ~SplitsAt(kinds, s, v)}
  <2>1. Bad = {}
    <3> SUFFICES ASSUME Bad # {} PROVE FALSE
      OBVIOUS
    <3>1. PICK n \in Bad : \A m \in Bad : n <= m
      <4>1. Bad \subseteq Nat
        OBVIOUS
      <4> HIDE DEF Bad
      <4>2. QED
        BY <4>1, LeastNumber
    <3>2. PICK v \in Seq(S) : Len(v) = n /\ ~SplitsAt(kinds, s, v)
      BY <3>1
    <3>3. CASE v = <<>>
      <4>1. OnlyOf(kinds, v) = <<>>
        BY <3>3, KeptOfNothing
      <4>2. OnlyOf(kinds, s) \in Seq(S)
        BY <1>1
      <4>3. s \o v = s /\ OnlyOf(kinds, s) \o <<>> = OnlyOf(kinds, s)
        BY <3>3, <4>2, ConcatEmptySeq
      <4>4. SplitsAt(kinds, s, v)
        BY <4>1, <4>3 DEF SplitsAt
      <4>5. QED
        BY <3>2, <4>4
    <3>4. CASE v # <<>>
      <4>1. PICK w \in Seq(S), e \in S : v = Append(w, e)
        BY <3>2, <3>4, SequenceEmptyOrAppend
      <4>2. Len(w) \in Nat /\ n = Len(w) + 1
        BY <3>2, <4>1, LenProperties, AppendProperties
      <4>3. Len(w) \notin Bad
        <5> HIDE DEF Bad
        <5>1. ~(n <= Len(w))
          BY <4>2
        <5>2. QED
          BY <3>1, <5>1
      <4>4. SplitsAt(kinds, s, w)
        BY <4>2, <4>3
      <4> DEFINE sk == OnlyOf(kinds, s)
                 wk == OnlyOf(kinds, w)
      <4>5. s \o v = Append(s \o w, e) /\ s \o w \in Seq(S)
        <5>1. <<e>> \in Seq(S) /\ s \o w \in Seq(S) /\ v = w \o <<e>>
          BY <4>1, AppendIsConcat, ConcatProperties
        <5>2. s \o (w \o <<e>>) = (s \o w) \o <<e>>
          BY <5>1, ConcatAssociative, SMTT(30)
        <5>3. QED
          BY <5>1, <5>2, AppendIsConcat
      <4>6. sk \in Seq(S) /\ wk \in Seq(S)
        BY <1>1
      <4>7. OnlyOf(kinds, v) = IF e \in kinds THEN Append(wk, e) ELSE wk
        BY <4>1, KeptOfAppend
      <4>8. OnlyOf(kinds, s \o v) = IF e \in kinds THEN Append(sk \o wk, e) ELSE sk \o wk
        <5>1. OnlyOf(kinds, s \o w) = sk \o wk
          BY <4>4 DEF SplitsAt
        <5>2. OnlyOf(kinds, Append(s \o w, e))
                  = IF e \in kinds THEN Append(OnlyOf(kinds, s \o w), e) ELSE OnlyOf(kinds, s \o w)
          BY <4>5, KeptOfAppend
        <5> HIDE DEF sk, wk
        <5>3. QED
          BY <4>5, <5>1, <5>2, Zenon
      <4> HIDE DEF sk, wk
      <4>9. Append(sk \o wk, e) = sk \o Append(wk, e)
        <5>1. <<e>> \in Seq(S) /\ Append(wk, e) = wk \o <<e>> /\ sk \o wk \in Seq(S)
          BY <4>6, AppendIsConcat, ConcatProperties
        <5>2. sk \o (wk \o <<e>>) = (sk \o wk) \o <<e>>
          BY <4>6, <5>1, ConcatAssociative, SMTT(30)
        <5>3. QED
          BY <5>1, <5>2, AppendIsConcat
      <4>10. SplitsAt(kinds, s, v)
        BY <4>7, <4>8, <4>9 DEF SplitsAt, sk
      <4>11. QED
        BY <3>2, <4>10
    <3>5. QED
      BY <3>3, <3>4
  <2>2. Len(t) \in Nat /\ Len(t) \notin Bad
    <3>1. Len(t) \in Nat
      BY LenProperties
    <3> HIDE DEF Bad
    <3>2. QED
      BY <2>1, <3>1
  <2>3. QED
    BY <2>2
<1>3. QED
  BY <1>1, <1>2

Numbers == {item \in Items : item.link_id = "number"}
Executions == {event \in Items : event.topic = "execution"}

\* The stream divides into what was processed and what was not, and what was sent is what
\* was processed, but for the execution that has come only half way.
StreamInv ==
    /\ received \in Seq(Items) /\ items \in Seq(Items) /\ at_recorder \in BOOLEAN
    /\ \A i \in DOMAIN items : items[i].topic = topic
    /\ at_recorder => items # <<>> /\ Head(items) \in Numbers /\ Head(items) \in Executions
    /\ \E done \in Seq(Items) :
           /\ received = done \o items
           /\ to_oms = IF at_recorder THEN Append(OnlyOf(Numbers, done), Head(items))
                                      ELSE OnlyOf(Numbers, done)
           /\ to_recorder = OnlyOf(Executions, OnlyOf(Numbers, done))

\* One more item is done with.
LEMMA NextItemDone ==
    ASSUME NEW done \in Seq(Items), NEW rest \in Seq(Items), rest # <<>>
    PROVE  /\ Head(rest) \in Items /\ Tail(rest) \in Seq(Items)
           /\ Append(done, Head(rest)) \in Seq(Items)
           /\ Append(done, Head(rest)) \o Tail(rest) = done \o rest
           /\ \A i \in DOMAIN Tail(rest) : i + 1 \in DOMAIN rest /\ Tail(rest)[i] = rest[i + 1]
           /\ 1 \in DOMAIN rest /\ Head(rest) = rest[1]
<1>1. /\ Head(rest) \in Items /\ Tail(rest) \in Seq(Items) /\ Len(Tail(rest)) = Len(rest) - 1
      /\ Head(rest) = rest[1] /\ \A i \in 1 .. Len(Tail(rest)) : Tail(rest)[i] = rest[i + 1]
  BY HeadTailProperties
<1>2. Append(done, Head(rest)) \in Seq(Items)
  BY <1>1, AppendProperties
<1>3. rest = <<Head(rest)>> \o Tail(rest)
  BY <1>1
<1>4. Append(done, Head(rest)) = done \o <<Head(rest)>> /\ <<Head(rest)>> \in Seq(Items)
  BY <1>1, AppendIsConcat
<1>5. (done \o <<Head(rest)>>) \o Tail(rest) = done \o (<<Head(rest)>> \o Tail(rest))
  BY <1>1, <1>4, ConcatAssociative
<1>6. /\ DOMAIN rest = 1 .. Len(rest) /\ DOMAIN Tail(rest) = 1 .. Len(Tail(rest))
      /\ Len(rest) \in Nat /\ Len(rest) # 0
  BY <1>1, LenProperties, EmptySeq
<1>7. /\ 1 \in DOMAIN rest
      /\ \A i \in DOMAIN Tail(rest) : i + 1 \in DOMAIN rest /\ Tail(rest)[i] = rest[i + 1]
  BY <1>1, <1>6
<1>8. Append(done, Head(rest)) \o Tail(rest) = done \o rest
  BY <1>3, <1>4, <1>5
<1>9. QED
  BY <1>1, <1>2, <1>7, <1>8

\* Of what is done with, when an item has been.
LEMMA OneMoreKept ==
    ASSUME NEW done \in Seq(Items), NEW item \in Items
    PROVE  /\ OnlyOf(Numbers, done) \in Seq(Items)
           /\ OnlyOf(Executions, OnlyOf(Numbers, done)) \in Seq(Items)
           /\ OnlyOf(Numbers, Append(done, item))
                  = IF item \in Numbers THEN Append(OnlyOf(Numbers, done), item)
                                        ELSE OnlyOf(Numbers, done)
           /\ OnlyOf(Executions, Append(OnlyOf(Numbers, done), item))
                  = IF item \in Executions
                    THEN Append(OnlyOf(Executions, OnlyOf(Numbers, done)), item)
                    ELSE OnlyOf(Executions, OnlyOf(Numbers, done))
<1>1. OnlyOf(Numbers, done) \in Seq(Items)
  BY KeptOfConcat
<1>2. OnlyOf(Executions, OnlyOf(Numbers, done)) \in Seq(Items)
  BY <1>1, KeptOfConcat
<1>3. QED
  BY <1>1, <1>2, KeptOfAppend

\* The stream starts with nothing received, processed or sent.
LEMMA InitStream == StreamInit => StreamInv
<1> SUFFICES ASSUME StreamInit PROVE StreamInv
  OBVIOUS
<1>1. /\ received = <<>> /\ items = <<>> /\ at_recorder = FALSE
      /\ to_oms = <<>> /\ to_recorder = <<>>
  BY DEF StreamInit
<1>2. <<>> \in Seq(Items) /\ <<>> \o <<>> = <<>> /\ DOMAIN <<>> = {}
  OBVIOUS
<1>3. OnlyOf(Numbers, <<>>) = <<>> /\ OnlyOf(Executions, <<>>) = <<>>
  BY KeptOfNothing
<1>4. QED
  BY <1>1, <1>2, <1>3, Zenon DEF StreamInv

\* A message is received when the one before it is done with.
LEMMA ReceiveStream ==
    ASSUME StreamInv, NEW new_topic \in Topics, NEW link_ids \in Seq(LinkIds),
           Receive(new_topic, link_ids)
    PROVE  StreamInv'
<1> DEFINE n == Len(link_ids)
           m == Len(received)
<1>1. /\ received \in Seq(Items) /\ items = <<>> /\ m + n <= MaxReceived
      /\ topic' = new_topic /\ received' = received \o items'
      /\ items' = [i \in DOMAIN link_ids |->
                     [topic |-> new_topic, link_id |-> link_ids[i], number |-> m + i]]
      /\ at_recorder' = at_recorder /\ to_oms' = to_oms /\ to_recorder' = to_recorder
  BY DEF Receive, StreamInv
<1>2. m \in Nat /\ n \in Nat /\ DOMAIN link_ids = 1 .. n /\ MaxReceived \in Nat
  BY <1>1, LenProperties, PrivateStreamAssumption
<1>3. \A i \in 1 .. n : link_ids[i] \in LinkIds
  BY <1>2, ElementOfSeq
<1> HIDE DEF m, n
<1>4. \A i \in 1 .. n : m + i \in 1 .. MaxReceived
  BY <1>1, <1>2
<1>5. \A i \in 1 .. n : items'[i] \in Items /\ items'[i].topic = topic'
  BY <1>1, <1>2, <1>3, <1>4 DEF Items
<1>6. items' \in Seq(Items) /\ DOMAIN items' = 1 .. n
  <2>1. DOMAIN items' = 1 .. n
    BY <1>1, <1>2
  <2>2. items' \in [1 .. n -> Items]
    BY <1>1, <1>2, <1>5
  <2>3. QED
    BY <1>2, <2>1, <2>2
<1>7. ~at_recorder
  BY <1>1 DEF StreamInv
<1>8. PICK done \in Seq(Items) :
          /\ received = done \o items
          /\ to_oms = OnlyOf(Numbers, done)
          /\ to_recorder = OnlyOf(Executions, OnlyOf(Numbers, done))
  BY <1>7 DEF StreamInv
<1>9. received = done
  BY <1>1, <1>8, ConcatEmptySeq
<1>10. received' \in Seq(Items)
  BY <1>1, <1>6, ConcatProperties
<1>11. \A i \in DOMAIN items' : items'[i].topic = topic'
  BY <1>5, <1>6
<1>12. at_recorder' = FALSE
  BY <1>1, <1>7 DEF StreamInv
<1>13. QED
  BY <1>1, <1>6, <1>8, <1>9, <1>10, <1>11, <1>12, Zenon DEF StreamInv

\* The first item is looked at and done with.
LEMMA ItemDone ==
    ASSUME StreamInv, items # <<>>, UNCHANGED <<topic, received>>, at_recorder' = FALSE,
           items' = Tail(items),
           IF Head(items) \in Numbers
           THEN /\ IF at_recorder THEN to_oms' = to_oms
                                  ELSE to_oms' = Append(to_oms, Head(items))
                /\ IF Head(items) \in Executions
                   THEN to_recorder' = Append(to_recorder, Head(items))
                   ELSE to_recorder' = to_recorder
           ELSE UNCHANGED <<to_oms, to_recorder>>
    PROVE  StreamInv'
<1> DEFINE item == Head(items)
<1>1. PICK done \in Seq(Items) :
           /\ received = done \o items
           /\ to_oms = IF at_recorder THEN Append(OnlyOf(Numbers, done), item)
                                      ELSE OnlyOf(Numbers, done)
           /\ to_recorder = OnlyOf(Executions, OnlyOf(Numbers, done))
  BY DEF StreamInv
<1>2. /\ item \in Items /\ Tail(items) \in Seq(Items)
      /\ Append(done, item) \in Seq(Items)
      /\ Append(done, item) \o Tail(items) = done \o items
      /\ \A i \in DOMAIN Tail(items) : i + 1 \in DOMAIN items /\ Tail(items)[i] = items[i + 1]
  BY NextItemDone DEF StreamInv
<1>3. \A i \in DOMAIN items' : items'[i].topic = topic'
  BY <1>2 DEF StreamInv
<1> HIDE DEF item
<1>4. /\ OnlyOf(Numbers, Append(done, item))
             = IF item \in Numbers THEN Append(OnlyOf(Numbers, done), item)
                                   ELSE OnlyOf(Numbers, done)
      /\ OnlyOf(Executions, Append(OnlyOf(Numbers, done), item))
             = IF item \in Executions
               THEN Append(OnlyOf(Executions, OnlyOf(Numbers, done)), item)
               ELSE OnlyOf(Executions, OnlyOf(Numbers, done))
  BY <1>2, OneMoreKept
<1>5. item \notin Numbers => ~at_recorder
  BY DEF StreamInv, item
<1>6. to_oms' = OnlyOf(Numbers, Append(done, item))
  BY <1>1, <1>4, <1>5 DEF item
<1>7. to_recorder' = OnlyOf(Executions, OnlyOf(Numbers, Append(done, item)))
  BY <1>1, <1>4 DEF item
<1>8. received' = Append(done, item) \o items' /\ received' \in Seq(Items)
  BY <1>1, <1>2 DEF StreamInv
<1>9. QED
  BY <1>2, <1>3, <1>6, <1>7, <1>8, Zenon DEF StreamInv

\* Every step keeps the division.
LEMMA NextStreamInv == StreamInv /\ [StreamNext]_stream_vars => StreamInv'
<1> SUFFICES ASSUME StreamInv, [StreamNext]_stream_vars PROVE StreamInv'
  OBVIOUS
<1> DEFINE item == Head(items)
<1>1. items # <<>> => item \in Items /\ item.topic = topic
  <2> SUFFICES ASSUME items # <<>> PROVE item \in Items /\ item.topic = topic
    OBVIOUS
  <2>1. items \in Seq(Items) /\ \A i \in DOMAIN items : items[i].topic = topic
    BY DEF StreamInv
  <2>2. item \in Items /\ 1 \in DOMAIN items /\ item = items[1]
    BY <2>1, NextItemDone
  <2>3. QED
    BY <2>1, <2>2
<1>2. ASSUME NEW new_topic \in Topics, NEW link_ids \in SeqOf(LinkIds, MaxItemsReceived),
             Receive(new_topic, link_ids)
      PROVE  StreamInv'
  <2>1. link_ids \in Seq(LinkIds)
    BY DEF SeqOf
  <2>2. QED
    BY <1>2, <2>1, ReceiveStream
<1>3. CASE SkipUnlinked
  <2>1. /\ items # <<>> /\ ~at_recorder /\ item.link_id = "empty" /\ items' = Tail(items)
        /\ UNCHANGED <<topic, at_recorder, received, to_oms, to_recorder>>
    BY <1>3 DEF SkipUnlinked, NextIs
  <2>2. item \notin Numbers
    BY <2>1 DEF Numbers
  <2>3. at_recorder' = FALSE
    BY <2>1 DEF StreamInv
  <2>4. QED
    BY <2>1, <2>2, <2>3, ItemDone
<1>4. CASE SendToOms
  <2>1. /\ items # <<>> /\ ~at_recorder /\ item.link_id = "number"
        /\ to_oms' = Append(to_oms, item)
        /\ IF topic = "execution" THEN at_recorder' = TRUE /\ UNCHANGED items
                                  ELSE items' = Tail(items) /\ UNCHANGED at_recorder
        /\ UNCHANGED <<topic, received, to_recorder>>
    BY <1>4 DEF SendToOms, NextIs
  <2>2. item \in Numbers /\ (item \in Executions <=> topic = "execution")
    BY <1>1, <2>1 DEF Numbers, Executions
  <2>3. CASE topic = "execution"
    <3>1. items' = items /\ at_recorder' = TRUE
      BY <2>1, <2>3
    <3>2. PICK done \in Seq(Items) :
               /\ received = done \o items
               /\ to_oms = OnlyOf(Numbers, done)
               /\ to_recorder = OnlyOf(Executions, OnlyOf(Numbers, done))
      BY <2>1 DEF StreamInv
    <3>3. QED
      BY <2>1, <2>2, <2>3, <3>1, <3>2 DEF StreamInv
  <2>4. CASE topic # "execution"
    <3>1. items' = Tail(items) /\ at_recorder' = FALSE
      BY <2>1, <2>4 DEF StreamInv
    <3>2. QED
      BY <2>1, <2>2, <2>4, <3>1, ItemDone
  <2>5. QED
    BY <2>3, <2>4
<1>5. CASE SendToRecorder
  <2>1. /\ at_recorder /\ to_recorder' = Append(to_recorder, item) /\ items' = Tail(items)
        /\ at_recorder' = FALSE /\ UNCHANGED <<topic, to_oms, received>>
    BY <1>5 DEF SendToRecorder
  <2>2. items # <<>> /\ item \in Numbers /\ item \in Executions
    BY <2>1 DEF StreamInv
  <2>3. QED
    BY <2>1, <2>2, ItemDone
<1>6. CASE UNCHANGED <<topic, items, at_recorder, to_oms, to_recorder, received>>
  BY <1>6 DEF StreamInv
<1>7. PanicOnText \/ ConnectionEnds \/ UNCHANGED stream_vars
          => UNCHANGED <<topic, items, at_recorder, to_oms, to_recorder, received>>
  BY DEF PanicOnText, ConnectionEnds, stream_vars
<1>8. QED
  BY <1>2, <1>3, <1>4, <1>5, <1>6, <1>7 DEF StreamNext

\* What comes after a sequence leaves it a prefix.
LEMMA PrefixOfConcat ==
    ASSUME NEW S, NEW s \in Seq(S), NEW t \in Seq(S)
    PROVE  IsPrefix(s, s \o t)
<1>1. /\ Len(s) \in Nat /\ Len(t) \in Nat /\ Len(s \o t) = Len(s) + Len(t)
      /\ s \o t \in Seq(S)
  BY LenProperties, ConcatProperties
<1>2. SubSeq(s, 1, Len(s)) = s /\ SubSeq(s \o t, 1, Len(s)) = s
  BY SubSeqFull, SubSeqOfConcat1, <1>1
<1>3. QED
  BY <1>1, <1>2 DEF IsPrefix

\* For any messages, of any number of items in any order, every item with a number for a
\* link id reaches the OMS and every execution among them the recorder, in the order of the
\* stream, and an abort finds the recorder at most one execution behind.
THEOREM LinkedItemsForwarded == StreamSpec => []LinkedItemsAreForwarded
<1>1. StreamInv => LinkedItemsAreForwarded
  <2> SUFFICES ASSUME StreamInv PROVE LinkedItemsAreForwarded
    OBVIOUS
  <2>1. PICK done \in Seq(Items) :
           /\ received = done \o items
           /\ to_oms = IF at_recorder THEN Append(OnlyOf(Numbers, done), Head(items))
                                      ELSE OnlyOf(Numbers, done)
           /\ to_recorder = OnlyOf(Executions, OnlyOf(Numbers, done))
    BY DEF StreamInv
  <2>2. /\ OnlyOf(Numbers, done) \in Seq(Items) /\ OnlyOf(Numbers, items) \in Seq(Items)
        /\ to_recorder \in Seq(Items)
        /\ OnlyOf(Numbers, received) = OnlyOf(Numbers, done) \o OnlyOf(Numbers, items)
    <3>1. items \in Seq(Items)
      BY DEF StreamInv
    <3>2. OnlyOf(Numbers, done) \in Seq(Items) /\ SplitsAt(Numbers, done, items)
      BY <3>1, KeptOfConcat
    <3>3. OnlyOf(Numbers, items) \in Seq(Items)
      BY <3>1, KeptOfConcat
    <3>4. to_recorder \in Seq(Items)
      BY <2>1, <3>2, KeptOfConcat
    <3>5. QED
      BY <2>1, <3>2, <3>3, <3>4 DEF SplitsAt
  <2>3. /\ Linked = OnlyOf(Numbers, received)
        /\ \A events : ExecutionsIn(events) = OnlyOf(Executions, events)
    BY DEF Linked, ExecutionsIn, Numbers, Executions
  <2>4. CASE at_recorder
    <3> DEFINE item == Head(items)
               sent == OnlyOf(Numbers, done)
    <3>1. items # <<>> /\ item \in Numbers /\ item \in Executions /\ items \in Seq(Items)
      BY <2>4 DEF StreamInv
    <3>2. /\ item \in Items /\ Tail(items) \in Seq(Items) /\ Append(done, item) \in Seq(Items)
          /\ received = Append(done, item) \o Tail(items)
      BY <2>1, <3>1, NextItemDone
    <3>3. /\ OnlyOf(Numbers, Append(done, item)) = Append(sent, item)
          /\ OnlyOf(Executions, Append(sent, item)) = Append(to_recorder, item)
      BY <2>1, <3>1, <3>2, OneMoreKept
    <3>4. to_oms = Append(sent, item)
      BY <2>1, <2>4
    <3>5. IsPrefix(to_oms, OnlyOf(Numbers, received))
      <4>1. /\ SplitsAt(Numbers, Append(done, item), Tail(items))
            /\ OnlyOf(Numbers, Append(done, item)) \in Seq(Items)
        BY <3>2, KeptOfConcat
      <4>2. OnlyOf(Numbers, Tail(items)) \in Seq(Items)
        BY <3>2, KeptOfConcat
      <4>3. OnlyOf(Numbers, received) = to_oms \o OnlyOf(Numbers, Tail(items))
        BY <3>2, <3>3, <3>4, <4>1 DEF SplitsAt
      <4>4. to_oms \in Seq(Items)
        BY <3>3, <3>4, <4>1
      <4> HIDE DEF sent, item
      <4>5. QED
        BY <4>2, <4>3, <4>4, PrefixOfConcat
    <3>6. OnlyOf(Executions, to_oms) = Append(to_recorder, item)
      BY <3>3, <3>4
    <3> HIDE DEF sent, item
    <3>7. /\ IsPrefix(to_recorder, OnlyOf(Executions, to_oms))
          /\ Len(OnlyOf(Executions, to_oms)) <= Len(to_recorder) + 1
      <4>1. Append(to_recorder, item) = to_recorder \o <<item>> /\ <<item>> \in Seq(Items)
        BY <2>2, <3>2, AppendIsConcat
      <4>2. IsPrefix(to_recorder, Append(to_recorder, item))
        BY <2>2, <4>1, PrefixOfConcat
      <4>3. Len(Append(to_recorder, item)) = Len(to_recorder) + 1 /\ Len(to_recorder) \in Nat
        BY <2>2, <3>2, AppendProperties, LenProperties
      <4>4. QED
        BY <3>6, <4>2, <4>3
    <3>8. QED
      BY <2>3, <3>1, <3>5, <3>7 DEF LinkedItemsAreForwarded
  <2>5. CASE ~at_recorder
    <3>1. to_oms = OnlyOf(Numbers, done) /\ to_recorder = OnlyOf(Executions, to_oms)
      BY <2>1, <2>5
    <3>2. IsPrefix(to_oms, OnlyOf(Numbers, received))
      BY <2>2, <3>1, PrefixOfConcat
    <3>3. IsPrefix(to_recorder, to_recorder)
      <4>1. <<>> \in Seq(Items) /\ to_recorder \o <<>> = to_recorder
        BY <2>2, ConcatEmptySeq
      <4>2. QED
        BY <2>2, <4>1, PrefixOfConcat
    <3>4. Len(to_recorder) <= Len(to_recorder) + 1
      BY <2>2, LenProperties
    <3>5. items = <<>> => received = done
      BY <2>1, ConcatEmptySeq
    <3>6. QED
      BY <2>3, <3>1, <3>2, <3>3, <3>4, <3>5 DEF LinkedItemsAreForwarded
  <2>6. QED
    BY <2>4, <2>5
<1>2. QED
  BY <1>1, InitStream, NextStreamInv, PTL DEF StreamSpec

-----------------------------------------------------------------------------
\* The state of the websocket thread and the topic of its message.
StreamState == status \in {"running", "ended", "aborted"} /\ topic \in Topics

\* The items of the private stream always have their types, through conversion, skipping
\* and both sends.
THEOREM StreamTypeCorrect == StreamSpec => []StreamTypeOK
<1>1. StreamInit => StreamState
  BY DEF StreamInit, StreamState, Topics
<1>2. StreamState /\ [StreamNext]_stream_vars => StreamState'
  BY DEF StreamState, StreamNext, Receive, SkipUnlinked, PanicOnText, SendToOms, SendToRecorder,
     ConnectionEnds, stream_vars
<1>3. ASSUME StreamInv PROVE to_oms \in Seq(Items) /\ to_recorder \in Seq(Items)
  <2>1. PICK done \in Seq(Items) :
           /\ to_oms = IF at_recorder THEN Append(OnlyOf(Numbers, done), Head(items))
                                      ELSE OnlyOf(Numbers, done)
           /\ to_recorder = OnlyOf(Executions, OnlyOf(Numbers, done))
    BY <1>3 DEF StreamInv
  <2>2. OnlyOf(Numbers, done) \in Seq(Items)
    BY KeptOfConcat
  <2>3. to_recorder \in Seq(Items)
    BY <2>1, <2>2, KeptOfConcat
  <2>4. at_recorder => Head(items) \in Items
    BY <1>3, NextItemDone DEF StreamInv
  <2>5. to_oms \in Seq(Items)
    BY <2>1, <2>2, <2>4, AppendProperties
  <2>6. QED
    BY <2>3, <2>5
<1>4. StreamInv /\ StreamState => StreamTypeOK
  BY <1>3 DEF StreamInv, StreamState, StreamTypeOK
<1>5. QED
  BY <1>1, <1>2, <1>4, InitStream, NextStreamInv, PTL DEF StreamSpec

-----------------------------------------------------------------------------
\* Beside each other the three feeds keep their types: the books, the messages they are made
\* of and the items of the private stream, the executions, the queues and the markouts.
THEOREM FeedsTypeCorrect == FeedsSpec => []TypeOK
BY FeedsAreIndependent, BookTypeCorrect, StreamTypeCorrect, RecorderTypeCorrect, PTL DEF TypeOK
=============================================================================
