--------------------------- MODULE TradeFeed_proof ---------------------------
(***************************************************************************)
(* Proofs about the trades that a client pages through.                    *)
(*                                                                         *)
(* FeedInv holds for any number of matchers: an identifier is drawn once,  *)
(* and a page in hand consists of committed trades.  The pages are         *)
(* complete for a single matcher, because then the order by time, in which *)
(* the rows are listed, is the order by identifier, in which the cursor    *)
(* cuts them.                                                              *)
(***************************************************************************)
EXTENDS TradeFeed, Arithmetic_proof, FiniteSetTheorems, FunctionTheorems

-----------------------------------------------------------------------------
(* Rows in the order of the listing *)

\* A finite set has a first element in any total order.
LEMMA FirstOfFinite ==
    ASSUME NEW S, IsFiniteSet(S), S # {}, NEW R,
           \A x, y \in S : <<x, y>> \in R \/ <<y, x>> \in R,
           \A x, y, z \in S : <<x, y>> \in R /\ <<y, z>> \in R => <<x, z>> \in R
    PROVE  \E x \in S : \A y \in S : <<x, y>> \in R
<1> DEFINE K == {n \in Nat : \A T \in SUBSET S : Cardinality(T) = n /\ T # {} =>
                                \E x \in T : \A y \in T : <<x, y>> \in R}
<1>1. 0 \in K
  <2>1. ASSUME NEW T \in SUBSET S, Cardinality(T) = 0 PROVE T = {}
    BY <2>1, FS_Subset, FS_EmptySet
  <2>2. QED
    BY <2>1
<1>2. ASSUME NEW n \in Nat, n \in K PROVE n + 1 \in K
  <2> SUFFICES ASSUME NEW T \in SUBSET S, Cardinality(T) = n + 1, T # {}
               PROVE  \E x \in T : \A y \in T : <<x, y>> \in R
    OBVIOUS
  <2>1. PICK z \in T : TRUE
    OBVIOUS
  <2>2. IsFiniteSet(T)
    BY FS_Subset
  <2>3. Cardinality(T \ {z}) = n
    <3>1. Cardinality(T \ {z}) = Cardinality(T) - 1
      BY <2>1, <2>2, FS_RemoveElement
    <3>2. QED
      BY <3>1
  <2>4. <<z, z>> \in R
    OBVIOUS
  <2>5. CASE T \ {z} = {}
    BY <2>4, <2>5
  <2>6. CASE T \ {z} # {}
    <3>1. PICK x \in T \ {z} : \A y \in T \ {z} : <<x, y>> \in R
      BY <1>2, <2>3, <2>6
    <3>2. CASE <<x, z>> \in R
      BY <3>1, <3>2
    <3>3. CASE <<z, x>> \in R
      BY <2>4, <3>1, <3>3
    <3>4. QED
      BY <3>2, <3>3
  <2>7. QED
    BY <2>5, <2>6
<1>3. Nat \subseteq K
  <2> HIDE DEF K
  <2>1. QED
    BY <1>1, <1>2, SetInduction
<1>4. Cardinality(S) \in K
  BY <1>3, FS_CardinalityType
<1>5. QED
  BY <1>4

\* Rows of trade_fills, each with an identifier of its own.
Rows(S) == IsFiniteSet(S) /\ S \subseteq Fill /\ \A f, g \in S : f.id = g.id => f = g

LEMMA NewerOrOlder ==
    ASSUME NEW S, Rows(S), NEW f \in S, NEW g \in S
    PROVE  f = g \/ Newer(f, g) \/ Newer(g, f)
<1>1. f.id \in Nat /\ f.at \in Nat /\ g.id \in Nat /\ g.at \in Nat
  BY DEF Rows, Fill
<1>2. f.id = g.id => f = g
  BY DEF Rows
<1>3. QED
  BY <1>1, <1>2 DEF Newer

LEMMA OldestOfRows ==
    ASSUME NEW S, Rows(S), S # {}
    PROVE  \E f \in S : \A g \in S \ {f} : Newer(g, f)
<1> DEFINE R == {p \in S \X S : p[1] = p[2] \/ Newer(p[2], p[1])}
<1>1. \A f \in S : f.id \in Nat /\ f.at \in Nat
  BY DEF Rows, Fill
<1>2. \A f, g \in S : <<f, g>> \in R <=> f = g \/ Newer(g, f)
  OBVIOUS
<1> HIDE DEF R
<1>3. \A f, g \in S : <<f, g>> \in R \/ <<g, f>> \in R
  BY <1>2, NewerOrOlder
<1>4. \A f, g, h \in S : <<f, g>> \in R /\ <<g, h>> \in R => <<f, h>> \in R
  BY <1>1, <1>2 DEF Newer
<1>5. PICK f \in S : \A g \in S : <<f, g>> \in R
  BY <1>3, <1>4, FirstOfFinite DEF Rows
<1>6. QED
  BY <1>2, <1>5

LEMMA NewestOfRows ==
    ASSUME NEW S, Rows(S), S # {}
    PROVE  \E f \in S : \A g \in S \ {f} : Newer(f, g)
<1> DEFINE R == {p \in S \X S : p[1] = p[2] \/ Newer(p[1], p[2])}
<1>1. \A f \in S : f.id \in Nat /\ f.at \in Nat
  BY DEF Rows, Fill
<1>2. \A f, g \in S : <<f, g>> \in R <=> f = g \/ Newer(f, g)
  OBVIOUS
<1> HIDE DEF R
<1>3. \A f, g \in S : <<f, g>> \in R \/ <<g, f>> \in R
  BY <1>2, NewerOrOlder
<1>4. \A f, g, h \in S : <<f, g>> \in R /\ <<g, h>> \in R => <<f, h>> \in R
  BY <1>1, <1>2 DEF Newer
<1>5. PICK f \in S : \A g \in S : <<f, g>> \in R
  BY <1>3, <1>4, FirstOfFinite DEF Rows
<1>6. QED
  BY <1>2, <1>5

Sorted(s) == \A i, j \in DOMAIN s : i < j => Newer(s[i], s[j])

\* Rows can be put in the order of the listing.
LEMMA SortedExists ==
    ASSUME NEW S, Rows(S)
    PROVE  \E s \in [1..Cardinality(S) -> S] : Sorted(s)
<1> DEFINE K == {n \in Nat : \A T \in SUBSET S : Cardinality(T) = n =>
                                \E s \in [1..n -> T] : Sorted(s)}
<1>1. 0 \in K
  <2> SUFFICES ASSUME NEW T \in SUBSET S, Cardinality(T) = 0
               PROVE  \E s \in [1..0 -> T] : Sorted(s)
    OBVIOUS
  <2>1. <<>> \in [1..0 -> T] /\ Sorted(<<>>)
    BY DEF Sorted
  <2>2. QED
    BY <2>1
<1>2. ASSUME NEW n \in Nat, n \in K PROVE n + 1 \in K
  <2> SUFFICES ASSUME NEW T \in SUBSET S, Cardinality(T) = n + 1
               PROVE  \E s \in [1..n + 1 -> T] : Sorted(s)
    OBVIOUS
  <2>1. IsFiniteSet(T)
    BY FS_Subset DEF Rows
  <2>2. T # {}
    BY FS_EmptySet
  <2>3. Rows(T)
    BY <2>1 DEF Rows
  <2>4. PICK f \in T : \A g \in T \ {f} : Newer(g, f)
    BY <2>2, <2>3, OldestOfRows
  <2>5. Cardinality(T \ {f}) = n
    BY <2>1, FS_RemoveElement
  <2>6. PICK s \in [1..n -> T \ {f}] : Sorted(s)
    BY <1>2, <2>5
  <2> DEFINE r == [i \in 1..n + 1 |-> IF i = n + 1 THEN f ELSE s[i]]
  <2>7. r \in [1..n + 1 -> T]
    OBVIOUS
  <2>8. Sorted(r)
    <3> SUFFICES ASSUME NEW i \in 1..n + 1, NEW j \in 1..n + 1, i < j
                 PROVE  Newer(r[i], r[j])
      BY DEF Sorted
    <3>1. i \in 1..n /\ r[i] = s[i] /\ s[i] \in T \ {f}
      OBVIOUS
    <3>2. CASE j = n + 1
      BY <2>4, <3>1, <3>2
    <3>3. CASE j # n + 1
      <4>1. j \in 1..n /\ r[j] = s[j]
        BY <3>3
      <4>2. QED
        BY <2>6, <3>1, <4>1 DEF Sorted
    <3>4. QED
      BY <3>2, <3>3
  <2>9. QED
    BY <2>7, <2>8
<1>3. Nat \subseteq K
  <2> HIDE DEF K
  <2>1. QED
    BY <1>1, <1>2, SetInduction
<1>4. Cardinality(S) \in K /\ S \in SUBSET S
  BY <1>3, FS_CardinalityType DEF Rows
<1>5. QED
  BY <1>4

\* The listing has every row once, newest first.
LEMMA NewestFirstLists ==
    ASSUME NEW S, Rows(S)
    PROVE  /\ NewestFirst(S) \in Seq(S)
           /\ Sorted(NewestFirst(S))
           /\ \A f \in S : \E i \in DOMAIN NewestFirst(S) : NewestFirst(S)[i] = f
<1> DEFINE n == Cardinality(S)
           s == NewestFirst(S)
<1>1. n \in Nat /\ IsFiniteSet(1..n) /\ Cardinality(1..n) = n
  BY FS_CardinalityType, FS_Interval DEF Rows
<1>2. PICK r \in [1..n -> S] : Sorted(r)
  BY SortedExists
<1>3. \A f \in S : ~Newer(f, f)
  BY DEF Rows, Fill, Newer
<1>4. r \in SetToSeqs(S)
  <2>1. \A i, j \in 1..n : i < j => r[i] # r[j]
    BY <1>2, <1>3 DEF Sorted
  <2>2. \A i, j \in 1..n : i # j => r[i] # r[j]
    BY <2>1
  <2>3. QED
    BY <2>2 DEF SetToSeqs
<1>5. s \in SetToSeqs(S) /\ Sorted(s)
  BY <1>2, <1>4 DEF NewestFirst, Sorted
<1> HIDE DEF s
<1>6. s \in [1..n -> S] /\ \A i, j \in 1..n : i # j => s[i] # s[j]
  BY <1>5 DEF SetToSeqs
<1>7. s \in Surjection(1..n, S)
  <2>1. s \in Injection(1..n, S)
    BY <1>6, Fun_IsInj
  <2>2. QED
    BY <1>1, <2>1, FS_Injection DEF Rows
<1>8. \A f \in S : \E i \in 1..n : s[i] = f
  BY <1>7 DEF Surjection
<1>9. s \in Seq(S) /\ DOMAIN s = 1..n
  BY <1>1, <1>6
<1>10. QED
  BY <1>5, <1>8, <1>9 DEF s

-----------------------------------------------------------------------------
(* A page *)

LEMMA SmallerOf ==
    ASSUME NEW a \in Nat, NEW b \in Nat
    PROVE  Min({a, b}) = IF a <= b THEN a ELSE b
<1>1. \E x \in {a, b} : \A y \in {a, b} : x <= y
  OBVIOUS
<1>2. QED
  BY <1>1 DEF Min

\* A page is sorted, and what is not on it although it is before the cursor is
\* older than all of a full page.
LEMMA PageLists ==
    ASSUME NEW c, Rows(Before(c))
    PROVE  LET items == ListTrades(c)
           IN  /\ items \in Seq(Before(c)) /\ Len(items) <= Limit
               /\ Sorted(items)
               /\ \A f \in Before(c) :
                     \/ \E i \in DOMAIN items : items[i] = f
                     \/ Len(items) = Limit /\ \A i \in DOMAIN items : Newer(items[i], f)
<1> DEFINE S == Before(c)
           s == NewestFirst(S)
           n == Min({Limit, Len(s)})
           items == ListTrades(c)
<1>1. /\ s \in Seq(S) /\ Sorted(s) /\ \A f \in S : \E i \in DOMAIN s : s[i] = f
  BY NewestFirstLists
<1>2. items = SubSeq(s, 1, n)
  BY DEF ListTrades
<1> HIDE DEF s, S, items
<1>3. Len(s) \in Nat /\ DOMAIN s = 1..Len(s) /\ Limit \in Nat
  BY <1>1, LimitAssumption
<1>4. n = IF Limit <= Len(s) THEN Limit ELSE Len(s)
  BY <1>3, SmallerOf
<1> HIDE DEF n
<1>5. n \in 0..Len(s) /\ n <= Limit /\ (n < Len(s) => n = Limit)
  <2> DEFINE l == Len(s)
  <2>1. l \in Nat /\ Limit \in Nat /\ n = IF Limit <= l THEN Limit ELSE l
    BY <1>3, <1>4
  <2> HIDE DEF l
  <2>2. n \in 0..l /\ n <= Limit /\ (n < l => n = Limit)
    <3>1. CASE Limit <= l
      BY <2>1, <3>1
    <3>2. CASE ~(Limit <= l)
      BY <2>1, <3>2
    <3>3. QED
      BY <3>1, <3>2
  <2>3. QED
    BY <2>2 DEF l
<1>6. items = [i \in 1..n |-> s[i]]
  BY <1>1, <1>2, <1>3, <1>5
<1>7. \A i \in 1..n : i \in 1..Len(s) /\ s[i] \in S
  BY <1>1, <1>3, <1>5
<1>8. items \in Seq(S) /\ Len(items) = n /\ DOMAIN items = 1..n
  BY <1>5, <1>6, <1>7
<1>9. Sorted(items)
  BY <1>1, <1>3, <1>6, <1>7, <1>8 DEF Sorted
<1>10. ASSUME NEW f \in S
       PROVE  \/ \E i \in DOMAIN items : items[i] = f
              \/ Len(items) = Limit /\ \A i \in DOMAIN items : Newer(items[i], f)
  <2>1. PICK k \in 1..Len(s) : s[k] = f
    BY <1>1, <1>3
  <2>2. CASE k <= n
    BY <1>5, <1>6, <1>8, <2>1, <2>2
  <2>3. CASE k > n
    <3>1. n = Limit
      BY <1>3, <1>5, <2>1, <2>3
    <3>2. \A i \in 1..n : Newer(s[i], f)
      BY <1>1, <1>3, <1>5, <2>1, <2>3 DEF Sorted
    <3>3. QED
      BY <1>6, <1>8, <3>1, <3>2
  <2>4. QED
    BY <1>5, <2>1, <2>2, <2>3
<1>11. Len(items) <= Limit
  BY <1>5, <1>8
<1>12. QED
  BY <1>8, <1>9, <1>10, <1>11 DEF items, S

-----------------------------------------------------------------------------
(* The statistics *)

\* Every row is of one size, so the volume is their number.
LEMMA VolumeIs ==
    ASSUME NEW S, IsFiniteSet(S), S \subseteq Fill
    PROVE  MapThenSumSet(LAMBDA f : f.size, S) = Cardinality(S)
<1> DEFINE some(T) == CHOOSE f \in T : TRUE
           body(v) == [T \in SUBSET S |-> IF T = {} THEN 0
                                          ELSE some(T).size + v[T \ {some(T)}]]
           volume == CHOOSE v : v = body(v)
           count == [T \in SUBSET S |-> Cardinality(T)]
<1>1. MapThenSumSet(LAMBDA f : f.size, S) = volume[S]
  BY Zenon DEF MapThenSumSet, MapThenFoldSet
<1>2. ASSUME NEW T \in SUBSET S, T # {}
      PROVE  /\ some(T) \in T /\ some(T).size = 1
             /\ T \ {some(T)} \in SUBSET S
             /\ Cardinality(T) \in Nat
             /\ Cardinality(T \ {some(T)}) = Cardinality(T) - 1
  <2>1. some(T) \in T
    BY <1>2
  <2>2. some(T).size = 1
    BY <2>1 DEF Fill
  <2>3. IsFiniteSet(T)
    BY FS_Subset
  <2> HIDE DEF some
  <2>4. Cardinality(T) \in Nat /\ Cardinality(T \ {some(T)}) = Cardinality(T) - 1
    BY <2>1, <2>3, FS_CardinalityType, FS_RemoveElement
  <2>5. QED
    BY <2>1, <2>2, <2>4
<1> HIDE DEF some
<1>3. count = body(count)
  <2>1. ASSUME NEW T \in SUBSET S
        PROVE  Cardinality(T) = IF T = {} THEN 0
                                ELSE some(T).size + count[T \ {some(T)}]
    <3>1. CASE T = {}
      BY <3>1, FS_EmptySet
    <3>2. CASE T # {}
      BY <1>2, <3>2
    <3>3. QED
      BY <3>1, <3>2
  <2>2. QED
    BY <2>1
<1>4. volume = body(volume)
  <2> HIDE DEF body, count
  <2>1. QED
    BY <1>3
<1> HIDE DEF volume
<1> DEFINE K == {n \in Nat : \A T \in SUBSET S : Cardinality(T) = n => volume[T] = n}
<1>5. 0 \in K
  <2>1. ASSUME NEW T \in SUBSET S, Cardinality(T) = 0 PROVE T = {}
    BY <2>1, FS_Subset, FS_EmptySet
  <2>2. volume[{}] = 0
    BY <1>4
  <2>3. QED
    BY <2>1, <2>2
<1>6. ASSUME NEW n \in Nat, n \in K PROVE n + 1 \in K
  <2> SUFFICES ASSUME NEW T \in SUBSET S, Cardinality(T) = n + 1 PROVE volume[T] = n + 1
    OBVIOUS
  <2>1. T # {}
    BY FS_EmptySet
  <2>2. volume[T] = some(T).size + volume[T \ {some(T)}]
    BY <1>4, <2>1
  <2>3. some(T).size = 1 /\ T \ {some(T)} \in SUBSET S /\ Cardinality(T \ {some(T)}) = n
    BY <1>2, <2>1
  <2>4. QED
    BY <1>6, <2>2, <2>3
<1>7. Nat \subseteq K
  <2> HIDE DEF K
  <2>1. QED
    BY <1>5, <1>6, SetInduction
<1>8. Cardinality(S) \in K
  BY <1>7, FS_CardinalityType
<1>9. QED
  BY <1>1, <1>8

\* The highest and the lowest price of some rows.
LEMMA PriceRange ==
    ASSUME NEW S, IsFiniteSet(S), S \subseteq Fill, S # {}
    PROVE  LET prices == {f.price : f \in S}
           IN  /\ Max(prices) \in Nat /\ Min(prices) \in Nat
               /\ \A f \in S : Min(prices) <= f.price /\ f.price <= Max(prices)
<1> DEFINE prices == {f.price : f \in S}
           R == {p \in S \X S : p[1].price >= p[2].price}
<1>1. \A f \in S : f.price \in Nat
  BY PriceAssumption DEF Fill
<1>2. \A f, g \in S : <<f, g>> \in R <=> f.price >= g.price
  OBVIOUS
<1> HIDE DEF R
<1>3. PICK h \in S : \A g \in S : <<h, g>> \in R
  <2>1. ASSUME NEW f \in S, NEW g \in S PROVE <<f, g>> \in R \/ <<g, f>> \in R
    <3>1. f.price \in Nat /\ g.price \in Nat
      BY <1>1
    <3>2. f.price >= g.price \/ g.price >= f.price
      BY <3>1
    <3>3. QED
      BY <1>2, <3>2
  <2>2. \A f, g, e \in S : <<f, g>> \in R /\ <<g, e>> \in R => <<f, e>> \in R
    BY <1>1, <1>2
  <2>3. QED
    BY <2>1, <2>2, FirstOfFinite
<1>4. \E p \in prices : \A q \in prices : p >= q
  BY <1>2, <1>3
<1>5. prices \subseteq Nat /\ prices # {} /\ \A f \in S : f.price \in prices
  BY <1>1
<1> HIDE DEF prices
<1>6. \E p \in prices : \A q \in prices : p <= q
  <2>1. PICK p \in prices : \A q \in prices : ~(q < p)
    BY <1>5, NatMin
  <2>2. QED
    BY <1>5, <2>1
<1>7. Max(prices) \in prices /\ \A q \in prices : Max(prices) >= q
  BY <1>4 DEF Max
<1>8. Min(prices) \in prices /\ \A q \in prices : Min(prices) <= q
  BY <1>6 DEF Min
<1>9. QED
  BY <1>5, <1>7, <1>8 DEF prices

LEMMA StatsAre ==
    ASSUME Rows(Recent)
    PROVE  LET s == GetTradeStats24h
           IN  /\ s \in [last: Nat, high: Nat, low: Nat, volume: Nat]
               /\ s.volume = Cardinality(Recent)
               /\ \A f \in Recent : s.low <= f.price /\ f.price <= s.high
               /\ Recent # {} => \E g \in Recent : /\ g.id = s.last
                                                    /\ \A f \in Recent \ {g} : Newer(g, f)
<1>1. IsFiniteSet(Recent) /\ Recent \subseteq Fill
  BY DEF Rows
<1>2. CASE Recent = {}
  BY <1>2, FS_EmptySet DEF GetTradeStats24h, NoStats, NoId
<1>3. CASE Recent # {}
  <2> DEFINE g == CHOOSE f \in Recent : \A h \in Recent \ {f} : Newer(f, h)
             prices == {f.price : f \in Recent}
             volume == MapThenSumSet(LAMBDA f : f.size, Recent)
  <2>1. g \in Recent /\ \A h \in Recent \ {g} : Newer(g, h)
    BY <1>3, NewestOfRows
  <2>2. volume = Cardinality(Recent)
    BY <1>1, VolumeIs
  <2>3. /\ Max(prices) \in Nat /\ Min(prices) \in Nat
        /\ \A f \in Recent : Min(prices) <= f.price /\ f.price <= Max(prices)
    BY <1>1, <1>3, PriceRange
  <2>4. GetTradeStats24h = [last |-> g.id, high |-> Max(prices), low |-> Min(prices),
                            volume |-> volume]
    BY <1>3 DEF GetTradeStats24h
  <2> HIDE DEF g, prices, volume
  <2>5. g.id \in Nat
    BY <1>1, <2>1 DEF Fill
  <2>6. volume \in Nat
    BY <1>1, <2>2, FS_CardinalityType
  <2>7. QED
    BY <2>1, <2>2, <2>3, <2>4, <2>5, <2>6
<1>4. QED
  BY <1>2, <1>3

-----------------------------------------------------------------------------
(* Rows, for any number of matchers *)

\* A row that is committed or waits in an open transaction.
Drawn(f) == f \in fills \/ \E m \in Matcher : f \in tx[m].row

TxTypes ==
    \A m \in Matcher :
        /\ tx[m] \in [open: BOOLEAN, at: Nat, row: SUBSET Fill]
        /\ tx[m].at <= now
        /\ IsFiniteSet(tx[m].row)

FeedTypes ==
    /\ IsFiniteSet(fills) /\ fills \subseteq Fill
    /\ nextId \in 1..MaxTrades + 1
    /\ now \in 0..MaxTime
    /\ DOMAIN tx = Matcher /\ TxTypes

\* trade_id is drawn once, and never 0.
IdsDrawnOnce ==
    /\ \A f : Drawn(f) => f.id \in 1..nextId - 1
    /\ \A f, g : Drawn(f) /\ Drawn(g) /\ f.id = g.id => f = g

ClientTypes ==
    /\ stage \in {"ready", "listed", "done"}
    /\ cursor \in Nat
    /\ page \in Seq(fills) /\ Len(page) <= Limit
    /\ stats \in [last: Nat, high: Nat, low: Nat, volume: Nat]
    /\ got \in Seq(Nat)
    /\ begun \subseteq fills

FeedInv == FeedTypes /\ IdsDrawnOnce /\ ClientTypes

LEMMA FeedInvInit == ASSUME Init PROVE FeedInv
<1>1. FeedTypes
  <2>1. TxTypes /\ DOMAIN tx = Matcher
    <3>1. /\ NoTx \in [open: BOOLEAN, at: Nat, row: SUBSET Fill]
          /\ NoTx.at = 0 /\ NoTx.row = {}
      BY DEF NoTx
    <3>2. QED
      BY <3>1, FS_EmptySet DEF Init, TxTypes
  <2>2. nextId \in 1..MaxTrades + 1 /\ now \in 0..MaxTime
    BY BoundAssumption DEF Init
  <2>3. IsFiniteSet(fills) /\ fills \subseteq Fill
    BY FS_EmptySet DEF Init
  <2>4. QED
    BY <2>1, <2>2, <2>3 DEF FeedTypes
<1>2. IdsDrawnOnce
  BY DEF Init, IdsDrawnOnce, Drawn, NoTx
<1>3. ClientTypes
  BY LimitAssumption DEF Init, ClientTypes, NoId, NoStats
<1>4. QED
  BY <1>1, <1>2, <1>3 DEF FeedInv

LEMMA RowsOfFills == ASSUME FeedInv, NEW S, S \subseteq fills PROVE Rows(S)
<1>1. IsFiniteSet(S)
  BY FS_Subset DEF FeedInv, FeedTypes
<1>2. QED
  BY <1>1 DEF FeedInv, FeedTypes, IdsDrawnOnce, Drawn, Rows

\* Steps of the client and of the clock draw nothing.
LEMMA SameRows ==
    ASSUME FeedInv, UNCHANGED <<fills, nextId, tx>>, now' \in 0..MaxTime, now' >= now
    PROVE  FeedTypes' /\ IdsDrawnOnce'
<1>1. FeedTypes'
  BY BoundAssumption DEF FeedInv, FeedTypes, TxTypes
<1>2. \A f : Drawn(f)' <=> Drawn(f)
  BY DEF Drawn
<1>3. QED
  BY <1>1, <1>2 DEF FeedInv, IdsDrawnOnce

\* Nothing is taken out of trade_fills, so the client keeps what it has.
LEMMA SameClient ==
    ASSUME FeedInv, UNCHANGED clientVars, fills \subseteq fills'
    PROVE  ClientTypes'
<1>1. page \in Seq(fills')
  BY DEF FeedInv, ClientTypes
<1>2. QED
  BY <1>1 DEF FeedInv, ClientTypes, clientVars

LEMMA BeginFinalizeKeeps ==
    ASSUME FeedInv, NEW m \in Matcher, BeginFinalize(m)
    PROVE  FeedInv'
<1> USE DEF FeedInv, FeedTypes
<1>1. /\ tx' = [tx EXCEPT ![m] = [open |-> TRUE, at |-> now, row |-> {}]]
      /\ UNCHANGED <<fills, nextId, now, clientVars>>
  BY DEF BeginFinalize
<1>2. TxTypes'
  BY <1>1, FS_EmptySet DEF TxTypes
<1>3. \A f : Drawn(f)' => Drawn(f)
  BY <1>1 DEF Drawn
<1>4. IdsDrawnOnce'
  BY <1>1, <1>3 DEF IdsDrawnOnce
<1>5. QED
  BY <1>1, <1>2, <1>4, SameClient

LEMMA InsertTradeFillKeeps ==
    ASSUME FeedInv, NEW m \in Matcher, NEW price \in Price, InsertTradeFill(m, price)
    PROVE  FeedInv'
<1> USE DEF FeedInv, FeedTypes
<1> DEFINE f == [id |-> nextId, at |-> tx[m].at, price |-> price, size |-> 1]
<1>1. /\ tx' = [tx EXCEPT ![m].row = {f}] /\ nextId' = nextId + 1 /\ nextId <= MaxTrades
      /\ UNCHANGED <<fills, now, clientVars>>
  BY DEF InsertTradeFill
<1>2. f \in Fill /\ f.id = nextId
  BY DEF TxTypes, Fill
<1> HIDE DEF f
<1>3. TxTypes'
  BY <1>1, <1>2, FS_Singleton DEF TxTypes
<1>4. \A g : Drawn(g)' => Drawn(g) \/ g = f
  BY <1>1 DEF Drawn
<1>5. nextId \in Nat
  OBVIOUS
<1>6. IdsDrawnOnce'
  <2>1. \A g : Drawn(g) => g.id \in 1..nextId - 1
    BY DEF IdsDrawnOnce
  <2>2. \A g : Drawn(g)' => g.id \in 1..nextId
    BY <1>2, <1>4, <1>5, <2>1
  <2>3. \A g, h : Drawn(g)' /\ Drawn(h)' /\ g.id = h.id => g = h
    BY <1>2, <1>4, <1>5, <2>1 DEF IdsDrawnOnce
  <2>4. nextId' - 1 = nextId
    BY <1>1, <1>5
  <2>5. QED
    BY <2>2, <2>3, <2>4 DEF IdsDrawnOnce
<1>7. nextId' \in 1..MaxTrades + 1
  BY <1>1, <1>5, BoundAssumption
<1>8. QED
  BY <1>1, <1>3, <1>6, <1>7, SameClient

LEMMA CommitFillKeeps ==
    ASSUME FeedInv, NEW m \in Matcher, CommitFill(m)
    PROVE  FeedInv'
<1> USE DEF FeedInv, FeedTypes
<1>1. /\ fills' = fills \union tx[m].row /\ tx' = [tx EXCEPT ![m] = NoTx]
      /\ UNCHANGED <<nextId, now, clientVars>>
  BY DEF CommitFill
<1>2. TxTypes'
  BY <1>1, FS_EmptySet DEF TxTypes, NoTx
<1>3. IsFiniteSet(fills') /\ fills' \subseteq Fill
  BY <1>1, FS_Union DEF TxTypes
<1>4. \A f : Drawn(f)' => Drawn(f)
  BY <1>1 DEF Drawn, NoTx
<1>5. IdsDrawnOnce'
  BY <1>1, <1>4 DEF IdsDrawnOnce
<1>6. QED
  BY <1>1, <1>2, <1>3, <1>5, SameClient

LEMMA RollbackFillKeeps ==
    ASSUME FeedInv, NEW m \in Matcher, RollbackFill(m)
    PROVE  FeedInv'
<1> USE DEF FeedInv, FeedTypes
<1>1. tx' = [tx EXCEPT ![m] = NoTx] /\ UNCHANGED <<fills, nextId, now, clientVars>>
  BY DEF RollbackFill
<1>2. TxTypes'
  BY <1>1, FS_EmptySet DEF TxTypes, NoTx
<1>3. \A f : Drawn(f)' => Drawn(f)
  BY <1>1 DEF Drawn, NoTx
<1>4. IdsDrawnOnce'
  BY <1>1, <1>3 DEF IdsDrawnOnce
<1>5. QED
  BY <1>1, <1>2, <1>4, SameClient

LEMMA ListPageKeeps ==
    ASSUME FeedInv, ListPage
    PROVE  FeedInv'
<1>1. /\ stage' = "listed" /\ page' = ListTrades(cursor)
      /\ UNCHANGED <<cursor, stats, got, begun, fills, nextId, tx, now>>
  BY DEF ListPage, feedVars
<1>2. page' \in Seq(Before(cursor)) /\ Len(page') <= Limit
  BY <1>1, RowsOfFills, PageLists DEF Before
<1>3. page' \in Seq(fills)
  BY <1>2 DEF Before
<1>4. now' \in 0..MaxTime /\ now' >= now
  BY <1>1 DEF FeedInv, FeedTypes
<1>5. ClientTypes'
  BY <1>1, <1>2, <1>3 DEF FeedInv, ClientTypes
<1>6. QED
  BY <1>1, <1>4, <1>5, SameRows DEF FeedInv

LEMMA AnswerPageKeeps ==
    ASSUME FeedInv, AnswerPage
    PROVE  FeedInv'
<1> USE DEF FeedInv
<1>1. /\ stage' \in {"ready", "done"} /\ stats' = GetTradeStats24h
      /\ got' = got \o [i \in DOMAIN page |-> page[i].id]
      /\ cursor' = NextBefore(page)
      /\ UNCHANGED <<page, begun, fills, nextId, tx, now>>
  BY DEF AnswerPage, feedVars
<1>2. \A i \in DOMAIN page : page[i] \in fills /\ page[i].id \in Nat
  BY DEF ClientTypes, FeedTypes, Fill
<1>3. got' \in Seq(Nat)
  <2>1. [i \in DOMAIN page |-> page[i].id] \in Seq(Nat)
    BY <1>2 DEF ClientTypes
  <2>2. QED
    BY <1>1, <2>1 DEF ClientTypes
<1>4. cursor' \in Nat
  <2>1. CASE Len(page) = Limit
    <3>1. Last(page) = page[Len(page)] /\ Len(page) \in DOMAIN page
      BY <2>1, LimitAssumption DEF Last, ClientTypes
    <3>2. QED
      BY <1>1, <1>2, <2>1, <3>1 DEF NextBefore
  <2>2. CASE Len(page) # Limit
    BY <1>1, <2>2 DEF NextBefore, NoId
  <2>3. QED
    BY <2>1, <2>2
<1>5. stats' \in [last: Nat, high: Nat, low: Nat, volume: Nat]
  BY <1>1, RowsOfFills, StatsAre DEF Recent
<1>6. now' \in 0..MaxTime /\ now' >= now
  BY <1>1 DEF FeedTypes
<1>7. ClientTypes'
  BY <1>1, <1>3, <1>4, <1>5 DEF ClientTypes
<1>8. QED
  BY <1>1, <1>6, <1>7, SameRows

LEMMA FeedInvNext ==
    ASSUME FeedInv, [Next]_vars
    PROVE  FeedInv'
<1>1. ASSUME NEW m \in Matcher, MatcherStep(m) PROVE FeedInv'
  BY <1>1, BeginFinalizeKeeps, InsertTradeFillKeeps, CommitFillKeeps, RollbackFillKeeps
     DEF MatcherStep
<1>2. CASE Advance
  <2>1. UNCHANGED <<fills, nextId, tx, clientVars>> /\ now' \in 0..MaxTime /\ now' >= now
    BY <1>2, BoundAssumption DEF Advance, FeedInv, FeedTypes
  <2>2. QED
    BY <2>1, SameRows, SameClient DEF FeedInv
<1>3. CASE BeginPaging
  <2>1. UNCHANGED <<fills, nextId, tx, now>> /\ now' \in 0..MaxTime /\ now' >= now
    BY <1>3 DEF BeginPaging, feedVars, FeedInv, FeedTypes
  <2>2. ClientTypes'
    BY <1>3, <2>1, LimitAssumption DEF BeginPaging, FeedInv, ClientTypes, NoId
  <2>3. QED
    BY <2>1, <2>2, SameRows DEF FeedInv
<1>4. CASE UNCHANGED vars
  <2>1. UNCHANGED <<fills, nextId, tx, now, clientVars>> /\ now' \in 0..MaxTime /\ now' >= now
    BY <1>4 DEF vars, feedVars, FeedInv, FeedTypes
  <2>2. QED
    BY <2>1, SameRows, SameClient DEF FeedInv
<1>5. QED
  BY <1>1, <1>2, <1>3, <1>4, ListPageKeeps, AnswerPageKeeps DEF Next

LEMMA FeedReachable == Spec => []FeedInv
<1>1. FeedInv /\ [Next]_vars => FeedInv'
  BY FeedInvNext
<1>2. QED
  BY FeedInvInit, <1>1, PTL DEF Spec

LEMMA FeedInvTypes == ASSUME FeedInv PROVE TypeOK
<1>1. \A m \in Matcher : tx[m].at \in 0..now /\ tx[m].row \subseteq Fill
  BY DEF FeedInv, FeedTypes, TxTypes
<1>2. ToSet(page) \subseteq Fill /\ ToSet(got) \subseteq Nat /\ begun \subseteq Fill
  BY DEF FeedInv, FeedTypes, ClientTypes, ToSet
<1>3. QED
  BY <1>1, <1>2 DEF FeedInv, FeedTypes, ClientTypes, TypeOK

\* The rows, the transactions and what the client holds keep their types, and
\* a page never has more than Limit trades, for any number of matchers.
THEOREM FeedTypeCorrect == Spec => []TypeOK
BY FeedReachable, FeedInvTypes, PTL

\* The page was read before the statistics.
LEMMA AnswerCovers ==
    ASSUME FeedInv, AnswerPage
    PROVE  /\ \A f \in Shown : stats'.low <= f.price /\ f.price <= stats'.high
           /\ Shown # {} => \E g \in Recent : g.id = stats'.last /\ \A f \in Shown : ~Newer(f, g)
           /\ stats'.volume >= MapThenSumSet(LAMBDA f : f.size, Shown)
<1>1. Shown \subseteq Recent
  BY DEF Shown, Recent, ToSet, FeedInv, ClientTypes
<1>2. Rows(Recent) /\ Rows(Shown)
  BY <1>1, RowsOfFills DEF Recent
<1>3. stats' = GetTradeStats24h
  BY DEF AnswerPage
<1>4. \A f \in Shown : stats'.low <= f.price /\ f.price <= stats'.high
  BY <1>1, <1>2, <1>3, StatsAre
<1>5. ASSUME Shown # {}
      PROVE  \E g \in Recent : g.id = stats'.last /\ \A f \in Shown : ~Newer(f, g)
  <2>1. PICK g \in Recent : g.id = stats'.last /\ \A f \in Recent \ {g} : Newer(g, f)
    BY <1>1, <1>2, <1>3, <1>5, StatsAre
  <2>2. \A f \in Recent : f.at \in Nat /\ f.id \in Nat
    BY <1>2 DEF Rows, Fill
  <2>3. \A f \in Recent : ~Newer(f, g)
    BY <2>1, <2>2 DEF Newer
  <2>4. QED
    BY <1>1, <2>1, <2>3
<1>6. stats'.volume >= MapThenSumSet(LAMBDA f : f.size, Shown)
  <2>1. MapThenSumSet(LAMBDA f : f.size, Shown) = Cardinality(Shown)
    BY <1>2, VolumeIs, Zenon DEF Rows
  <2>2. stats'.volume = Cardinality(Recent)
    BY <1>2, <1>3, StatsAre
  <2>3. Cardinality(Shown) <= Cardinality(Recent)
    BY <1>1, <1>2, FS_Subset DEF Rows
  <2>4. Cardinality(Shown) \in Nat /\ Cardinality(Recent) \in Nat
    BY <1>2, FS_CardinalityType DEF Rows
  <2>5. QED
    BY <2>1, <2>2, <2>3, <2>4
<1>7. QED
  BY <1>4, <1>5, <1>6

\* The statistics, read after the page, cover it: they are taken from all that
\* was committed then, and nothing is ever taken out of trade_fills.
THEOREM StatsNotBehind == Spec => StatsCoverPage
<1>1. FeedInv /\ [Next]_vars => [AnswerPage =>
        /\ \A f \in Shown : stats'.low <= f.price /\ f.price <= stats'.high
        /\ Shown # {} => \E g \in Recent : g.id = stats'.last /\ \A f \in Shown : ~Newer(f, g)
        /\ stats'.volume >= MapThenSumSet(LAMBDA f : f.size, Shown)]_vars
  BY AnswerCovers
<1>2. QED
  BY <1>1, FeedReachable, PTL DEF Spec, StatsCoverPage

-----------------------------------------------------------------------------
(* One matcher: the order of time is the order of identifiers *)

InOrder ==
    /\ \A f, g \in fills : f.id < g.id => f.at <= g.at
    /\ \A f \in fills : f.at <= now
    /\ \A m \in Matcher :
          /\ tx[m].open => \A f \in fills : f.at <= tx[m].at
          /\ \A r \in tx[m].row :
                /\ tx[m].open /\ r.at = tx[m].at
                /\ \A f \in fills : f.id < r.id
          /\ \A r, s \in tx[m].row : r = s

LEMMA InOrderInit == ASSUME Init PROVE InOrder
BY DEF Init, InOrder, NoTx

LEMMA InOrderNext ==
    ASSUME NEW m, Matcher = {m}, FeedInv, InOrder, [Next]_vars
    PROVE  InOrder'
<1> USE DEF FeedInv, FeedTypes
<1>1. \A f \in fills : f.at \in Nat /\ f.id \in 1..nextId - 1
  BY DEF Fill, IdsDrawnOnce, Drawn
<1>2. tx[m] \in [open: BOOLEAN, at: Nat, row: SUBSET Fill] /\ DOMAIN tx = {m} /\ tx[m].at <= now
  BY DEF TxTypes
<1>3. CASE BeginFinalize(m)
  BY <1>1, <1>2, <1>3 DEF BeginFinalize, InOrder
<1>4. ASSUME NEW price \in Price, InsertTradeFill(m, price) PROVE InOrder'
  <2> DEFINE r == [id |-> nextId, at |-> tx[m].at, price |-> price, size |-> 1]
  <2>1. tx' = [tx EXCEPT ![m].row = {r}] /\ tx[m].open /\ UNCHANGED <<fills, now>>
    BY <1>4 DEF InsertTradeFill
  <2>2. r.id = nextId /\ r.at = tx[m].at
    OBVIOUS
  <2> HIDE DEF r
  <2>3. \A f \in fills : f.id < r.id
    BY <1>1, <2>2
  <2>4. QED
    BY <1>2, <2>1, <2>2, <2>3 DEF InOrder
<1>5. CASE CommitFill(m)
  <2>1. fills' = fills \union tx[m].row /\ tx' = [tx EXCEPT ![m] = NoTx] /\ now' = now
    BY <1>5 DEF CommitFill
  <2>2. \A r \in tx[m].row : r.at \in Nat /\ r.id \in Nat
    BY <1>2 DEF Fill
  <2>3. \A f, g \in fills' : f.id < g.id => f.at <= g.at
    BY <1>1, <2>1, <2>2 DEF InOrder
  <2>4. \A f \in fills' : f.at <= now'
    BY <1>2, <2>1 DEF InOrder
  <2>5. tx'[m] = NoTx
    BY <1>2, <2>1
  <2>6. QED
    BY <2>3, <2>4, <2>5 DEF InOrder, NoTx
<1>6. CASE RollbackFill(m)
  <2>1. tx' = [tx EXCEPT ![m] = NoTx] /\ UNCHANGED <<fills, now>>
    BY <1>6 DEF RollbackFill
  <2>2. tx'[m] = NoTx
    BY <1>2, <2>1
  <2>3. QED
    BY <2>1, <2>2 DEF InOrder, NoTx
<1>7. CASE Advance
  <2>1. UNCHANGED <<fills, tx>> /\ now' = now + 1
    BY <1>7 DEF Advance
  <2>2. \A f \in fills : f.at <= now'
    BY <1>1, <2>1 DEF InOrder
  <2>3. QED
    BY <2>1, <2>2 DEF InOrder
<1>8. CASE UNCHANGED <<fills, tx, now>>
  BY <1>8 DEF InOrder
<1>9. QED
  BY <1>3, <1>4, <1>5, <1>6, <1>7, <1>8
     DEF Next, MatcherStep, vars, feedVars, BeginPaging, ListPage, AnswerPage

LEMMA NewerIsLater ==
    ASSUME FeedInv, InOrder, NEW f \in fills, NEW g \in fills, Newer(f, g)
    PROVE  f.id > g.id
<1>1. f.at \in Nat /\ g.at \in Nat /\ f.id \in Nat /\ g.id \in Nat
  BY DEF FeedInv, FeedTypes, Fill
<1>2. f.id = g.id => f = g
  BY DEF FeedInv, IdsDrawnOnce, Drawn
<1>3. QED
  BY <1>1, <1>2 DEF InOrder, Newer

-----------------------------------------------------------------------------
(* Paging *)

Seen(f) == cursor # NoId /\ f.id >= cursor

Paging ==
    /\ \A i, j \in DOMAIN got : i < j => got[i] > got[j]
    /\ stage = "done" => \A f \in begun : f.id \in ToSet(got)
    /\ stage # "done" =>
          /\ IF cursor = NoId THEN got = <<>> ELSE \A i \in DOMAIN got : got[i] >= cursor
          /\ \A f \in begun : Seen(f) => f.id \in ToSet(got)
    /\ stage = "listed" =>
          /\ \A i, j \in DOMAIN page : i < j => page[i].id > page[j].id
          /\ \A i \in DOMAIN page : ~Seen(page[i])
          /\ \A f \in begun :
                \/ Seen(f)
                \/ \E i \in DOMAIN page : page[i] = f
                \/ Len(page) = Limit /\ \A i \in DOMAIN page : page[i].id > f.id

LEMMA PagingInit == ASSUME Init PROVE Paging
BY DEF Init, Paging

LEMMA BeginPagingPages == ASSUME BeginPaging PROVE Paging'
BY DEF BeginPaging, Paging, Seen

LEMMA ListPagePages ==
    ASSUME FeedInv, InOrder, Paging, ListPage
    PROVE  Paging'
<1> DEFINE items == ListTrades(cursor)
<1>1. /\ stage = "ready" /\ stage' = "listed" /\ page' = items
      /\ UNCHANGED <<cursor, got, begun>>
  BY DEF ListPage
<1>2. Before(cursor) \subseteq fills /\ Rows(Before(cursor))
  BY RowsOfFills DEF Before
<1>3. /\ items \in Seq(Before(cursor)) /\ Sorted(items)
      /\ \A f \in Before(cursor) :
            \/ \E i \in DOMAIN items : items[i] = f
            \/ Len(items) = Limit /\ \A i \in DOMAIN items : Newer(items[i], f)
  BY <1>2, PageLists
<1> HIDE DEF items
<1>4. \A i \in DOMAIN items : items[i] \in Before(cursor) /\ items[i] \in fills
  BY <1>2, <1>3
<1>5. \A i, j \in DOMAIN items : i < j => items[i].id > items[j].id
  BY <1>3, <1>4, NewerIsLater DEF Sorted
<1>6. \A f \in fills : f.id \in Nat /\ cursor \in Nat
  BY DEF FeedInv, FeedTypes, ClientTypes, Fill
<1>7. \A f \in fills : f \in Before(cursor) <=> ~Seen(f)
  BY <1>6 DEF Before, Seen
<1>8. \A f \in begun :
         \/ Seen(f)
         \/ \E i \in DOMAIN items : items[i] = f
         \/ Len(items) = Limit /\ \A i \in DOMAIN items : items[i].id > f.id
  <2> SUFFICES ASSUME NEW f \in begun, ~Seen(f), ~\E i \in DOMAIN items : items[i] = f
               PROVE  Len(items) = Limit /\ \A i \in DOMAIN items : items[i].id > f.id
    OBVIOUS
  <2>1. f \in fills /\ f \in Before(cursor)
    BY <1>7 DEF FeedInv, ClientTypes
  <2>2. Len(items) = Limit /\ \A i \in DOMAIN items : Newer(items[i], f)
    BY <1>3, <2>1
  <2>3. QED
    BY <1>4, <2>1, <2>2, NewerIsLater
<1>9. \A f : Seen(f)' <=> Seen(f)
  BY <1>1 DEF Seen
<1>10. \A i \in DOMAIN items : ~Seen(items[i])
  BY <1>4, <1>7
<1>11. QED
  BY <1>1, <1>5, <1>8, <1>9, <1>10 DEF Paging

LEMMA AnswerPagePages ==
    ASSUME FeedInv, Paging, AnswerPage
    PROVE  Paging'
<1> DEFINE n == Len(got)
           k == Len(page)
           ids == [i \in DOMAIN page |-> page[i].id]
<1>1. /\ stage = "listed" /\ got' = got \o ids /\ cursor' = NextBefore(page)
      /\ stage' = IF NextBefore(page) = NoId THEN "done" ELSE "ready"
      /\ UNCHANGED <<page, begun>>
  BY DEF AnswerPage
<1>2. /\ n \in Nat /\ DOMAIN got = 1..n /\ k \in Nat /\ DOMAIN page = 1..k
      /\ \A i \in 1..n : got[i] \in Nat
      /\ got \in Seq(Nat) /\ cursor \in Nat
  BY DEF FeedInv, ClientTypes
<1>3. \A i \in 1..k : page[i] \in fills /\ page[i].id \in Nat \ {0}
  <2>1. \A f \in fills : f.id \in 1..nextId - 1
    BY DEF FeedInv, IdsDrawnOnce, Drawn
  <2>2. \A i \in 1..k : page[i] \in fills
    BY <1>2 DEF FeedInv, ClientTypes
  <2>3. QED
    BY <2>1, <2>2
<1>4. /\ ids \in Seq(Nat) /\ Len(ids) = k /\ \A i \in 1..k : ids[i] = page[i].id
  BY <1>2, <1>3
<1> HIDE DEF ids, n, k
<1>5. /\ DOMAIN got' = 1..n + k
      /\ \A i \in 1..n : got'[i] = got[i]
      /\ \A i \in 1..k : got'[n + i] = page[i].id
  BY <1>1, <1>2, <1>4 DEF n
<1>6. \A i \in 1..n + k : i \in 1..n \/ (i - n \in 1..k /\ got'[i] = page[i - n].id)
  BY <1>2, <1>5
<1>7. \A i \in 1..n, j \in 1..k : got[i] > page[j].id
  <2>1. ASSUME cursor # NoId, NEW i \in 1..n, NEW j \in 1..k PROVE got[i] > page[j].id
    <3>1. got[i] >= cursor /\ ~(page[j].id >= cursor)
      BY <1>1, <1>2, <2>1 DEF Paging, Seen
    <3>2. QED
      BY <1>2, <1>3, <3>1
  <2>2. ASSUME cursor = NoId PROVE n = 0
    BY <1>1, <2>2 DEF Paging, n
  <2>3. QED
    BY <2>1, <2>2
<1>8. \A i, j \in 1..k : i < j => page[i].id > page[j].id
  BY <1>1, <1>2 DEF Paging
<1>9. \A i, j \in DOMAIN got' : i < j => got'[i] > got'[j]
  <2> SUFFICES ASSUME NEW i \in 1..n + k, NEW j \in 1..n + k, i < j
               PROVE  got'[i] > got'[j]
    BY <1>5
  <2>1. CASE j \in 1..n
    <3>1. i \in 1..n
      BY <1>2, <2>1
    <3>2. QED
      BY <1>2, <1>5, <2>1, <3>1 DEF Paging
  <2>2. CASE i \in 1..n /\ j \notin 1..n
    BY <1>5, <1>6, <1>7, <2>2
  <2>3. CASE i \notin 1..n /\ j \notin 1..n
    <3>1. /\ i - n \in 1..k /\ got'[i] = page[i - n].id
          /\ j - n \in 1..k /\ got'[j] = page[j - n].id
      BY <1>6, <2>3
    <3>2. i - n < j - n
      BY <1>2
    <3>3. QED
      BY <1>8, <3>1, <3>2
  <2>4. QED
    BY <2>1, <2>2, <2>3
<1>10. \A x \in ToSet(got) : x \in ToSet(got')
  <2>1. 1..n \subseteq 1..n + k
    BY <1>2
  <2>2. QED
    BY <1>2, <1>5, <2>1 DEF ToSet
<1>11. \A i \in 1..k : page[i].id \in ToSet(got')
  <2>1. \A i \in 1..k : n + i \in 1..n + k
    BY <1>2
  <2>2. QED
    BY <1>5, <2>1 DEF ToSet
<1>12. \A f \in begun :
          f.id \in ToSet(got') \/ (k = Limit /\ \A i \in 1..k : page[i].id > f.id)
  <2> SUFFICES ASSUME NEW f \in begun, f.id \notin ToSet(got')
               PROVE  k = Limit /\ \A i \in 1..k : page[i].id > f.id
    OBVIOUS
  <2>1. ~Seen(f)
    BY <1>1, <1>10 DEF Paging
  <2>2. ~\E i \in DOMAIN page : page[i] = f
    BY <1>2, <1>11
  <2>3. QED
    BY <1>1, <1>2, <2>1, <2>2 DEF Paging, k
<1>13. CASE k = Limit
  <2>1. k \in 1..k /\ Last(page) = page[k]
    BY <1>13, LimitAssumption DEF Last, k
  <2>2. cursor' = page[k].id /\ cursor' \in Nat \ {0} /\ stage' = "ready"
    BY <1>1, <1>3, <1>13, <2>1 DEF NextBefore, NoId, k
  <2>3. \A i \in 1..k : page[i].id >= cursor'
    <3> SUFFICES ASSUME NEW i \in 1..k PROVE page[i].id >= cursor'
      OBVIOUS
    <3>1. CASE i = k
      BY <2>2, <3>1
    <3>2. CASE i # k
      <4>1. i < k
        BY <1>2, <3>2
      <4>2. QED
        BY <1>3, <1>8, <2>1, <2>2, <4>1
    <3>3. QED
      BY <3>1, <3>2
  <2>4. \A i \in DOMAIN got' : got'[i] >= cursor'
    <3>1. \A i \in 1..n : got[i] >= cursor'
      BY <1>2, <1>7, <2>1, <2>2
    <3>2. QED
      BY <1>5, <1>6, <2>3, <3>1
  <2>5. \A f \in begun : f.id >= cursor' => f.id \in ToSet(got')
    <3>1. \A f \in begun : f.id \in Nat
      BY DEF FeedInv, FeedTypes, ClientTypes, Fill
    <3>2. QED
      BY <1>12, <2>1, <2>2, <3>1
  <2>6. QED
    BY <1>1, <1>9, <2>2, <2>4, <2>5 DEF Paging, Seen, NoId
<1>14. CASE k # Limit
  <2>1. cursor' = NoId /\ stage' = "done"
    BY <1>1, <1>14 DEF NextBefore, k
  <2>2. QED
    BY <1>1, <1>9, <1>12, <1>14, <2>1 DEF Paging
<1>15. QED
  BY <1>13, <1>14

LEMMA PagingNext ==
    ASSUME FeedInv, InOrder, Paging, [Next]_vars
    PROVE  Paging'
<1>1. CASE UNCHANGED clientVars
  BY <1>1 DEF clientVars, Paging, Seen
<1>2. QED
  BY <1>1, BeginPagingPages, ListPagePages, AnswerPagePages
     DEF Next, MatcherStep, vars, BeginFinalize, InsertTradeFill, CommitFill, RollbackFill, Advance

\* With one matcher, whose transactions follow each other, a client that has
\* paged to the end has every trade that was there when it began, none twice,
\* newest first.  With two it may not: created_at is the time at which a
\* transaction began and trade_id is drawn later.
THEOREM OneMatcherPagesComplete ==
    ASSUME NEW m, Matcher = {m}
    PROVE  Spec => []PagesComplete
<1> DEFINE Inv == FeedInv /\ InOrder /\ Paging
<1>1. Init => Inv
  BY FeedInvInit, InOrderInit, PagingInit
<1>2. Inv /\ [Next]_vars => Inv'
  BY FeedInvNext, InOrderNext, PagingNext
<1>3. Inv => PagesComplete
  BY DEF Paging, PagesComplete
<1>4. QED
  BY <1>1, <1>2, <1>3, PTL DEF Spec

=============================================================================
