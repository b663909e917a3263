-------------------------- MODULE OrderBookProofs --------------------------
(***************************************************************************)
(* MatchOrder, for every book, limit and size.  It never fills more than   *)
(* it was asked for and never at an average price beyond the limit: the    *)
(* contract (Fills) under which the ledger is specified.  And its greedy   *)
(* loop is as good as any way of taking the rows: nothing that respects    *)
(* the limit fills more, and nothing that fills as much has a better price.*)
(*                                                                         *)
(* The second part keeps, next to the loop's totals, the permutation the   *)
(* sort picked and the amount taken of every row (Sorting and Greedy), and *)
(* ends with an exchange argument: between two ways of taking as much, the *)
(* one that takes more of what is cheaper costs no more (CheaperFirst).    *)
(***************************************************************************)
EXTENDS OrderBook, SumsProofs

\* The rows do not change, and every row is a level or does not parse.
RowsOK == \E n \in Nat : offers \in [1..n -> Level \cup {Junk}]

IInv == TypeOK /\ RowsOK /\ FillWithinLimit

LEMMA Product == \A a, b \in Nat : a * b \in Nat
OBVIOUS

LEMMA Distribute == \A a, b, c \in Nat : a * (b + c) = a * b + a * c
OBVIOUS

LEMMA Monotone == \A a, b, c \in Nat : a <= b => c * a <= c * b
OBVIOUS

LEMMA Commute == \A a, b \in Nat : a * b = b * a
OBVIOUS

LEMMA InitIInv == BInit => IInv
<1> SUFFICES ASSUME BInit PROVE IInv
  OBVIOUS
<1>1. order.size \in Nat /\ order.limit \in Nat
  BY BookAssumption DEF BInit
<1>2. RowsOK
  <2>1. PICK n \in 0..MaxRows : offers \in [1..n -> Level \cup {Junk}]
    BY DEF BInit
  <2>2. n \in Nat
    BY BookAssumption
  <2> QED
    BY <2>1, <2>2 DEF RowsOK
<1>3. TypeOK
  <2>1. levels = <<>> /\ <<>> \in Seq(Level)
    BY DEF BInit
  <2>2. done \in BOOLEAN
    BY Zenon DEF BInit
  <2> QED
    BY <2>1, <2>2 DEF BInit, TypeOK
<1>4. FillWithinLimit
  BY <1>1 DEF BInit, FillWithinLimit
<1> QED
  BY <1>2, <1>3, <1>4 DEF IInv

\* The sort produces levels.
LEMMA SortLevels ==
  ASSUME RowsOK, Sort
  PROVE  levels' \in Seq(Level)
<1>1. PICK n \in Nat : offers \in [1..n -> Level \cup {Junk}]
  BY DEF RowsOK
<1>2. IsFiniteSet(Parsed)
  <2>1. IsFiniteSet(1..n)
    BY FS_Interval
  <2>2. Parsed \subseteq 1..n
    BY <1>1 DEF Parsed
  <2> QED
    BY <2>1, <2>2, FS_Subset
<1> DEFINE c == Cardinality(Parsed)
<1>3. c \in Nat
  BY <1>2, FS_CardinalityType
<1>4. PICK p \in [1..c -> Parsed] : levels' = [i \in DOMAIN p |-> offers[p[i]]]
  BY DEF Sort
<1>5. \A k \in Parsed : offers[k] \in Level
  BY <1>1 DEF Parsed
<1> HIDE DEF c
<1>6. levels' \in [1..c -> Level]
  BY <1>4, <1>5
<1> QED
  BY <1>3, <1>6

\* Taking a level keeps the fill within the size and the limit.
LEMMA TakeWithinLimit ==
  ASSUME IInv, TakeLevel
  PROVE  filled' \in Nat /\ weighted' \in Nat /\ next' \in Nat
         /\ FillWithinLimit'
<1> DEFINE l     == levels[next]
           n     == FillAt(l)
           limit == order.limit
<1>1. /\ next \in Nat /\ next > 0 /\ next <= Len(levels) /\ ~Beyond(l)
      /\ filled < order.size
      /\ filled' = filled + n /\ weighted' = weighted + n * l.price
      /\ next' = next + 1 /\ order' = order
  BY DEF IInv, TypeOK, TakeLevel, More
<1>2. /\ filled \in Nat /\ weighted \in Nat /\ limit \in Nat
      /\ order.size \in Nat /\ filled <= order.size
      /\ levels \in Seq(Level)
  BY BookAssumption DEF IInv, TypeOK, FillWithinLimit
<1>3. l.price \in Nat /\ l.size \in Nat
  <2>1. l \in Level
    BY <1>1, <1>2
  <2>2. l.price \in Prices /\ l.size \in RowSizes
    BY <2>1 DEF Level
  <2> QED
    BY <2>2, BookAssumption
<1>4. n \in Nat /\ n <= order.size - filled
  <2>1. order.size - filled \in Nat
    BY <1>1, <1>2
  <2>2. CASE order.size - filled > l.size
    <3>1. n = l.size
      BY <2>2 DEF FillAt
    <3> QED
      BY <1>3, <2>1, <2>2, <3>1
  <2>3. CASE ~(order.size - filled > l.size)
    <3>1. n = order.size - filled
      BY <2>3 DEF FillAt
    <3> QED
      BY <2>1, <3>1
  <2> QED
    BY <2>2, <2>3
<1>5. n * l.price \in Nat /\ limit * n \in Nat /\ limit * filled \in Nat
  BY <1>2, <1>3, <1>4, Product
<1>6. limit * (filled + n) = limit * filled + limit * n
  BY <1>2, <1>4, Distribute
<1>7. n * l.price = l.price * n /\ limit * n = n * limit
  BY <1>2, <1>3, <1>4, Commute
<1>8. CASE order.side = "BUY"
  <2>1. l.price <= limit
    BY <1>1, <1>2, <1>3, <1>8 DEF Beyond
  <2>2. n * l.price <= n * limit
    BY <1>2, <1>3, <1>4, <2>1, Monotone
  <2>3. weighted <= limit * filled
    BY <1>8 DEF IInv, FillWithinLimit
  <2> HIDE DEF l, n, limit
  <2>4. weighted + n * l.price <= limit * (filled + n)
    BY <1>2, <1>5, <1>6, <1>7, <2>2, <2>3
  <2>5. filled + n <= order.size
    BY <1>2, <1>4
  <2>6. order'.side = "BUY" /\ order'.limit = limit /\ order'.size = order.size
    BY <1>1, <1>8 DEF limit
  <2>7. filled' <= order'.size /\ weighted' <= order'.limit * filled'
    BY <1>1, <2>4, <2>5, <2>6
  <2>8. filled' \in Nat /\ weighted' \in Nat /\ next' \in Nat
    BY <1>1, <1>2, <1>4, <1>5
  <2> QED
    BY <2>6, <2>7, <2>8 DEF FillWithinLimit
<1>9. CASE order.side # "BUY"
  <2>1. l.price >= limit
    BY <1>1, <1>2, <1>3, <1>9 DEF Beyond
  <2>2. n * limit <= n * l.price
    BY <1>2, <1>3, <1>4, <2>1, Monotone
  <2>3. weighted >= limit * filled
    BY <1>9 DEF IInv, FillWithinLimit
  <2> HIDE DEF l, n, limit
  <2>4. weighted + n * l.price >= limit * (filled + n)
    BY <1>2, <1>5, <1>6, <1>7, <2>2, <2>3
  <2>5. filled + n <= order.size
    BY <1>2, <1>4
  <2>6. order'.side # "BUY" /\ order'.limit = limit /\ order'.size = order.size
    BY <1>1, <1>9 DEF limit
  <2>7. filled' <= order'.size /\ weighted' >= order'.limit * filled'
    BY <1>1, <2>4, <2>5, <2>6
  <2>8. filled' \in Nat /\ weighted' \in Nat /\ next' \in Nat
    BY <1>1, <1>2, <1>4, <1>5
  <2> QED
    BY <2>6, <2>7, <2>8 DEF FillWithinLimit
<1> QED
  BY <1>8, <1>9

LEMMA NextIInv == IInv /\ [BNext]_bvars => IInv'
<1> SUFFICES ASSUME IInv, [BNext]_bvars PROVE IInv'
  OBVIOUS
<1>1. CASE Sort
  <2>1. levels' \in Seq(Level)
    BY <1>1, SortLevels DEF IInv
  <2>2. next' = 1 /\ UNCHANGED <<order, offers, filled, weighted, done>>
    BY <1>1 DEF Sort
  <2>3. TypeOK'
    BY <2>1, <2>2 DEF IInv, TypeOK
  <2> QED
    BY <2>2, <2>3 DEF IInv, RowsOK, FillWithinLimit
<1>2. CASE TakeLevel
  <2>1. /\ filled' \in Nat /\ weighted' \in Nat /\ next' \in Nat
        /\ FillWithinLimit'
    BY <1>2, TakeWithinLimit
  <2>2. UNCHANGED <<order, offers, levels, done>>
    BY <1>2 DEF TakeLevel
  <2> QED
    BY <2>1, <2>2 DEF IInv, TypeOK, RowsOK
<1>3. CASE FinishMatch
  BY <1>3 DEF IInv, FinishMatch, TypeOK, RowsOK, FillWithinLimit
<1>4. CASE UNCHANGED bvars
  BY <1>4 DEF IInv, bvars, TypeOK, RowsOK, FillWithinLimit
<1> QED
  BY <1>1, <1>2, <1>3, <1>4 DEF BNext

\* MatchOrder fills no more than the size it is given, at an average price no
\* worse than the limit, whatever the book contains.
THEOREM MatchWithinLimit == BSpec => []FillWithinLimit
<1>1. IInv => FillWithinLimit
  BY DEF IInv
<1> QED
  BY <1>1, InitIInv, NextIInv, PTL DEF BSpec

\* At every i, g takes no less of what is cheaper than P and no more of what is
\* dearer; fc and gc are what f and g cost.
TakesCheaper(n, price, f, g, P, fc, gc) ==
    \A i \in 1..n : /\ f[i] \in Int /\ g[i] \in Int /\ price[i] \in Int
                    /\ price[i] < P => f[i] <= g[i]
                    /\ price[i] > P => g[i] <= f[i]
                    /\ fc[i] = f[i] * price[i] /\ gc[i] = g[i] * price[i]

\* Of two ways to take as much, the one that takes more of what is cheaper than
\* some price, and less of what is dearer, costs no more.
LEMMA CheaperFirst ==
  ASSUME NEW n \in Nat, NEW price, NEW f, NEW g, NEW P \in Int, NEW fc, NEW gc,
         TakesCheaper(n, price, f, g, P, fc, gc),
         SumTo(f, n) = SumTo(g, n)
  PROVE  SumTo(fc, n) >= SumTo(gc, n)
<1>0. \A i \in 1..n : /\ f[i] \in Int /\ g[i] \in Int /\ price[i] \in Int
                      /\ price[i] < P => f[i] <= g[i]
                      /\ price[i] > P => g[i] <= f[i]
                      /\ fc[i] = f[i] * price[i] /\ gc[i] = g[i] * price[i]
  BY DEF TakesCheaper
<1> DEFINE fp == [i \in 1..n |-> P * f[i]]
           gp == [i \in 1..n |-> P * g[i]]
           l  == [i \in 1..n |-> gc[i] + fp[i]]
           r  == [i \in 1..n |-> fc[i] + gp[i]]
<1>1. ASSUME NEW i \in 1..n
      PROVE  /\ fp[i] \in Int /\ fp[i] = P * f[i] /\ gp[i] \in Int /\ gp[i] = P * g[i]
             /\ fc[i] \in Int /\ gc[i] \in Int
             /\ l[i] = gc[i] + fp[i] /\ r[i] = fc[i] + gp[i] /\ l[i] <= r[i]
  <2>1. PICK a \in Int, b \in Int, p \in Int : a = f[i] /\ b = g[i] /\ p = price[i]
    BY <1>0
  <2>2. /\ fp[i] = P * a /\ gp[i] = P * b /\ fc[i] = a * p /\ gc[i] = b * p
        /\ l[i] = gc[i] + fp[i] /\ r[i] = fc[i] + gp[i]
    BY <1>0, <2>1
  <2>3. P * a \in Int /\ P * b \in Int /\ a * p \in Int /\ b * p \in Int
    BY <2>1
  <2>4. b * p + P * a <= a * p + P * b
    <3>1. CASE p < P
      <4>1. PICK u \in Nat, v \in Nat : u = P - p /\ v = b - a
        <5>1. P - p \in Nat /\ b - a \in Nat
          BY <1>0, <2>1, <3>1
        <5> QED
          BY <5>1
      <4>2. u * v \in Nat /\ u * v = (P * b - P * a) - (b * p - a * p)
        <5>1. u * v \in Nat
          BY <4>1
        <5>2. u * v = P * (b - a) - p * (b - a)
          BY <2>1, <4>1
        <5>3. P * (b - a) = P * b - P * a /\ p * (b - a) = b * p - a * p
          BY <2>1
        <5> QED
          BY <5>1, <5>2, <5>3
      <4> QED
        BY <2>3, <4>2
    <3>2. CASE p > P
      <4>1. PICK u \in Nat, v \in Nat : u = p - P /\ v = a - b
        <5>1. p - P \in Nat /\ a - b \in Nat
          BY <1>0, <2>1, <3>2
        <5> QED
          BY <5>1
      <4>2. u * v \in Nat /\ u * v = (a * p - b * p) - (P * a - P * b)
        <5>1. u * v \in Nat
          BY <4>1
        <5>2. u * v = p * (a - b) - P * (a - b)
          BY <2>1, <4>1
        <5>3. P * (a - b) = P * a - P * b /\ p * (a - b) = a * p - b * p
          BY <2>1
        <5> QED
          BY <5>1, <5>2, <5>3
      <4> QED
        BY <2>3, <4>2
    <3>3. CASE p = P
      BY <2>1, <2>3, <3>3
    <3> QED
      BY <2>1, <3>1, <3>2, <3>3
  <2> QED
    BY <2>1, <2>2, <2>3, <2>4
<1> HIDE DEF fp, gp, l, r
<1>2. /\ SumTo(fp, n) = P * SumTo(f, n) /\ SumTo(gp, n) = P * SumTo(g, n)
  BY <1>0, <1>1, SumToScale
<1>3. SumTo(l, n) = SumTo(gc, n) + SumTo(fp, n) /\ SumTo(r, n) = SumTo(fc, n) + SumTo(gp, n)
  BY <1>1, SumToAdd
<1>4. SumTo(l, n) <= SumTo(r, n)
  <2>1. \A i \in 1..n : l[i] \in Int /\ r[i] \in Int /\ l[i] <= r[i]
    BY <1>1
  <2> QED
    BY <2>1, SumToMonotone
<1>5. /\ SumTo(fp, n) \in Int /\ SumTo(gp, n) \in Int /\ SumTo(fp, n) = SumTo(gp, n)
      /\ SumTo(fc, n) \in Int /\ SumTo(gc, n) \in Int
  BY <1>1, <1>2, SumToInt
<1> QED
  BY <1>3, <1>4, <1>5

-----------------------------------------------------------------------------
(* What the loop takes, as amounts of the rows of the book.                *)

\* p is how the sort arranged the rows that parse.
Sorting(p) ==
    /\ p \in [1 .. Len(levels) -> Parsed]
    /\ \A i \in Parsed : \E j \in 1 .. Len(levels) : p[j] = i
    /\ \A i, j \in 1 .. Len(levels) :
          i < j => p[i] # p[j] /\ ~Better(offers[p[j]], offers[p[i]])
    /\ \A j \in 1 .. Len(levels) : levels[j] = offers[p[j]]

PriceOf(i) == IF i \in Parsed THEN offers[i].price ELSE 0
Costs(g) == [i \in DOMAIN offers |-> g[i] * PriceOf(i)]

\* The amounts taken so far: whole levels up to the last one, which is whole
\* unless the order is full, and nothing beyond.
Greedy(p, g) ==
    /\ g \in [DOMAIN offers -> Nat]
    /\ \A i \in DOMAIN offers \ Parsed : g[i] = 0
    /\ \A j \in 1 .. Len(levels) :
          /\ j >= next => g[p[j]] = 0
          /\ j < next => g[p[j]] <= levels[j].size /\ ~Beyond(levels[j])
          /\ j < next - 1 => g[p[j]] = levels[j].size
          /\ j < next /\ filled < order.size => g[p[j]] = levels[j].size
    /\ SumTo(g, Len(offers)) = filled
    /\ SumTo(Costs(g), Len(offers)) = weighted

Progress ==
    /\ next = 0 => levels = << >> /\ filled = 0 /\ weighted = 0 /\ ~done
    /\ next > 0 => next <= Len(levels) + 1 /\ \E p, g : Sorting(p) /\ Greedy(p, g)
    /\ done => next > 0 /\ ~More

LEMMA RowsAre ==
  ASSUME IInv
  PROVE  /\ offers \in Seq(Level \cup {Junk})
         /\ DOMAIN offers = 1 .. Len(offers) /\ Len(offers) \in Nat
         /\ IsFiniteSet(Parsed) /\ Parsed \subseteq DOMAIN offers
         /\ \A i \in Parsed :
               offers[i] \in Level /\ offers[i].price \in Nat /\ offers[i].size \in Nat
         /\ order.size \in Nat \ {0} /\ order.limit \in Nat
         /\ order.side \in {"BUY", "SELL"}
         /\ \A i \in DOMAIN offers : PriceOf(i) \in Nat
<1>1. PICK n \in Nat : offers \in [1..n -> Level \cup {Junk}]
  BY DEF IInv, RowsOK
<1>2. offers \in Seq(Level \cup {Junk}) /\ DOMAIN offers = 1 .. Len(offers) /\ Len(offers) = n
  BY <1>1
<1>3. IsFiniteSet(1 .. n)
  BY FS_Interval
<1>4. IsFiniteSet(Parsed) /\ Parsed \subseteq DOMAIN offers
  BY <1>1, <1>3, FS_Subset DEF Parsed
<1>5. \A i \in Parsed : offers[i] \in Level
  BY <1>1 DEF Parsed
<1>6. \A i \in Parsed : offers[i].price \in Nat /\ offers[i].size \in Nat
  BY <1>5, BookAssumption DEF Level
<1>7. order.size \in Nat \ {0} /\ order.limit \in Nat /\ order.side \in {"BUY", "SELL"}
  BY BookAssumption DEF IInv, TypeOK
<1>8. \A i \in DOMAIN offers : PriceOf(i) \in Nat
  BY <1>6 DEF PriceOf
<1> QED
  BY <1>1, <1>2, <1>4, <1>5, <1>6, <1>7, <1>8

LEMMA SortProgresses ==
  ASSUME IInv, Progress, Sort
  PROVE  Progress'
<1>1. /\ next = 0 /\ next' = 1 /\ order' = order /\ offers' = offers /\ filled' = 0
      /\ weighted' = 0 /\ ~done'
  BY DEF Sort, Progress
<1> DEFINE c == Cardinality(Parsed)
<1>9. PICK g : g = [i \in DOMAIN offers |-> 0]
  OBVIOUS
<1>2. /\ offers \in Seq(Level \cup {Junk}) /\ DOMAIN offers = 1 .. Len(offers) /\ Len(offers) \in Nat
      /\ IsFiniteSet(Parsed) /\ Parsed \subseteq DOMAIN offers /\ order.size \in Nat \ {0}
      /\ \A i \in DOMAIN offers : PriceOf(i) \in Nat
  BY RowsAre
<1>3. c \in Nat
  BY <1>2, FS_CardinalityType
<1>4. PICK p \in [1 .. c -> Parsed] :
        /\ \A i, j \in DOMAIN p :
              i < j => p[i] # p[j] /\ ~Better(offers[p[j]], offers[p[i]])
        /\ levels' = [i \in DOMAIN p |-> offers[p[i]]]
  BY DEF Sort
<1>5. \A i \in Parsed : \E j \in 1 .. c : p[j] = i
  <2>1. IsFiniteSet(1 .. c) /\ Cardinality(1 .. c) = c
    BY <1>3, FS_Interval
  <2> HIDE DEF c
  <2>2. p \in Injection(1 .. c, Parsed)
    <3>1. \A i, j \in 1 .. c : p[i] = p[j] => i = j
      <4> SUFFICES ASSUME NEW i \in 1 .. c, NEW j \in 1 .. c, p[i] = p[j] PROVE i = j
        OBVIOUS
      <4>1. ~(i < j) /\ ~(j < i)
        BY <1>4
      <4> QED
        BY <1>3, <4>1
    <3> QED
      BY <1>4, <3>1 DEF Injection, IsInjective
  <2>3. p \in Surjection(1 .. c, Parsed)
    BY <1>2, <2>1, <2>2, FS_Injection DEF c
  <2> QED
    BY <2>3 DEF Surjection
<1> HIDE DEF c
<1>6. Len(levels') = c /\ DOMAIN levels' = 1 .. c /\ levels' \in Seq(Level \cup {Junk})
  <2>1. levels' \in [1 .. c -> Level \cup {Junk}]
    BY <1>2, <1>4
  <2> QED
    BY <1>3, <2>1
<1>7. Sorting(p)'
  BY <1>1, <1>4, <1>5, <1>6 DEF Sorting, Parsed, Better
<1>8. Greedy(p, g)'
  <2>1. SumTo(g, Len(offers)) = 0
    BY <1>2, <1>9, SumToZero
  <2>2. SumTo(Costs(g), Len(offers)) = 0
    <3>1. \A i \in 1 .. Len(offers) : Costs(g)[i] = 0
      BY <1>2, <1>9 DEF Costs
    <3> QED
      BY <1>2, <3>1, SumToZero
  <2>3. Costs(g)' = Costs(g)
    BY <1>1 DEF Costs, PriceOf, Parsed
  <2>4. \A j \in 1 .. c : g[p[j]] = 0 /\ ~(j < 1) /\ ~(j < 1 - 1)
    BY <1>2, <1>4, <1>9
  <2>5. g \in [DOMAIN offers -> Nat] /\ \A i \in DOMAIN offers : g[i] = 0
    BY <1>9
  <2> QED
    BY <1>1, <1>6, <2>1, <2>2, <2>3, <2>4, <2>5 DEF Greedy, Parsed
<1> QED
  BY <1>1, <1>3, <1>6, <1>7, <1>8 DEF Progress

LEMMA TakeProgresses ==
  ASSUME IInv, Progress, TakeLevel
  PROVE  Progress'
<1>1. /\ next > 0 /\ next \in Nat /\ ~done /\ next <= Len(levels) /\ ~Beyond(levels[next])
      /\ filled < order.size /\ filled \in Nat /\ weighted \in Nat
      /\ filled' = filled + FillAt(levels[next])
      /\ weighted' = weighted + FillAt(levels[next]) * levels[next].price
      /\ next' = next + 1
      /\ order' = order /\ offers' = offers /\ levels' = levels /\ done' = done
      /\ levels \in Seq(Level)
  BY DEF TakeLevel, More, IInv, TypeOK
<1>2. PICK p, g : Sorting(p) /\ Greedy(p, g)
  BY <1>1 DEF Progress
<1>3. /\ DOMAIN offers = 1 .. Len(offers) /\ Len(offers) \in Nat /\ Parsed \subseteq DOMAIN offers
      /\ \A i \in Parsed : offers[i].price \in Nat /\ offers[i].size \in Nat
      /\ order.size \in Nat /\ \A i \in DOMAIN offers : PriceOf(i) \in Nat
  BY RowsAre
<1>4. PICK m \in Nat : m = Len(levels)
  BY <1>1
<1>5. /\ p \in [1 .. m -> Parsed] /\ next \in 1 .. m
      /\ \A i, j \in 1 .. m : i < j => p[i] # p[j]
      /\ levels[next] = offers[p[next]]
  BY <1>1, <1>2, <1>4 DEF Sorting
<1>6. PICK k \in Parsed : k = p[next]
  BY <1>5
<1>7. \A j \in 1 .. m : j # next => p[j] # k
  <2> SUFFICES ASSUME NEW j \in 1 .. m, j # next PROVE p[j] # p[next]
    BY <1>6
  <2>1. j < next \/ next < j
    BY <1>1, <1>4
  <2> QED
    BY <1>5, <2>1
<1>8. PICK n \in Nat, size \in Nat, price \in Nat :
        /\ n = FillAt(levels[next]) /\ size = levels[next].size /\ price = levels[next].price
        /\ n <= size
        /\ n = size \/ ~(filled + n < order.size)
  <2>1. levels[next].size \in Nat /\ levels[next].price \in Nat
    BY <1>3, <1>5, <1>6
  <2>2. CASE order.size - filled > levels[next].size
    <3>1. FillAt(levels[next]) = levels[next].size
      BY <2>2 DEF FillAt
    <3> QED
      BY <2>1, <3>1
  <2>3. CASE ~(order.size - filled > levels[next].size)
    <3>1. FillAt(levels[next]) = order.size - filled
      BY <2>3 DEF FillAt
    <3>2. /\ order.size - filled \in Nat
          /\ ~(filled + (order.size - filled) < order.size)
      <4>1. PICK a \in Nat, b \in Nat : a = order.size /\ b = filled /\ b < a
        BY <1>1, <1>3
      <4>2. a - b \in Nat /\ ~(b + (a - b) < a)
        BY <4>1
      <4> QED
        BY <4>1, <4>2
    <3>3. order.size - filled <= levels[next].size
      BY <2>1, <2>3, <3>2
    <3> QED
      BY <2>1, <3>1, <3>2, <3>3
  <2> QED
    BY <2>2, <2>3
<1>9. /\ g \in [DOMAIN offers -> Nat] /\ \A i \in DOMAIN offers \ Parsed : g[i] = 0
      /\ g[k] = 0
      /\ SumTo(g, Len(offers)) = filled /\ SumTo(Costs(g), Len(offers)) = weighted
  <2>1. next >= next
    BY <1>1
  <2> QED
    BY <1>2, <1>4, <1>5, <1>6, <2>1 DEF Greedy
<1>10. \A j \in 1 .. m :
          /\ j >= next => g[p[j]] = 0
          /\ j < next => ~Beyond(levels[j]) /\ g[p[j]] = levels[j].size
  BY <1>1, <1>2, <1>4 DEF Greedy
<1>11. PICK h : h = [g EXCEPT ![k] = n]
  OBVIOUS
<1>12. /\ h \in [DOMAIN offers -> Nat] /\ h[k] = n
       /\ \A i \in DOMAIN offers : i # k => h[i] = g[i]
  BY <1>3, <1>9, <1>11
<1>13. SumTo(h, Len(offers)) = filled + n
  <2>1. SumTo(h, Len(offers)) = SumTo(g, Len(offers)) + h[k] - g[k]
    <3>1. \A i \in 1 .. Len(offers) : g[i] \in Int /\ h[i] \in Int
      BY <1>3, <1>9, <1>12
    <3>2. \A i \in 1 .. Len(offers) \ {k} : h[i] = g[i]
      BY <1>3, <1>12
    <3>3. k \in 1 .. Len(offers)
      BY <1>3
    <3> QED
      BY <1>3, <3>1, <3>2, <3>3, SumToPoint
  <2> QED
    BY <1>1, <1>9, <1>12, <2>1
<1>14. SumTo(Costs(h), Len(offers)) = weighted + n * price
  <2>1. PICK a, b : a = Costs(g) /\ b = Costs(h)
    OBVIOUS
  <2>2. \A i \in 1 .. Len(offers) : /\ a[i] \in Int /\ b[i] \in Int
                                  /\ a[i] = g[i] * PriceOf(i) /\ b[i] = h[i] * PriceOf(i)
    <3> SUFFICES ASSUME NEW i \in 1 .. Len(offers)
                 PROVE  /\ a[i] \in Int /\ b[i] \in Int
                        /\ a[i] = g[i] * PriceOf(i) /\ b[i] = h[i] * PriceOf(i)
      OBVIOUS
    <3>1. g[i] \in Nat /\ h[i] \in Nat /\ PriceOf(i) \in Nat
      BY <1>3, <1>9, <1>12
    <3>2. a[i] = g[i] * PriceOf(i) /\ b[i] = h[i] * PriceOf(i)
      BY <1>3, <2>1 DEF Costs
    <3>3. g[i] * PriceOf(i) \in Int /\ h[i] * PriceOf(i) \in Int
      BY <3>1
    <3> QED
      BY <3>2, <3>3
  <2>3. \A i \in 1 .. Len(offers) \ {k} : b[i] = a[i]
    BY <1>3, <1>12, <2>2
  <2>4. k \in 1 .. Len(offers)
    BY <1>3
  <2>5. SumTo(b, Len(offers)) = SumTo(a, Len(offers)) + b[k] - a[k]
    <3>1. \A i \in 1 .. Len(offers) : a[i] \in Int /\ b[i] \in Int
      BY <2>2
    <3> QED
      BY <1>3, <2>3, <2>4, <3>1, SumToPoint
  <2>6. PriceOf(k) = price
    BY <1>5, <1>6, <1>8 DEF PriceOf
  <2>7. b[k] = n * price /\ a[k] = 0
    <3>1. b[k] = n * price /\ a[k] = 0 * price
      BY <1>9, <1>12, <2>2, <2>4, <2>6
    <3> QED
      BY <1>8, <3>1
  <2>8. n * price \in Int
    BY <1>8
  <2>9. SumTo(a, Len(offers)) = weighted
    BY <1>9, <2>1
  <2> QED
    BY <1>1, <2>1, <2>5, <2>7, <2>8, <2>9
<1>15. Greedy(p, h)'
  <2>1. \A j \in 1 .. m :
          /\ j >= next + 1 => h[p[j]] = 0
          /\ j < next + 1 => h[p[j]] <= levels[j].size /\ ~Beyond(levels[j])
          /\ j < next => h[p[j]] = levels[j].size
          /\ j < next + 1 /\ filled + n < order.size => h[p[j]] = levels[j].size
    <3> SUFFICES ASSUME NEW j \in 1 .. m
                 PROVE  /\ j >= next + 1 => h[p[j]] = 0
                        /\ j < next + 1 => h[p[j]] <= levels[j].size /\ ~Beyond(levels[j])
                        /\ j < next => h[p[j]] = levels[j].size
                        /\ j < next + 1 /\ filled + n < order.size => h[p[j]] = levels[j].size
      BY <1>1
    <3>1. CASE j = next
      <4>1. h[p[j]] = n /\ levels[j].size = size /\ ~Beyond(levels[j])
        BY <1>1, <1>6, <1>8, <1>12, <3>1
      <4>2. filled + n < order.size => n = size
        BY <1>8
      <4> QED
        BY <1>1, <1>8, <3>1, <4>1, <4>2
    <3>2. CASE j < next
      <4>1. p[j] # k /\ p[j] \in DOMAIN offers
        BY <1>1, <1>3, <1>4, <1>5, <1>7, <3>2
      <4>2. h[p[j]] = levels[j].size /\ ~Beyond(levels[j])
        BY <1>10, <1>12, <3>2, <4>1
      <4>3. levels[j].size \in Nat
        <5>1. levels[j] = offers[p[j]] /\ p[j] \in Parsed
          BY <1>2, <1>4, <1>5 DEF Sorting
        <5> QED
          BY <1>3, <5>1
      <4> QED
        BY <1>1, <3>2, <4>2, <4>3
    <3>3. CASE j > next
      <4>1. p[j] # k /\ p[j] \in DOMAIN offers
        BY <1>1, <1>3, <1>4, <1>5, <1>7, <3>3
      <4>2. j >= next
        BY <1>1, <3>3
      <4>3. g[p[j]] = 0
        BY <1>10, <4>2
      <4>4. h[p[j]] = 0
        BY <1>12, <4>1, <4>3
      <4> QED
        BY <1>1, <3>3, <4>4
    <3> QED
      BY <1>1, <3>1, <3>2, <3>3
  <2>2. \A i \in DOMAIN offers \ Parsed : h[i] = 0
    BY <1>9, <1>12
  <2>3. Costs(h)' = Costs(h)
    BY <1>1 DEF Costs, PriceOf, Parsed
  <2>4. filled' = filled + n /\ weighted' = weighted + n * price
    BY <1>1, <1>8
  <2>5. Parsed' = Parsed /\ \A j : Beyond(levels[j])' <=> Beyond(levels[j])
    BY <1>1 DEF Parsed, Beyond
  <2>6. /\ SumTo(h, Len(offers')) = filled' /\ SumTo(Costs(h)', Len(offers')) = weighted'
    BY <1>1, <1>13, <1>14, <2>3, <2>4
  <2>7. /\ h \in [DOMAIN offers' -> Nat] /\ \A i \in DOMAIN offers' \ Parsed' : h[i] = 0
    BY <1>1, <1>12, <2>2, <2>5
  <2>8. \A j \in 1 .. m :
          /\ j >= next + 1 => h[p[j]] = 0
          /\ j < next + 1 => h[p[j]] <= levels[j].size /\ ~Beyond(levels[j])'
          /\ j < next => h[p[j]] = levels[j].size
          /\ j < next + 1 /\ filled + n < order.size => h[p[j]] = levels[j].size
    BY <2>1, <2>5
  <2>9. /\ next' = next + 1 /\ levels' = levels /\ order' = order
        /\ filled' = filled + n /\ Len(levels') = m
    BY <1>1, <1>4, <2>4
  <2>10. \A j \in 1 .. Len(levels') : j >= next' => h[p[j]] = 0
    BY <2>8, <2>9
  <2>11. \A j \in 1 .. Len(levels') : j < next' => ~Beyond(levels[j])'
    BY <2>8, <2>9
  <2>12. \A j \in 1 .. Len(levels') : j < next' => h[p[j]] <= levels'[j].size
    BY <2>8, <2>9
  <2>13. \A j \in 1 .. Len(levels') : j < next' - 1 => h[p[j]] = levels'[j].size
    <3>1. next' - 1 = next
      BY <1>1
    <3> QED
      BY <2>8, <2>9, <3>1
  <2>14. \A j \in 1 .. Len(levels') :
            j < next' /\ filled' < order'.size => h[p[j]] = levels'[j].size
    BY <2>8, <2>9
  <2> QED
    BY <2>6, <2>7, <2>10, <2>11, <2>12, <2>13, <2>14 DEF Greedy
<1>16. Sorting(p)'
  BY <1>1, <1>2 DEF Sorting, Parsed, Better
<1>17. next' <= Len(levels') + 1 /\ next' > 0
  BY <1>1
<1> QED
  BY <1>1, <1>15, <1>16, <1>17 DEF Progress

\* A row whose price is better, or worse, than some price.
Ahead(i, price)  == IF order.side = "BUY" THEN offers[i].price < price ELSE offers[i].price > price
Behind(i, price) == IF order.side = "BUY" THEN offers[i].price > price ELSE offers[i].price < price

\* What the loop has taken when it ends: everything there is, unless the order is
\* full; all of what is better than some price and nothing of what is worse.
TakenBest(g) ==
    /\ g \in [DOMAIN offers -> Nat]
    /\ \A i \in DOMAIN offers \ Usable : g[i] = 0
    /\ \A i \in Usable : g[i] <= offers[i].size
    /\ SumTo(g, Len(offers)) = filled /\ SumTo(Costs(g), Len(offers)) = weighted
    /\ filled < order.size => \A i \in Usable : g[i] = offers[i].size
    /\ \E price \in Nat : \A i \in Usable :
          /\ Ahead(i, price) => g[i] = offers[i].size
          /\ Behind(i, price) => g[i] = 0

LEMMA LoopTakesBest ==
  ASSUME IInv, Progress, done
  PROVE  \E g : TakenBest(g)
<1>1. /\ next > 0 /\ next \in Nat /\ next <= Len(levels) + 1 /\ ~More
      /\ filled \in Nat /\ filled <= order.size /\ levels \in Seq(Level)
  BY DEF Progress, IInv, TypeOK, FillWithinLimit
<1>2. PICK p, g : Sorting(p) /\ Greedy(p, g)
  BY <1>1 DEF Progress
<1>3. /\ DOMAIN offers = 1 .. Len(offers) /\ Len(offers) \in Nat /\ Parsed \subseteq DOMAIN offers
      /\ \A i \in Parsed : offers[i].price \in Nat /\ offers[i].size \in Nat
      /\ order.size \in Nat \ {0} /\ order.limit \in Nat
      /\ order.side \in {"BUY", "SELL"}
  BY RowsAre
<1>4. PICK m \in Nat : m = Len(levels)
  BY <1>1
<1>5. /\ p \in [1 .. m -> Parsed]
      /\ \A i \in Parsed : \E j \in 1 .. m : p[j] = i
      /\ \A j \in 1 .. m : levels[j] = offers[p[j]]
      /\ \A i, j \in 1 .. m : i < j => ~Better(offers[p[j]], offers[p[i]])
  BY <1>2, <1>4 DEF Sorting
<1>6. /\ g \in [DOMAIN offers -> Nat] /\ \A i \in DOMAIN offers \ Parsed : g[i] = 0
      /\ SumTo(g, Len(offers)) = filled /\ SumTo(Costs(g), Len(offers)) = weighted
  BY <1>2 DEF Greedy
<1>7. \A j \in 1 .. m :
          /\ j >= next => g[p[j]] = 0
          /\ j < next => g[p[j]] <= levels[j].size /\ ~Beyond(levels[j])
          /\ j < next - 1 => g[p[j]] = levels[j].size
          /\ j < next /\ filled < order.size => g[p[j]] = levels[j].size
  BY <1>2, <1>4 DEF Greedy
<1>8. \A i : i \in Usable <=> i \in Parsed /\ ~Beyond(offers[i])
  BY DEF Usable, Beyond
<1>9. \A j \in 1 .. m : j < next \/ j >= next
  BY <1>1
<1>10. \A i \in DOMAIN offers \ Usable : g[i] = 0
  <2> SUFFICES ASSUME NEW i \in Parsed, i \notin Usable PROVE g[i] = 0
    BY <1>6
  <2>1. PICK j \in 1 .. m : p[j] = i
    BY <1>5
  <2>2. Beyond(levels[j])
    BY <1>5, <1>8, <2>1
  <2> QED
    BY <1>7, <1>9, <2>1, <2>2
<1>11. \A i \in Usable : g[i] <= offers[i].size
  <2> SUFFICES ASSUME NEW i \in Usable PROVE g[i] <= offers[i].size
    OBVIOUS
  <2>1. i \in Parsed
    BY <1>8
  <2>2. PICK j \in 1 .. m : p[j] = i
    BY <1>5, <2>1
  <2>3. CASE j < next
    BY <1>5, <1>7, <2>2, <2>3
  <2>4. CASE j >= next
    <3>1. g[i] = 0 /\ offers[i].size \in Nat
      BY <1>3, <1>7, <2>1, <2>2, <2>4
    <3> QED
      BY <3>1
  <2> QED
    BY <1>9, <2>3, <2>4
<1>12. ASSUME filled < order.size PROVE \A i \in Usable : g[i] = offers[i].size
  <2> SUFFICES ASSUME NEW i \in Usable PROVE g[i] = offers[i].size
    OBVIOUS
  <2>1. i \in Parsed /\ ~Beyond(offers[i])
    BY <1>8
  <2>2. PICK j \in 1 .. m : p[j] = i
    BY <1>5, <2>1
  <2>3. CASE j < next
    BY <1>5, <1>7, <1>12, <2>2, <2>3
  <2>4. CASE j >= next
    <3>1. next \in 1 .. m
      BY <1>1, <1>4, <2>4
    <3>2. Beyond(levels[next])
      BY <1>1, <1>4, <1>12, <3>1 DEF More
    <3>3. j # next
      BY <1>5, <2>1, <2>2, <3>2
    <3>4. ~Better(offers[i], offers[p[next]])
      BY <1>1, <1>5, <2>2, <2>4, <3>1, <3>3
    <3>5. offers[p[next]].price \in Nat /\ offers[i].price \in Nat /\ p[next] \in Parsed
      BY <1>3, <1>5, <2>1, <3>1
    <3>6. Beyond(offers[i])
      <4>1. Beyond(offers[p[next]])
        BY <1>5, <3>1, <3>2
      <4>2. CASE order.side = "BUY"
        BY <1>3, <3>4, <3>5, <4>1, <4>2 DEF Beyond, Better
      <4>3. CASE order.side # "BUY"
        BY <1>3, <3>4, <3>5, <4>1, <4>3 DEF Beyond, Better
      <4> QED
        BY <4>2, <4>3
    <3> QED
      BY <2>1, <3>6
  <2> QED
    BY <1>9, <2>3, <2>4
<1>13. \E price \in Nat : \A i \in Usable :
          /\ Ahead(i, price) => g[i] = offers[i].size
          /\ Behind(i, price) => g[i] = 0
  <2>1. CASE filled < order.size
    <3>1. \A i \in Usable : ~Behind(i, order.limit)
      BY <1>3, <1>8 DEF Behind, Beyond
    <3>2. \A i \in Usable : g[i] = offers[i].size
      BY <1>12, <2>1
    <3> QED
      BY <1>3, <3>1, <3>2
  <2>2. CASE ~(filled < order.size)
    <3>1. next > 1
      <4> SUFFICES ASSUME next = 1 PROVE FALSE
        BY <1>1
      <4>1. \A i \in 1 .. Len(offers) : g[i] = 0
        <5> SUFFICES ASSUME NEW i \in Parsed PROVE g[i] = 0
          BY <1>3, <1>6
        <5>1. PICK j \in 1 .. m : p[j] = i
          BY <1>5
        <5>2. j >= next
          BY <1>1
        <5> QED
          BY <1>7, <5>1, <5>2
      <4>2. SumTo(g, Len(offers)) = 0
        BY <1>3, <4>1, SumToZero
      <4> QED
        BY <1>1, <1>3, <1>6, <2>2, <4>2
    <3>2. PICK k \in 1 .. m : k = next - 1
      <4>1. next - 1 \in 1 .. m
        BY <1>1, <1>4, <3>1
      <4> QED
        BY <4>1
    <3>3. PICK price \in Nat : price = offers[p[k]].price
      BY <1>3, <1>5
    <3>4. ASSUME NEW i \in Usable, Ahead(i, price) PROVE g[i] = offers[i].size
      <4>1. PICK j \in 1 .. m : p[j] = i
        BY <1>5, <1>8
      <4>2. offers[i].price \in Nat
        BY <1>3, <1>8
      <4>3. j # k
        BY <3>3, <3>4, <4>1, <4>2 DEF Ahead
      <4>4. Better(offers[i], offers[p[k]])
        BY <3>3, <3>4 DEF Ahead, Better
      <4>5. ~(k < j)
        BY <1>5, <4>1, <4>4
      <4>6. j < next - 1
        BY <1>1, <3>2, <4>3, <4>5
      <4> QED
        BY <1>5, <1>7, <4>1, <4>6
    <3>5. ASSUME NEW i \in Usable, Behind(i, price) PROVE g[i] = 0
      <4>1. PICK j \in 1 .. m : p[j] = i
        BY <1>5, <1>8
      <4>2. offers[i].price \in Nat
        BY <1>3, <1>8
      <4>3. j # k
        BY <3>3, <3>5, <4>1, <4>2 DEF Behind
      <4>4. Better(offers[p[k]], offers[i])
        BY <1>3, <3>3, <3>5, <4>2 DEF Behind, Better
      <4>5. ~(j < k)
        BY <1>5, <4>1, <4>4
      <4>6. j >= next
        BY <1>1, <3>2, <4>3, <4>5
      <4> QED
        BY <1>7, <4>1, <4>6
    <3> QED
      BY <3>4, <3>5
  <2> QED
    BY <2>1, <2>2
<1> QED
  BY <1>6, <1>10, <1>11, <1>12, <1>13 DEF TakenBest

LEMMA ProgressHolds == BSpec => [](IInv /\ Progress)
<1>1. BInit => IInv /\ Progress
  BY InitIInv DEF BInit, Progress
<1>2. IInv /\ Progress /\ [BNext]_bvars => (IInv /\ Progress)'
  <2> SUFFICES ASSUME IInv, Progress, [BNext]_bvars PROVE IInv' /\ Progress'
    OBVIOUS
  <2>1. IInv'
    BY NextIInv
  <2>2. CASE Sort
    BY <2>1, <2>2, SortProgresses
  <2>3. CASE TakeLevel
    BY <2>1, <2>3, TakeProgresses
  <2>4. CASE FinishMatch
    <3>1. /\ next > 0 /\ ~More /\ order' = order /\ offers' = offers /\ levels' = levels
          /\ next' = next /\ filled' = filled /\ weighted' = weighted
      BY <2>4 DEF FinishMatch
    <3>2. More' <=> More
      BY <3>1 DEF More, Beyond
    <3>3. \A p, g : (Sorting(p) /\ Greedy(p, g))' <=> Sorting(p) /\ Greedy(p, g)
      BY <3>1 DEF Sorting, Greedy, Costs, PriceOf, Parsed, Better, Beyond
    <3>4. next \in Nat
      BY DEF IInv, TypeOK
    <3> QED
      BY <2>1, <3>1, <3>2, <3>3, <3>4 DEF Progress
  <2>5. CASE UNCHANGED bvars
    <3>1. /\ order' = order /\ offers' = offers /\ levels' = levels /\ done' = done
          /\ next' = next /\ filled' = filled /\ weighted' = weighted
      BY <2>5 DEF bvars
    <3>2. More' <=> More
      BY <3>1 DEF More, Beyond
    <3>3. \A p, g : (Sorting(p) /\ Greedy(p, g))' <=> Sorting(p) /\ Greedy(p, g)
      BY <3>1 DEF Sorting, Greedy, Costs, PriceOf, Parsed, Better, Beyond
    <3> QED
      BY <2>1, <3>1, <3>2, <3>3 DEF Progress
  <2> QED
    BY <2>1, <2>2, <2>3, <2>4, <2>5 DEF BNext
<1> QED
  BY <1>1, <1>2, PTL DEF BSpec

\* Every variable keeps its type, whatever rows the book has.
THEOREM MatchTypes == BSpec => []TypeOK
<1>1. IInv /\ Progress => TypeOK
  BY DEF IInv
<1> QED
  BY <1>1, ProgressHolds, PTL

\* A taking as a function on all rows, as TakenBest has it.
LEMMA TakingSums ==
  ASSUME IInv, NEW f \in Takings, NEW h,
         h = [i \in DOMAIN offers |-> IF i \in Usable THEN f[i] ELSE 0]
  PROVE  /\ h \in [DOMAIN offers -> Nat]
         /\ \A i \in Usable : h[i] = f[i] /\ h[i] <= offers[i].size
         /\ Took(f) = SumTo(h, Len(offers)) /\ Value(f) = SumTo(Costs(h), Len(offers))
<1>1. /\ DOMAIN offers = 1 .. Len(offers) /\ Len(offers) \in Nat /\ Parsed \subseteq DOMAIN offers
      /\ \A i \in Parsed : offers[i].price \in Nat /\ offers[i].size \in Nat
      /\ order.size \in Nat /\ \A i \in DOMAIN offers : PriceOf(i) \in Nat
  BY RowsAre
<1>2. Usable \subseteq Parsed
  BY DEF Usable
<1>3. f \in [Usable -> 0 .. order.size] /\ \A i \in Usable : f[i] <= offers[i].size
  BY DEF Takings
<1>4. h \in [DOMAIN offers -> Nat] /\ \A i \in Usable : h[i] = f[i] /\ h[i] <= offers[i].size
  BY <1>1, <1>2, <1>3
<1>5. Took(f) = SumTo(h, Len(offers))
  BY DEF Took
<1>6. Value(f) = SumTo(Costs(h), Len(offers))
  <2>1. PICK c : c = [i \in DOMAIN offers |-> IF i \in Usable THEN f[i] * offers[i].price ELSE 0]
    OBVIOUS
  <2>2. \A i \in 1 .. Len(offers) : c[i] = Costs(h)[i]
    <3> SUFFICES ASSUME NEW i \in 1 .. Len(offers) PROVE c[i] = Costs(h)[i]
      OBVIOUS
    <3>1. CASE i \in Usable
      BY <1>1, <1>2, <2>1, <3>1 DEF Costs, PriceOf
    <3>2. CASE i \notin Usable
      <4>1. c[i] = 0 /\ h[i] = 0 /\ PriceOf(i) \in Nat
        BY <1>1, <2>1, <3>2
      <4>2. Costs(h)[i] = 0 * PriceOf(i)
        BY <1>1, <4>1 DEF Costs
      <4> QED
        BY <4>1, <4>2
    <3> QED
      BY <3>1, <3>2
  <2>3. Value(f) = SumTo(c, Len(offers))
    BY <2>1 DEF Value
  <2> QED
    BY <1>1, <2>2, <2>3, SumToSame
<1> QED
  BY <1>4, <1>5, <1>6

\* What the loop fills is one of the ways to take the rows, and no way that fits
\* the order takes more.
THEOREM MatchFillsMost == BSpec => []BestFill
<1>1. IInv /\ Progress => BestFill
  <2> SUFFICES ASSUME IInv, Progress, done
               PROVE  /\ \E f \in Takings : Took(f) = filled /\ Value(f) = weighted
                      /\ \A f \in Takings : Took(f) <= order.size => Took(f) <= filled
    BY DEF BestFill
  <2>1. PICK g : TakenBest(g)
    BY LoopTakesBest
  <2>2. /\ g \in [DOMAIN offers -> Nat] /\ \A i \in DOMAIN offers \ Usable : g[i] = 0
        /\ \A i \in Usable : g[i] <= offers[i].size
        /\ SumTo(g, Len(offers)) = filled /\ SumTo(Costs(g), Len(offers)) = weighted
        /\ filled < order.size => \A i \in Usable : g[i] = offers[i].size
    BY <2>1 DEF TakenBest
  <2>3. /\ DOMAIN offers = 1 .. Len(offers) /\ Len(offers) \in Nat /\ order.size \in Nat
        /\ Parsed \subseteq DOMAIN offers
    BY RowsAre
  <2>4. filled \in Nat /\ filled <= order.size /\ Usable \subseteq DOMAIN offers
    BY <2>3 DEF IInv, TypeOK, FillWithinLimit, Usable
  <2>5. \E f \in Takings : Took(f) = filled /\ Value(f) = weighted
    <3>1. PICK f : f = [i \in Usable |-> g[i]]
      OBVIOUS
    <3>2. \A i \in 1 .. Len(offers) : g[i] \in Nat /\ g[i] <= order.size
      <4> SUFFICES ASSUME NEW i \in 1 .. Len(offers) PROVE g[i] \in Nat /\ g[i] <= order.size
        OBVIOUS
      <4>1. \A j \in 1 .. Len(offers) : g[j] \in Nat
        BY <2>2, <2>3
      <4>2. g[i] <= SumTo(g, Len(offers))
        BY <2>3, <4>1, SumToTerm
      <4> QED
        BY <2>2, <2>3, <2>4, <4>1, <4>2
    <3>3. f \in Takings
      BY <2>2, <2>3, <2>4, <3>1, <3>2 DEF Takings
    <3>4. PICK h : h = [i \in DOMAIN offers |-> IF i \in Usable THEN f[i] ELSE 0]
      OBVIOUS
    <3>5. h = g
      BY <2>2, <2>4, <3>1, <3>4
    <3>6. Took(f) = SumTo(h, Len(offers)) /\ Value(f) = SumTo(Costs(h), Len(offers))
      BY <3>3, <3>4, TakingSums
    <3> QED
      BY <2>2, <3>3, <3>5, <3>6
  <2>6. ASSUME NEW f \in Takings, Took(f) <= order.size PROVE Took(f) <= filled
    <3>1. CASE filled < order.size
      <4>1. PICK h : h = [i \in DOMAIN offers |-> IF i \in Usable THEN f[i] ELSE 0]
        OBVIOUS
      <4>2. /\ h \in [DOMAIN offers -> Nat] /\ \A i \in Usable : h[i] <= offers[i].size
            /\ Took(f) = SumTo(h, Len(offers))
        BY <4>1, TakingSums
      <4>3. \A i \in 1 .. Len(offers) : h[i] \in Int /\ g[i] \in Int /\ h[i] <= g[i]
        <5> SUFFICES ASSUME NEW i \in 1 .. Len(offers)
                     PROVE  h[i] \in Int /\ g[i] \in Int /\ h[i] <= g[i]
          OBVIOUS
        <5>1. h[i] \in Nat /\ g[i] \in Nat
          BY <2>2, <2>3, <4>2
        <5>2. CASE i \in Usable
          BY <2>2, <3>1, <4>2, <5>1, <5>2
        <5>3. CASE i \notin Usable
          <6>1. h[i] = 0
            BY <2>3, <4>1, <5>3
          <6> QED
            BY <5>1, <6>1
        <5> QED
          BY <5>2, <5>3
      <4>4. SumTo(h, Len(offers)) <= SumTo(g, Len(offers))
        BY <2>3, <4>3, SumToMonotone
      <4> QED
        BY <2>2, <4>2, <4>4
    <3>2. CASE ~(filled < order.size)
      <4>1. filled = order.size
        BY <2>3, <2>4, <3>2
      <4> QED
        BY <2>6, <4>1
    <3> QED
      BY <3>1, <3>2
  <2> QED
    BY <2>5, <2>6
<1> QED
  BY <1>1, ProgressHolds, PTL

\* And no way that takes as much has a better price.
THEOREM MatchPricesBest == BSpec => []BestPrice
<1>1. IInv /\ Progress => BestPrice
  <2> SUFFICES ASSUME IInv, Progress, done, NEW f \in Takings, Took(f) = filled
               PROVE  IF order.side = "BUY" THEN Value(f) >= weighted ELSE Value(f) <= weighted
    BY DEF BestPrice
  <2>1. PICK g : TakenBest(g)
    BY LoopTakesBest
  <2>2. /\ g \in [DOMAIN offers -> Nat] /\ \A i \in DOMAIN offers \ Usable : g[i] = 0
        /\ SumTo(g, Len(offers)) = filled /\ SumTo(Costs(g), Len(offers)) = weighted
    BY <2>1 DEF TakenBest
  <2>3. PICK price \in Nat : \A i \in Usable :
          /\ Ahead(i, price) => g[i] = offers[i].size
          /\ Behind(i, price) => g[i] = 0
    BY <2>1 DEF TakenBest
  <2>4. /\ DOMAIN offers = 1 .. Len(offers) /\ Len(offers) \in Nat /\ Parsed \subseteq DOMAIN offers
        /\ \A i \in DOMAIN offers : PriceOf(i) \in Nat
        /\ \A i \in Parsed : offers[i].size \in Nat
    BY RowsAre
  <2>5. PICK h : h = [i \in DOMAIN offers |-> IF i \in Usable THEN f[i] ELSE 0]
    OBVIOUS
  <2>6. /\ h \in [DOMAIN offers -> Nat] /\ \A i \in Usable : h[i] <= offers[i].size
        /\ Took(f) = SumTo(h, Len(offers)) /\ Value(f) = SumTo(Costs(h), Len(offers))
        /\ \A i \in DOMAIN offers \ Usable : h[i] = 0
    BY <2>5, TakingSums
  <2>7. PICK prices : prices = [i \in DOMAIN offers |-> PriceOf(i)]
    OBVIOUS
  <2>8. PICK hc, gc : hc = Costs(h) /\ gc = Costs(g)
    OBVIOUS
  <2>9. \A i \in 1 .. Len(offers) :
          /\ h[i] \in Int /\ g[i] \in Int /\ prices[i] \in Int /\ h[i] \in Nat /\ g[i] \in Nat
          /\ hc[i] = h[i] * prices[i] /\ gc[i] = g[i] * prices[i]
          /\ prices[i] = PriceOf(i)
    BY <2>2, <2>4, <2>6, <2>7, <2>8 DEF Costs
  <2>10. ASSUME NEW i \in 1 .. Len(offers)
         PROVE  IF order.side = "BUY"
                THEN /\ prices[i] < price => h[i] <= g[i]
                     /\ prices[i] > price => g[i] <= h[i]
                ELSE /\ prices[i] < price => g[i] <= h[i]
                     /\ prices[i] > price => h[i] <= g[i]
    <3>1. CASE i \notin Usable
      <4>1. h[i] = 0 /\ g[i] = 0
        BY <2>2, <2>4, <2>6, <3>1
      <4> QED
        BY <4>1
    <3>2. CASE i \in Usable
      <4>1. prices[i] = offers[i].price
        BY <2>9, <3>2 DEF PriceOf, Usable
      <4>2. Ahead(i, price) => h[i] <= g[i]
        BY <2>3, <2>6, <3>2
      <4>3. Behind(i, price) => g[i] <= h[i]
        BY <2>3, <2>9, <3>2
      <4> QED
        BY <4>1, <4>2, <4>3 DEF Ahead, Behind
    <3> QED
      BY <3>1, <3>2
  <2>11. price \in Int
    OBVIOUS
  <2>12. CASE order.side = "BUY"
    <3>1. TakesCheaper(Len(offers), prices, h, g, price, hc, gc)
      BY <2>9, <2>10, <2>12 DEF TakesCheaper
    <3>2. SumTo(h, Len(offers)) = SumTo(g, Len(offers))
      BY <2>2, <2>6
    <3>3. SumTo(hc, Len(offers)) >= SumTo(gc, Len(offers))
      BY <2>4, <2>11, <3>1, <3>2, CheaperFirst
    <3> QED
      BY <2>2, <2>6, <2>8, <2>12, <3>3
  <2>13. CASE order.side # "BUY"
    <3>1. TakesCheaper(Len(offers), prices, g, h, price, gc, hc)
      BY <2>9, <2>10, <2>13 DEF TakesCheaper
    <3>2. SumTo(g, Len(offers)) = SumTo(h, Len(offers))
      BY <2>2, <2>6
    <3>3. SumTo(gc, Len(offers)) >= SumTo(hc, Len(offers))
      BY <2>4, <2>11, <3>1, <3>2, CheaperFirst
    <3>4. SumTo(gc, Len(offers)) \in Int /\ SumTo(hc, Len(offers)) \in Int
      <4>1. ASSUME NEW i \in 1 .. Len(offers) PROVE gc[i] \in Int /\ hc[i] \in Int
        <5>1. PICK a \in Int, b \in Int, p \in Int : a = g[i] /\ b = h[i] /\ p = prices[i]
          BY <2>9
        <5>2. gc[i] = a * p /\ hc[i] = b * p
          BY <2>9, <5>1
        <5>3. a * p \in Int /\ b * p \in Int
          BY <5>1
        <5> QED
          BY <5>2, <5>3
      <4> QED
        BY <2>4, <4>1, SumToInt
    <3> QED
      BY <2>2, <2>6, <2>8, <2>13, <3>3, <3>4
  <2> QED
    BY <2>12, <2>13
<1> QED
  BY <1>1, ProgressHolds, PTL

=============================================================================
