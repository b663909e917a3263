----------------------------- MODULE OrderBook -----------------------------
(***************************************************************************)
(* MatchOrder: how much of an order an order book of Polymarket can fill,  *)
(* and at what price.  The rows of the book come in any order and some may *)
(* not parse; they are sorted with a sort that may arrange rows of one     *)
(* price either way, and then taken one by one, best price first.          *)
(*                                                                         *)
(* The average price the code answers is weighted / filled; it is kept as  *)
(* the pair, so nothing is rounded here.                                   *)
(***************************************************************************)
EXTENDS Sums, Sequences, FiniteSets

CONSTANTS
    Prices,     \* limit prices and prices of rows
    RowSizes,   \* sizes of rows, 0 included
    OrderSizes, \* sizes asked for
    MaxRows,    \* bound: rows of the side of the book that is matched
    Junk        \* a row whose price or size is not a number

ASSUME BookAssumption ==
    /\ Prices \subseteq Nat
    /\ RowSizes \subseteq Nat
    /\ OrderSizes \subseteq Nat \ {0}
    /\ MaxRows \in Nat

VARIABLES
    order,      \* the arguments: side, limit price and size
    offers,     \* the asks for a BUY, the bids for a SELL
    levels,     \* the rows that parse, sorted
    next,       \* the level to look at; 0 before the sort
    filled,     \* totalFilled
    weighted,   \* weightedPrice
    done

bvars == <<order, offers, levels, next, filled, weighted, done>>

Level == [price : Prices, size : RowSizes]

\* The best price comes first: the lowest ask, the highest bid.  The mutant
\* leaves the rows as they come.
Unsorted(a, b) == FALSE
Better(a, b) == IF order.side = "BUY" THEN a.price < b.price
                                      ELSE a.price > b.price

\* The loop ends at the first level the limit does not allow.  The mutant
\* refuses levels at the limit itself.
BeyondOrAt(l) == IF order.side = "BUY" THEN order.limit <= l.price
                                       ELSE order.limit >= l.price
Beyond(l) == IF order.side = "BUY" THEN order.limit < l.price
                                   ELSE order.limit > l.price

\* What a level contributes.  The mutant takes the whole level.
WholeLevel(l) == l.size
FillAt(l) == IF order.size - filled > l.size THEN l.size ELSE order.size - filled

\* parseLevels drops a row whose price or size does not parse; the mutant
\* keeps every row.
AllRows == DOMAIN offers
Parsed == {i \in DOMAIN offers : offers[i] # Junk}

\* The sort, which is not stable.
Sort ==
    /\ next = 0
    /\ \E p \in [1..Cardinality(Parsed) -> Parsed] :
          /\ \A i, j \in DOMAIN p :
                i < j => p[i] # p[j] /\ ~Better(offers[p[j]], offers[p[i]])
          /\ levels' = [i \in DOMAIN p |-> offers[p[i]]]
    /\ next' = 1
    /\ UNCHANGED <<order, offers, filled, weighted, done>>

More == next <= Len(levels) /\ ~Beyond(levels[next]) /\ filled < order.size

TakeLevel ==
    /\ next > 0
    /\ ~done
    /\ More
    /\ LET l == levels[next]
       IN  /\ filled' = filled + FillAt(l)
           /\ weighted' = weighted + FillAt(l) * l.price
    /\ next' = next + 1
    /\ UNCHANGED <<order, offers, levels, done>>

FinishMatch ==
    /\ next > 0
    /\ ~done
    /\ ~More
    /\ done' = TRUE
    /\ UNCHANGED <<order, offers, levels, next, filled, weighted>>

BInit ==
    /\ order \in [side : {"BUY", "SELL"}, limit : Prices, size : OrderSizes]
    /\ \E n \in 0..MaxRows : offers \in [1..n -> Level \cup {Junk}]
    /\ levels = <<>>
    /\ next = 0
    /\ filled = 0
    /\ weighted = 0
    /\ done = FALSE

BNext == Sort \/ TakeLevel \/ FinishMatch

BSpec == BInit /\ [][BNext]_bvars

-----------------------------------------------------------------------------
(* Properties.                                                             *)

TypeOK ==
    /\ order \in [side : {"BUY", "SELL"}, limit : Prices, size : OrderSizes]
    /\ levels \in Seq(Level)
    /\ next \in Nat /\ filled \in Nat /\ weighted \in Nat
    /\ done \in BOOLEAN

\* What PlaceOrder and the worker rely on at every point of the loop: never
\* more than was asked for, and an average price within the limit.
FillWithinLimit ==
    /\ filled <= order.size
    /\ IF order.side = "BUY" THEN weighted <= order.limit * filled
                             ELSE weighted >= order.limit * filled

\* The ways to take sizes from the rows that parse and are within the limit.
Usable == {i \in Parsed : ~(IF order.side = "BUY"
                            THEN order.limit < offers[i].price
                            ELSE order.limit > offers[i].price)}

Takings == {f \in [Usable -> 0..order.size] :
                \A i \in Usable : f[i] <= offers[i].size}

Took(f)  == SumTo([i \in DOMAIN offers |-> IF i \in Usable THEN f[i] ELSE 0],
                  Len(offers))
Value(f) == SumTo([i \in DOMAIN offers |->
                      IF i \in Usable THEN f[i] * offers[i].price ELSE 0],
                  Len(offers))

\* The greedy loop is as good as any way of taking the rows: nothing fills
\* more of the order, and nothing fills as much at a better price.
BestFill ==
    done => /\ \E f \in Takings : Took(f) = filled /\ Value(f) = weighted
            /\ \A f \in Takings : Took(f) <= order.size => Took(f) <= filled

BestPrice ==
    done => \A f \in Takings :
                Took(f) = filled =>
                   IF order.side = "BUY" THEN Value(f) >= weighted
                                         ELSE Value(f) <= weighted

=============================================================================
