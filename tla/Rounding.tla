------------------------------- MODULE Rounding -----------------------------
(***************************************************************************)
(* The money of one order in the units it is rounded to. Ledger computes   *)
(* with one price per order; the code debits the unrounded price times the *)
(* size, stores the price with four digits, gives the rest of a FAK order  *)
(* back at the unrounded price and everything else at the stored one.      *)
(* Wallets have six digits, as the raw amounts of a request have, so one   *)
(* token at price 1 costs as many money units as it has raw units. Raw     *)
(* amounts are integers of either sign; nothing but the CHECKs of the      *)
(* table looks at them.                                                    *)
(*                                                                         *)
(* A stored price is a number of steps of 1/Steps; prices of fills are     *)
(* averages over book levels and lie on a finer grid of 1/(2*Steps). Where *)
(* a value lies between two results, floating point may give either.       *)
(***************************************************************************)
EXTENDS Integers

CONSTANTS
    Steps,          \* price steps in 1: 10000 of %.4f
    MaxAmount,      \* bound: the raw amounts of a request, of either sign
    MaxFills,       \* bound: fills of the order
    NoOrder

ASSUME RoundingAssumption ==
    /\ Steps \in Nat \ {0} /\ MaxAmount \in Nat
    /\ NoOrder \notin [side : {"BUY", "SELL"}, size : Nat, price : Nat, matched : Nat,
                       status : {"LIVE", "MATCHED", "CANCELED"}]

VARIABLES
    placed,     \* [side, size, price, matched, status] of the order, or NoOrder
    spent,      \* money that left the wallet for the order and did not return
    cost,       \* auxiliary: price times size of its fills, in 1/(2*Steps),
                \* what a SELL order gets counted as negative
    fills       \* auxiliary: how many there were

rvars == <<placed, spent, cost, fills>>

\* The integers nearest to x / q.
Nearest(x, q) == {r \in {x \div q, x \div q + 1} :
                      2 * (r * q - x) <= q /\ 2 * (x - r * q) <= q}

RInit == placed = NoOrder /\ spent = 0 /\ cost = 0 /\ fills = 0

\* deriveOrderPriceAndSize: the price is <<collateral, tokens>> of the request,
\* a ratio, and the size its second part.
Derived(side, maker, taker) == IF side = "BUY" THEN <<maker, taker>> ELSE <<taker, maker>>

\* %.4f of the price x / size. The CHECKs of the orders table refuse a size
\* that is not positive, with it the panic or the infinite price of a size 0,
\* and a price outside 0..1; -0.0000 is 0 to them.
StoredPrices(x, size) == {p \in 0 .. Steps : size > 0 /\ p \in Nearest(x * Steps, size)}

\* MatchOrder gives at most what is asked, at prices within the limit x / y.
Within(side, f, x, y) == IF side = "BUY" THEN f * y <= 2 * Steps * x
                                         ELSE f * y >= 2 * Steps * x
Fills(side, left, x, y) == {m \in (0 .. left) \X (0 .. 2 * Steps) :
                                m[1] > 0 => Within(side, m[2], x, y)}

\* Full within 0.000001: an order that lacks one unit may count as either.
StatusesAfter(type, n, size) ==
    (IF n > 0 /\ n >= size - 1 THEN {"MATCHED"} ELSE {})
    \cup (IF n < size THEN {IF type = "FAK" THEN "CANCELED" ELSE "LIVE"} ELSE {})

\* Mutant: the price difference of the order as a whole.
ExcessOfOrder(price, n, f) == (2 * price - f) * placed'.size

\* What a fill of n at f/(2*Steps) leaves of the money reserved for it.
Excess(price, n, f) == (2 * price - f) * n

\* An excess is given back if it is more than one money unit, compared in
\* floating point.
Returned(e) == (IF e >= 2 * Steps THEN Nearest(e, 2 * Steps) ELSE {})
               \cup (IF e <= 2 * Steps THEN {0} ELSE {})

\* What a fill puts into the COLLATERAL wallet.
Credits(side, price, n, f) ==
    IF side = "BUY" THEN Returned(Excess(price, n, f)) ELSE Nearest(n * f, 2 * Steps)

Cost(side, n, f) == IF side = "BUY" THEN n * f ELSE 0 - n * f

\* refundOrderReservation, of n unfilled tokens at x / y: fewer than one unit,
\* compared in floating point, are nothing.
Refunds(side, n, x, y) ==
    IF side = "SELL" THEN {0}
    ELSE Nearest(n * x, y) \cup (IF n <= 1 THEN {0} ELSE {})

\* A request that fails is rolled back and leaves nothing. A FOK order is a GTC
\* order whose first fill is whole.
PlaceOrder(type) ==
    \E side \in {"BUY", "SELL"}, maker, taker \in (0 - MaxAmount) .. MaxAmount :
    LET x == Derived(side, maker, taker)[1] size == Derived(side, maker, taker)[2] IN
    \E price \in StoredPrices(x, size), m \in Fills(side, size, x, size) :
    \E status \in StatusesAfter(type, m[1], size) :
        /\ placed = NoOrder
        /\ placed' = [side |-> side, size |-> size, price |-> price,
                      matched |-> m[1], status |-> status]
        /\ fills' = IF m[1] > 0 THEN 1 ELSE 0
        /\ cost' = Cost(side, m[1], m[2])
        /\ \E c \in IF m[1] > 0 THEN Credits(side, price, m[1], m[2]) ELSE {0},
              r \in IF status = "CANCELED" THEN Refunds(side, size - m[1], x, size)
                    ELSE {0} :
              spent' = (IF side = "BUY" THEN x ELSE 0) - c - r

\* executeFill, whose limit is the stored price.
ExecuteFill ==
    /\ placed # NoOrder /\ placed.status = "LIVE" /\ fills < MaxFills
    /\ \E m \in Fills(placed.side, placed.size - placed.matched, placed.price, Steps) :
       \E status \in StatusesAfter("GTC", placed.matched + m[1], placed.size) :
          /\ m[1] > 0
          /\ placed' = [placed EXCEPT !.matched = @ + m[1], !.status = status]
          /\ fills' = fills + 1
          /\ cost' = cost + Cost(placed.side, m[1], m[2])
          /\ \E c \in Credits(placed.side, placed.price, m[1], m[2]) : spent' = spent - c

Cancel ==
    /\ placed # NoOrder /\ placed.status = "LIVE"
    /\ placed' = [placed EXCEPT !.status = "CANCELED"]
    /\ \E r \in Refunds(placed.side, placed.size - placed.matched, placed.price, Steps) :
          spent' = spent - r
    /\ UNCHANGED <<cost, fills>>

\* The next order: it has a row and a reservation of its own.
NextOrder ==
    /\ placed # NoOrder /\ placed.status # "LIVE"
    /\ placed' = NoOrder /\ spent' = 0 /\ cost' = 0 /\ fills' = 0

RNext == PlaceOrder("GTC") \/ PlaceOrder("FAK") \/ ExecuteFill \/ Cancel \/ NextOrder
RSpec == RInit /\ [][RNext]_rvars

-----------------------------------------------------------------------------
Abs(x) == IF x < 0 THEN 0 - x ELSE x

\* What a LIVE BUY order would be refunded for, in 1/(2*Steps).
Reserved(o) == IF o.status = "LIVE" /\ o.side = "BUY"
               THEN 2 * o.price * (o.size - o.matched) ELSE 0

\* At any time an order has cost its account what its fills cost and what it
\* still reserves, up to half a price step per token (the stored price against
\* that of the request) and one money unit for each statement that rounds.
\* This is a bound on the amount, not on the share of the order's money: an
\* order at a price below one step may be refunded more than was debited.
PaidWithinRounding == placed # NoOrder =>
    Abs(2 * Steps * spent - cost - Reserved(placed))
        <= placed.size + 2 * Steps * (fills + 1)

=============================================================================
