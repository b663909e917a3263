-------------------------------- MODULE Profit ------------------------------
(***************************************************************************)
(* The average price and the realized profit of one position, through      *)
(* fills, the settlement of its market and fills after that (a market that *)
(* opens again). updatePosition stores the average with four digits and    *)
(* charges each sale with it; SettleMarket charges the rest. GetStats adds *)
(* up what is stored.                                                      *)
(*                                                                         *)
(* An average is a number of steps of 1/PriceSteps. The price of a fill is an   *)
(* average over book levels that is not rounded here: it lies on a finer   *)
(* grid of half steps, and profit is counted in shares times half steps.   *)
(***************************************************************************)
EXTENDS Integers

CONSTANTS
    PriceSteps,          \* price steps in 1, what a winning share pays
    MaxSize,        \* bound: shares held
    MaxTrades,      \* bound: fills and settlements
    NoRow

ASSUME ProfitAssumption ==
    /\ PriceSteps \in Nat \ {0} /\ MaxSize \in Nat /\ MaxTrades \in Nat
    /\ NoRow \notin [size : Nat, avg : Int, pnl : Int]

VARIABLES
    row,        \* the row of positions: [size, avg, pnl], or NoRow
    earned,     \* auxiliary: what sales and payouts brought less what fills cost
    slack,      \* auxiliary: the rounding of all averages, a half step per share
    trades      \* auxiliary: fills and settlements so far

pvars == <<row, earned, slack, trades>>

PInit == row = NoRow /\ earned = 0 /\ slack = 0 /\ trades = 0

\* The integers nearest to x / q; a tie may go either way.
NearestStep(x, q) == {r \in {x \div q, x \div q + 1} :
                          2 * (r * q - x) <= q /\ 2 * (x - r * q) <= q}

\* Mutant: a later buy replaces the row's profit, as it does size and average.
UpsertWhole(size, avg, delta) == [size |-> size, avg |-> avg, pnl |-> delta]

\* UpsertPosition: size and average are replaced, profit is added to.
Upsert(size, avg, delta) ==
    [size |-> size, avg |-> avg,
     pnl  |-> delta + (IF row = NoRow THEN 0 ELSE row.pnl)]

Trade(gain) == trades < MaxTrades /\ trades' = trades + 1 /\ earned' = earned + gain

\* A BUY fill of n at p half steps.
Buy(n, p) == LET held == IF row = NoRow THEN 0 ELSE row.size
                 basis == IF row = NoRow THEN 0 ELSE 2 * row.size * row.avg IN
    /\ held + n <= MaxSize /\ Trade(0 - n * p)
    /\ \E avg \in NearestStep(basis + n * p, 2 * (held + n)) : row' = Upsert(held + n, avg, 0)
    /\ slack' = slack + held + n

SaleProfit(n, p) == n * (p - 2 * row.avg)

\* A SELL fill: of tokens held, which is what a reservation is made of.
Sell(n, p) ==
    /\ row # NoRow /\ n <= row.size /\ Trade(n * p)
    /\ row' = Upsert(row.size - n, row.avg, SaleProfit(n, p))
    /\ UNCHANGED slack

\* SettleMarket: a share pays 1 or nothing.
Settle == \E payout \in {0, 2 * PriceSteps} :
    /\ row # NoRow /\ row.size > 0 /\ Trade(row.size * payout)
    /\ row' = [row EXCEPT !.size = 0, !.pnl = @ + row.size * (payout - 2 * row.avg)]
    /\ UNCHANGED slack

PNext == \/ Settle
         \/ \E n \in 1 .. MaxSize, p \in 0 .. 2 * PriceSteps : Buy(n, p) \/ Sell(n, p)
PSpec == PInit /\ [][PNext]_pvars

-----------------------------------------------------------------------------
\* The profit a position shows plus what its shares cost on average is the
\* money it made, but for at most half a price step per share held whenever a
\* purchase rounded the average. In particular a position that is sold out or
\* settled shows its profit, and GetStats their sum.
ProfitIsMoney == row # NoRow =>
    LET gap == row.pnl - 2 * row.size * row.avg - earned
    IN  gap <= slack /\ 0 - gap <= slack

=============================================================================
