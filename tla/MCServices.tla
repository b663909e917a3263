----------------------------- MODULE MCServices -----------------------------
(***************************************************************************)
(* The components of the server that share no state, checked in one run:   *)
(* a behaviour picks one of them and takes its steps, so that the state    *)
(* space is the sum of theirs and not the product.                         *)
(***************************************************************************)
EXTENDS Accounts, Nonces, RateLimiter, Migrations, Listings, Routes, Rounding,
    Profit, OrderBook

VARIABLE part

services == <<avars, nvars, lvars, mvars, ivars, hvars, rvars, pvars, bvars>>

\* The order book starts from every order and every book, the other parts
\* from one state.
AnOrder == CHOOSE o \in [side : {"BUY"}, limit : Prices, size : OrderSizes] : TRUE

Init ==
    /\ part \in 1 .. 9
    /\ AInit /\ NInit /\ LInit /\ MInit /\ IInit /\ HInit /\ RInit /\ PInit
    /\ BInit /\ (part # 9 => offers = <<>> /\ order = AnOrder)

Rests(p, q, vs) == IF p = q THEN TRUE ELSE UNCHANGED vs

\* Every part but the one that moves stays as it is.
Only(p) ==
    /\ part = p /\ UNCHANGED part
    /\ Rests(p, 1, avars) /\ Rests(p, 2, nvars) /\ Rests(p, 3, lvars)
    /\ Rests(p, 4, mvars) /\ Rests(p, 5, ivars) /\ Rests(p, 6, hvars)
    /\ Rests(p, 7, rvars) /\ Rests(p, 8, pvars) /\ Rests(p, 9, bvars)

Next ==
    \/ Only(1) /\ ANext
    \/ Only(2) /\ NNext
    \/ Only(3) /\ LNext
    \/ Only(4) /\ MNext
    \/ Only(5) /\ INext
    \/ Only(6) /\ HNext
    \/ Only(7) /\ RNext
    \/ Only(8) /\ PNext
    \/ Only(9) /\ BNext

Spec == Init /\ [][Next]_<<part, services>>
=============================================================================
