-------------------------------- MODULE Vault --------------------------------
(***************************************************************************)
(* What the trading server promises the owner of an account about her      *)
(* money: it is free, reserved by her orders, or spent on tokens, and it   *)
(* moves between the three.  Only she puts money in and takes it out, and  *)
(* takes out no more than is free.                                         *)
(*                                                                         *)
(* What is spent may be negative: tokens can be sold for more than they    *)
(* were bought for.                                                        *)
(***************************************************************************)
EXTENDS Integers

VARIABLES
    free,       \* money that can be withdrawn or reserved
    reserved,   \* money held for orders
    spent,      \* money paid for tokens minus money received for them
    funded      \* money put in minus money taken out

vars == <<free, reserved, spent, funded>>

Init ==
    /\ free \in Nat
    /\ reserved = 0
    /\ spent = 0
    /\ funded = free

\* The owner's requests.
Fund ==
    /\ free' >= 0
    /\ free' - free = funded' - funded
    /\ UNCHANGED <<reserved, spent>>

\* An order sets money aside, and may be filled at once in part or whole.
Reserve ==
    /\ free' >= 0 /\ reserved' >= reserved
    /\ free' + reserved' + spent' = free + reserved + spent
    /\ UNCHANGED funded

\* A reserved order is filled, at its limit price or better: what the order
\* holds pays for it, and what it does not need becomes free.
Spend ==
    /\ free' >= free /\ reserved' <= reserved
    /\ spent' - spent <= reserved - reserved'
    /\ free' + reserved' + spent' = free + reserved + spent
    /\ UNCHANGED funded

\* Reserved money is given back, to the last tick.
Release ==
    /\ reserved' <= reserved
    /\ free' - free = reserved - reserved'
    /\ reserved' >= 0
    /\ UNCHANGED <<spent, funded>>

Next == Fund \/ Reserve \/ Spend \/ Release

Spec == Init /\ [][Next]_vars

=============================================================================
