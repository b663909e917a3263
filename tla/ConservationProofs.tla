------------------------- MODULE ConservationProofs -------------------------
(***************************************************************************)
(* The accounting theorems of Ledger: money is conserved, every token of a *)
(* position is in the wallet or reserved, closed orders do not change, an  *)
(* order's size_matched is what its trades add up to, fill keys are        *)
(* distinct, and every account behaves like Vault.  Every transaction is   *)
(* one of AppliesFill, AppliesOrder, CancelAndRefund or a deposit or       *)
(* withdrawal (LedgerProofs); the lemmas say by how much each moves the    *)
(* totals, and the theorems add the movements up.                          *)
(***************************************************************************)
EXTENDS LedgerProofs

\* The terms of the totals.
MoneyTerm(S, u, i) ==
    IF i \in S /\ orders[i].user = u
    THEN ReservedCollateral(orders[i], Remaining(orders[i])) ELSE 0

TokenTerm(S, u, t, i) ==
    IF i \in S /\ orders[i].user = u /\ orders[i].token = t
    THEN ReservedConditional(orders[i], Remaining(orders[i])) ELSE 0

CostTerm(u, k) ==
    IF trades[k].user = u
    THEN Signed(trades[k].side, trades[k].size * trades[k].price) ELSE 0

SizeTerm(u, t, k) ==
    IF trades[k].user = u /\ trades[k].token = t
    THEN Signed(trades[k].side, trades[k].size) ELSE 0

BuyTerm(u, t, k) ==
    IF trades[k].user = u /\ trades[k].token = t /\ trades[k].side = "BUY"
    THEN trades[k].size ELSE 0

LEMMA TermTypes ==
  ASSUME Rows
  PROVE  /\ \A S, u, t : \A i \in DOMAIN orders :
               MoneyTerm(S, u, i) \in Nat /\ TokenTerm(S, u, t, i) \in Nat
         /\ \A u, t : \A k \in DOMAIN trades :
               /\ CostTerm(u, k) \in Int /\ SizeTerm(u, t, k) \in Int
               /\ BuyTerm(u, t, k) \in Nat
<1>1. \A i \in DOMAIN orders : Remaining(orders[i]) \in Nat
  BY OrderFields DEF Rows, MatchedFits, Remaining
<1>2. ASSUME NEW S, NEW u, NEW t, NEW i \in DOMAIN orders
      PROVE  MoneyTerm(S, u, i) \in Nat /\ TokenTerm(S, u, t, i) \in Nat
  BY <1>1, ReservedNat DEF Rows, MoneyTerm, TokenTerm
<1>3. ASSUME NEW u, NEW t, NEW k \in DOMAIN trades
      PROVE  /\ CostTerm(u, k) \in Int /\ SizeTerm(u, t, k) \in Int
             /\ BuyTerm(u, t, k) \in Nat
  <2>1. trades[k] \in Trade
    BY DEF Rows, AccountsTypeOK
  <2>2. trades[k].size \in Nat /\ trades[k].price \in Prices
    BY <2>1 DEF Trade
  <2>3. trades[k].price \in Nat
    BY <2>2, AmountsAssumption
  <2>4. trades[k].size * trades[k].price \in Nat
    BY <2>2, <2>3, Product
  <2> QED
    BY <2>2, <2>4 DEF CostTerm, SizeTerm, BuyTerm, Signed
<1> QED
  BY <1>2, <1>3

-----------------------------------------------------------------------------
(* Cancellation.                                                           *)

\* What cancellation takes out of the reservations is what it refunds.
LEMMA CancelHeld ==
  ASSUME Rows, NEW C, C \subseteq Live, Cancels(C), NEW u, NEW t
  PROVE  /\ HeldMoney(Live, u)' = HeldMoney(Live, u) - HeldMoney(C, u)
         /\ HeldTokens(Live, u, t)' = HeldTokens(Live, u, t) - HeldTokens(C, u, t)
<1>1. /\ Len(orders) \in Nat /\ DOMAIN orders = 1..Len(orders)
      /\ DOMAIN orders' = DOMAIN orders /\ Len(orders') = Len(orders)
  BY DEF Cancels, Rows, AccountsTypeOK
<1>2. ASSUME NEW i \in DOMAIN orders
      PROVE  /\ orders'[i].user = orders[i].user
             /\ orders'[i].token = orders[i].token
             /\ orders'[i].side = orders[i].side
             /\ orders'[i].price = orders[i].price
             /\ orders'[i].size = orders[i].size
             /\ orders'[i].matched = orders[i].matched
             /\ orders'[i].status = IF i \in C THEN "CANCELED"
                                              ELSE orders[i].status
  BY OrderFields DEF Cancels, Rows, Order
<1>3. Live' = Live \ C
  BY <1>1, <1>2 DEF Live
<1>4. ASSUME NEW i \in DOMAIN orders
      PROVE  /\ MoneyTerm(Live, u, i)
                  = MoneyTerm(C, u, i) + MoneyTerm(Live, u, i)'
             /\ TokenTerm(Live, u, t, i)
                  = TokenTerm(C, u, t, i) + TokenTerm(Live, u, t, i)'
             /\ MoneyTerm(C, u, i) \in Nat /\ MoneyTerm(Live, u, i)' \in Nat
             /\ TokenTerm(C, u, t, i) \in Nat /\ TokenTerm(Live, u, t, i)' \in Nat
  <2>1. /\ MoneyTerm(Live, u, i)' = IF i \in C THEN 0 ELSE MoneyTerm(Live, u, i)
        /\ TokenTerm(Live, u, t, i)' = IF i \in C THEN 0
                                       ELSE TokenTerm(Live, u, t, i)
        /\ MoneyTerm(C, u, i) = IF i \in C THEN MoneyTerm(Live, u, i) ELSE 0
        /\ TokenTerm(C, u, t, i) = IF i \in C THEN TokenTerm(Live, u, t, i) ELSE 0
    BY <1>2, <1>3 DEF MoneyTerm, TokenTerm, Remaining, ReservedCollateral,
                      ReservedConditional
  <2>2. MoneyTerm(Live, u, i) \in Nat /\ TokenTerm(Live, u, t, i) \in Nat
    BY TermTypes
  <2> QED
    BY <2>1, <2>2
<1> DEFINE n  == Len(orders)
           m  == [i \in DOMAIN orders |-> MoneyTerm(Live, u, i)]
           mc == [i \in DOMAIN orders |-> MoneyTerm(C, u, i)]
           mp == [i \in DOMAIN orders |-> MoneyTerm(Live, u, i)']
           k  == [i \in DOMAIN orders |-> TokenTerm(Live, u, t, i)]
           kc == [i \in DOMAIN orders |-> TokenTerm(C, u, t, i)]
           kp == [i \in DOMAIN orders |-> TokenTerm(Live, u, t, i)']
<1>5. /\ \A i \in 1..n : mc[i] \in Int /\ mp[i] \in Int /\ m[i] = mc[i] + mp[i]
      /\ \A i \in 1..n : kc[i] \in Int /\ kp[i] \in Int /\ k[i] = kc[i] + kp[i]
  BY <1>1, <1>4
<1>6. /\ HeldMoney(Live, u) = SumTo(m, n) /\ HeldMoney(C, u) = SumTo(mc, n)
      /\ HeldMoney(Live, u)' = SumTo(mp, n)
      /\ HeldTokens(Live, u, t) = SumTo(k, n)
      /\ HeldTokens(C, u, t) = SumTo(kc, n)
      /\ HeldTokens(Live, u, t)' = SumTo(kp, n)
  BY <1>1 DEF HeldMoney, HeldTokens, MoneyTerm, TokenTerm
<1> HIDE DEF n, m, mc, mp, k, kc, kp
<1>7. n \in Nat
  BY <1>1 DEF n
<1>8. SumTo(m, n) = SumTo(mc, n) + SumTo(mp, n)
  BY <1>5, <1>7, SumToAdd
<1>9. SumTo(k, n) = SumTo(kc, n) + SumTo(kp, n)
  BY <1>5, <1>7, SumToAdd
<1>10. /\ SumTo(mc, n) \in Int /\ SumTo(mp, n) \in Int
       /\ SumTo(kc, n) \in Int /\ SumTo(kp, n) \in Int
  BY <1>5, <1>7, SumToInt
<1> QED
  BY <1>6, <1>8, <1>9, <1>10

-----------------------------------------------------------------------------
(* Fills and new orders.                                                   *)

LEMMA Distribute ==
  \A a, b, c \in Nat : (a - b) * c = a * c - b * c
OBVIOUS

\* What a reservation loses when a part of it is taken out.
LEMMA ReservedSplit ==
  ASSUME NEW o, o.price \in Nat, NEW r \in Nat, NEW f \in Nat, f <= r
  PROVE  /\ ReservedCollateral(o, r - f)
              = ReservedCollateral(o, r) - ReservedCollateral(o, f)
         /\ ReservedConditional(o, r - f)
              = ReservedConditional(o, r) - ReservedConditional(o, f)
<1> DEFINE p == o.price
<1>1. (r - f) * p = r * p - f * p
  BY Distribute
<1>2. CASE o.side = "BUY"
  BY <1>1, <1>2 DEF ReservedCollateral, ReservedConditional
<1>3. CASE o.side # "BUY"
  BY <1>3 DEF ReservedCollateral, ReservedConditional
<1> QED
  BY <1>2, <1>3

\* A fill takes what it fills out of the reservation of its order.
LEMMA FillHeld ==
  ASSUME Rows, NEW i \in Live, NEW fill, AppliesFill(i, fill), NEW u, NEW t
  PROVE  /\ HeldMoney(Live, u)' = HeldMoney(Live, u)
              - (IF orders[i].user = u
                 THEN ReservedCollateral(orders[i], fill.size) ELSE 0)
         /\ HeldTokens(Live, u, t)' = HeldTokens(Live, u, t)
              - (IF orders[i].user = u /\ orders[i].token = t
                 THEN ReservedConditional(orders[i], fill.size) ELSE 0)
<1> DEFINE o     == orders[i]
           total == o.matched + fill.size
           left  == Remaining(o) - fill.size
<1>1. /\ i \in DOMAIN orders /\ o.status = "LIVE"
      /\ Len(orders) \in Nat /\ DOMAIN orders = 1..Len(orders)
      /\ DOMAIN orders' = DOMAIN orders /\ Len(orders') = Len(orders)
  BY DEF AppliesFill, Live, Rows, AccountsTypeOK
<1>2. /\ fill.size \in Nat /\ fill.size <= Remaining(o)
      /\ o.price \in Nat /\ o.size \in Nat /\ o.matched \in Nat
      /\ Remaining(o) \in Nat /\ left \in Nat
      /\ left = o.size - total /\ total \in Nat
  <2>1. fill.size \in Nat /\ fill.size <= Remaining(o)
    BY DEF AppliesFill
  <2>2. o.price \in Nat /\ o.size \in Nat /\ o.matched \in Nat
    BY <1>1, OrderFields DEF Rows
  <2> QED
    BY <2>1, <2>2 DEF Remaining
<1>3. ASSUME NEW j \in DOMAIN orders
      PROVE  /\ orders'[j].user = orders[j].user
             /\ orders'[j].token = orders[j].token
             /\ orders'[j].side = orders[j].side
             /\ orders'[j].price = orders[j].price
             /\ orders'[j].size = orders[j].size
             /\ orders'[j].matched = IF j = i THEN total ELSE orders[j].matched
             /\ orders'[j].status =
                  IF j # i THEN orders[j].status
                  ELSE IF total = o.size THEN "MATCHED" ELSE "LIVE"
  BY <1>1, OrderFields DEF AppliesFill, Rows, Order
<1>4. Live' = IF left = 0 THEN Live \ {i} ELSE Live
  <2>1. left = 0 <=> total = o.size
    BY <1>2
  <2>2. \A j \in DOMAIN orders : orders'[j].status = "LIVE"
            <=> orders[j].status = "LIVE" /\ ~(j = i /\ left = 0)
    BY <1>1, <1>3, <2>1
  <2> HIDE DEF left
  <2> QED
    BY <1>1, <2>2 DEF Live
<1>5. Remaining(orders'[i]) = left
  BY <1>1, <1>2, <1>3 DEF Remaining
<1> HIDE DEF total, left
<1>6. ReservedCollateral(o, left)
        = ReservedCollateral(o, Remaining(o)) - ReservedCollateral(o, fill.size)
  BY <1>2, ReservedSplit DEF left
<1>7. ReservedConditional(o, left)
        = ReservedConditional(o, Remaining(o)) - ReservedConditional(o, fill.size)
  BY <1>2, ReservedSplit DEF left
<1>8. /\ MoneyTerm(Live, u, i)' = IF o.user = u
                                  THEN ReservedCollateral(o, left) ELSE 0
      /\ TokenTerm(Live, u, t, i)' = IF o.user = u /\ o.token = t
                                     THEN ReservedConditional(o, left) ELSE 0
  <2>1. /\ ReservedCollateral(orders'[i], left) = ReservedCollateral(o, left)
        /\ ReservedConditional(orders'[i], left) = ReservedConditional(o, left)
    BY <1>1, <1>3 DEF ReservedCollateral, ReservedConditional
  <2>2. left = 0 => /\ ReservedCollateral(o, left) = 0
                    /\ ReservedConditional(o, left) = 0
    BY <1>2 DEF ReservedCollateral, ReservedConditional
  <2> QED
    BY <1>1, <1>3, <1>4, <1>5, <2>1, <2>2 DEF MoneyTerm, TokenTerm
<1>9. /\ MoneyTerm(Live, u, i) = IF o.user = u
                                 THEN ReservedCollateral(o, Remaining(o)) ELSE 0
      /\ TokenTerm(Live, u, t, i) = IF o.user = u /\ o.token = t
                                    THEN ReservedConditional(o, Remaining(o))
                                    ELSE 0
  BY DEF MoneyTerm, TokenTerm
<1>10. ASSUME NEW j \in DOMAIN orders, j # i
       PROVE  /\ MoneyTerm(Live, u, j)' = MoneyTerm(Live, u, j)
              /\ TokenTerm(Live, u, t, j)' = TokenTerm(Live, u, t, j)
  <2>1. orders'[j] = orders[j] /\ (j \in Live' <=> j \in Live)
    BY <1>4, <1>10 DEF AppliesFill
  <2> QED
    BY <2>1 DEF MoneyTerm, TokenTerm
<1>11. ASSUME NEW j \in DOMAIN orders
       PROVE  /\ MoneyTerm(Live, u, j) \in Int /\ MoneyTerm(Live, u, j)' \in Int
              /\ TokenTerm(Live, u, t, j) \in Int
              /\ TokenTerm(Live, u, t, j)' \in Int
  <2>1. Rows'
    BY FillRows
  <2>2. \A a \in DOMAIN orders : MoneyTerm(Live, u, a) \in Nat
                                 /\ TokenTerm(Live, u, t, a) \in Nat
    BY TermTypes
  <2>3. /\ ReservedCollateral(o, left) \in Nat
        /\ ReservedConditional(o, left) \in Nat
    BY <1>1, <1>2, ReservedNat DEF Rows
  <2> QED
    BY <1>8, <1>10, <2>2, <2>3
<1> DEFINE n  == Len(orders)
           m  == [j \in DOMAIN orders |-> MoneyTerm(Live, u, j)]
           mp == [j \in DOMAIN orders |-> MoneyTerm(Live, u, j)']
           k  == [j \in DOMAIN orders |-> TokenTerm(Live, u, t, j)]
           kp == [j \in DOMAIN orders |-> TokenTerm(Live, u, t, j)']
<1>12. /\ \A j \in 1..n : m[j] \in Int /\ mp[j] \in Int
       /\ \A j \in 1..n : k[j] \in Int /\ kp[j] \in Int
       /\ \A j \in 1..n \ {i} : mp[j] = m[j]
       /\ \A j \in 1..n \ {i} : kp[j] = k[j]
       /\ i \in 1..n /\ n \in Nat
  BY <1>1, <1>10, <1>11
<1>13. /\ mp[i] - m[i] = 0 - (IF o.user = u
                              THEN ReservedCollateral(o, fill.size) ELSE 0)
       /\ kp[i] - k[i] = 0 - (IF o.user = u /\ o.token = t
                              THEN ReservedConditional(o, fill.size) ELSE 0)
  <2>1. /\ ReservedCollateral(o, Remaining(o)) \in Nat
        /\ ReservedCollateral(o, fill.size) \in Nat
        /\ ReservedConditional(o, Remaining(o)) \in Nat
        /\ ReservedConditional(o, fill.size) \in Nat
    BY <1>1, <1>2, ReservedNat DEF Rows
  <2> HIDE DEF o
  <2> QED
    BY <1>1, <1>6, <1>7, <1>8, <1>9, <2>1
<1>14. /\ HeldMoney(Live, u) = SumTo(m, n) /\ HeldMoney(Live, u)' = SumTo(mp, n)
       /\ HeldTokens(Live, u, t) = SumTo(k, n)
       /\ HeldTokens(Live, u, t)' = SumTo(kp, n)
  BY <1>1 DEF HeldMoney, HeldTokens, MoneyTerm, TokenTerm
<1> HIDE DEF n, m, mp, k, kp
<1>15. SumTo(mp, n) = SumTo(m, n) + mp[i] - m[i]
  BY <1>12, SumToPoint
<1>16. SumTo(kp, n) = SumTo(k, n) + kp[i] - k[i]
  BY <1>12, SumToPoint
<1>17. /\ SumTo(m, n) \in Int /\ SumTo(k, n) \in Int
       /\ m[i] \in Int /\ mp[i] \in Int /\ k[i] \in Int /\ kp[i] \in Int
  BY <1>12, SumToInt
<1>20. /\ ReservedCollateral(o, fill.size) \in Nat
       /\ ReservedConditional(o, fill.size) \in Nat
  BY <1>1, <1>2, ReservedNat DEF Rows
<1> DEFINE dm == IF o.user = u THEN ReservedCollateral(o, fill.size) ELSE 0
           dk == IF o.user = u /\ o.token = t
                 THEN ReservedConditional(o, fill.size) ELSE 0
<1>21. dm \in Nat /\ dk \in Nat /\ mp[i] - m[i] = 0 - dm /\ kp[i] - k[i] = 0 - dk
  BY <1>13, <1>20
<1> HIDE DEF o, dm, dk
<1>18. SumTo(mp, n) = SumTo(m, n) - dm
  BY <1>15, <1>17, <1>21
<1>19. SumTo(kp, n) = SumTo(k, n) - dk
  BY <1>16, <1>17, <1>21
<1> QED
  BY <1>14, <1>18, <1>19 DEF o, dm, dk

\* A new order adds what its unfilled part reserves.
LEMMA PlaceHeld ==
  ASSUME Rows, NEW o, NEW fill, AppliesOrder(o, fill), NEW u, NEW t
  PROVE  /\ HeldMoney(Live, u)' = HeldMoney(Live, u)
              + (IF o.status = "LIVE" /\ o.user = u
                 THEN ReservedCollateral(o, Remaining(o)) ELSE 0)
         /\ HeldTokens(Live, u, t)' = HeldTokens(Live, u, t)
              + (IF o.status = "LIVE" /\ o.user = u /\ o.token = t
                 THEN ReservedConditional(o, Remaining(o)) ELSE 0)
<1> DEFINE n  == Len(orders)
           m  == [j \in DOMAIN orders |-> MoneyTerm(Live, u, j)]
           mp == [j \in 1..(n + 1) |-> MoneyTerm(Live, u, j)']
           k  == [j \in DOMAIN orders |-> TokenTerm(Live, u, t, j)]
           kp == [j \in 1..(n + 1) |-> TokenTerm(Live, u, t, j)']
<1>1. /\ n \in Nat /\ DOMAIN orders = 1..n
      /\ DOMAIN orders' = 1..(n + 1) /\ Len(orders') = n + 1
      /\ orders'[n + 1] = o
      /\ \A j \in 1..n : orders'[j] = orders[j]
  BY DEF AppliesOrder, Rows, AccountsTypeOK
<1>2. \A j \in 1..n : j \in Live' <=> j \in Live
  BY <1>1 DEF Live
<1>3. n + 1 \in Live' <=> o.status = "LIVE"
  BY <1>1 DEF Live
<1>4. \A j \in 1..n : mp[j] = m[j] /\ kp[j] = k[j]
  BY <1>1, <1>2 DEF MoneyTerm, TokenTerm
<1>5. /\ mp[n + 1] = IF o.status = "LIVE" /\ o.user = u
                     THEN ReservedCollateral(o, Remaining(o)) ELSE 0
      /\ kp[n + 1] = IF o.status = "LIVE" /\ o.user = u /\ o.token = t
                     THEN ReservedConditional(o, Remaining(o)) ELSE 0
  BY <1>1, <1>3 DEF MoneyTerm, TokenTerm
<1>6. /\ HeldMoney(Live, u) = SumTo(m, n)
      /\ HeldMoney(Live, u)' = SumTo(mp, n + 1)
      /\ HeldTokens(Live, u, t) = SumTo(k, n)
      /\ HeldTokens(Live, u, t)' = SumTo(kp, n + 1)
  BY <1>1 DEF HeldMoney, HeldTokens, MoneyTerm, TokenTerm
<1> HIDE DEF n, m, mp, k, kp
<1>7. SumTo(mp, n + 1) = SumTo(m, n) + mp[n + 1]
  BY <1>1, <1>4, SumToAppend
<1>8. SumTo(kp, n + 1) = SumTo(k, n) + kp[n + 1]
  BY <1>1, <1>4, SumToAppend
<1> QED
  BY <1>5, <1>6, <1>7, <1>8

\* A trade counts in the net cost, the net size and the buys of its user.
LEMMA TradeTotals ==
  ASSUME Rows, NEW tr, trades' = Append(trades, tr), NEW u, NEW t
  PROVE  /\ NetCost(u)' = NetCost(u)
              + (IF tr.user = u THEN Signed(tr.side, tr.size * tr.price) ELSE 0)
         /\ NetSize(u, t)' = NetSize(u, t)
              + (IF tr.user = u /\ tr.token = t
                 THEN Signed(tr.side, tr.size) ELSE 0)
         /\ Bought(u, t)' = Bought(u, t)
              + (IF tr.user = u /\ tr.token = t /\ tr.side = "BUY"
                 THEN tr.size ELSE 0)
<1> DEFINE n  == Len(trades)
           m  == [j \in DOMAIN trades |-> CostTerm(u, j)]
           mp == [j \in 1..(n + 1) |-> CostTerm(u, j)']
           k  == [j \in DOMAIN trades |-> SizeTerm(u, t, j)]
           kp == [j \in 1..(n + 1) |-> SizeTerm(u, t, j)']
           b  == [j \in DOMAIN trades |-> BuyTerm(u, t, j)]
           bp == [j \in 1..(n + 1) |-> BuyTerm(u, t, j)']
<1>1. /\ n \in Nat /\ DOMAIN trades = 1..n
      /\ DOMAIN trades' = 1..(n + 1) /\ Len(trades') = n + 1
      /\ trades'[n + 1] = tr
      /\ \A j \in 1..n : trades'[j] = trades[j]
  BY DEF Rows, AccountsTypeOK
<1>2. \A j \in 1..n : mp[j] = m[j] /\ kp[j] = k[j] /\ bp[j] = b[j]
  BY <1>1 DEF CostTerm, SizeTerm, BuyTerm
<1>3. /\ mp[n + 1] = IF tr.user = u
                     THEN Signed(tr.side, tr.size * tr.price) ELSE 0
      /\ kp[n + 1] = IF tr.user = u /\ tr.token = t
                     THEN Signed(tr.side, tr.size) ELSE 0
      /\ bp[n + 1] = IF tr.user = u /\ tr.token = t /\ tr.side = "BUY"
                     THEN tr.size ELSE 0
  BY <1>1 DEF CostTerm, SizeTerm, BuyTerm
<1>4. /\ NetCost(u) = SumTo(m, n) /\ NetCost(u)' = SumTo(mp, n + 1)
      /\ NetSize(u, t) = SumTo(k, n) /\ NetSize(u, t)' = SumTo(kp, n + 1)
      /\ Bought(u, t) = SumTo(b, n) /\ Bought(u, t)' = SumTo(bp, n + 1)
  BY <1>1 DEF NetCost, NetSize, Bought, CostTerm, SizeTerm, BuyTerm
<1> HIDE DEF n, m, mp, k, kp, b, bp
<1>5. SumTo(mp, n + 1) = SumTo(m, n) + mp[n + 1]
  BY <1>1, <1>2, SumToAppend
<1>6. SumTo(kp, n + 1) = SumTo(k, n) + kp[n + 1]
  BY <1>1, <1>2, SumToAppend
<1>7. SumTo(bp, n + 1) = SumTo(b, n) + bp[n + 1]
  BY <1>1, <1>2, SumToAppend
<1> QED
  BY <1>3, <1>4, <1>5, <1>6, <1>7

-----------------------------------------------------------------------------
(* What one transaction does to the totals.                                *)

\* The money of u, wherever it is; and what stands behind u's position.
Money(u)      == collateral[u] + HeldMoney(Live, u) + NetCost(u)
Backing(u, t) == conditional[u][t] + HeldTokens(Live, u, t)

\* All totals are numbers.
Counted ==
    \A u \in Users :
        /\ collateral[u] \in Nat /\ HeldMoney(Live, u) \in Nat
        /\ NetCost(u) \in Int /\ funded[u] \in Int
        /\ \A t \in Tokens :
              /\ conditional[u][t] \in Nat /\ HeldTokens(Live, u, t) \in Nat
              /\ position[u][t] \in Nat
              /\ NetSize(u, t) \in Int /\ Bought(u, t) \in Nat

\* u's money changes by what was put in; u trades one quantity of t (it may be
\* zero), which moves the tokens, the position and the trades alike.
KeepsMoney(u) == Money(u)' - Money(u) = funded'[u] - funded[u]

Trades(u, t, side, n) ==
    /\ Backing(u, t)' = Backing(u, t) + Signed(side, n)
    /\ position'[u][t] = PositionAfter(position[u][t], side, n)
    /\ NetSize(u, t)' = NetSize(u, t) + Signed(side, n)
    /\ Bought(u, t)' = Bought(u, t) + (IF side = "BUY" THEN n ELSE 0)

TradesSome(u, t) == \E side \in Sides, n \in Nat : Trades(u, t, side, n)

LEMMA MoneyTypes ==
  ASSUME Rows, NEW u \in Users
  PROVE  /\ collateral[u] \in Nat /\ funded[u] \in Int
         /\ HeldMoney(Live, u) \in Nat /\ NetCost(u) \in Int
<1>1. collateral[u] \in Nat /\ funded[u] \in Int
  BY DEF Rows, AccountsTypeOK
<1>2. HeldMoney(Live, u) \in Nat
  BY HeldNat DEF Rows
<1> DEFINE n == Len(trades)
           m == [k \in DOMAIN trades |-> CostTerm(u, k)]
<1>3. n \in Nat /\ DOMAIN trades = 1..n
  BY DEF Rows, AccountsTypeOK
<1>4. \A k \in 1..n : m[k] \in Int
  BY <1>3, TermTypes
<1>5. NetCost(u) = SumTo(m, n)
  BY DEF NetCost, CostTerm
<1> HIDE DEF n, m
<1> QED
  BY <1>1, <1>2, <1>3, <1>4, <1>5, SumToInt

LEMMA TokenTypes ==
  ASSUME Rows, NEW u \in Users, NEW t \in Tokens
  PROVE  /\ conditional[u][t] \in Nat /\ position[u][t] \in Nat
         /\ HeldTokens(Live, u, t) \in Nat
         /\ NetSize(u, t) \in Int /\ Bought(u, t) \in Nat
<1>1. conditional[u][t] \in Nat /\ position[u][t] \in Nat
  BY DEF Rows, AccountsTypeOK
<1>2. HeldTokens(Live, u, t) \in Nat
  BY HeldNat DEF Rows
<1> DEFINE n == Len(trades)
           s == [k \in DOMAIN trades |-> SizeTerm(u, t, k)]
           b == [k \in DOMAIN trades |-> BuyTerm(u, t, k)]
<1>3. n \in Nat /\ DOMAIN trades = 1..n
  BY DEF Rows, AccountsTypeOK
<1>4. \A k \in 1..n : s[k] \in Int /\ b[k] \in Nat
  BY <1>3, TermTypes
<1>5. NetSize(u, t) = SumTo(s, n) /\ Bought(u, t) = SumTo(b, n)
  BY DEF NetSize, SizeTerm, Bought, BuyTerm
<1> HIDE DEF n, s, b
<1>6. SumTo(s, n) \in Int /\ SumTo(b, n) \in Nat
  BY <1>3, <1>4, SumToInt, SumToNat
<1> QED
  BY <1>1, <1>2, <1>5, <1>6

LEMMA AllCounted == Inv => Counted
BY MoneyTypes, TokenTypes DEF Inv, Counted

LEMMA SameHeld ==
  ASSUME orders' = orders, NEW u, NEW t
  PROVE  /\ HeldMoney(Live, u)' = HeldMoney(Live, u)
         /\ HeldTokens(Live, u, t)' = HeldTokens(Live, u, t)
BY DEF HeldMoney, HeldTokens, Live

LEMMA SameNet ==
  ASSUME trades' = trades, NEW u, NEW t
  PROVE  /\ NetCost(u)' = NetCost(u) /\ NetSize(u, t)' = NetSize(u, t)
         /\ Bought(u, t)' = Bought(u, t)
BY DEF NetCost, NetSize, Bought

\* Somebody whose tokens do not move trades zero of them.
LEMMA TradesNone ==
  ASSUME Rows, NEW u \in Users, NEW t \in Tokens,
         Backing(u, t)' = Backing(u, t), position'[u][t] = position[u][t],
         NetSize(u, t)' = NetSize(u, t), Bought(u, t)' = Bought(u, t)
  PROVE  TradesSome(u, t)
<1>1. /\ Backing(u, t) \in Int /\ position[u][t] \in Nat
      /\ NetSize(u, t) \in Int /\ Bought(u, t) \in Int
  BY TokenTypes DEF Backing
<1>2. Trades(u, t, "BUY", 0)
  BY <1>1 DEF Trades, Signed, PositionAfter
<1> QED
  BY <1>2 DEF TradesSome, Sides

\* A trade of user x in token y, in the terms of the one who made it.
LEMMA TradeCounts ==
  ASSUME Rows, NEW tr, trades' = Append(trades, tr),
         NEW x, NEW y, NEW cost, NEW net, NEW buys,
         tr.user = x, tr.token = y,
         Signed(tr.side, tr.size * tr.price) = cost,
         Signed(tr.side, tr.size) = net,
         (IF tr.side = "BUY" THEN tr.size ELSE 0) = buys,
         NEW u, NEW t
  PROVE  /\ NetCost(u)' = NetCost(u) + (IF x = u THEN cost ELSE 0)
         /\ NetSize(u, t)' = NetSize(u, t)
              + (IF x = u /\ y = t THEN net ELSE 0)
         /\ Bought(u, t)' = Bought(u, t)
              + (IF x = u /\ y = t THEN buys ELSE 0)
<1>1. /\ NetCost(u)' = NetCost(u)
            + (IF tr.user = u THEN Signed(tr.side, tr.size * tr.price) ELSE 0)
      /\ NetSize(u, t)' = NetSize(u, t)
            + (IF tr.user = u /\ tr.token = t
               THEN Signed(tr.side, tr.size) ELSE 0)
      /\ Bought(u, t)' = Bought(u, t)
            + (IF tr.user = u /\ tr.token = t /\ tr.side = "BUY"
               THEN tr.size ELSE 0)
  BY TradeTotals
<1>2. (IF tr.user = u /\ tr.token = t /\ tr.side = "BUY" THEN tr.size ELSE 0)
        = IF x = u /\ y = t THEN buys ELSE 0
  OBVIOUS
<1> QED
  BY <1>1, <1>2

LEMMA FundMoves ==
  ASSUME Rows, NEW x \in Users, NEW a \in Amounts,
         Deposit(x, a) \/ Withdraw(x, a), NEW u \in Users
  PROVE  KeepsMoney(u) /\ \A t \in Tokens : TradesSome(u, t)
<1>1. a \in Nat
  BY AmountsAssumption
<1>2. UNCHANGED <<conditional, position, orders, trades>>
  BY DEF Deposit, Withdraw
<1>3. collateral'[u] - collateral[u] = funded'[u] - funded[u]
      /\ collateral'[u] \in Int /\ funded'[u] \in Int
  <2>1. /\ collateral \in [Users -> Nat] /\ funded \in [Users -> Int]
        /\ collateral[u] \in Nat /\ funded[u] \in Int
    BY DEF Rows, AccountsTypeOK
  <2>2. CASE Deposit(x, a)
    BY <1>1, <2>1, <2>2 DEF Deposit
  <2>3. CASE Withdraw(x, a)
    BY <1>1, <2>1, <2>3 DEF Withdraw
  <2> QED
    BY <2>2, <2>3
<1>4. KeepsMoney(u)
  <2>1. /\ collateral[u] \in Nat /\ funded[u] \in Int
        /\ HeldMoney(Live, u) \in Nat /\ NetCost(u) \in Int
    BY MoneyTypes
  <2>2. /\ HeldMoney(Live, u)' = HeldMoney(Live, u)
        /\ NetCost(u)' = NetCost(u)
    BY <1>2, SameHeld, SameNet
  <2> QED
    BY <1>3, <2>1, <2>2 DEF KeepsMoney, Money
<1>5. ASSUME NEW t \in Tokens PROVE TradesSome(u, t)
  BY <1>2, SameHeld, SameNet, TradesNone DEF Backing
<1> QED
  BY <1>4, <1>5

\* Cancellation moves money and tokens from the reservations to the wallets.
LEMMA CancelMoves ==
  ASSUME Rows, NEW C, C \subseteq Live, CancelAndRefund(C), NEW u \in Users
  PROVE  KeepsMoney(u) /\ \A t \in Tokens : TradesSome(u, t)
<1>0. Cancels(C)
  BY DEF CancelAndRefund
<1>1. KeepsMoney(u)
  <2>1. /\ collateral[u] \in Nat /\ funded[u] \in Int
        /\ HeldMoney(Live, u) \in Nat /\ NetCost(u) \in Int
    BY MoneyTypes
  <2>2. HeldMoney(C, u) \in Nat
    BY HeldNat DEF Rows
  <2>3. HeldMoney(Live, u)' = HeldMoney(Live, u) - HeldMoney(C, u)
    BY <1>0, CancelHeld
  <2>4. /\ collateral'[u] = collateral[u] + HeldMoney(C, u)
        /\ NetCost(u)' = NetCost(u) /\ funded'[u] = funded[u]
    BY SameNet DEF CancelAndRefund
  <2> QED
    BY <2>1, <2>2, <2>3, <2>4 DEF KeepsMoney, Money
<1>2. ASSUME NEW t \in Tokens PROVE TradesSome(u, t)
  <2>1. conditional[u][t] \in Nat /\ HeldTokens(Live, u, t) \in Nat
    BY TokenTypes
  <2>2. HeldTokens(C, u, t) \in Nat
    BY HeldNat DEF Rows
  <2>3. HeldTokens(Live, u, t)' = HeldTokens(Live, u, t) - HeldTokens(C, u, t)
    BY <1>0, CancelHeld
  <2>4. /\ conditional'[u][t] = conditional[u][t] + HeldTokens(C, u, t)
        /\ position'[u][t] = position[u][t]
        /\ NetSize(u, t)' = NetSize(u, t) /\ Bought(u, t)' = Bought(u, t)
    BY SameNet DEF CancelAndRefund
  <2>5. Backing(u, t)' = Backing(u, t)
    BY <2>1, <2>2, <2>3, <2>4 DEF Backing
  <2> QED
    BY <2>4, <2>5, TradesNone
<1> QED
  BY <1>1, <1>2

LEMMA DistributeLeft ==
  \A a, b, c \in Nat : (a - b) * c = c * a - c * b
OBVIOUS

\* What a fill pays is what it takes out of the reservation, and its trade.
LEMMA FillPays ==
  ASSUME NEW o, NEW fill, o.side \in Sides, o.price \in Nat,
         fill.size \in Nat, fill.price \in Nat
  PROVE  /\ FillCollateral(o, fill) = ReservedCollateral(o, fill.size)
                - Signed(o.side, fill.size * fill.price)
         /\ FillConditional(o, fill) = ReservedConditional(o, fill.size)
                + Signed(o.side, fill.size)
         /\ FillCollateral(o, fill) \in Int /\ FillConditional(o, fill) \in Int
         /\ Signed(o.side, fill.size * fill.price) \in Int
         /\ Signed(o.side, fill.size) \in Int
<1> DEFINE p == o.price
           q == fill.price
           s == fill.size
<1>1. (p - q) * s = s * p - s * q
  BY DistributeLeft
<1>2. s * p \in Nat /\ s * q \in Nat
  BY Product
<1> USE DEF FillCollateral, FillConditional, ReservedCollateral,
            ReservedConditional, Signed, Sides
<1>3. CASE o.side = "BUY"
  BY <1>1, <1>2, <1>3
<1>4. CASE o.side # "BUY"
  BY <1>2, <1>4
<1> QED
  BY <1>3, <1>4

\* The position moves by what was traded, as long as a SELL is covered.
LEMMA PositionMoves ==
  ASSUME NEW held \in Nat, NEW side \in Sides, NEW size \in Nat,
         side = "SELL" => size <= held
  PROVE  /\ PositionAfter(held, side, size) = held + Signed(side, size)
         /\ Signed(side, size) \in Int
BY DEF PositionAfter, Sides, Signed

\* A fill of a LIVE order.
LEMMA FillMoves ==
  ASSUME Rows, NEW i \in Live, NEW fill, AppliesFill(i, fill), NEW u \in Users
  PROVE  KeepsMoney(u) /\ \A t \in Tokens : TradesSome(u, t)
<1> DEFINE o    == orders[i]
           cost == Signed(o.side, fill.size * fill.price)
           net  == Signed(o.side, fill.size)
           buys == IF o.side = "BUY" THEN fill.size ELSE 0
           rm   == ReservedCollateral(o, fill.size)
           rt   == ReservedConditional(o, fill.size)
           tr   == TradeOf(i, o, fill, <<i, o.matched + fill.size>>)
<1>1. i \in DOMAIN orders
  BY DEF Live
<1>2. /\ o.user \in Users /\ o.token \in Tokens /\ o.side \in Sides
      /\ o.price \in Nat
  BY <1>1, OrderFields DEF Rows
<1>3. /\ fill.size \in Nat /\ fill.price \in Nat
      /\ trades' = Append(trades, tr)
      /\ collateral' = [collateral EXCEPT ![o.user] =
                           @ + FillCollateral(o, fill)]
      /\ conditional' = [conditional EXCEPT ![o.user][o.token] =
                           @ + FillConditional(o, fill)]
      /\ position' = [position EXCEPT ![o.user][o.token] =
                           PositionAfter(@, o.side, fill.size)]
      /\ funded' = funded
  BY DEF AppliesFill
<1>4. /\ FillCollateral(o, fill) = rm - cost
      /\ FillConditional(o, fill) = rt + net
      /\ cost \in Int /\ net \in Int
  BY <1>2, <1>3, FillPays
<1>5. rm \in Nat /\ rt \in Nat
  BY <1>1, <1>3, ReservedNat DEF Rows
<1>6. /\ tr.user = o.user /\ tr.token = o.token /\ tr.side = o.side
      /\ Signed(tr.side, tr.size * tr.price) = cost
      /\ Signed(tr.side, tr.size) = net
      /\ (IF tr.side = "BUY" THEN tr.size ELSE 0) = buys
  BY DEF TradeOf
<1>7. ASSUME NEW t
      PROVE  /\ HeldMoney(Live, u)'
                  = HeldMoney(Live, u) - (IF o.user = u THEN rm ELSE 0)
             /\ HeldTokens(Live, u, t)' = HeldTokens(Live, u, t)
                  - (IF o.user = u /\ o.token = t THEN rt ELSE 0)
             /\ NetCost(u)' = NetCost(u) + (IF o.user = u THEN cost ELSE 0)
             /\ NetSize(u, t)' = NetSize(u, t)
                  + (IF o.user = u /\ o.token = t THEN net ELSE 0)
             /\ Bought(u, t)' = Bought(u, t)
                  + (IF o.user = u /\ o.token = t THEN buys ELSE 0)
  <2>1. /\ HeldMoney(Live, u)'
              = HeldMoney(Live, u) - (IF o.user = u THEN rm ELSE 0)
        /\ HeldTokens(Live, u, t)' = HeldTokens(Live, u, t)
              - (IF o.user = u /\ o.token = t THEN rt ELSE 0)
    BY FillHeld
  <2>2. trades' = Append(trades, tr)
    BY <1>3
  <2> HIDE DEF o, tr, cost, net, buys, rm, rt
  <2>3. /\ NetCost(u)' = NetCost(u) + (IF o.user = u THEN cost ELSE 0)
        /\ NetSize(u, t)' = NetSize(u, t)
              + (IF o.user = u /\ o.token = t THEN net ELSE 0)
        /\ Bought(u, t)' = Bought(u, t)
              + (IF o.user = u /\ o.token = t THEN buys ELSE 0)
    BY <1>6, <2>2, TradeCounts
  <2> QED
    BY <2>1, <2>3
<1>8. KeepsMoney(u)
  <2>1. /\ collateral[u] \in Nat /\ funded[u] \in Int
        /\ HeldMoney(Live, u) \in Nat /\ NetCost(u) \in Int
    BY MoneyTypes
  <2>2. collateral \in [Users -> Nat]
    BY DEF Rows, AccountsTypeOK
  <2> HIDE DEF o, cost, net, buys, rm, rt, tr
  <2>3. collateral'[u] = collateral[u] + (IF o.user = u THEN rm - cost ELSE 0)
    BY <1>2, <1>3, <1>4, <2>1, <2>2
  <2>4. CASE o.user = u
    <3>1. /\ collateral'[u] = collateral[u] + (rm - cost)
          /\ HeldMoney(Live, u)' = HeldMoney(Live, u) - rm
          /\ NetCost(u)' = NetCost(u) + cost
          /\ funded'[u] = funded[u]
      BY <1>3, <1>7, <2>3, <2>4
    <3> QED
      BY <1>4, <1>5, <2>1, <3>1 DEF KeepsMoney, Money
  <2>5. CASE o.user # u
    <3>1. /\ collateral'[u] = collateral[u] + 0
          /\ HeldMoney(Live, u)' = HeldMoney(Live, u) - 0
          /\ NetCost(u)' = NetCost(u) + 0
          /\ funded'[u] = funded[u]
      BY <1>3, <1>7, <2>3, <2>5
    <3> QED
      BY <2>1, <3>1 DEF KeepsMoney, Money
  <2> QED
    BY <2>4, <2>5
<1>9. ASSUME NEW t \in Tokens PROVE TradesSome(u, t)
  <2>1. /\ conditional[u][t] \in Nat /\ position[u][t] \in Nat
        /\ HeldTokens(Live, u, t) \in Nat /\ NetSize(u, t) \in Int
        /\ Bought(u, t) \in Nat
    BY TokenTypes
  <2>2. /\ conditional \in [Users -> [Tokens -> Nat]]
        /\ position \in [Users -> [Tokens -> Nat]]
    BY DEF Rows, AccountsTypeOK
  <2>3. CASE o.user = u /\ o.token = t
    <3>1. /\ NetSize(u, t)' = NetSize(u, t) + net
          /\ Bought(u, t)' = Bought(u, t) + buys
          /\ HeldTokens(Live, u, t)' = HeldTokens(Live, u, t) - rt
      BY <1>7, <2>3
    <3>2. /\ conditional'[u][t] = conditional[u][t] + (rt + net)
          /\ position'[u][t] = PositionAfter(position[u][t], o.side, fill.size)
      <4> HIDE DEF o, net, rt
      <4> QED
        BY <1>3, <1>4, <2>2, <2>3
    <3>3. Backing(u, t)' = Backing(u, t) + net
      <4> HIDE DEF o, net, rt
      <4> QED
        BY <1>4, <1>5, <2>1, <3>1, <3>2 DEF Backing
    <3>4. Trades(u, t, o.side, fill.size)
      BY <3>1, <3>2, <3>3 DEF Trades
    <3> QED
      BY <1>2, <1>3, <3>4 DEF TradesSome
  <2>4. CASE ~(o.user = u /\ o.token = t)
    <3>1. /\ NetSize(u, t)' = NetSize(u, t) + 0
          /\ Bought(u, t)' = Bought(u, t) + 0
          /\ HeldTokens(Live, u, t)' = HeldTokens(Live, u, t) - 0
      BY <1>7, <2>4
    <3>2. /\ conditional'[u][t] = conditional[u][t]
          /\ position'[u][t] = position[u][t]
      <4> HIDE DEF o, net, rt
      <4> QED
        BY <1>2, <1>3, <2>2, <2>4
    <3> QED
      BY <2>1, <3>1, <3>2, TradesNone DEF Backing
  <2> QED
    BY <2>3, <2>4
<1> QED
  BY <1>8, <1>9

\* What a new order still holds or gets back is what its fill did not use.
LEMMA OrderPays ==
  ASSUME NEW o, NEW fill, o.side \in Sides, o.price \in Nat, o.size \in Nat,
         fill.size \in Nat, fill.price \in Nat, fill.size <= o.size,
         o.matched = fill.size,
         o.status \in {"LIVE", "MATCHED", "CANCELED"},
         o.status = "MATCHED" <=> fill.size = o.size,
         NEW unfilled,
         unfilled = IF o.status = "CANCELED" THEN o.size - fill.size ELSE 0
  PROVE  /\ ReservedCollateral(o, unfilled)
              + (IF o.status = "LIVE"
                 THEN ReservedCollateral(o, Remaining(o)) ELSE 0)
              = ReservedCollateral(o, o.size) - ReservedCollateral(o, fill.size)
         /\ ReservedConditional(o, unfilled)
              + (IF o.status = "LIVE"
                 THEN ReservedConditional(o, Remaining(o)) ELSE 0)
              = ReservedConditional(o, o.size) - ReservedConditional(o, fill.size)
         /\ ReservedCollateral(o, unfilled) \in Nat
         /\ ReservedCollateral(o, o.size) \in Nat
         /\ ReservedCollateral(o, fill.size) \in Nat
         /\ ReservedConditional(o, unfilled) \in Nat
         /\ ReservedConditional(o, o.size) \in Nat
         /\ ReservedConditional(o, fill.size) \in Nat
<1> DEFINE rest == o.size - fill.size
<1>1. rest \in Nat /\ Remaining(o) = rest /\ unfilled \in Nat
  BY DEF Remaining
<1>2. \A n \in Nat : ReservedCollateral(o, n) \in Nat
                     /\ ReservedConditional(o, n) \in Nat
  BY Product DEF ReservedCollateral, ReservedConditional
<1>3. /\ ReservedCollateral(o, rest)
            = ReservedCollateral(o, o.size) - ReservedCollateral(o, fill.size)
      /\ ReservedConditional(o, rest)
            = ReservedConditional(o, o.size) - ReservedConditional(o, fill.size)
  BY ReservedSplit
<1>4. ReservedCollateral(o, 0) = 0 /\ ReservedConditional(o, 0) = 0
  BY DEF ReservedCollateral, ReservedConditional
<1>5. CASE o.status = "LIVE"
  <2>1. unfilled = 0
    BY <1>5
  <2> HIDE DEF rest
  <2> QED
    BY <1>1, <1>2, <1>3, <1>4, <1>5, <2>1
<1>6. CASE o.status = "CANCELED"
  <2>1. unfilled = rest
    BY <1>6
  <2> HIDE DEF rest
  <2> QED
    BY <1>1, <1>2, <1>3, <1>4, <1>6, <2>1
<1>7. CASE o.status = "MATCHED"
  <2>1. unfilled = 0 /\ rest = 0
    BY <1>7
  <2> HIDE DEF rest
  <2> QED
    BY <1>1, <1>2, <1>3, <1>4, <1>7, <2>1
<1> QED
  BY <1>5, <1>6, <1>7

\* A new order, filled at once as far as its book allowed.
LEMMA PlaceMoves ==
  ASSUME Rows, NEW o, NEW fill, AppliesOrder(o, fill), NEW u \in Users
  PROVE  KeepsMoney(u) /\ \A t \in Tokens : TradesSome(u, t)
<1> DEFINE x    == o.user
           y    == o.token
           unfilled == IF o.status = "CANCELED" THEN o.size - fill.size ELSE 0
           cost == Signed(o.side, fill.size * fill.price)
           net  == Signed(o.side, fill.size)
           buys == IF o.side = "BUY" THEN fill.size ELSE 0
           am   == ReservedCollateral(o, o.size)
           at   == ReservedConditional(o, o.size)
           rm   == ReservedCollateral(o, fill.size)
           rt   == ReservedConditional(o, fill.size)
           um   == ReservedCollateral(o, unfilled)
           ut   == ReservedConditional(o, unfilled)
           hm   == IF o.status = "LIVE"
                   THEN ReservedCollateral(o, Remaining(o)) ELSE 0
           ht   == IF o.status = "LIVE"
                   THEN ReservedConditional(o, Remaining(o)) ELSE 0
           tr   == TradeOf(Len(orders) + 1, o, fill, <<>>)
<1>1. /\ x \in Users /\ y \in Tokens /\ o.side \in Sides
      /\ o.price \in Nat /\ o.size \in Nat
      /\ fill.size \in Nat /\ fill.price \in Nat /\ fill.size <= o.size
      /\ o.matched = fill.size
      /\ o.status \in {"LIVE", "MATCHED", "CANCELED"}
      /\ o.status = "MATCHED" <=> fill.size = o.size
  BY DEF AppliesOrder, Order
<1>2. /\ trades' = IF fill.size > 0 THEN Append(trades, tr) ELSE trades
      /\ collateral' = [collateral EXCEPT ![x] =
                           @ - am + FillCollateral(o, fill) + um]
      /\ conditional' = [conditional EXCEPT ![x][y] =
                           @ + (FillConditional(o, fill) + ut - at)]
      /\ position' = [position EXCEPT ![x][y] =
                           PositionAfter(@, o.side, fill.size)]
      /\ funded' = funded
  BY DEF AppliesOrder
<1>3. /\ FillCollateral(o, fill) = rm - cost
      /\ FillConditional(o, fill) = rt + net
      /\ cost \in Int /\ net \in Int /\ buys \in Nat
  BY <1>1, FillPays
<1>4. /\ um + hm = am - rm /\ ut + ht = at - rt
      /\ am \in Nat /\ rm \in Nat /\ um \in Nat
      /\ at \in Nat /\ rt \in Nat /\ ut \in Nat
  <2> HIDE DEF unfilled
  <2>1. unfilled = IF o.status = "CANCELED" THEN o.size - fill.size ELSE 0
    BY DEF unfilled
  <2> QED
    BY <1>1, <2>1, OrderPays
<1>5. hm \in Nat /\ ht \in Nat
  <2>1. Remaining(o) \in Nat
    BY <1>1 DEF Remaining
  <2> QED
    BY <1>1, <2>1, Product DEF ReservedCollateral, ReservedConditional
<1>6. ASSUME NEW t
      PROVE  /\ HeldMoney(Live, u)'
                  = HeldMoney(Live, u) + (IF x = u THEN hm ELSE 0)
             /\ HeldTokens(Live, u, t)' = HeldTokens(Live, u, t)
                  + (IF x = u /\ y = t THEN ht ELSE 0)
  <2>1. /\ HeldMoney(Live, u)' = HeldMoney(Live, u)
              + (IF o.status = "LIVE" /\ o.user = u
                 THEN ReservedCollateral(o, Remaining(o)) ELSE 0)
        /\ HeldTokens(Live, u, t)' = HeldTokens(Live, u, t)
              + (IF o.status = "LIVE" /\ o.user = u /\ o.token = t
                 THEN ReservedConditional(o, Remaining(o)) ELSE 0)
    BY PlaceHeld
  <2> QED
    BY <2>1
<1>7. ASSUME NEW t \in Tokens
      PROVE  /\ NetCost(u)' = NetCost(u) + (IF x = u THEN cost ELSE 0)
             /\ NetSize(u, t)' = NetSize(u, t)
                  + (IF x = u /\ y = t THEN net ELSE 0)
             /\ Bought(u, t)' = Bought(u, t)
                  + (IF x = u /\ y = t THEN buys ELSE 0)
  <2>1. CASE fill.size > 0
    <3>1. /\ trades' = Append(trades, tr) /\ tr.user = x /\ tr.token = y
          /\ Signed(tr.side, tr.size * tr.price) = cost
          /\ Signed(tr.side, tr.size) = net
          /\ (IF tr.side = "BUY" THEN tr.size ELSE 0) = buys
      BY <1>2, <2>1 DEF TradeOf
    <3> HIDE DEF tr, x, y, cost, net, buys
    <3> QED
      BY <3>1, TradeCounts
  <2>2. CASE ~(fill.size > 0)
    <3>1. fill.size = 0 /\ trades' = trades
      BY <1>1, <1>2, <2>2
    <3>2. cost = 0 /\ net = 0 /\ buys = 0
      BY <1>1, <3>1 DEF Signed
    <3>3. /\ NetCost(u)' = NetCost(u) /\ NetCost(u) \in Int
          /\ NetSize(u, t)' = NetSize(u, t) /\ NetSize(u, t) \in Int
          /\ Bought(u, t)' = Bought(u, t) /\ Bought(u, t) \in Int
      BY <3>1, SameNet, MoneyTypes, TokenTypes
    <3> HIDE DEF cost, net, buys
    <3> QED
      BY <3>2, <3>3
  <2> QED
    BY <2>1, <2>2
<1> HIDE DEF x, y, am, at, rm, rt, um, ut, hm, ht, tr, unfilled
<1>8. KeepsMoney(u)
  <2> HIDE DEF cost, net, buys
  <2>1. /\ collateral[u] \in Nat /\ funded[u] \in Int
        /\ HeldMoney(Live, u) \in Nat /\ NetCost(u) \in Int
    BY MoneyTypes
  <2>2. collateral \in [Users -> Nat]
    BY DEF Rows, AccountsTypeOK
  <2>3. NetCost(u)' = NetCost(u) + (IF x = u THEN cost ELSE 0)
    BY <1>1, <1>7
  <2>4. CASE x = u
    <3>1. /\ collateral'[u] = collateral[u] - am + (rm - cost) + um
          /\ HeldMoney(Live, u)' = HeldMoney(Live, u) + hm
          /\ NetCost(u)' = NetCost(u) + cost
          /\ funded'[u] = funded[u]
      BY <1>2, <1>3, <1>6, <2>2, <2>3, <2>4
    <3> QED
      BY <1>3, <1>4, <1>5, <2>1, <3>1 DEF KeepsMoney, Money
  <2>5. CASE x # u
    <3>1. /\ collateral'[u] = collateral[u]
          /\ HeldMoney(Live, u)' = HeldMoney(Live, u) + 0
          /\ NetCost(u)' = NetCost(u) + 0
          /\ funded'[u] = funded[u]
      BY <1>1, <1>2, <1>6, <2>2, <2>3, <2>5
    <3> QED
      BY <2>1, <3>1 DEF KeepsMoney, Money
  <2> QED
    BY <2>4, <2>5
<1>9. ASSUME NEW t \in Tokens PROVE TradesSome(u, t)
  <2>1. /\ conditional[u][t] \in Nat /\ position[u][t] \in Nat
        /\ HeldTokens(Live, u, t) \in Nat /\ NetSize(u, t) \in Int
        /\ Bought(u, t) \in Nat
    BY TokenTypes
  <2>2. /\ conditional \in [Users -> [Tokens -> Nat]]
        /\ position \in [Users -> [Tokens -> Nat]]
    BY DEF Rows, AccountsTypeOK
  <2>3. CASE x = u /\ y = t
    <3>1. /\ NetSize(u, t)' = NetSize(u, t) + net
          /\ Bought(u, t)' = Bought(u, t) + buys
          /\ HeldTokens(Live, u, t)' = HeldTokens(Live, u, t) + ht
      BY <1>6, <1>7, <2>3
    <3>2. /\ conditional'[u][t] = conditional[u][t] + (rt + net + ut - at)
          /\ position'[u][t] = PositionAfter(position[u][t], o.side, fill.size)
      <4> HIDE DEF net
      <4> QED
        BY <1>2, <1>3, <2>2, <2>3
    <3>3. Backing(u, t)' = Backing(u, t) + net
      <4> HIDE DEF net
      <4> QED
        BY <1>3, <1>4, <1>5, <2>1, <3>1, <3>2 DEF Backing
    <3>4. Trades(u, t, o.side, fill.size)
      BY <3>1, <3>2, <3>3 DEF Trades
    <3> QED
      BY <1>1, <3>4 DEF TradesSome
  <2>4. CASE ~(x = u /\ y = t)
    <3>1. /\ NetSize(u, t)' = NetSize(u, t) + 0
          /\ Bought(u, t)' = Bought(u, t) + 0
          /\ HeldTokens(Live, u, t)' = HeldTokens(Live, u, t) + 0
      BY <1>6, <1>7, <2>4
    <3>2. /\ conditional'[u][t] = conditional[u][t]
          /\ position'[u][t] = position[u][t]
      BY <1>1, <1>2, <2>2, <2>4
    <3> QED
      BY <2>1, <3>1, <3>2, TradesNone DEF Backing
  <2> QED
    BY <2>3, <2>4
<1> QED
  BY <1>8, <1>9

-----------------------------------------------------------------------------
(* The specification.                                                      *)

\* Every step of the specification is one of five transactions on the tables.
LEMMA AccountSteps ==
  ASSUME Inv, [Next]_vars
  PROVE  \/ \E u \in Users, a \in Amounts : Deposit(u, a) \/ Withdraw(u, a)
         \/ \E o, fill : AppliesOrder(o, fill)
         \/ \E C : C \subseteq Live /\ CancelAndRefund(C)
         \/ \E i \in Live : \E fill : AppliesFill(i, fill)
         \/ UNCHANGED accounts
<1>1. CASE Fund
  BY <1>1 DEF Fund
<1>2. CASE Place
  BY <1>2, PlaceStep DEF Place
<1>3. CASE Cancel
  BY <1>3 DEF Cancel, CancelOrder, CancelOrdersByFilter
<1>4. CASE \E t \in Tokens : CloseBook(t)
  BY <1>4 DEF CloseBook
<1>5. CASE \E w \in Workers : Tick(w)
  <2>1. PICK w \in Workers : Tick(w)
    BY <1>5
  <2>2. CASE TickStart(w) \/ TickAbort(w)
    BY <2>2 DEF TickStart, TickAbort
  <2>3. CASE \E t \in Tokens : Fetch(w, t)
    BY <2>3 DEF Fetch, FetchBook, FetchFails, FetchNotFound
  <2>4. CASE TakeOrder(w)
    <3>1. PICK r \in snapshot[w] :
             SkipOrder(w, r) \/ \E f : ExecuteFill(w, r, f)
      BY <2>4 DEF TakeOrder
    <3>2. CASE SkipOrder(w, r)
      BY <3>2 DEF SkipOrder
    <3>3. CASE \E f : ExecuteFill(w, r, f)
      BY <3>3, FillStep
    <3> QED
      BY <3>1, <3>2, <3>3
  <2> QED
    BY <2>1, <2>2, <2>3, <2>4 DEF Tick
<1>6. CASE UNCHANGED vars
  BY <1>6 DEF vars
<1> QED
  BY <1>1, <1>2, <1>3, <1>4, <1>5, <1>6 DEF Next

\* Whatever a step is, money only comes from outside, and tokens, positions
\* and trades move together.
LEMMA StepMoves ==
  ASSUME Inv, [Next]_vars, NEW u \in Users
  PROVE  KeepsMoney(u) /\ \A t \in Tokens : TradesSome(u, t)
<1>1. Rows
  BY DEF Inv
<1>2. CASE \E x \in Users, a \in Amounts : Deposit(x, a) \/ Withdraw(x, a)
  BY <1>1, <1>2, FundMoves
<1>3. CASE \E o, fill : AppliesOrder(o, fill)
  BY <1>1, <1>3, PlaceMoves
<1>4. CASE \E C : C \subseteq Live /\ CancelAndRefund(C)
  BY <1>1, <1>4, CancelMoves
<1>5. CASE \E i \in Live : \E fill : AppliesFill(i, fill)
  BY <1>1, <1>5, FillMoves
<1>6. CASE UNCHANGED accounts
  <2>1. UNCHANGED <<collateral, conditional, position, funded>>
        /\ orders' = orders /\ trades' = trades
    BY <1>6 DEF accounts
  <2>2. KeepsMoney(u)
    BY <1>1, <2>1, SameHeld, SameNet, MoneyTypes DEF KeepsMoney, Money
  <2>3. ASSUME NEW t \in Tokens PROVE TradesSome(u, t)
    BY <1>1, <2>1, SameHeld, SameNet, TradesNone DEF Backing
  <2> QED
    BY <2>2, <2>3
<1> QED
  BY <1>2, <1>3, <1>4, <1>5, <1>6, AccountSteps

Balanced == Conservation /\ HoldingsBacked /\ PositionIsNetSize

LEMMA BalancedInit == Init => Balanced
<1> SUFFICES ASSUME Init PROVE Balanced
  OBVIOUS
<1>1. ASSUME NEW u \in Users
      PROVE  collateral[u] = InitialBalance /\ funded[u] = InitialBalance
  BY DEF Init
<1>2. ASSUME NEW u \in Users, NEW t \in Tokens
      PROVE  conditional[u][t] = 0 /\ position[u][t] = 0
  BY DEF Init
<1>3. Len(orders) = 0 /\ Len(trades) = 0
  BY DEF Init
<1>4. \A f : SumTo(f, 0) = 0
  BY SumToZero
<1>5. \A u, t : /\ HeldMoney(Live, u) = 0 /\ NetCost(u) = 0
                /\ HeldTokens(Live, u, t) = 0 /\ NetSize(u, t) = 0
  BY <1>3, <1>4 DEF HeldMoney, NetCost, HeldTokens, NetSize
<1>6. InitialBalance \in Nat
  BY AmountsAssumption
<1> QED
  BY <1>1, <1>2, <1>5, <1>6
     DEF Balanced, Conservation, HoldingsBacked, PositionIsNetSize

\* The position does not clamp, because what backs it does not go below zero.
LEMMA BalancedNext ==
  ASSUME Inv, Counted, Counted', Balanced, [Next]_vars
  PROVE  Balanced'
<1>1. ASSUME NEW u \in Users
      PROVE  collateral'[u] + HeldMoney(Live, u)' + NetCost(u)' = funded'[u]
  <2>1. /\ collateral[u] \in Nat /\ HeldMoney(Live, u) \in Nat
        /\ NetCost(u) \in Int /\ funded[u] \in Int
        /\ collateral'[u] \in Nat /\ HeldMoney(Live, u)' \in Nat
        /\ NetCost(u)' \in Int /\ funded'[u] \in Int
    BY DEF Counted
  <2>2. collateral[u] + HeldMoney(Live, u) + NetCost(u) = funded[u]
    BY DEF Balanced, Conservation
  <2>3. Money(u)' - Money(u) = funded'[u] - funded[u]
    BY StepMoves DEF KeepsMoney
  <2>4. /\ Money(u) = collateral[u] + HeldMoney(Live, u) + NetCost(u)
        /\ Money(u)' = collateral'[u] + HeldMoney(Live, u)' + NetCost(u)'
    BY DEF Money
  <2> QED
    BY <2>1, <2>2, <2>3, <2>4
<1>2. ASSUME NEW u \in Users, NEW t \in Tokens
      PROVE  /\ position'[u][t] = conditional'[u][t] + HeldTokens(Live, u, t)'
             /\ position'[u][t] = NetSize(u, t)'
  <2>1. /\ conditional[u][t] \in Nat /\ HeldTokens(Live, u, t) \in Nat
        /\ position[u][t] \in Nat /\ NetSize(u, t) \in Int
        /\ conditional'[u][t] \in Nat /\ HeldTokens(Live, u, t)' \in Nat
    BY DEF Counted
  <2>2. /\ position[u][t] = conditional[u][t] + HeldTokens(Live, u, t)
        /\ position[u][t] = NetSize(u, t)
    BY DEF Balanced, HoldingsBacked, PositionIsNetSize
  <2>3. PICK side \in Sides, n \in Nat : Trades(u, t, side, n)
    BY StepMoves DEF TradesSome
  <2>4. Signed(side, n) = IF side = "BUY" THEN n ELSE 0 - n
    BY DEF Signed
  <2>5. /\ Backing(u, t)' = Backing(u, t) + Signed(side, n)
        /\ position'[u][t] = PositionAfter(position[u][t], side, n)
        /\ NetSize(u, t)' = NetSize(u, t) + Signed(side, n)
    BY <2>3 DEF Trades
  <2>6. side = "SELL" => n <= position[u][t]
    BY <2>1, <2>2, <2>4, <2>5 DEF Backing
  <2>7. position'[u][t] = position[u][t] + Signed(side, n)
    BY <2>1, <2>5, <2>6, PositionMoves
  <2> QED
    BY <2>1, <2>2, <2>4, <2>5, <2>7 DEF Backing
<1> QED
  BY <1>1, <1>2 DEF Balanced, Conservation, HoldingsBacked, PositionIsNetSize

THEOREM BalancedAlways == Spec => []Balanced
<1>1. Init => Balanced
  BY BalancedInit
<1>2. Inv /\ Counted /\ Counted' /\ Balanced /\ [Next]_vars => Balanced'
  BY BalancedNext
<1> QED
  BY <1>1, <1>2, AllCounted, Invariance, PTL DEF Spec

\* No money appears or vanishes, for any number of users, orders and workers.
THEOREM MoneyConserved == Spec => []Conservation
<1>1. Balanced => Conservation
  BY DEF Balanced
<1> QED
  BY <1>1, BalancedAlways, PTL

\* Every token of a position is in the wallet or reserved by a LIVE SELL.
THEOREM TokensBacked == Spec => []HoldingsBacked
<1>1. Balanced => HoldingsBacked
  BY DEF Balanced
<1> QED
  BY <1>1, BalancedAlways, PTL

\* The position is the net size of the trades: updatePosition never clamps.
THEOREM PositionsMatchTrades == Spec => []PositionIsNetSize
<1>1. Balanced => PositionIsNetSize
  BY DEF Balanced
<1> QED
  BY <1>1, BalancedAlways, PTL

-----------------------------------------------------------------------------
(* Closed orders.                                                          *)

LEMMA ClosedStep ==
  ASSUME Inv, [Next]_vars, NEW i \in DOMAIN orders, i \notin Live
  PROVE  orders'[i] = orders[i]
<1>1. /\ Len(orders) \in Nat /\ DOMAIN orders = 1..Len(orders)
  BY DEF Inv, Rows, AccountsTypeOK
<1>2. CASE \E u \in Users, a \in Amounts : Deposit(u, a) \/ Withdraw(u, a)
  BY <1>2 DEF Deposit, Withdraw
<1>3. CASE \E o, fill : AppliesOrder(o, fill)
  <2>1. PICK o : orders' = Append(orders, o)
    BY <1>3 DEF AppliesOrder
  <2> QED
    BY <1>1, <2>1
<1>4. CASE \E C : C \subseteq Live /\ CancelAndRefund(C)
  BY <1>4 DEF CancelAndRefund, Cancels
<1>5. CASE \E j \in Live : \E fill : AppliesFill(j, fill)
  BY <1>5 DEF AppliesFill
<1>6. CASE UNCHANGED accounts
  BY <1>6 DEF accounts
<1> QED
  BY <1>2, <1>3, <1>4, <1>5, <1>6, AccountSteps

\* An order that is MATCHED or CANCELED never changes again, however old the
\* snapshot is from which a worker tries to fill it.
THEOREM ClosedStayClosed == Spec => ClosedOrdersFrozen
<1>1. Inv /\ [Next]_vars
         => [\A i \in DOMAIN orders \ Live : orders'[i] = orders[i]]_vars
  BY ClosedStep
<1> QED
  BY <1>1, Invariance, PTL DEF Spec, ClosedOrdersFrozen

-----------------------------------------------------------------------------
(* Trades and size_matched.                                                *)

\* The term of Traded.
TradedTerm(i, k) == IF trades[k].order = i THEN trades[k].size ELSE 0

\* A trade's order exists; its key names that order and a size the order has
\* reached since.
TradesFit ==
    \A k \in DOMAIN trades :
        /\ trades[k].order \in DOMAIN orders
        /\ \/ trades[k].key = <<>>
           \/ \E m \in Nat \ {0} : /\ trades[k].key = <<trades[k].order, m>>
                                   /\ m <= orders[trades[k].order].matched

History == TradesFit /\ MatchedIsTraded /\ FillKeysDistinct

LEMMA TradedAppend ==
  ASSUME Rows, NEW tr, trades' = Append(trades, tr), tr.size \in Nat, NEW i
  PROVE  /\ Traded(i) \in Int
         /\ Traded(i)' = Traded(i) + (IF tr.order = i THEN tr.size ELSE 0)
<1> DEFINE n == Len(trades)
           f == [k \in DOMAIN trades |-> TradedTerm(i, k)]
           g == [k \in 1..(n + 1) |-> TradedTerm(i, k)']
<1>1. /\ n \in Nat /\ DOMAIN trades = 1..n
      /\ DOMAIN trades' = 1..(n + 1) /\ Len(trades') = n + 1
      /\ trades'[n + 1] = tr
      /\ \A k \in 1..n : trades'[k] = trades[k]
  BY DEF Rows, AccountsTypeOK
<1>2. \A k \in 1..n : g[k] = f[k]
  BY <1>1 DEF TradedTerm
<1>3. g[n + 1] = IF tr.order = i THEN tr.size ELSE 0
  BY <1>1 DEF TradedTerm
<1>4. Traded(i) = SumTo(f, n) /\ Traded(i)' = SumTo(g, n + 1)
  BY <1>1 DEF Traded, TradedTerm
<1>5. \A k \in 1..n : f[k] \in Int
  <2>1. \A k \in DOMAIN trades : trades[k] \in Trade
    BY DEF Rows, AccountsTypeOK
  <2>2. \A k \in DOMAIN trades : trades[k].size \in Nat
    BY <2>1 DEF Trade
  <2> QED
    BY <1>1, <2>2 DEF TradedTerm
<1> HIDE DEF n, f, g
<1>6. SumTo(g, n + 1) = SumTo(f, n) + g[n + 1]
  <2>1. n \in Nat
    BY <1>1
  <2> QED
    BY <1>2, <2>1, SumToAppend
<1>7. SumTo(f, n) \in Int
  BY <1>1, <1>5, SumToInt
<1> QED
  BY <1>3, <1>4, <1>6, <1>7

\* Nothing was traded for an order that does not exist yet.
LEMMA NotTraded ==
  ASSUME Rows, TradesFit, NEW i, i \notin DOMAIN orders
  PROVE  Traded(i) = 0
<1> DEFINE f == [k \in DOMAIN trades |->
                    IF trades[k].order = i THEN trades[k].size ELSE 0]
<1>1. Len(trades) \in Nat /\ DOMAIN trades = 1..Len(trades)
  BY DEF Rows, AccountsTypeOK
<1>2. \A k \in 1..Len(trades) : f[k] = 0
  BY <1>1 DEF TradesFit
<1>3. Traded(i) = SumTo(f, Len(trades))
  BY DEF Traded
<1> HIDE DEF f
<1> QED
  BY <1>1, <1>2, <1>3, SumToZero

\* A step without a trade keeps the history when no order's size_matched
\* moves; an order that is new was not filled.
LEMMA SameHistory ==
  ASSUME Rows, History, trades' = trades, DOMAIN orders \subseteq DOMAIN orders',
         \A i \in DOMAIN orders : orders'[i].matched = orders[i].matched,
         \A i \in DOMAIN orders' \ DOMAIN orders : orders'[i].matched = 0
  PROVE  History'
<1>1. TradesFit'
  BY DEF History, TradesFit
<1>2. \A i : Traded(i)' = Traded(i)
  BY DEF Traded
<1>3. ASSUME NEW i \in DOMAIN orders' PROVE orders'[i].matched = Traded(i)'
  <2>1. CASE i \in DOMAIN orders
    BY <1>2, <2>1 DEF History, MatchedIsTraded
  <2>2. CASE i \notin DOMAIN orders
    <3>1. Traded(i) = 0
      BY <2>2, NotTraded DEF History
    <3> QED
      BY <1>2, <2>2, <3>1
  <2> QED
    BY <2>1, <2>2
<1>4. FillKeysDistinct'
  BY DEF History, FillKeysDistinct
<1> QED
  BY <1>1, <1>3, <1>4 DEF History, MatchedIsTraded

\* A step with a trade keeps it when the order's size_matched grows by the
\* trade's size and the key, if there is one, names the new size_matched.
LEMMA TradeHistory ==
  ASSUME Rows, History, NEW tr, trades' = Append(trades, tr),
         tr.size \in Nat \ {0},
         DOMAIN orders \subseteq DOMAIN orders', tr.order \in DOMAIN orders',
         \A i \in DOMAIN orders : orders'[i].matched
             = orders[i].matched + (IF tr.order = i THEN tr.size ELSE 0),
         \A i \in DOMAIN orders' \ DOMAIN orders : orders'[i].matched
             = IF tr.order = i THEN tr.size ELSE 0,
         \/ tr.key = <<>>
         \/ /\ tr.order \in DOMAIN orders
            /\ tr.key = <<tr.order, orders[tr.order].matched + tr.size>>
  PROVE  History'
<1> DEFINE n == Len(trades)
<1>1. /\ n \in Nat /\ DOMAIN trades = 1..n /\ DOMAIN trades' = 1..(n + 1)
      /\ trades'[n + 1] = tr
      /\ \A k \in 1..n : trades'[k] = trades[k]
  BY DEF Rows, AccountsTypeOK
<1>2. \A i \in DOMAIN orders : orders[i].matched \in Nat
  BY OrderFields DEF Rows
<1> HIDE DEF n
<1>3. TradesFit'
  <2> SUFFICES ASSUME NEW k \in DOMAIN trades'
               PROVE  /\ trades'[k].order \in DOMAIN orders'
                      /\ \/ trades'[k].key = <<>>
                         \/ \E m \in Nat \ {0} :
                               /\ trades'[k].key = <<trades'[k].order, m>>
                               /\ m <= orders'[trades'[k].order].matched
    BY DEF TradesFit
  <2>1. CASE k \in 1..n
    <3> DEFINE i == trades[k].order
    <3>1. i \in DOMAIN orders /\ trades'[k] = trades[k]
      BY <1>1, <2>1 DEF History, TradesFit
    <3>2. orders[i].matched <= orders'[i].matched /\ orders[i].matched \in Nat
          /\ orders'[i].matched \in Nat
      BY <1>2, <3>1
    <3>3. \/ trades[k].key = <<>>
          \/ \E m \in Nat \ {0} : /\ trades[k].key = <<i, m>>
                                  /\ m <= orders[i].matched
      BY <1>1, <2>1 DEF History, TradesFit
    <3> HIDE DEF i
    <3>4. \A m \in Nat \ {0} : m <= orders[i].matched => m <= orders'[i].matched
      BY <3>2
    <3> QED
      BY <3>1, <3>3, <3>4 DEF i
  <2>2. CASE k = n + 1
    <3>1. CASE tr.key = <<>>
      BY <1>1, <2>2, <3>1
    <3>2. CASE tr.key # <<>>
      <4> DEFINE m == orders[tr.order].matched + tr.size
      <4>1. /\ tr.order \in DOMAIN orders /\ tr.key = <<tr.order, m>>
        BY <3>2
      <4>2. m \in Nat \ {0} /\ orders'[tr.order].matched = m
        BY <1>2, <4>1
      <4> HIDE DEF m
      <4>3. m <= orders'[tr.order].matched
        BY <4>2
      <4> QED
        BY <1>1, <2>2, <4>1, <4>2, <4>3
    <3> QED
      BY <3>1, <3>2
  <2> QED
    BY <1>1, <2>1, <2>2
<1>4. MatchedIsTraded'
  <2> SUFFICES ASSUME NEW i \in DOMAIN orders' PROVE orders'[i].matched = Traded(i)'
    BY DEF MatchedIsTraded
  <2>1. /\ Traded(i) \in Int
        /\ Traded(i)' = Traded(i) + (IF tr.order = i THEN tr.size ELSE 0)
    BY TradedAppend
  <2>2. CASE i \in DOMAIN orders
    BY <2>1, <2>2 DEF History, MatchedIsTraded
  <2>3. CASE i \notin DOMAIN orders
    <3>1. Traded(i) = 0
      BY <2>3, NotTraded DEF History
    <3> QED
      BY <2>1, <2>3, <3>1
  <2> QED
    BY <2>2, <2>3
<1>5. ASSUME NEW k \in 1..n, tr.key # <<>> PROVE trades[k].key # tr.key
  <2> DEFINE i == tr.order
             m == orders[i].matched + tr.size
  <2>1. i \in DOMAIN orders /\ tr.key = <<i, m>>
    BY <1>5
  <2>2. orders[i].matched \in Nat /\ ~(m <= orders[i].matched)
    BY <1>2, <2>1
  <2>3. \/ trades[k].key = <<>>
        \/ \E l \in Nat \ {0} : /\ trades[k].key = <<trades[k].order, l>>
                                /\ l <= orders[trades[k].order].matched
    BY <1>1 DEF History, TradesFit
  <2> HIDE DEF i, m
  <2>4. CASE trades[k].key = <<>>
    BY <1>5, <2>4
  <2>5. ASSUME NEW l \in Nat \ {0}, trades[k].key = <<trades[k].order, l>>,
               l <= orders[trades[k].order].matched,
               trades[k].key = tr.key
        PROVE  FALSE
    <3>1. trades[k].order = i /\ l = m
      BY <2>1, <2>5
    <3> QED
      BY <2>2, <2>5, <3>1
  <2> QED
    BY <2>3, <2>4, <2>5
<1>6. FillKeysDistinct'
  <2> SUFFICES ASSUME NEW j \in DOMAIN trades', NEW k \in DOMAIN trades',
                      j # k, trades'[j].key # <<>>
               PROVE  trades'[j].key # trades'[k].key
    BY DEF FillKeysDistinct
  <2>1. CASE j \in 1..n /\ k \in 1..n
    BY <1>1, <2>1 DEF History, FillKeysDistinct
  <2>2. CASE j = n + 1 /\ k \in 1..n
    BY <1>1, <1>5, <2>2
  <2>3. CASE j \in 1..n /\ k = n + 1
    BY <1>1, <1>5, <2>3
  <2> QED
    BY <1>1, <2>1, <2>2, <2>3
<1> QED
  BY <1>3, <1>4, <1>6 DEF History

LEMMA HistoryNext == Inv /\ History /\ [Next]_vars => History'
<1> SUFFICES ASSUME Inv, History, [Next]_vars PROVE History'
  OBVIOUS
<1>1. /\ Rows /\ Len(orders) \in Nat /\ DOMAIN orders = 1..Len(orders)
  BY DEF Inv, Rows, AccountsTypeOK
<1>2. CASE \E u \in Users, a \in Amounts : Deposit(u, a) \/ Withdraw(u, a)
  <2>1. orders' = orders /\ trades' = trades
    BY <1>2 DEF Deposit, Withdraw
  <2> QED
    BY <1>1, <2>1, SameHistory
<1>3. CASE \E o, fill : AppliesOrder(o, fill)
  <2> DEFINE n == Len(orders)
  <2>1. PICK o, fill : AppliesOrder(o, fill)
    BY <1>3
  <2> DEFINE tr == TradeOf(n + 1, o, fill, <<>>)
  <2>2. /\ orders' = Append(orders, o)
        /\ trades' = IF fill.size > 0 THEN Append(trades, tr) ELSE trades
        /\ o.matched = fill.size /\ fill.size \in Nat
    BY <2>1 DEF AppliesOrder
  <2>3. /\ DOMAIN orders' = 1..(n + 1) /\ orders'[n + 1] = o
        /\ \A i \in DOMAIN orders : orders'[i] = orders[i]
    BY <1>1, <2>2
  <2>4. \A i \in DOMAIN orders : orders[i].matched \in Nat
    BY <1>1, OrderFields DEF Rows
  <2>5. tr.order = n + 1 /\ tr.size = fill.size /\ tr.key = <<>>
    BY DEF TradeOf
  <2> HIDE DEF tr
  <2>6. CASE fill.size > 0
    <3>1. \A i \in DOMAIN orders : orders'[i].matched
             = orders[i].matched + (IF tr.order = i THEN tr.size ELSE 0)
      BY <1>1, <2>3, <2>4, <2>5
    <3>2. \A i \in DOMAIN orders' \ DOMAIN orders : orders'[i].matched
             = IF tr.order = i THEN tr.size ELSE 0
      BY <1>1, <2>2, <2>3, <2>5
    <3>3. /\ trades' = Append(trades, tr) /\ tr.size \in Nat \ {0}
          /\ DOMAIN orders \subseteq DOMAIN orders'
          /\ tr.order \in DOMAIN orders'
      BY <1>1, <2>2, <2>3, <2>5, <2>6
    <3> QED
      BY <1>1, <2>5, <3>1, <3>2, <3>3, TradeHistory
  <2>7. CASE ~(fill.size > 0)
    <3>1. trades' = trades /\ o.matched = 0
      BY <2>2, <2>7
    <3> QED
      BY <1>1, <2>3, <3>1, SameHistory
  <2> QED
    BY <2>6, <2>7
<1>4. CASE \E C : C \subseteq Live /\ CancelAndRefund(C)
  <2>1. PICK C : C \subseteq Live /\ CancelAndRefund(C)
    BY <1>4
  <2>2. trades' = trades /\ DOMAIN orders' = DOMAIN orders
    BY <1>1, <2>1 DEF CancelAndRefund, Cancels
  <2>3. \A i \in DOMAIN orders : orders'[i].matched = orders[i].matched
    BY <1>1, <2>1, OrderFields DEF CancelAndRefund, Cancels, Rows, Order
  <2> QED
    BY <1>1, <2>2, <2>3, SameHistory
<1>5. CASE \E i \in Live : \E fill : AppliesFill(i, fill)
  <2>1. PICK i \in Live : \E fill : AppliesFill(i, fill)
    BY <1>5
  <2>2. PICK fill : AppliesFill(i, fill)
    BY <2>1
  <2> DEFINE total == orders[i].matched + fill.size
             tr    == TradeOf(i, orders[i], fill, <<i, total>>)
  <2>3. /\ trades' = Append(trades, tr) /\ fill.size \in Nat \ {0}
        /\ DOMAIN orders' = DOMAIN orders /\ i \in DOMAIN orders
    BY <2>2 DEF AppliesFill, Live
  <2>4. \A j \in DOMAIN orders : orders'[j].matched
           = IF j = i THEN total ELSE orders[j].matched
    BY <1>1, <2>2, OrderFields DEF AppliesFill, Rows, Order
  <2>5. \A j \in DOMAIN orders : orders[j].matched \in Nat
    BY <1>1, OrderFields DEF Rows
  <2>6. tr.order = i /\ tr.size = fill.size /\ tr.key = <<i, total>>
    BY DEF TradeOf
  <2> HIDE DEF tr
  <2>7. \A j \in DOMAIN orders : orders'[j].matched
           = orders[j].matched + (IF tr.order = j THEN tr.size ELSE 0)
    BY <2>3, <2>4, <2>5, <2>6
  <2> QED
    BY <1>1, <2>3, <2>6, <2>7, TradeHistory
<1>6. CASE UNCHANGED accounts
  <2>1. orders' = orders /\ trades' = trades
    BY <1>6 DEF accounts
  <2> QED
    BY <1>1, <2>1, SameHistory
<1> QED
  BY <1>2, <1>3, <1>4, <1>5, <1>6, AccountSteps

LEMMA HistoryAlways == Spec => []History
<1>1. Init => History
  BY DEF Init, History, TradesFit, MatchedIsTraded, FillKeysDistinct
<1> QED
  BY <1>1, HistoryNext, Invariance, PTL DEF Spec

\* An order's size_matched is what its trades add up to, whatever the workers'
\* snapshots said of it.
THEOREM MatchedEqualsTrades == Spec => []MatchedIsTraded
<1>1. History => MatchedIsTraded
  BY DEF History
<1> QED
  BY <1>1, HistoryAlways, PTL

\* No two worker trades have the same fill key, so the UNIQUE constraint never
\* refuses a fill.
THEOREM FillKeysNeverCollide == Spec => []FillKeysDistinct
<1>1. History => FillKeysDistinct
  BY DEF History
<1> QED
  BY <1>1, HistoryAlways, PTL

-----------------------------------------------------------------------------
(* Every account is a vault: the sums of money agree by Conservation,      *)
(* before and after each step.                                             *)

Accounted == Inv /\ Conservation /\ Counted

LEMMA AccountedAlways == Spec => []Accounted
<1> QED
  BY AllCounted, Invariance, MoneyConserved, PTL DEF Accounted

LEMMA VaultInit ==
  ASSUME Init, NEW u \in Users
  PROVE  Vault(u)!Init
<1>1. collateral[u] = InitialBalance /\ funded[u] = InitialBalance
  BY DEF Init
<1>2. Len(orders) = 0 /\ Len(trades) = 0
  BY DEF Init
<1>3. HeldMoney(Live, u) = 0 /\ NetCost(u) = 0
  BY <1>2, SumToZero DEF HeldMoney, NetCost
<1> QED
  BY <1>1, <1>3, AmountsAssumption DEF Vault!Init

\* The two sums over a step, and their types.
LEMMA MoneySums ==
  ASSUME Accounted, Accounted', NEW u \in Users
  PROVE  /\ collateral[u] + HeldMoney(Live, u) + NetCost(u) = funded[u]
         /\ collateral'[u] + HeldMoney(Live, u)' + NetCost(u)' = funded'[u]
         /\ collateral[u] \in Nat /\ funded[u] \in Int
         /\ HeldMoney(Live, u) \in Nat /\ NetCost(u) \in Int
         /\ collateral'[u] \in Nat /\ funded'[u] \in Int
         /\ HeldMoney(Live, u)' \in Nat /\ NetCost(u)' \in Int
BY DEF Accounted, Conservation, Counted

LEMMA VaultFund ==
  ASSUME Accounted, Accounted', NEW u \in Users,
         NEW x \in Users, NEW a \in Amounts, Deposit(x, a) \/ Withdraw(x, a)
  PROVE  Vault(u)!Fund
<1>1. orders' = orders /\ trades' = trades
  BY DEF Deposit, Withdraw
<1>2. HeldMoney(Live, u)' = HeldMoney(Live, u) /\ NetCost(u)' = NetCost(u)
  BY <1>1, SameHeld, SameNet
<1> QED
  BY <1>2, MoneySums DEF Vault!Fund

LEMMA VaultReserve ==
  ASSUME Accounted, Accounted', NEW u \in Users,
         NEW o, NEW fill, AppliesOrder(o, fill)
  PROVE  Vault(u)!Reserve
<1>1. Rows
  BY DEF Accounted, Inv
<1>2. /\ o.size \in Nat /\ o.price \in Nat /\ fill.size \in Nat
      /\ o.matched = fill.size /\ fill.size <= o.size /\ funded' = funded
  BY DEF AppliesOrder
<1>3. Remaining(o) \in Nat
  BY <1>2 DEF Remaining
<1>4. ReservedCollateral(o, Remaining(o)) \in Nat
  BY <1>2, <1>3, Product DEF ReservedCollateral
<1>5. HeldMoney(Live, u)' = HeldMoney(Live, u)
         + (IF o.status = "LIVE" /\ o.user = u
            THEN ReservedCollateral(o, Remaining(o)) ELSE 0)
  BY <1>1, PlaceHeld
<1>6. HeldMoney(Live, u)' >= HeldMoney(Live, u)
  BY <1>4, <1>5, MoneySums
<1> QED
  BY <1>2, <1>6, MoneySums DEF Vault!Reserve

LEMMA VaultSpend ==
  ASSUME Accounted, Accounted', NEW u \in Users,
         NEW i \in Live, NEW fill, AppliesFill(i, fill)
  PROVE  Vault(u)!Spend
<1>1. Rows /\ i \in DOMAIN orders
  BY DEF Accounted, Inv, Live
<1>2. /\ fill.size \in Nat /\ fill.price \in Nat
      /\ orders[i].side = "BUY" => fill.price <= orders[i].price
      /\ collateral' = [collateral EXCEPT ![orders[i].user] =
                           @ + FillCollateral(orders[i], fill)]
      /\ funded' = funded
  BY DEF AppliesFill
<1>3. ReservedCollateral(orders[i], fill.size) \in Nat
  BY <1>1, <1>2, ReservedNat DEF Rows
<1>4. FillCollateral(orders[i], fill) \in Nat
  <2>1. orders[i].price \in Nat
    BY <1>1, OrderFields DEF Rows
  <2>2. CASE orders[i].side = "BUY"
    <3>1. orders[i].price - fill.price \in Nat
      BY <1>2, <2>1, <2>2
    <3> QED
      BY <1>2, <2>2, <3>1, Product DEF FillCollateral
  <2>3. CASE orders[i].side # "BUY"
    BY <1>2, <2>3, Product DEF FillCollateral
  <2> QED
    BY <2>2, <2>3
<1>5. HeldMoney(Live, u)' = HeldMoney(Live, u)
         - (IF orders[i].user = u
            THEN ReservedCollateral(orders[i], fill.size) ELSE 0)
  BY <1>1, FillHeld
<1>6. collateral \in [Users -> Nat]
  BY <1>1 DEF Rows, AccountsTypeOK
<1>7. collateral'[u] = collateral[u]
         + (IF orders[i].user = u THEN FillCollateral(orders[i], fill) ELSE 0)
  BY <1>2, <1>6, MoneySums
<1>8. /\ collateral'[u] >= collateral[u]
      /\ HeldMoney(Live, u)' <= HeldMoney(Live, u)
  BY <1>3, <1>4, <1>5, <1>7, MoneySums
<1> QED
  BY <1>2, <1>8, MoneySums DEF Vault!Spend

LEMMA VaultRelease ==
  ASSUME Accounted, Accounted', NEW u \in Users,
         NEW C, C \subseteq Live, CancelAndRefund(C)
  PROVE  Vault(u)!Release
<1>1. Rows
  BY DEF Accounted, Inv
<1>2. HeldMoney(C, u) \in Nat
  BY <1>1, HeldNat DEF Rows
<1>3. HeldMoney(Live, u)' = HeldMoney(Live, u) - HeldMoney(C, u)
  BY <1>1, CancelHeld DEF CancelAndRefund
<1>4. /\ collateral'[u] = collateral[u] + HeldMoney(C, u)
      /\ NetCost(u)' = NetCost(u) /\ funded'[u] = funded[u]
  BY SameNet DEF CancelAndRefund
<1> QED
  BY <1>2, <1>3, <1>4, MoneySums DEF Vault!Release

LEMMA VaultStep ==
  ASSUME Accounted, Accounted', [Next]_vars, NEW u \in Users
  PROVE  Vault(u)!Next \/ UNCHANGED Vault(u)!vars
<1>1. Inv
  BY DEF Accounted
<1>2. CASE \E x \in Users, a \in Amounts : Deposit(x, a) \/ Withdraw(x, a)
  BY <1>2, VaultFund DEF Vault!Next
<1>3. CASE \E o, fill : AppliesOrder(o, fill)
  BY <1>3, VaultReserve DEF Vault!Next
<1>4. CASE \E C : C \subseteq Live /\ CancelAndRefund(C)
  BY <1>4, VaultRelease DEF Vault!Next
<1>5. CASE \E i \in Live : \E fill : AppliesFill(i, fill)
  BY <1>5, VaultSpend DEF Vault!Next
<1>6. CASE UNCHANGED accounts
  <2>1. orders' = orders /\ trades' = trades /\ collateral' = collateral
        /\ funded' = funded
    BY <1>6 DEF accounts
  <2> QED
    BY <2>1, SameHeld, SameNet DEF Vault!vars
<1> QED
  BY <1>1, <1>2, <1>3, <1>4, <1>5, <1>6, AccountSteps

\* Every account is a vault: whatever users, workers and closing markets do,
\* nobody's money moves in any other way.
THEOREM LedgerImplementsVault == Spec => \A u \in Users : Vault(u)!Spec
<1> SUFFICES ASSUME NEW u \in Users PROVE Spec => Vault(u)!Spec
  OBVIOUS
<1>1. Init => Vault(u)!Init
  BY VaultInit
<1>2. Accounted /\ Accounted' /\ [Next]_vars
         => [Vault(u)!Next]_(Vault(u)!vars)
  BY VaultStep
<1> QED
  BY <1>1, <1>2, AccountedAlways, PTL DEF Spec, Vault!Spec

\* The same for all accounts at once: every transaction is, for each of them,
\* a step of its vault or none.
THEOREM AccountsStayVaults == Spec => AccountsAreVaults
<1>1. Init => \A u \in Users : Vault(u)!Init
  BY VaultInit
<1>2. Accounted /\ Accounted' /\ [Next]_vars
         => \A u \in Users : [Vault(u)!Next]_(Vault(u)!vars)
  BY VaultStep
<1> QED
  BY <1>1, <1>2, AccountedAlways, PTL DEF Spec, AccountsAreVaults

=============================================================================
