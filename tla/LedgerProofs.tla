---------------------------- MODULE LedgerProofs ----------------------------
(***************************************************************************)
(* Proofs about Ledger for every set of users, tokens, workers, sizes and  *)
(* prices and every number of orders.                                      *)
(***************************************************************************)
EXTENDS Ledger, SumsProofs

\* The inductive invariant of the first theorems: sizes and balances can only
\* stay natural numbers if no order is overfilled, and no order is overfilled
\* because only LIVE, hence unfilled, orders are filled.  Rows is about the
\* tables, Ticks about the workers.
Rows  == AccountsTypeOK /\ MatchedFits /\ StatusFollowsType
Ticks == WorkerTypeOK /\ SnapshotExists
Inv   == Rows /\ Ticks

LEMMA Product == \A a, b \in Nat : a * b \in Nat
  OBVIOUS

\* The fields of a row of the orders table.
LEMMA OrderFields ==
  ASSUME AccountsTypeOK, NEW i \in DOMAIN orders
  PROVE  /\ i \in Nat \ {0} /\ i \in 1..Len(orders)
         /\ orders[i] \in Order
         /\ orders[i].user \in Users /\ orders[i].token \in Tokens
         /\ orders[i].side \in Sides /\ orders[i].type \in OrderTypes
         /\ orders[i].price \in Nat \ {0} /\ orders[i].price \in Prices
         /\ orders[i].size \in Nat \ {0} /\ orders[i].size \in Sizes
         /\ orders[i].matched \in Nat
         /\ orders[i].status \in {"LIVE", "MATCHED", "CANCELED"}
<1>1. i \in 1..Len(orders) /\ Len(orders) \in Nat /\ orders[i] \in Order
  BY DEF AccountsTypeOK
<1>2. i \in Nat \ {0}
  BY <1>1
<1>3. /\ orders[i].user \in Users /\ orders[i].token \in Tokens
      /\ orders[i].side \in Sides /\ orders[i].type \in OrderTypes
      /\ orders[i].price \in Prices /\ orders[i].size \in Sizes
      /\ orders[i].matched \in Nat
      /\ orders[i].status \in {"LIVE", "MATCHED", "CANCELED"}
  BY <1>1 DEF Order
<1>4. orders[i].price \in Nat \ {0} /\ orders[i].size \in Nat \ {0}
  BY <1>3, AmountsAssumption
<1> QED
  BY <1>1, <1>2, <1>3, <1>4

\* What an unfilled part holds is a natural number.
LEMMA ReservedNat ==
  ASSUME AccountsTypeOK, NEW i \in DOMAIN orders, NEW n \in Nat
  PROVE  /\ ReservedCollateral(orders[i], n) \in Nat
         /\ ReservedConditional(orders[i], n) \in Nat
BY OrderFields, Product DEF ReservedCollateral, ReservedConditional

LEMMA HeldNat ==
  ASSUME AccountsTypeOK, MatchedFits, NEW S, NEW u, NEW t
  PROVE  HeldMoney(S, u) \in Nat /\ HeldTokens(S, u, t) \in Nat
<1>1. \A i \in DOMAIN orders : Remaining(orders[i]) \in Nat
  BY OrderFields DEF MatchedFits, Remaining
<1>2. Len(orders) \in Nat /\ DOMAIN orders = 1..Len(orders)
  BY DEF AccountsTypeOK
<1> DEFINE f == [i \in DOMAIN orders |->
              IF i \in S /\ orders[i].user = u
              THEN ReservedCollateral(orders[i], Remaining(orders[i]))
              ELSE 0]
           g == [i \in DOMAIN orders |->
              IF i \in S /\ orders[i].user = u /\ orders[i].token = t
              THEN ReservedConditional(orders[i], Remaining(orders[i]))
              ELSE 0]
<1>3. \A i \in 1..Len(orders) : f[i] \in Nat /\ g[i] \in Nat
  BY <1>1, <1>2, ReservedNat
<1>4. SumTo(f, Len(orders)) \in Nat /\ SumTo(g, Len(orders)) \in Nat
  <2> HIDE DEF f, g
  <2> QED
    BY <1>2, <1>3, SumToNat
<1> QED
  BY <1>4 DEF HeldMoney, HeldTokens

LEMMA InvInit == Init => Inv
<1> SUFFICES ASSUME Init PROVE Inv
  OBVIOUS
<1>1. DOMAIN orders = {}
  BY DEF Init
<1>2. Rows
  BY <1>1, AmountsAssumption
     DEF Init, Rows, AccountsTypeOK, MatchedFits, StatusFollowsType
<1>3. Ticks
  BY <1>1 DEF Init, Ticks, WorkerTypeOK, SnapshotExists
<1> QED
  BY <1>2, <1>3 DEF Inv

-----------------------------------------------------------------------------
(* The tables.                                                             *)

\* Canceling LIVE orders keeps the orders table in order: a canceled order is
\* one that was not full.
LEMMA CancelOrders ==
  ASSUME Rows, NEW C, C \subseteq Live, Cancels(C)
  PROVE  /\ orders' \in Seq(Order) /\ DOMAIN orders' = DOMAIN orders
         /\ MatchedFits' /\ StatusFollowsType'
<1> USE DEF Rows
<1>1. /\ Len(orders) \in Nat /\ DOMAIN orders = 1..Len(orders)
      /\ DOMAIN orders' = DOMAIN orders
  BY DEF Cancels, AccountsTypeOK
<1>2. \A i \in DOMAIN orders :
          orders'[i] = IF i \in C THEN [orders[i] EXCEPT !.status = "CANCELED"]
                                 ELSE orders[i]
  BY DEF Cancels
<1>3. \A i \in DOMAIN orders : orders'[i] \in Order
  <2> TAKE i \in DOMAIN orders
  <2>1. orders[i] \in Order
    BY OrderFields
  <2> QED
    BY <1>2, <2>1 DEF Order
<1>4. orders' \in Seq(Order)
  BY <1>1, <1>3 DEF Cancels
<1>5. ASSUME NEW i \in DOMAIN orders
      PROVE  /\ orders'[i].matched = orders[i].matched
             /\ orders'[i].size = orders[i].size
             /\ orders'[i].type = orders[i].type
             /\ orders'[i].status = IF i \in C THEN "CANCELED"
                                              ELSE orders[i].status
  BY <1>2, OrderFields DEF Order
<1>6. MatchedFits'
  BY <1>1, <1>5 DEF MatchedFits
<1>7. StatusFollowsType'
  <2> SUFFICES ASSUME NEW i \in DOMAIN orders
               PROVE  /\ orders'[i].status = "LIVE" =>
                            orders'[i].type \in {"GTC", "GTD"}
                      /\ orders'[i].type = "FOK" =>
                            orders'[i].status = "MATCHED"
                      /\ orders'[i].status = "MATCHED" <=>
                            orders'[i].matched = orders'[i].size
    BY <1>1 DEF StatusFollowsType
  <2>1. i \in C => orders[i].status = "LIVE"
    BY DEF Live
  <2> QED
    BY <1>5, <2>1 DEF StatusFollowsType
<1> QED
  BY <1>1, <1>4, <1>6, <1>7

\* What is given back was held, so the wallets stay typed as well.
LEMMA CancelKeepsRows ==
  ASSUME Rows, NEW C, C \subseteq Live, CancelAndRefund(C)
  PROVE  Rows' /\ DOMAIN orders' = DOMAIN orders
<1> USE DEF Rows
<1>1. /\ orders' \in Seq(Order) /\ DOMAIN orders' = DOMAIN orders
      /\ MatchedFits' /\ StatusFollowsType'
  BY CancelOrders DEF CancelAndRefund
<1>2. /\ collateral' \in [Users -> Nat]
      /\ conditional' \in [Users -> [Tokens -> Nat]]
  <2>1. ASSUME NEW u \in Users
        PROVE  collateral[u] + HeldMoney(C, u) \in Nat
    <3>1. collateral[u] \in Nat /\ HeldMoney(C, u) \in Nat
      BY HeldNat DEF AccountsTypeOK
    <3> QED
      BY <3>1
  <2>2. ASSUME NEW u \in Users, NEW t \in Tokens
        PROVE  conditional[u][t] + HeldTokens(C, u, t) \in Nat
    <3>1. conditional[u][t] \in Nat /\ HeldTokens(C, u, t) \in Nat
      BY HeldNat DEF AccountsTypeOK
    <3> QED
      BY <3>1
  <2> QED
    BY <2>1, <2>2 DEF CancelAndRefund
<1>3. AccountsTypeOK'
  BY <1>1, <1>2 DEF CancelAndRefund, AccountsTypeOK
<1> QED
  BY <1>1, <1>3

\* Writing a natural number into one wallet or position keeps the table typed.
LEMMA UpdateNat ==
  ASSUME NEW u \in Users, NEW t \in Tokens, NEW n \in Nat
  PROVE  /\ \A f \in [Users -> Nat] : [f EXCEPT ![u] = n] \in [Users -> Nat]
         /\ \A f \in [Users -> [Tokens -> Nat]] :
               [f EXCEPT ![u][t] = n] \in [Users -> [Tokens -> Nat]]
OBVIOUS

\* A fill at a price no worse than the limit pays into the wallets only.
LEMMA FillNat ==
  ASSUME NEW o, NEW fill, o.price \in Nat, fill.size \in Nat, fill.price \in Nat,
         o.side = "BUY" /\ fill.size # 0 => fill.price <= o.price
  PROVE  FillCollateral(o, fill) \in Nat /\ FillConditional(o, fill) \in Nat
<1>1. CASE o.side = "BUY"
  <2>1. CASE fill.size = 0
    BY <1>1, <2>1 DEF FillCollateral, FillConditional
  <2>2. CASE fill.size # 0
    <3>1. o.price - fill.price \in Nat
      BY <1>1, <2>2
    <3>2. (o.price - fill.price) * fill.size \in Nat
      BY <3>1, Product
    <3> QED
      BY <1>1, <3>2 DEF FillCollateral, FillConditional
  <2> QED
    BY <2>1, <2>2
<1>2. CASE o.side # "BUY"
  BY <1>2, Product DEF FillCollateral, FillConditional
<1> QED
  BY <1>1, <1>2

LEMMA PositionNat ==
  ASSUME NEW held \in Nat, NEW side, NEW size \in Nat
  PROVE  PositionAfter(held, side, size) \in Nat
BY DEF PositionAfter

\* What executeFill does to the amounts: the capped fill is not empty, fits into
\* the order and is no worse than its limit.
LEMMA CappedFill ==
  ASSUME Rows, NEW i \in Live, NEW m \in Nat, NEW found,
         found \in Fills(orders[i].side, orders[i].price, orders[i].size - m),
         NEW fill,
         fill = Capped(orders[i], found)
  PROVE  /\ fill.size \in Nat \ {0}
         /\ fill.price \in Prices
         /\ fill.size <= Remaining(orders[i])
         /\ orders[i].side = "BUY" => fill.price <= orders[i].price
         /\ orders[i].matched + fill.size \in Nat
         /\ orders[i].matched + fill.size <= orders[i].size
<1>1. i \in DOMAIN orders /\ orders[i].status = "LIVE"
  BY DEF Live
<1>2. /\ orders[i].size \in Nat /\ orders[i].matched \in Nat
      /\ orders[i].matched < orders[i].size
  BY <1>1, OrderFields DEF Rows, MatchedFits, StatusFollowsType
<1>3. /\ found \in [size : 1..(orders[i].size - m), price : Prices]
      /\ orders[i].side = "BUY" => found.price <= orders[i].price
  BY DEF Fills
<1>4. /\ fill.price = found.price /\ found.price \in Prices
      /\ found.size \in Nat \ {0}
      /\ fill.size = IF found.size > Remaining(orders[i])
                     THEN Remaining(orders[i]) ELSE found.size
  BY <1>2, <1>3 DEF Capped
<1> QED
  BY <1>2, <1>3, <1>4 DEF Remaining

\* What a fill of the LIVE order i does to the tables.
AppliesFill(i, fill) ==
    LET o     == orders[i]
        total == o.matched + fill.size
    IN  /\ fill.size \in Nat \ {0} /\ fill.price \in Prices
        /\ fill.price \in Nat
        /\ fill.size <= Remaining(o)
        /\ o.side = "BUY" => fill.price <= o.price
        /\ orders' = [orders EXCEPT ![i] =
                         [o EXCEPT !.matched = total,
                                   !.status = IF total = o.size
                                              THEN "MATCHED" ELSE "LIVE"]]
        /\ trades' = Append(trades, TradeOf(i, o, fill, <<i, total>>))
        /\ collateral' = [collateral EXCEPT ![o.user] =
                             @ + FillCollateral(o, fill)]
        /\ conditional' = [conditional EXCEPT ![o.user][o.token] =
                             @ + FillConditional(o, fill)]
        /\ position' = [position EXCEPT ![o.user][o.token] =
                             PositionAfter(@, o.side, fill.size)]
        /\ funded' = funded

\* The worker's transaction is such a fill, whatever its snapshot says.
LEMMA FillStep ==
  ASSUME Inv, NEW w \in Workers, NEW r \in snapshot[w], NEW found,
         ExecuteFill(w, r, found)
  PROVE  \E i \in Live : \E fill : AppliesFill(i, fill)
<1> DEFINE i     == r.id
           o     == orders[i]
           fill  == Capped(o, found)
           total == o.matched + fill.size
<1>1. i \in DOMAIN orders /\ i \in Live /\ r.matched \in Nat
  BY DEF Inv, Ticks, WorkerTypeOK, SnapshotExists, ExecuteFill, Fillable, Live
<1>2. found \in Fills(o.side, o.price, o.size - r.matched)
  BY DEF ExecuteFill
<1>3. /\ fill.size \in Nat \ {0} /\ fill.price \in Prices
      /\ fill.size <= Remaining(o)
      /\ o.side = "BUY" => fill.price <= o.price
      /\ total \in Nat /\ total <= o.size
  BY <1>1, <1>2, CappedFill DEF Inv
<1>4. fill.price \in Nat
  BY <1>3, AmountsAssumption
<1>5. o.size \in Nat
  BY <1>1, OrderFields DEF Inv, Rows
<1>6. (IF total >= o.size THEN "MATCHED" ELSE "LIVE")
        = IF total = o.size THEN "MATCHED" ELSE "LIVE"
  BY <1>3, <1>5
<1>7. /\ orders' = [orders EXCEPT ![i].matched = total,
                                  ![i].status = IF total >= o.size
                                                THEN "MATCHED" ELSE "LIVE"]
      /\ trades' = Append(trades, TradeOf(i, o, fill, <<i, total>>))
      /\ collateral' = [collateral EXCEPT ![o.user] =
                           @ + FillCollateral(o, fill)]
      /\ conditional' = [conditional EXCEPT ![o.user][o.token] =
                           @ + FillConditional(o, fill)]
      /\ position' = [position EXCEPT ![o.user][o.token] =
                           PositionAfter(@, o.side, fill.size)]
      /\ funded' = funded
  BY DEF ExecuteFill, Credit, MatchedAfter, FillKey
<1> HIDE DEF fill, total
<1>8. orders' = [orders EXCEPT ![i] =
                    [o EXCEPT !.matched = total,
                              !.status = IF total = o.size
                                         THEN "MATCHED" ELSE "LIVE"]]
  BY <1>6, <1>7
<1>9. AppliesFill(i, fill)
  BY <1>3, <1>4, <1>7, <1>8 DEF AppliesFill, total
<1> QED
  BY <1>1, <1>9

\* A fill keeps the tables in order.
LEMMA FillRows ==
  ASSUME Rows, NEW i \in Live, NEW fill, AppliesFill(i, fill)
  PROVE  Rows' /\ DOMAIN orders' = DOMAIN orders
<1> DEFINE o     == orders[i]
           total == o.matched + fill.size
           done  == IF total = o.size THEN "MATCHED" ELSE "LIVE"
<1> USE DEF Rows
<1>1. i \in DOMAIN orders /\ orders[i].status = "LIVE"
  BY DEF Live
<1>2. /\ o \in Order /\ o.user \in Users /\ o.token \in Tokens
      /\ o.price \in Nat /\ o.side \in Sides /\ i \in Nat \ {0}
      /\ o.size \in Nat /\ o.matched \in Nat
      /\ Len(orders) \in Nat /\ DOMAIN orders = 1..Len(orders)
  BY <1>1, OrderFields DEF AccountsTypeOK
<1>3. /\ fill.size \in Nat \ {0} /\ fill.price \in Prices
      /\ fill.price \in Nat
      /\ o.side = "BUY" => fill.price <= o.price
      /\ total \in Nat /\ total <= o.size
  <2>1. /\ fill.size \in Nat \ {0} /\ fill.price \in Prices
        /\ fill.price \in Nat /\ fill.size <= Remaining(o)
        /\ o.side = "BUY" => fill.price <= o.price
    BY DEF AppliesFill
  <2> QED
    BY <1>2, <2>1 DEF Remaining
<1>4. /\ orders' = [orders EXCEPT ![i] =
                       [o EXCEPT !.matched = total, !.status = done]]
      /\ trades' = Append(trades, TradeOf(i, o, fill, <<i, total>>))
      /\ collateral' = [collateral EXCEPT ![o.user] =
                           @ + FillCollateral(o, fill)]
      /\ conditional' = [conditional EXCEPT ![o.user][o.token] =
                           @ + FillConditional(o, fill)]
      /\ position' = [position EXCEPT ![o.user][o.token] =
                           PositionAfter(@, o.side, fill.size)]
      /\ funded' = funded
  BY DEF AppliesFill
<1> HIDE DEF total, done
<1>5. orders' \in Seq(Order) /\ DOMAIN orders' = DOMAIN orders
  <2>1. orders \in Seq(Order)
    BY DEF AccountsTypeOK
  <2>2. done \in {"LIVE", "MATCHED", "CANCELED"}
    BY DEF done
  <2>3. [o EXCEPT !.matched = total, !.status = done] \in Order
    BY <1>3, <1>2, <2>2 DEF Order
  <2> HIDE DEF o
  <2> QED
    BY <1>1, <1>4, <2>1, <2>3
<1>6. trades' \in Seq(Trade)
  <2>1. TradeOf(i, o, fill, <<i, total>>) \in Trade
    BY <1>3, <1>2 DEF TradeOf, Trade
  <2> QED
    BY <1>4, <2>1 DEF AccountsTypeOK
<1>7. /\ collateral' \in [Users -> Nat]
      /\ conditional' \in [Users -> [Tokens -> Nat]]
  <2>1. FillCollateral(o, fill) \in Nat /\ FillConditional(o, fill) \in Nat
    BY <1>3, <1>2, FillNat
  <2>2. /\ collateral \in [Users -> Nat]
        /\ conditional \in [Users -> [Tokens -> Nat]]
    BY DEF AccountsTypeOK
  <2> HIDE DEF o
  <2>3. /\ collateral[o.user] + FillCollateral(o, fill) \in Nat
        /\ conditional[o.user][o.token] + FillConditional(o, fill) \in Nat
    <3>1. collateral[o.user] \in Nat /\ conditional[o.user][o.token] \in Nat
      BY <1>2, <2>2
    <3> QED
      BY <2>1, <3>1
  <2> QED
    BY <1>2, <1>4, <2>2, <2>3, UpdateNat
<1>8. position' \in [Users -> [Tokens -> Nat]]
  <2>1. position[o.user][o.token] \in Nat
    BY <1>2 DEF AccountsTypeOK
  <2>2. PositionAfter(position[o.user][o.token], o.side, fill.size) \in Nat
    BY <1>3, <2>1, PositionNat
  <2> QED
    BY <1>2, <1>4, <2>2 DEF AccountsTypeOK
<1>9. AccountsTypeOK'
  BY <1>4, <1>5, <1>6, <1>7, <1>8 DEF AccountsTypeOK
<1>10. ASSUME NEW j \in DOMAIN orders
       PROVE  /\ orders'[j].size = orders[j].size
              /\ orders'[j].type = orders[j].type
              /\ orders'[j].matched = IF j = i THEN total ELSE orders[j].matched
              /\ orders'[j].status = IF j = i THEN done ELSE orders[j].status
  BY <1>1, <1>4, OrderFields DEF Order
<1>11. MatchedFits'
  BY <1>3, <1>5, <1>10 DEF MatchedFits
<1>12. StatusFollowsType'
  <2> SUFFICES ASSUME NEW j \in DOMAIN orders
               PROVE  /\ orders'[j].status = "LIVE" =>
                            orders'[j].type \in {"GTC", "GTD"}
                      /\ orders'[j].type = "FOK" =>
                            orders'[j].status = "MATCHED"
                      /\ orders'[j].status = "MATCHED" <=>
                            orders'[j].matched = orders'[j].size
    BY <1>5 DEF StatusFollowsType
  <2>1. orders[i].status = "LIVE"
    BY <1>1 DEF Live
  <2>2. i \in DOMAIN orders
    BY <1>1
  <2>3. done = "MATCHED" <=> total = o.size
    BY DEF done
  <2>4. done \in {"LIVE", "MATCHED"}
    BY DEF done
  <2> HIDE DEF o
  <2>5. CASE j = i
    BY <1>10, <2>1, <2>2, <2>3, <2>4, <2>5 DEF StatusFollowsType, o
  <2>6. CASE j # i
    BY <1>10, <2>6 DEF StatusFollowsType
  <2> QED
    BY <2>5, <2>6
<1> QED
  BY <1>5, <1>9, <1>11, <1>12

\* What determineInitialFill answers: a fill that fits, and a status that goes
\* with the order type.
LEMMA InitialFillProperties ==
  ASSUME NEW type \in OrderTypes, NEW side \in Sides, NEW price \in Prices,
         NEW size \in Sizes,
         NEW answer \in {NoFill} \cup Fills(side, price, size),
         NEW init, init = InitialFill(type, size, answer),
         ~(type = "FOK" /\ init.status = "CANCELED")
  PROVE  /\ init.fill.size \in Nat /\ init.fill.size <= size
         /\ init.fill.price \in Nat
         /\ init.fill.size # 0 => init.fill.price \in Prices
         /\ side = "BUY" => init.fill.price <= price
         /\ init.status \in {"LIVE", "MATCHED", "CANCELED"}
         /\ init.status = "LIVE" => type \in {"GTC", "GTD"}
         /\ type = "FOK" => init.status = "MATCHED"
         /\ init.status = "CANCELED" => type = "FAK"
         /\ init.status = "MATCHED" <=> init.fill.size = size
<1>1. size \in Nat \ {0} /\ price \in Nat \ {0}
  BY AmountsAssumption
<1>2. /\ answer.size \in Nat /\ answer.size <= size /\ answer.price \in Nat
      /\ answer.size # 0 => answer.price \in Prices
      /\ side = "BUY" => answer.price <= price
  <2>1. CASE answer = NoFill
    BY <1>1, <2>1 DEF NoFill
  <2>2. CASE answer \in Fills(side, price, size)
    <3>1. /\ answer \in [size : 1..size, price : Prices]
          /\ side = "BUY" => answer.price <= price
      BY <2>2 DEF Fills
    <3>2. answer.size \in 1..size /\ answer.price \in Prices
      BY <3>1
    <3>3. answer.price \in Nat
      BY <3>2, AmountsAssumption
    <3> QED
      BY <1>1, <3>1, <3>2, <3>3
  <2> QED
    BY <2>1, <2>2
<1>3. type \in {"GTC", "GTD", "FOK", "FAK"}
  BY NamesAssumption
<1>4. \/ init = [status |-> "MATCHED", fill |-> answer] /\ answer.size = size
      \/ /\ init = [status |-> "CANCELED", fill |-> answer]
         /\ answer.size # size /\ type = "FAK"
      \/ /\ init = [status |-> "LIVE", fill |-> answer]
         /\ answer.size # size /\ type \in {"GTC", "GTD"}
  BY <1>3 DEF InitialFill
<1> QED
  BY <1>1, <1>2, <1>4

\* What the request for the order o, filled at once by fill, does to the tables.
AppliesOrder(o, fill) ==
    LET u == o.user
        t == o.token
        unfilled == IF o.status = "CANCELED" THEN o.size - fill.size ELSE 0
    IN  /\ o \in Order /\ o.size \in Nat \ {0} /\ o.price \in Nat \ {0}
        /\ o.matched = fill.size /\ fill.size <= o.size
        /\ fill.size \in Nat /\ fill.price \in Nat
        /\ fill.size # 0 => fill.price \in Prices
        /\ o.side = "BUY" => fill.price <= o.price
        /\ o.status = "LIVE" => o.type \in {"GTC", "GTD"}
        /\ o.type = "FOK" => o.status = "MATCHED"
        /\ o.status = "MATCHED" <=> fill.size = o.size
        /\ collateral[u] >= ReservedCollateral(o, o.size)
        /\ conditional[u][t] >= ReservedConditional(o, o.size)
        /\ orders' = Append(orders, o)
        /\ trades' = IF fill.size > 0
                     THEN Append(trades, TradeOf(Len(orders) + 1, o, fill, <<>>))
                     ELSE trades
        /\ collateral' = [collateral EXCEPT ![u] =
                             @ - ReservedCollateral(o, o.size)
                               + FillCollateral(o, fill)
                               + ReservedCollateral(o, unfilled)]
        /\ conditional' = [conditional EXCEPT ![u][t] =
                             @ + (FillConditional(o, fill)
                                    + ReservedConditional(o, unfilled)
                                    - ReservedConditional(o, o.size))]
        /\ position' = [position EXCEPT ![u][t] =
                           PositionAfter(@, o.side, fill.size)]
        /\ funded' = funded

LEMMA PlaceStep ==
  ASSUME NEW u \in Users, NEW t \in Tokens, NEW side \in Sides,
         NEW type \in OrderTypes, NEW price \in Prices, NEW size \in Sizes,
         NEW salt \in Salts,
         NEW answer \in {NoFill} \cup Fills(side, price, size),
         PlaceOrder(u, t, side, type, price, size, salt, answer)
  PROVE  \E o, fill : AppliesOrder(o, fill)
<1> DEFINE init == InitialFill(type, size, answer)
           fill == init.fill
           o    == [user |-> u, token |-> t, side |-> side, type |-> type,
                    price |-> price, size |-> size, salt |-> salt,
                    matched |-> fill.size, status |-> init.status]
           unfilled == IF type = "FAK" /\ init.status = "CANCELED"
                       THEN size - fill.size ELSE 0
<1>1. /\ ~(type = "FOK" /\ init.status = "CANCELED")
      /\ collateral[u] >= ReservedCollateral(o, size)
      /\ conditional[u][t] >= ReservedConditional(o, size)
      /\ orders' = Append(orders, o)
      /\ trades' = IF fill.size > 0
                   THEN Append(trades, TradeOf(Len(orders) + 1, o, fill, <<>>))
                   ELSE trades
      /\ collateral' = [collateral EXCEPT ![u] =
                           @ - ReservedCollateral(o, size)
                             + FillCollateral(o, fill)
                             + ReservedCollateral(o, unfilled)]
      /\ conditional' = [conditional EXCEPT ![u][t] =
                           @ + (FillConditional(o, fill)
                                  + ReservedConditional(o, unfilled)
                                  - ReservedConditional(o, size))]
      /\ position' = [position EXCEPT ![u][t] =
                         PositionAfter(@, side, fill.size)]
      /\ funded' = funded
  BY DEF PlaceOrder, Credit, Affordable
<1>2. /\ fill.size \in Nat /\ fill.size <= size /\ fill.price \in Nat
      /\ fill.size # 0 => fill.price \in Prices
      /\ side = "BUY" => fill.price <= price
      /\ init.status \in {"LIVE", "MATCHED", "CANCELED"}
      /\ init.status = "LIVE" => type \in {"GTC", "GTD"}
      /\ type = "FOK" => init.status = "MATCHED"
      /\ init.status = "CANCELED" => type = "FAK"
      /\ init.status = "MATCHED" <=> fill.size = size
  <2> HIDE DEF init
  <2> QED
    BY <1>1, InitialFillProperties DEF init
<1> HIDE DEF init, fill
<1>3. size \in Nat \ {0} /\ price \in Nat \ {0}
  BY AmountsAssumption
<1>4. o \in Order
  BY <1>2 DEF Order
<1>5. /\ o.user = u /\ o.token = t /\ o.side = side /\ o.price = price
      /\ o.type = type /\ o.size = size /\ o.matched = fill.size
      /\ o.status = init.status
  OBVIOUS
<1>6. unfilled = IF o.status = "CANCELED" THEN o.size - fill.size ELSE 0
  BY <1>2, <1>5
<1> HIDE DEF o, unfilled
<1>7. AppliesOrder(o, fill)
  BY <1>1, <1>2, <1>3, <1>4, <1>5, <1>6 DEF AppliesOrder
<1> QED
  BY <1>7

\* An order request keeps the tables in order: what is debited was in the
\* wallet, and a fill or the refund of a FAK order only credits.
LEMMA PlaceRows ==
  ASSUME Rows, NEW o, NEW fill, AppliesOrder(o, fill)
  PROVE  Rows' /\ DOMAIN orders \subseteq DOMAIN orders'
<1> DEFINE u    == o.user
           t    == o.token
           size == o.size
           unfilled == IF o.status = "CANCELED" THEN o.size - fill.size ELSE 0
<1>1. /\ collateral[u] >= ReservedCollateral(o, size)
      /\ conditional[u][t] >= ReservedConditional(o, size)
      /\ orders' = Append(orders, o)
      /\ trades' = IF fill.size > 0
                   THEN Append(trades, TradeOf(Len(orders) + 1, o, fill, <<>>))
                   ELSE trades
      /\ collateral' = [collateral EXCEPT ![u] =
                           @ - ReservedCollateral(o, size)
                             + FillCollateral(o, fill)
                             + ReservedCollateral(o, unfilled)]
      /\ conditional' = [conditional EXCEPT ![u][t] =
                           @ + (FillConditional(o, fill)
                                  + ReservedConditional(o, unfilled)
                                  - ReservedConditional(o, size))]
      /\ position' = [position EXCEPT ![u][t] =
                         PositionAfter(@, o.side, fill.size)]
      /\ funded' = funded
  BY DEF AppliesOrder
<1>2. /\ fill.size \in Nat /\ fill.size <= size /\ fill.price \in Nat
      /\ fill.size # 0 => fill.price \in Prices
      /\ o.side = "BUY" => fill.price <= o.price
      /\ o.status = "LIVE" => o.type \in {"GTC", "GTD"}
      /\ o.type = "FOK" => o.status = "MATCHED"
      /\ o.status = "MATCHED" <=> fill.size = size
      /\ o.matched = fill.size
  BY DEF AppliesOrder
<1>3. size \in Nat \ {0} /\ o.price \in Nat \ {0}
  BY DEF AppliesOrder
<1>4. unfilled \in Nat
  BY <1>2, <1>3
<1>5. o \in Order
  BY DEF AppliesOrder
<1>6. u \in Users /\ t \in Tokens /\ o.side \in Sides
  BY <1>5 DEF Order
<1> HIDE DEF u, t, size, unfilled
<1>7. /\ orders \in Seq(Order) /\ trades \in Seq(Trade)
      /\ collateral \in [Users -> Nat]
      /\ conditional \in [Users -> [Tokens -> Nat]]
      /\ position \in [Users -> [Tokens -> Nat]]
      /\ funded \in [Users -> Int]
  BY DEF Rows, AccountsTypeOK
<1>8. /\ FillCollateral(o, fill) \in Nat /\ FillConditional(o, fill) \in Nat
      /\ ReservedCollateral(o, size) \in Nat
      /\ ReservedCollateral(o, unfilled) \in Nat
      /\ ReservedConditional(o, size) \in Nat
      /\ ReservedConditional(o, unfilled) \in Nat
  BY <1>2, <1>3, <1>4, FillNat, Product
     DEF ReservedCollateral, ReservedConditional
<1>9. /\ collateral[u] >= ReservedCollateral(o, size)
      /\ conditional[u][t] >= ReservedConditional(o, size)
  BY <1>1
<1>10. collateral[u] \in Nat /\ conditional[u][t] \in Nat
  BY <1>6, <1>7
<1>11. collateral' \in [Users -> Nat]
  <2>1. collateral[u] - ReservedCollateral(o, size) + FillCollateral(o, fill)
          + ReservedCollateral(o, unfilled) \in Nat
    BY <1>8, <1>9, <1>10
  <2> QED
    BY <1>1, <1>6, <1>7, <2>1, UpdateNat
<1>12. conditional' \in [Users -> [Tokens -> Nat]]
  <2>1. conditional[u][t] + (FillConditional(o, fill)
          + ReservedConditional(o, unfilled)
          - ReservedConditional(o, size)) \in Nat
    BY <1>8, <1>9, <1>10
  <2> QED
    BY <1>1, <1>6, <1>7, <2>1, UpdateNat
<1>13. position' \in [Users -> [Tokens -> Nat]]
  <2>1. position[u][t] \in Nat
    BY <1>6, <1>7
  <2>2. PositionAfter(position[u][t], o.side, fill.size) \in Nat
    BY <1>2, <2>1, PositionNat
  <2> QED
    BY <1>1, <1>6, <1>7, <2>2, UpdateNat
<1>14. trades' \in Seq(Trade)
  <2>1. CASE fill.size > 0
    <3>1. Len(orders) + 1 \in Nat \ {0}
      BY <1>7
    <3>2. fill.size \in Nat \ {0} /\ fill.price \in Prices
      BY <1>2, <2>1
    <3>3. TradeOf(Len(orders) + 1, o, fill, <<>>) \in Trade
      BY <1>5, <3>1, <3>2 DEF TradeOf, Trade, Order
    <3> QED
      BY <1>1, <1>7, <2>1, <3>3
  <2>2. CASE ~(fill.size > 0)
    BY <1>1, <1>7, <2>2
  <2> QED
    BY <2>1, <2>2
<1>15. /\ orders' \in Seq(Order)
       /\ DOMAIN orders = 1..Len(orders) /\ Len(orders) \in Nat
       /\ DOMAIN orders' = 1..(Len(orders) + 1)
       /\ orders'[Len(orders) + 1] = o
       /\ \A i \in DOMAIN orders : orders'[i] = orders[i]
  BY <1>1, <1>5, <1>7
<1>16. AccountsTypeOK'
  BY <1>1, <1>7, <1>11, <1>12, <1>13, <1>14, <1>15 DEF AccountsTypeOK
<1>17. ASSUME NEW i \in DOMAIN orders'
       PROVE  i \in DOMAIN orders \/ orders'[i] = o
  BY <1>15
<1>18. MatchedFits'
  BY <1>2, <1>15, <1>17 DEF Rows, MatchedFits, size
<1>19. StatusFollowsType'
  BY <1>2, <1>15, <1>17 DEF Rows, StatusFollowsType, size
<1> QED
  BY <1>15, <1>16, <1>18, <1>19 DEF Rows

\* Deposits and withdrawals never overdraw.
LEMMA FundRows ==
  ASSUME Rows, NEW u \in Users, NEW a \in Amounts,
         Deposit(u, a) \/ Withdraw(u, a)
  PROVE  Rows' /\ orders' = orders
<1>1. a \in Nat \ {0}
  BY AmountsAssumption
<1>2. /\ collateral \in [Users -> Nat] /\ funded \in [Users -> Int]
      /\ collateral' \in [Users -> Nat] /\ funded' \in [Users -> Int]
  <2>1. collateral \in [Users -> Nat] /\ funded \in [Users -> Int]
    BY DEF Rows, AccountsTypeOK
  <2>2. CASE Deposit(u, a)
    BY <1>1, <2>1, <2>2 DEF Deposit
  <2>3. CASE Withdraw(u, a)
    BY <1>1, <2>1, <2>3 DEF Withdraw
  <2> QED
    BY <2>1, <2>2, <2>3
<1>3. UNCHANGED <<conditional, position, orders, trades>>
  BY DEF Deposit, Withdraw
<1> QED
  BY <1>2, <1>3
     DEF Rows, AccountsTypeOK, MatchedFits, StatusFollowsType, Remaining

-----------------------------------------------------------------------------
(* The workers.                                                            *)

\* Orders are never deleted, so a snapshot stays meaningful as it gets older.
LEMMA KeepTicks ==
  ASSUME Ticks, DOMAIN orders \subseteq DOMAIN orders', gone' \subseteq Tokens,
         snapshot' \in [Workers -> SUBSET [id : Nat \ {0}, matched : Nat]],
         \A w \in Workers : snapshot'[w] \subseteq snapshot[w],
         book' \in [Workers -> Tokens \cup {NoToken}]
  PROVE  Ticks'
BY DEF Ticks, WorkerTypeOK, SnapshotExists

LEMMA SnapshotShrinks ==
  ASSUME WorkerTypeOK, NEW w \in Workers, NEW D,
         snapshot' = [snapshot EXCEPT ![w] = @ \ D]
  PROVE  /\ snapshot' \in [Workers -> SUBSET [id : Nat \ {0}, matched : Nat]]
         /\ \A v \in Workers : snapshot'[v] \subseteq snapshot[v]
BY DEF WorkerTypeOK

LEMMA AdvanceTicks ==
  ASSUME Ticks, DOMAIN orders \subseteq DOMAIN orders', gone' = gone,
         NEW w \in Workers, NEW r, Advance(w, r)
  PROVE  Ticks'
<1>1. /\ snapshot' \in [Workers -> SUBSET [id : Nat \ {0}, matched : Nat]]
      /\ \A v \in Workers : snapshot'[v] \subseteq snapshot[v]
  BY SnapshotShrinks DEF Ticks, Advance
<1>2. book' \in [Workers -> Tokens \cup {NoToken}]
  BY DEF Ticks, WorkerTypeOK, Advance
<1> QED
  BY <1>1, <1>2, KeepTicks DEF Ticks, WorkerTypeOK

LEMMA SameRows ==
  ASSUME Rows, UNCHANGED accounts
  PROVE  Rows'
BY DEF accounts, Rows, AccountsTypeOK, MatchedFits, StatusFollowsType

LEMMA SameTicks ==
  ASSUME Ticks, UNCHANGED <<gone, worker>>,
         DOMAIN orders \subseteq DOMAIN orders'
  PROVE  Ticks'
BY DEF worker, Ticks, WorkerTypeOK, SnapshotExists

-----------------------------------------------------------------------------
(* The specification.                                                      *)

LEMMA InvFetch ==
  ASSUME Inv, NEW w \in Workers, NEW t \in Tokens, Fetch(w, t)
  PROVE  Inv'
<1> USE DEF Inv
<1>1. CASE FetchBook(w, t)
  <2>1. UNCHANGED accounts /\ UNCHANGED <<gone, snapshot>>
    BY <1>1 DEF FetchBook
  <2>2. book' \in [Workers -> Tokens \cup {NoToken}]
    BY <1>1 DEF FetchBook, Ticks, WorkerTypeOK
  <2> QED
    BY <2>1, <2>2, SameRows
       DEF accounts, Ticks, WorkerTypeOK, SnapshotExists
<1>2. CASE FetchFails(w, t)
  <2>1. UNCHANGED accounts /\ UNCHANGED <<gone, book>>
    BY <1>2 DEF FetchFails
  <2>2. snapshot' = [snapshot EXCEPT ![w] = @ \ SnapshotOf(w, t)]
    BY <1>2 DEF FetchFails
  <2>3. orders' = orders
    BY <2>1 DEF accounts
  <2>4. Ticks'
    BY <2>1, <2>2, <2>3, SnapshotShrinks, KeepTicks DEF Ticks, WorkerTypeOK
  <2> QED
    BY <2>1, <2>4, SameRows
<1>3. CASE FetchNotFound(w, t)
  <2>1. /\ \E n \in 0..Len(orders) :
              CancelAndRefund({i \in Live : i <= n /\ orders[i].token = t})
        /\ snapshot' = [snapshot EXCEPT ![w] = @ \ SnapshotOf(w, t)]
        /\ UNCHANGED <<gone, book>>
    BY <1>3 DEF FetchNotFound
  <2>2. Rows' /\ DOMAIN orders' = DOMAIN orders
    BY <2>1, CancelKeepsRows
  <2>3. Ticks'
    BY <2>1, <2>2, SnapshotShrinks, KeepTicks DEF Ticks, WorkerTypeOK
  <2> QED
    BY <2>2, <2>3
<1> QED
  BY <1>1, <1>2, <1>3 DEF Fetch

LEMMA InvTick ==
  ASSUME Inv, NEW w \in Workers, Tick(w)
  PROVE  Inv'
<1> USE DEF Inv
<1>1. CASE TickStart(w)
  <2>1. UNCHANGED accounts /\ UNCHANGED <<gone, book>>
    BY <1>1 DEF TickStart
  <2> DEFINE S == {[id |-> i, matched |-> orders[i].matched] : i \in Live}
  <2>2. S \in SUBSET [id : Nat \ {0}, matched : Nat]
    <3> SUFFICES ASSUME NEW i \in Live
                 PROVE  i \in Nat \ {0} /\ orders[i].matched \in Nat
      OBVIOUS
    <3> QED
      BY OrderFields DEF Live, Rows
  <2>3. \A r \in S : r.id \in DOMAIN orders
    BY DEF Live
  <2>4. snapshot' = [snapshot EXCEPT ![w] = S]
    BY <1>1 DEF TickStart
  <2> HIDE DEF S
  <2>5. Ticks'
    BY <2>1, <2>2, <2>3, <2>4
       DEF Ticks, WorkerTypeOK, SnapshotExists, accounts
  <2> QED
    BY <2>1, <2>5, SameRows
<1>2. CASE \E t \in Tokens : Fetch(w, t)
  BY <1>2, InvFetch
<1>3. CASE TakeOrder(w)
  <2>1. PICK r \in snapshot[w] :
           \/ SkipOrder(w, r)
           \/ \E f \in Fills(orders[r.id].side, orders[r.id].price,
                             orders[r.id].size - r.matched) :
                 ExecuteFill(w, r, f)
    BY <1>3 DEF TakeOrder
  <2>2. CASE SkipOrder(w, r)
    <3>1. UNCHANGED accounts /\ gone' = gone /\ Advance(w, r)
      BY <2>2 DEF SkipOrder
    <3> QED
      BY <3>1, AdvanceTicks, SameRows DEF accounts
  <2>3. ASSUME NEW f, ExecuteFill(w, r, f) PROVE Inv'
    <3>1. Rows' /\ DOMAIN orders' = DOMAIN orders
      BY <2>3, FillStep, FillRows
    <3>2. gone' = gone /\ Advance(w, r)
      BY <2>3 DEF ExecuteFill
    <3> QED
      BY <3>1, <3>2, AdvanceTicks
  <2> QED
    BY <2>1, <2>2, <2>3
<1>4. CASE TickAbort(w)
  <2>1. /\ UNCHANGED accounts /\ gone' = gone
        /\ snapshot' = [snapshot EXCEPT ![w] = {}]
        /\ book' = [book EXCEPT ![w] = NoToken]
    BY <1>4 DEF TickAbort
  <2>2. Ticks'
    BY <2>1 DEF Ticks, WorkerTypeOK, SnapshotExists, accounts
  <2> QED
    BY <2>1, <2>2, SameRows
<1> QED
  BY <1>1, <1>2, <1>3, <1>4 DEF Tick

LEMMA InvNext == Inv /\ [Next]_vars => Inv'
<1> SUFFICES ASSUME Inv, [Next]_vars PROVE Inv'
  OBVIOUS
<1> USE DEF Inv
<1>1. CASE Fund
  <2>1. PICK u \in Users, a \in Amounts : Deposit(u, a) \/ Withdraw(u, a)
    BY <1>1 DEF Fund
  <2>2. Rows' /\ orders' = orders
    BY <2>1, FundRows
  <2>3. UNCHANGED <<gone, worker>>
    BY <2>1 DEF Deposit, Withdraw
  <2> QED
    BY <2>2, <2>3, SameTicks
<1>2. CASE Place
  <2>1. PICK u \in Users, t \in Tokens, side \in Sides, type \in OrderTypes,
             price \in Prices, size \in Sizes, salt \in Salts :
           \E answer \in {NoFill} \cup Fills(side, price, size) :
              PlaceOrder(u, t, side, type, price, size, salt, answer)
    BY <1>2 DEF Place
  <2>2. PICK answer \in {NoFill} \cup Fills(side, price, size) :
           PlaceOrder(u, t, side, type, price, size, salt, answer)
    BY <2>1
  <2>3. Rows' /\ DOMAIN orders \subseteq DOMAIN orders'
    BY <2>2, PlaceStep, PlaceRows
  <2>4. UNCHANGED <<gone, worker>>
    BY <2>2 DEF PlaceOrder
  <2> QED
    BY <2>3, <2>4, SameTicks
<1>3. CASE Cancel
  <2>1. PICK C : /\ C \subseteq Live /\ CancelAndRefund(C)
                 /\ UNCHANGED <<gone, worker>>
    BY <1>3 DEF Cancel, CancelOrder, CancelOrdersByFilter
  <2>2. Rows' /\ DOMAIN orders' = DOMAIN orders
    BY <2>1, CancelKeepsRows
  <2> QED
    BY <2>1, <2>2, SameTicks
<1>4. CASE \E t \in Tokens : CloseBook(t)
  <2>1. UNCHANGED accounts /\ UNCHANGED worker /\ gone' \subseteq Tokens
    BY <1>4 DEF CloseBook, Ticks, WorkerTypeOK
  <2>2. Ticks'
    BY <2>1 DEF accounts, worker, Ticks, WorkerTypeOK, SnapshotExists
  <2> QED
    BY <2>1, <2>2, SameRows
<1>5. CASE \E w \in Workers : Tick(w)
  BY <1>5, InvTick
<1>6. CASE UNCHANGED vars
  BY <1>6, SameRows, SameTicks DEF vars, accounts
<1> QED
  BY <1>1, <1>2, <1>3, <1>4, <1>5, <1>6 DEF Next

\* The inductive invariant holds in every reachable state.
THEOREM Invariance == Spec => []Inv
<1> QED
  BY InvInit, InvNext, PTL DEF Spec

\* Balances, positions and order sizes are natural numbers in every reachable
\* state: no interleaving of requests and stale ticks overdraws a wallet.
THEOREM TypeCorrect == Spec => []TypeOK
<1>1. Inv => TypeOK
  BY DEF Inv, Rows, Ticks, TypeOK
<1> QED
  BY <1>1, Invariance, PTL

\* No order is overfilled, and snapshots only name orders that exist.
THEOREM FillsFitOrders == Spec => []FillsFit
<1>1. Inv => FillsFit
  BY DEF Inv, Rows, Ticks, FillsFit
<1> QED
  BY <1>1, Invariance, PTL

\* The status of every order goes with its type and with what was matched.
THEOREM StatusCorrect == Spec => []StatusFollowsType
<1>1. Inv => StatusFollowsType
  BY DEF Inv, Rows
<1> QED
  BY <1>1, Invariance, PTL

=============================================================================
