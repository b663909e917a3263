------------------------------- MODULE Ledger -------------------------------
(***************************************************************************)
(* The trading core of the server: the wallets, orders, trades and         *)
(* positions tables, the order service that writes them, and the matching  *)
(* worker that fills LIVE orders against the order books of Polymarket.    *)
(*                                                                         *)
(* One action is one database transaction.  What one transaction reads and *)
(* another one changes before it is used survives between actions: the     *)
(* worker's snapshot of the LIVE orders and the book it fetched for a      *)
(* token.  Several workers stand for several server processes on one       *)
(* database, the "overlapping ticks" the code guards against.              *)
(*                                                                         *)
(* Amounts are integers: sizes in units coarser than the code's 0.000001   *)
(* tolerance, prices in ticks, money in size times price.  The allowance   *)
(* column is left out: every statement moves it with the balance.          *)
(***************************************************************************)
EXTENDS Sums, Sequences

CONSTANTS
    Users,          \* registered accounts
    Tokens,         \* outcome tokens
    MarketOf,       \* the market of a token
    Salts,          \* salts of signed orders; bounds the orders of a user
    OrderTypes,     \* a subset of GTC, GTD, FOK, FAK
    Sizes, Prices,  \* order sizes, and limit and fill prices
    Amounts,        \* amounts deposited or withdrawn in one request
    InitialBalance, \* collateral of a new account
    MaxFunded,      \* bound: deposits stop when this much was put in
    Workers,        \* matching workers, one per server process
    NoToken         \* no order book is being worked on

ASSUME AmountsAssumption ==
    /\ Sizes \subseteq Nat \ {0}
    /\ Prices \subseteq Nat \ {0}
    /\ Amounts \subseteq Nat \ {0}
    /\ InitialBalance \in Nat

ASSUME NamesAssumption ==
    /\ NoToken \notin Tokens
    /\ OrderTypes \subseteq {"GTC", "GTD", "FOK", "FAK"}

VARIABLES
    collateral,     \* wallets, asset_type COLLATERAL
    conditional,    \* wallets, asset_type CONDITIONAL
    position,       \* positions.size
    orders,         \* orders, in the order of creation
    trades,         \* trades, in the order of creation
    gone,           \* tokens whose order book answers 404
    snapshot,       \* per worker: the LIVE orders read at the tick's start
    book,           \* per worker: the token whose order book it holds
    funded          \* auxiliary: external money put in minus taken out

accounts == <<collateral, conditional, position, orders, trades, funded>>
worker   == <<snapshot, book>>
vars     == <<accounts, gone, worker>>

Sides == {"BUY", "SELL"}

Order == [user : Users, token : Tokens, side : Sides, type : OrderTypes,
          price : Prices, size : Sizes, salt : Salts,
          matched : Nat, status : {"LIVE", "MATCHED", "CANCELED"}]

\* A trade's key is <<order, size matched with it>> when the worker made it;
\* trades made while placing an order have no key.
Trade == [order : Nat \ {0}, user : Users, token : Tokens, side : Sides,
          size : Nat \ {0}, price : Prices, key : Seq(Nat)]

-----------------------------------------------------------------------------
(* The pieces transactions are made of.                                    *)

NoFill == [size |-> 0, price |-> 0]

\* What MatchOrder may answer for an order with this limit and size: some
\* size up to the one asked for, at an average price no worse than the limit.
Fills(side, limit, size) ==
    {f \in [size : 1..size, price : Prices] :
        IF side = "BUY" THEN f.price <= limit ELSE f.price >= limit}

\* Mutant of InitialFill: what a FAK order leaves unfilled rests in the book.
InitialFillRests(type, size, fill) ==
    [status |-> IF fill.size = size THEN "MATCHED" ELSE "LIVE", fill |-> fill]

\* determineInitialFill; NoFill is both "book unavailable" and "no match".
InitialFill(type, size, fill) ==
    IF fill.size = size
    THEN [status |-> "MATCHED", fill |-> fill]
    ELSE CASE type = "FOK" -> [status |-> "CANCELED", fill |-> NoFill]
           [] type = "FAK" -> [status |-> "CANCELED", fill |-> fill]
           [] OTHER        -> [status |-> "LIVE",     fill |-> fill]

Live == {i \in DOMAIN orders : orders[i].status = "LIVE"}

Remaining(o) == o.size - o.matched

\* What a part of an order reserves, and refundOrderReservation gives back:
\* collateral at the limit price for a BUY, the tokens themselves for a SELL.
ReservedCollateral(o, size) == IF o.side = "BUY" THEN size * o.price ELSE 0
ReservedConditional(o, size) == IF o.side = "SELL" THEN size ELSE 0

\* Mutant of Affordable: the tokens a SELL order needs are not looked at.
AffordableMoney(u, t, o) == collateral[u] >= ReservedCollateral(o, o.size)

\* DebitWallet refuses when the balance does not cover the whole reservation.
Affordable(u, t, o) ==
    /\ collateral[u] >= ReservedCollateral(o, o.size)
    /\ conditional[u][t] >= ReservedConditional(o, o.size)

\* Mutants of FillCollateral and FillConditional: a fill below the limit keeps
\* the excess reservation; a fill credits the whole order.
FillCollateralNoExcess(o, fill) ==
    IF o.side = "BUY" THEN 0 ELSE fill.size * fill.price
FillConditionalWhole(o, fill) == IF o.side = "BUY" THEN o.size ELSE 0

\* What a fill pays into the wallets: a BUY gets the tokens and what the
\* reservation at the limit price exceeds the cost, a SELL gets the proceeds.
FillCollateral(o, fill) ==
    IF o.side = "BUY" THEN (o.price - fill.price) * fill.size
                      ELSE fill.size * fill.price
FillConditional(o, fill) == IF o.side = "BUY" THEN fill.size ELSE 0

\* Mutant of PositionAfter: a BUY overwrites the position.
PositionOverwritten(held, side, size) ==
    IF side = "BUY" THEN size
    ELSE IF held > size THEN held - size ELSE 0

\* updatePosition, which never goes below zero.
PositionAfter(held, side, size) ==
    IF side = "BUY" THEN held + size
    ELSE IF held > size THEN held - size ELSE 0

TradeOf(i, o, fill, key) ==
    [order |-> i, user |-> o.user, token |-> o.token, side |-> o.side,
     size |-> fill.size, price |-> fill.price, key |-> key]

Credit(wallet, u, t, n) == [wallet EXCEPT ![u][t] = @ + n]

\* What the unfilled parts of the orders in S hold of u's collateral, and of
\* u's tokens t.
HeldMoney(S, u) ==
    SumTo([i \in DOMAIN orders |->
              IF i \in S /\ orders[i].user = u
              THEN ReservedCollateral(orders[i], Remaining(orders[i]))
              ELSE 0], Len(orders))

HeldTokens(S, u, t) ==
    SumTo([i \in DOMAIN orders |->
              IF i \in S /\ orders[i].user = u /\ orders[i].token = t
              THEN ReservedConditional(orders[i], Remaining(orders[i]))
              ELSE 0], Len(orders))

\* The orders in C become CANCELED, and what each of them holds is refunded.
Cancels(C) ==
    orders' = [i \in DOMAIN orders |->
                  IF i \in C THEN [orders[i] EXCEPT !.status = "CANCELED"]
                             ELSE orders[i]]

CancelAndRefund(C) ==
    /\ Cancels(C)
    /\ collateral' = [u \in Users |-> collateral[u] + HeldMoney(C, u)]
    /\ conditional' = [u \in Users |-> [t \in Tokens |->
                          conditional[u][t] + HeldTokens(C, u, t)]]
    /\ UNCHANGED <<position, trades, funded>>

-----------------------------------------------------------------------------
(* Money from outside: the dashboard's deposit and withdraw requests.      *)

Deposit(u, amount) ==
    /\ funded[u] + amount <= MaxFunded
    /\ collateral' = [collateral EXCEPT ![u] = @ + amount]
    /\ funded' = [funded EXCEPT ![u] = @ + amount]
    /\ UNCHANGED <<conditional, position, orders, trades, gone, worker>>

Withdraw(u, amount) ==
    /\ collateral[u] >= amount
    /\ collateral' = [collateral EXCEPT ![u] = @ - amount]
    /\ funded' = [funded EXCEPT ![u] = @ - amount]
    /\ UNCHANGED <<conditional, position, orders, trades, gone, worker>>

-----------------------------------------------------------------------------
(* Requests on orders.                                                     *)

\* An order request that reaches the database with the answer its book gave:
\* the book was fetched before the transaction, so the market may be gone by
\* now.  Requests the code refuses (404, a FOK order that cannot fill, too
\* little balance, a salt used before) change nothing and are no steps.
PlaceOrder(u, t, side, type, price, size, salt, answer) ==
    LET init == InitialFill(type, size, answer)
        fill == init.fill
        o    == [user |-> u, token |-> t, side |-> side, type |-> type,
                 price |-> price, size |-> size, salt |-> salt,
                 matched |-> fill.size, status |-> init.status]
        \* the unfilled part of a FAK order goes back in the same transaction
        unfilled == IF type = "FAK" /\ init.status = "CANCELED"
                    THEN size - fill.size ELSE 0
    IN  /\ ~(type = "FOK" /\ init.status = "CANCELED")
        /\ \A i \in DOMAIN orders : orders[i].user = u => orders[i].salt # salt
        /\ Affordable(u, t, o)
        /\ orders' = Append(orders, o)
        /\ trades' = IF fill.size > 0
                     THEN Append(trades, TradeOf(Len(orders) + 1, o, fill, <<>>))
                     ELSE trades
        /\ collateral' = [collateral EXCEPT ![u] =
                             @ - ReservedCollateral(o, size)
                               + FillCollateral(o, fill)
                               + ReservedCollateral(o, unfilled)]
        /\ conditional' = Credit(conditional, u, t,
                             FillConditional(o, fill)
                               + ReservedConditional(o, unfilled)
                               - ReservedConditional(o, size))
        /\ position' = [position EXCEPT ![u][t] =
                             PositionAfter(@, side, fill.size)]
        /\ UNCHANGED <<funded, gone, worker>>

\* Mutants of the cancellations: the status of the orders is not looked at.
CancelOrderAnyStatus(u, i) ==
    /\ orders[i].user = u
    /\ CancelAndRefund({i})
    /\ UNCHANGED <<gone, worker>>

CancelByFilterAnyStatus(u, S) ==
    /\ CancelAndRefund({i \in DOMAIN orders :
                           orders[i].user = u /\ orders[i].token \in S})
    /\ UNCHANGED <<gone, worker>>

\* A user cancels one of her own orders, if it is still LIVE.
CancelOrder(u, i) ==
    /\ i \in Live
    /\ orders[i].user = u
    /\ CancelAndRefund({i})
    /\ UNCHANGED <<gone, worker>>

\* A user cancels all her LIVE orders, or those of a market or a token.  Orders
\* committed after the UPDATE began, while it waited for a lock, are not seen:
\* n is how many orders there were then.
CancelOrdersByFilter(u, S) ==
    /\ \E n \in 0..Len(orders) :
          CancelAndRefund({i \in Live : /\ i <= n
                                       /\ orders[i].user = u
                                       /\ orders[i].token \in S})
    /\ UNCHANGED <<gone, worker>>

Filters == {Tokens} \cup {{t} : t \in Tokens}
           \cup {{t \in Tokens : MarketOf[t] = MarketOf[s]} : s \in Tokens}

-----------------------------------------------------------------------------
(* The matching worker.                                                    *)

\* Polymarket closes the market of a token: its book answers 404 from now on.
CloseBook(t) ==
    /\ t \notin gone
    /\ gone' = gone \cup {t}
    /\ UNCHANGED <<accounts, worker>>

SnapshotTokens(w) == {orders[r.id].token : r \in snapshot[w]}
SnapshotOf(w, t)  == {r \in snapshot[w] : orders[r.id].token = t}

Idle(w) == snapshot[w] = {} /\ book[w] = NoToken

\* A tick starts: read all LIVE orders.
TickStart(w) ==
    /\ Idle(w)
    /\ Live # {}
    /\ snapshot' = [snapshot EXCEPT ![w] =
                       {[id |-> i, matched |-> orders[i].matched] : i \in Live}]
    /\ UNCHANGED <<accounts, gone, book>>

\* The book of the next token was fetched.
FetchBook(w, t) ==
    /\ book[w] = NoToken
    /\ t \in SnapshotTokens(w) \ gone
    /\ book' = [book EXCEPT ![w] = t]
    /\ UNCHANGED <<accounts, gone, snapshot>>

\* The fetch failed, or the cancellation after a 404 did: skip the token.
FetchFails(w, t) ==
    /\ book[w] = NoToken
    /\ t \in SnapshotTokens(w)
    /\ snapshot' = [snapshot EXCEPT ![w] = @ \ SnapshotOf(w, t)]
    /\ UNCHANGED <<accounts, gone, book>>

\* Mutant of FetchNotFound: a book that is gone is skipped like any failure.
FetchNotFoundSkips(w, t) ==
    /\ book[w] = NoToken
    /\ t \in SnapshotTokens(w) \cap gone
    /\ snapshot' = [snapshot EXCEPT ![w] = @ \ SnapshotOf(w, t)]
    /\ UNCHANGED <<accounts, gone, book>>

\* The fetch answered 404: the orders LIVE on the token when the UPDATE begins
\* are canceled and refunded, also those placed since the snapshot.
FetchNotFound(w, t) ==
    /\ book[w] = NoToken
    /\ t \in SnapshotTokens(w) \cap gone
    /\ \E n \in 0..Len(orders) :
          /\ \A r \in SnapshotOf(w, t) : r.id <= n
          /\ CancelAndRefund({i \in Live : i <= n /\ orders[i].token = t})
    /\ snapshot' = [snapshot EXCEPT ![w] = @ \ SnapshotOf(w, t)]
    /\ UNCHANGED <<gone, book>>

\* The orders of a token are taken oldest first.
Current(w, r) ==
    /\ r \in snapshot[w]
    /\ orders[r.id].token = book[w]
    /\ \A q \in SnapshotOf(w, book[w]) : r.id <= q.id

\* The worker is done with an entry of its snapshot, and with the book when it
\* was the last one of the token.
Advance(w, r) ==
    /\ snapshot' = [snapshot EXCEPT ![w] = @ \ {r}]
    /\ book' = [book EXCEPT ![w] =
                   IF SnapshotOf(w, book[w]) = {r} THEN NoToken ELSE @]

\* Nothing to match, an order that is no longer LIVE, or a failed transaction.
SkipOrder(w, r) ==
    /\ Current(w, r)
    /\ Advance(w, r)
    /\ UNCHANGED <<accounts, gone>>

\* executeFill looks at the locked row again: a fill applies to LIVE orders
\* only, is capped to what remains, and is counted from the row's size_matched.
\* The mutants do without: they fill any order, believe what the worker
\* matched, count from the snapshot, and key a trade by its size alone.
FillableAny(o) == TRUE
Fillable(o) == o.status = "LIVE"

Uncapped(o, found) == found
Capped(o, found) ==
    [found EXCEPT !.size = IF @ > Remaining(o) THEN Remaining(o) ELSE @]

MatchedStale(o, r, fill) == r.matched + fill.size
MatchedAfter(o, r, fill) == o.matched + fill.size

FillKeyBySize(o, r, fill) == <<r.id, fill.size>>
FillKey(o, r, fill) == <<r.id, MatchedAfter(o, r, fill)>>

\* MatchOrder was asked for what remained of the order at the snapshot.
ExecuteFill(w, r, found) ==
    LET o     == orders[r.id]
        fill  == Capped(o, found)
        total == MatchedAfter(o, r, fill)
    IN  /\ Current(w, r)
        /\ found \in Fills(o.side, o.price, o.size - r.matched)
        /\ Fillable(o)
        /\ trades' = Append(trades, TradeOf(r.id, o, fill, FillKey(o, r, fill)))
        /\ orders' = [orders EXCEPT ![r.id].matched = total,
                                    ![r.id].status =
                          IF total >= o.size THEN "MATCHED" ELSE "LIVE"]
        /\ collateral' = [collateral EXCEPT ![o.user] =
                             @ + FillCollateral(o, fill)]
        /\ conditional' = Credit(conditional, o.user, o.token,
                             FillConditional(o, fill))
        /\ position' = [position EXCEPT ![o.user][o.token] =
                             PositionAfter(@, o.side, fill.size)]
        /\ Advance(w, r)
        /\ UNCHANGED <<funded, gone>>

\* The tick's deadline passes or the process stops: what is left is dropped.
TickAbort(w) ==
    /\ ~Idle(w)
    /\ snapshot' = [snapshot EXCEPT ![w] = {}]
    /\ book' = [book EXCEPT ![w] = NoToken]
    /\ UNCHANGED <<accounts, gone>>

-----------------------------------------------------------------------------
Init ==
    /\ collateral = [u \in Users |-> InitialBalance]
    /\ conditional = [u \in Users |-> [t \in Tokens |-> 0]]
    /\ position = [u \in Users |-> [t \in Tokens |-> 0]]
    /\ orders = <<>>
    /\ trades = <<>>
    /\ gone = {}
    /\ snapshot = [w \in Workers |-> {}]
    /\ book = [w \in Workers |-> NoToken]
    /\ funded = [u \in Users |-> InitialBalance]

Fund == \E u \in Users, a \in Amounts : Deposit(u, a) \/ Withdraw(u, a)

Place ==
    \E u \in Users, t \in Tokens, side \in Sides, type \in OrderTypes,
       price \in Prices, size \in Sizes, salt \in Salts :
        \E answer \in {NoFill} \cup Fills(side, price, size) :
            PlaceOrder(u, t, side, type, price, size, salt, answer)

Cancel ==
    \E u \in Users :
        \/ \E i \in DOMAIN orders : CancelOrder(u, i)
        \/ \E S \in Filters : CancelOrdersByFilter(u, S)

TakeOrder(w) ==
    \E r \in snapshot[w] :
        \/ SkipOrder(w, r)
        \/ \E f \in Fills(orders[r.id].side, orders[r.id].price,
                          orders[r.id].size - r.matched) : ExecuteFill(w, r, f)

Fetch(w, t) == FetchBook(w, t) \/ FetchFails(w, t) \/ FetchNotFound(w, t)

Tick(w) ==
    \/ TickStart(w)
    \/ \E t \in Tokens : Fetch(w, t)
    \/ TakeOrder(w)
    \/ TickAbort(w)

Next ==
    \/ Fund
    \/ Place
    \/ Cancel
    \/ \E t \in Tokens : CloseBook(t)
    \/ \E w \in Workers : Tick(w)

Spec == Init /\ [][Next]_vars

\* The worker's loop keeps running: ticks start, every fetch is answered and
\* every entry of the snapshot is dealt with.  A fetch may fail for a while
\* and a tick may be cut short, but a book that is gone is not always hidden
\* by such failures: each tick visits its tokens in a random order.
Fairness ==
    \A w \in Workers :
        /\ WF_vars(TickStart(w))
        /\ WF_vars(TakeOrder(w))
        /\ WF_vars(\E t \in Tokens : Fetch(w, t))
        /\ \A t \in Tokens : SF_vars(FetchNotFound(w, t))

FairSpec == Spec /\ Fairness

-----------------------------------------------------------------------------
(* Properties.                                                             *)

AccountsTypeOK ==
    /\ collateral \in [Users -> Nat]
    /\ conditional \in [Users -> [Tokens -> Nat]]
    /\ position \in [Users -> [Tokens -> Nat]]
    /\ orders \in Seq(Order)
    /\ trades \in Seq(Trade)
    /\ funded \in [Users -> Int]

WorkerTypeOK ==
    /\ gone \subseteq Tokens
    /\ snapshot \in [Workers -> SUBSET [id : Nat \ {0}, matched : Nat]]
    /\ book \in [Workers -> Tokens \cup {NoToken}]

\* Every variable has its type; balances and positions are never negative,
\* the CHECK constraints on wallets and positions never abort a transaction.
TypeOK == AccountsTypeOK /\ WorkerTypeOK

Signed(side, n) == IF side = "BUY" THEN n ELSE 0 - n

\* What u paid for tokens minus what she got for tokens, over all her trades.
NetCost(u) ==
    SumTo([k \in DOMAIN trades |->
              IF trades[k].user = u
              THEN Signed(trades[k].side, trades[k].size * trades[k].price)
              ELSE 0], Len(trades))

\* The net size the dashboard computes from the trades (GetPositions).
NetSize(u, t) ==
    SumTo([k \in DOMAIN trades |->
              IF trades[k].user = u /\ trades[k].token = t
              THEN Signed(trades[k].side, trades[k].size)
              ELSE 0], Len(trades))

\* The shares of u's BUY trades in token t.
Bought(u, t) ==
    SumTo([k \in DOMAIN trades |->
              IF trades[k].user = u /\ trades[k].token = t
                 /\ trades[k].side = "BUY"
              THEN trades[k].size ELSE 0], Len(trades))

\* What was traded for order i.
Traded(i) ==
    SumTo([k \in DOMAIN trades |->
              IF trades[k].order = i THEN trades[k].size ELSE 0], Len(trades))

\* No money appears or vanishes: an account's balance, what its LIVE orders
\* reserve and what it paid in trades add up to what was put in from outside,
\* whatever orders, fills, cancels and stale ticks interleave.
Conservation ==
    \A u \in Users : collateral[u] + HeldMoney(Live, u) + NetCost(u) = funded[u]

Vault(u) == INSTANCE Vault WITH free <- collateral[u],
                               reserved <- HeldMoney(Live, u),
                               spent <- NetCost(u),
                               funded <- funded[u]

\* To its owner an account is a vault: every transaction of anybody moves her
\* money from free to reserved, to spent and back, and gives back exactly what
\* was reserved.
AccountsAreVaults ==
    /\ \A u \in Users : Vault(u)!Init
    /\ [][\A u \in Users : [Vault(u)!Next]_(Vault(u)!vars)]_vars

\* Every token of a position is either in the wallet or reserved by a LIVE
\* SELL order: no token is sold twice or lost with a canceled order.
HoldingsBacked ==
    \A u \in Users, t \in Tokens :
        position[u][t] = conditional[u][t] + HeldTokens(Live, u, t)

\* The positions table and the trades table tell the same story: the clamp at
\* zero in updatePosition never hides an oversold position.
PositionIsNetSize ==
    \A u \in Users, t \in Tokens : position[u][t] = NetSize(u, t)

\* An order's size_matched is what its trades add up to, also when two workers
\* fill it from snapshots of different age.
MatchedIsTraded ==
    \A i \in DOMAIN orders :
        orders[i].matched = Traded(i)

\* What the order types promise: only GTC and GTD orders rest in the book, a
\* FOK order is filled whole, an order is MATCHED exactly when it is full.
StatusFollowsType ==
    \A i \in DOMAIN orders :
        LET o == orders[i]
        IN  /\ o.status = "LIVE" => o.type \in {"GTC", "GTD"}
            /\ o.type = "FOK" => o.status = "MATCHED"
            /\ o.status = "MATCHED" <=> o.matched = o.size

\* No order is filled beyond its size, and a worker's snapshot only names
\* orders that exist: what a stale snapshot may still be used for.
MatchedFits ==
    \A i \in DOMAIN orders : orders[i].matched <= orders[i].size

SnapshotExists ==
    \A w \in Workers : \A r \in snapshot[w] : r.id \in DOMAIN orders

FillsFit == MatchedFits /\ SnapshotExists

\* The fill keys of worker trades never collide, so the UNIQUE constraint on
\* trades.fill_key never refuses a legitimate fill.
FillKeysDistinct ==
    \A j, k \in DOMAIN trades :
        j # k /\ trades[j].key # <<>> => trades[j].key # trades[k].key

\* An order that is MATCHED or CANCELED never changes again: a worker with an
\* old snapshot cannot fill it, a second cancel cannot refund it.
ClosedOrdersFrozen ==
    [][\A i \in DOMAIN orders \ Live : orders'[i] = orders[i]]_vars

\* Once the book of a token is gone for good, no order on it stays LIVE, also
\* when it was placed after the worker had canceled the others.
GoneOrdersClosed ==
    \A t \in Tokens :
        t \in gone ~> \A i \in Live : orders[i].token # t

=============================================================================
