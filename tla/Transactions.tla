---------------------------- MODULE Transactions ----------------------------
(***************************************************************************)
(* The transactions of Ledger and of SettleMarket statement by statement,  *)
(* on PostgreSQL at READ COMMITTED: the variables of Ledger are what is    *)
(* committed, and an open transaction has its own versions of the rows it  *)
(* has locked, which it publishes when it commits.                         *)
(*                                                                         *)
(* A statement reads what was committed when it began, waits for a row     *)
(* another transaction has locked, and then looks at that row once more.   *)
(* Consecutive statements that wait for nothing are one step.              *)
(***************************************************************************)
EXTENDS Ledger

CONSTANTS
    Clients,        \* connections that serve requests
    Pollers,        \* pollers, which settle markets
    NoTx,           \* no transaction is open
    ShareValue,     \* what a winning share pays, the price 1.0 in ticks
    Verdicts        \* bound: what outcome_tokens.winner may say, of these three

ASSUME SessionsAssumption ==
    /\ Workers \cap Clients = {} /\ Workers \cap Pollers = {}
    /\ Clients \cap Pollers = {}
    /\ ShareValue \in Nat
    /\ Verdicts \subseteq {"null", "yes", "no"}

VARIABLES
    tx,         \* the open transaction of each session
    opened,     \* the <<user, token>> that have a row in positions
    settled,    \* auxiliary: shares that settlements closed
    paid        \* auxiliary: what settlements paid for them

tables == <<opened, settled, paid>>
tvars  == <<vars, tables, tx>>

Sessions == Workers \cup Clients \cup Pollers

Markets     == {MarketOf[t] : t \in Tokens}
TokensOf(m) == {t \in Tokens : MarketOf[t] = m}

-----------------------------------------------------------------------------
(* Rows, locks and statements.                                             *)

Cash(u)      == <<"collateral", u>>
Shares(u, t) == <<"conditional", u, t>>
Held(u, t)   == <<"position", u, t>>
OrderRow(i)  == <<"order", i>>
Key(o)       == <<"key", o.user, o.salt>>     \* in the index UNIQUE (maker, salt)

Committed(row) ==
    CASE row[1] = "collateral"  -> collateral[row[2]]
      [] row[1] = "conditional" -> conditional[row[2]][row[3]]
      [] row[1] = "position"    -> position[row[2]][row[3]]
      [] row[1] = "order"       -> orders[row[2]]

Open(s) == tx[s] # NoTx

Holds(s, row) == Open(s) /\ row \in DOMAIN tx[s].mine
Free(s, row)  == \A q \in Sessions \ {s} : ~Holds(q, row)

\* A session sees its own version of a row, the others the committed one.
Seen(s, row) == IF Holds(s, row) THEN tx[s].mine[row] ELSE Committed(row)

With(s, row, value) ==
    [r \in DOMAIN tx[s].mine \cup {row} |->
        IF r = row THEN value ELSE tx[s].mine[r]]

At(s, what) == Open(s) /\ tx[s].todo # <<>> /\ Head(tx[s].todo).do = what
This(s)     == Head(tx[s].todo)
Rest(s)     == Tail(tx[s].todo)

Continue(s, mine, todo) ==
    /\ tx' = [tx EXCEPT ![s].mine = mine, ![s].todo = todo]
    /\ UNCHANGED <<vars, tables>>

Begin(s, job, todo) ==
    /\ ~Open(s)
    /\ tx' = [tx EXCEPT ![s] = [job |-> job, todo |-> todo, mine |-> <<>>,
                                new |-> <<>>, made |-> <<>>, seized |-> <<>>]]

\* Statements that do nothing when there is nothing to add are not sent.
Add(row, n) == IF n = 0 THEN <<>> ELSE <<[do |-> "add", row |-> row, n |-> n]>>

\* Mutant of FillStatements: the position is read before the wallets are
\* written, when no row may be locked yet.
FillPositionFirst(o, fill) ==
    <<[do |-> "position", o |-> o, n |-> fill.size]>>
    \o Add(Cash(o.user), FillCollateral(o, fill))
    \o Add(Shares(o.user, o.token), FillConditional(o, fill))

\* What a fill writes besides the trade and the order: the wallets, then the
\* position.
FillStatements(o, fill) ==
    Add(Cash(o.user), FillCollateral(o, fill))
    \o Add(Shares(o.user, o.token), FillConditional(o, fill))
    \o <<[do |-> "position", o |-> o, n |-> fill.size]>>

RefundStatements(o, size) ==
    Add(Cash(o.user), ReservedCollateral(o, size))
    \o Add(Shares(o.user, o.token), ReservedConditional(o, size))

\* A statement that takes rows one by one, in the order of some scan, is over
\* when none is left.
Each(x) == IF x.ids = {} THEN <<>> ELSE <<x>>
Without(x, id) == Each([x EXCEPT !.ids = @ \ {id}])

CancelRows(ids, refund) ==
    Each([do |-> "cancel", ids |-> ids, refund |-> refund])

-----------------------------------------------------------------------------
(* How transactions begin.                                                 *)

BeginPlace(c, u, t, side, type, price, size, salt, answer) ==
    LET init == InitialFill(type, size, answer)
        o    == [user |-> u, token |-> t, side |-> side, type |-> type,
                 price |-> price, size |-> size, salt |-> salt,
                 matched |-> init.fill.size, status |-> init.status]
        row  == IF side = "BUY" THEN Cash(u) ELSE Shares(u, t)
    IN  /\ ~(type = "FOK" /\ init.status = "CANCELED")
        /\ Begin(c, [kind |-> "place", o |-> o, fill |-> init.fill],
               <<[do |-> "take", row |-> row,
                  n |-> ReservedCollateral(o, size)
                          + ReservedConditional(o, size)],
                 [do |-> "insert"]>>
               \o (IF init.fill.size > 0
                   THEN FillStatements(o, init.fill) ELSE <<>>)
               \o (IF type = "FAK" /\ init.status = "CANCELED"
                   THEN RefundStatements(o, Remaining(o)) ELSE <<>>))
        /\ UNCHANGED <<vars, tables>>

\* The cancel statements see the orders that are LIVE as they begin; a request
\* that matches none changes nothing and is no step.
BeginCancel(c, ids) ==
    /\ ids # {}
    /\ Begin(c, [kind |-> "cancel"], CancelRows(ids, TRUE))
    /\ UNCHANGED <<vars, tables>>

BeginGone(w, t) ==
    /\ book[w] = NoToken
    /\ t \in SnapshotTokens(w) \cap gone
    /\ Begin(w, [kind |-> "gone", t |-> t],
             CancelRows({i \in Live : orders[i].token = t}, TRUE))
    /\ UNCHANGED <<vars, tables>>

BeginFill(w, r, found) ==
    /\ Current(w, r)
    /\ found \in Fills(orders[r.id].side, orders[r.id].price,
                       orders[r.id].size - r.matched)
    /\ Begin(w, [kind |-> "fill", r |-> r],
             <<[do |-> "order", r |-> r, found |-> found]>>)
    /\ UNCHANGED <<vars, tables>>

\* handleResolution finds an open position in market m and calls SettleMarket.
BeginSettle(p, m) ==
    /\ \E u \in Users, t \in TokensOf(m) : position[u][t] > 0
    /\ Begin(p, [kind |-> "settle", market |-> m, S |-> {}, won |-> {},
                 lost |-> {}],
             <<[do |-> "tokens"], [do |-> "positions"],
               [do |-> "refund", side |-> "BUY"],
               [do |-> "refund", side |-> "SELL"], [do |-> "close"]>>)
    /\ UNCHANGED <<vars, tables>>

-----------------------------------------------------------------------------
(* The statements.                                                         *)

\* CreditWallet, and the refunds, which add to a balance.
AddTo(s) ==
    /\ At(s, "add")
    /\ Free(s, This(s).row)
    /\ Continue(s, With(s, This(s).row, Seen(s, This(s).row) + This(s).n), Rest(s))

\* Mutant of Take: the balance is not looked at.
TakeUnchecked(s) ==
    /\ At(s, "take")
    /\ Free(s, This(s).row)
    /\ Continue(s, With(s, This(s).row, Seen(s, This(s).row) - This(s).n), Rest(s))

\* DebitWallet answers "insufficient balance" instead when the row has less.
Take(s) ==
    /\ At(s, "take")
    /\ Free(s, This(s).row)
    /\ Seen(s, This(s).row) >= This(s).n
    /\ Continue(s, With(s, This(s).row, Seen(s, This(s).row) - This(s).n), Rest(s))

Taken(o) == \E i \in DOMAIN orders : orders[i].user = o.user /\ orders[i].salt = o.salt

\* Mutant of NewOrder: the table has no such constraint.
NewOrderAnyway(s, o) == TRUE

\* UNIQUE (maker, salt): an order that is being inserted is waited for, one
\* that exists refuses the new one.
NewOrder(s, o) == Free(s, Key(o)) /\ ~Taken(o)

\* INSERT of the order and of the trade of its immediate fill.
Insert(s) ==
    LET o == tx[s].job.o
    IN  /\ At(s, "insert")
        /\ NewOrder(s, o)
        /\ tx' = [tx EXCEPT ![s].new = <<o>>, ![s].mine = With(s, Key(o), o),
                            ![s].todo = Rest(s)]
        /\ UNCHANGED <<vars, tables>>

\* executeFill locks the order; if it is LIVE the trade is inserted and the
\* order updated.
LockOrder(s) ==
    LET i     == This(s).r.id
        o     == Seen(s, OrderRow(i))
        fill  == Capped(o, This(s).found)
        total == MatchedAfter(o, This(s).r, fill)
    IN  /\ At(s, "order")
        /\ Free(s, OrderRow(i))
        /\ Fillable(o)
        /\ tx' = [tx EXCEPT
                     ![s].mine = With(s, OrderRow(i),
                         [o EXCEPT !.matched = total,
                                   !.status = IF total >= o.size
                                              THEN "MATCHED" ELSE "LIVE"]),
                     ![s].made = <<TradeOf(i, o, fill,
                                           FillKey(o, This(s).r, fill))>>,
                     ![s].todo = FillStatements(o, fill)]
        /\ UNCHANGED <<vars, tables>>

\* updatePosition locks the row and computes the new size from it; without a
\* row there is nothing to wait for, and nothing to sell.
ReadPosition(s) ==
    LET o   == This(s).o
        row == Held(o.user, o.token)
        put == <<[do |-> "put", row |-> row,
                  n |-> PositionAfter(Seen(s, row), o.side, This(s).n)]>>
    IN  /\ At(s, "position")
        /\ IF <<o.user, o.token>> \in opened
           THEN /\ Free(s, row)
                /\ Continue(s, With(s, row, Seen(s, row)), put \o Rest(s))
           ELSE Continue(s, tx[s].mine,
                         (IF o.side = "BUY" THEN put ELSE <<>>) \o Rest(s))

\* UpsertPosition overwrites the size, as the settlement does with a wallet.
Put(s) ==
    /\ At(s, "put")
    /\ Free(s, This(s).row)
    /\ Continue(s, With(s, This(s).row, This(s).n), Rest(s))

\* One row of UPDATE orders SET status = 'CANCELED': a row that was closed
\* meanwhile is passed over.
CancelRow(s, i) ==
    LET o == Seen(s, OrderRow(i))
    IN  /\ At(s, "cancel")
        /\ i \in This(s).ids
        /\ Free(s, OrderRow(i))
        /\ Continue(s,
               IF Fillable(o)
               THEN With(s, OrderRow(i), [o EXCEPT !.status = "CANCELED"])
               ELSE tx[s].mine,
               Without(This(s), i) \o Rest(s)
                   \o IF Fillable(o) /\ This(s).refund
                      THEN RefundStatements(o, Remaining(o)) ELSE <<>>)

-----------------------------------------------------------------------------
(* The statements of SettleMarket.                                         *)

OpenPositions(S) ==
    {p \in {<<u, t, position[u][t]>> : u \in Users, t \in S} : p[3] > 0}

\* The rows of outcome_tokens: the tokens S of the market that are stored and
\* what their winner column says.
ReadTokens(s, S, winner) ==
    /\ At(s, "tokens")
    /\ S # {}
    /\ tx' = [tx EXCEPT
                 ![s].job = [kind |-> "settle", market |-> @.market, S |-> S,
                             won |-> {t \in S : winner[t] = "yes"},
                             lost |-> {t \in S : winner[t] = "no"}],
                 ![s].todo = Rest(s)]
    /\ UNCHANGED <<vars, tables>>

\* SELECT ... FOR UPDATE of the market's open positions: it waits for each.
\* The mutant settles what it saw before it waited.
SeizeUnchecked(s, p) == With(s, Held(p[1], p[2]), p[3])
Seize(s, p) ==
    IF Seen(s, Held(p[1], p[2])) > 0
    THEN With(s, Held(p[1], p[2]), Seen(s, Held(p[1], p[2])))
    ELSE tx[s].mine

SelectPositions(s) ==
    /\ At(s, "positions")
    /\ Continue(s, tx[s].mine,
           <<[do |-> "seize", ids |-> OpenPositions(TokensOf(tx[s].job.market))]>>
               \o Rest(s))

SeizePosition(s, p) ==
    /\ At(s, "seize")
    /\ p \in This(s).ids
    /\ Free(s, Held(p[1], p[2]))
    /\ Continue(s, Seize(s, p),
                <<[This(s) EXCEPT !.ids = @ \ {p}]>> \o Rest(s))

Seized(s) == {p \in Users \X Tokens : Holds(s, Held(p[1], p[2]))}

\* The loop over the positions that the statement returned passes over those
\* whose token had no winner yet, or was not stored, when SettleMarket began.
Decided(s) == {p \in Seized(s) : p[2] \in tx[s].job.won \cup tx[s].job.lost}

SeizedAll(s) ==
    /\ At(s, "seize")
    /\ This(s).ids = {}
    /\ Continue(s, tx[s].mine, Each([do |-> "pay", ids |-> Decided(s)]) \o Rest(s))

\* The payout rule: a share of the winning token pays 1.0, any other nothing.
\* The mutant pays every share that is settled.
ShareOutAll(s, t) == ShareValue
ShareOut(s, t)    == IF t \in tx[s].job.won THEN ShareValue ELSE 0

\* Each position is paid, its CONDITIONAL wallet emptied, its size zeroed.
PayStatements(s, p) ==
    Add(Cash(p[1]), tx[s].mine[Held(p[1], p[2])] * ShareOut(s, p[2]))
    \o <<[do |-> "put", row |-> Shares(p[1], p[2]), n |-> 0],
         [do |-> "put", row |-> Held(p[1], p[2]), n |-> 0]>>

Pay(s, p) ==
    /\ At(s, "pay")
    /\ p \in This(s).ids
    /\ tx' = [tx EXCEPT
                 ![s].todo = PayStatements(s, p)
                                \o Without(This(s), p) \o Rest(s),
                 ![s].seized = [q \in DOMAIN tx[s].seized \cup {p} |->
                                   IF q = p THEN tx[s].mine[Held(p[1], p[2])]
                                            ELSE tx[s].seized[q]]]
    /\ UNCHANGED <<vars, tables>>

\* The refund statements add up the LIVE orders of one side as they begin, and
\* then wait for the wallets: what happens to an order meanwhile is not seen.
\* Each statement takes one side; the mutant takes the BUY orders twice.
LiveOfBuys(S, side) ==
    {i \in Live : orders[i].token \in S /\ orders[i].side = "BUY"}

LiveOf(S, side) ==
    {i \in Live : orders[i].token \in S /\ orders[i].side = side}

Refunds(L, S) ==
    {<<Cash(u), HeldMoney(L, u)>> : u \in Users}
    \cup {<<Shares(u, t), HeldTokens(L, u, t)>> : u \in Users, t \in S}

RefundSide(s) ==
    /\ At(s, "refund")
    /\ Continue(s, tx[s].mine,
           Each([do |-> "credit",
                 ids |-> {z \in Refunds(LiveOf(tx[s].job.S, This(s).side),
                                        tx[s].job.S) : z[2] > 0}]) \o Rest(s))

\* One wallet of a refund statement.
CreditRow(s, z) ==
    /\ At(s, "credit")
    /\ z \in This(s).ids
    /\ Free(s, z[1])
    /\ Continue(s, With(s, z[1], Seen(s, z[1]) + z[2]),
                Without(This(s), z) \o Rest(s))

\* The last statement cancels what is LIVE when it begins.
CloseLive(s) ==
    /\ At(s, "close")
    /\ Continue(s, tx[s].mine,
           CancelRows({i \in Live : orders[i].token \in tx[s].job.S}, FALSE)
               \o Rest(s))

-----------------------------------------------------------------------------
(* How transactions end.                                                   *)

\* A worker goes on to the next order or token, whether it succeeded or not.
WorkerMovesOn(s) ==
    \/ tx[s].job.kind = "fill" /\ Advance(s, tx[s].job.r)
    \/ /\ tx[s].job.kind = "gone"
       /\ snapshot' = [snapshot EXCEPT ![s] = @ \ SnapshotOf(s, tx[s].job.t)]
       /\ UNCHANGED book
    \/ tx[s].job.kind \notin {"fill", "gone"} /\ UNCHANGED worker

\* The trade of a new order names the order by its place.
NewTrades(s) ==
    IF tx[s].new # <<>> /\ tx[s].job.fill.size > 0
    THEN <<TradeOf(Len(orders) + 1, tx[s].new[1], tx[s].job.fill, <<>>)>>
    ELSE tx[s].made

SettledBy(s, u, t) ==
    IF <<u, t>> \in DOMAIN tx[s].seized THEN tx[s].seized[<<u, t>>] ELSE 0

PaidBy(s, u, t) ==
    IF <<u, t>> \in DOMAIN tx[s].seized
    THEN tx[s].seized[<<u, t>>] * ShareOut(s, t) ELSE 0

Commit(s) ==
    /\ Open(s)
    /\ tx[s].todo = <<>>
    /\ collateral' = [u \in Users |-> Seen(s, Cash(u))]
    /\ conditional' = [u \in Users |-> [t \in Tokens |-> Seen(s, Shares(u, t))]]
    /\ position' = [u \in Users |-> [t \in Tokens |-> Seen(s, Held(u, t))]]
    /\ orders' = [i \in DOMAIN orders |-> Seen(s, OrderRow(i))] \o tx[s].new
    /\ trades' = trades \o NewTrades(s)
    /\ opened' = opened \cup Seized(s)
    /\ settled' = [u \in Users |-> [t \in Tokens |->
                      settled[u][t] + SettledBy(s, u, t)]]
    /\ paid' = [u \in Users |-> [t \in Tokens |-> paid[u][t] + PaidBy(s, u, t)]]
    /\ tx' = [tx EXCEPT ![s] = NoTx]
    /\ WorkerMovesOn(s)
    /\ UNCHANGED <<funded, gone>>

\* A statement failed, the request's context ended or the process died: the
\* deferred Rollback, or the server, drops the versions and frees the rows.
Rollback(s) ==
    /\ Open(s)
    /\ tx' = [tx EXCEPT ![s] = NoTx]
    /\ WorkerMovesOn(s)
    /\ UNCHANGED <<accounts, gone, tables>>

\* Mutant of Refused: the return for an order that is no longer LIVE, or for a
\* balance too small, leaves the transaction open.
RefusedLeft(s) == At(s, "insert") /\ Taken(tx[s].job.o)

\* The early returns: the balance does not cover the order, the salt was used,
\* the order to fill is no longer LIVE.
Refused(s) ==
    \/ /\ At(s, "take")
       /\ Free(s, This(s).row) /\ Seen(s, This(s).row) < This(s).n
    \/ At(s, "insert") /\ Free(s, Key(tx[s].job.o)) /\ Taken(tx[s].job.o)
    \/ /\ At(s, "order")
       /\ Free(s, OrderRow(This(s).r.id))
       /\ ~Fillable(Seen(s, OrderRow(This(s).r.id)))

Refuse(s) == Refused(s) /\ Rollback(s)

\* The rows a session's next statement may have to wait for.
Wants(s) ==
    CASE ~Open(s) \/ tx[s].todo = <<>>    -> {}
      [] At(s, "add") \/ At(s, "take") \/ At(s, "put") -> {This(s).row}
      [] At(s, "insert")                  -> {Key(tx[s].job.o)}
      [] At(s, "order")                   -> {OrderRow(This(s).r.id)}
      [] At(s, "position")                -> {Held(This(s).o.user, This(s).o.token)}
      [] At(s, "cancel")                  -> {OrderRow(i) : i \in This(s).ids}
      [] At(s, "seize")                   -> {Held(p[1], p[2]) : p \in This(s).ids}
      [] At(s, "credit")                  -> {z[1] : z \in This(s).ids}
      [] OTHER                            -> {}

\* Sessions each of which waits for the others only and keeps one waiting.
Deadlocked(D) ==
    \A s \in D : /\ Wants(s) # {}
                 /\ \A row \in Wants(s) : \E q \in D \ {s} : Holds(q, row)
                 /\ \E q \in D \ {s} : \E row \in Wants(q) : Holds(s, row)

\* PostgreSQL finds a deadlock after a second and fails one of its statements.
BreakDeadlock ==
    \E D \in SUBSET Sessions \ {{}} :
        Deadlocked(D) /\ \E s \in D : Rollback(s)

-----------------------------------------------------------------------------
TInit ==
    /\ Init
    /\ tx = [s \in Sessions |-> NoTx]
    /\ opened = {}
    /\ settled = [u \in Users |-> [t \in Tokens |-> 0]]
    /\ paid = [u \in Users |-> [t \in Tokens |-> 0]]

\* Orders are placed for the tokens T that the server can look up.
TPlace(c, T) ==
    \E u \in Users, t \in T, side \in Sides, type \in OrderTypes,
       price \in Prices, size \in Sizes, salt \in Salts :
        \E answer \in {NoFill} \cup Fills(side, price, size) :
            BeginPlace(c, u, t, side, type, price, size, salt, answer)

\* DELETE of one order, or of those of a filter.
TCancel(c) ==
    \/ \E i \in DOMAIN orders : BeginCancel(c, {i} \cap Live)
    \/ \E u \in Users, S \in Filters :
          BeginCancel(c, {i \in Live : orders[i].user = u /\ orders[i].token \in S})

TTick(w) ==
    \/ /\ ~Open(w)
       /\ \/ TickStart(w) \/ TickAbort(w)
          \/ \E t \in Tokens : FetchBook(w, t) \/ FetchFails(w, t)
          \/ \E r \in snapshot[w] : SkipOrder(w, r)
       /\ UNCHANGED <<tables, tx>>
    \/ \E t \in Tokens : BeginGone(w, t)
    \/ \E r \in snapshot[w] :
          \E f \in Fills(orders[r.id].side, orders[r.id].price,
                         orders[r.id].size - r.matched) : BeginFill(w, r, f)

Query(s) ==
    \/ AddTo(s) \/ Take(s) \/ Insert(s) \/ LockOrder(s) \/ ReadPosition(s) \/ Put(s)
    \/ At(s, "cancel") /\ \E i \in This(s).ids : CancelRow(s, i)
    \/ SelectPositions(s) \/ SeizedAll(s) \/ RefundSide(s) \/ CloseLive(s)
    \/ At(s, "seize") /\ \E p \in This(s).ids : SeizePosition(s, p)
    \/ At(s, "pay") /\ \E p \in This(s).ids : Pay(s, p)
    \/ At(s, "credit") /\ \E z \in This(s).ids : CreditRow(s, z)

Statement(s) == Query(s) \/ Commit(s)

\* Requests and workers, while the tokens T are known.
Trading(T) ==
    \/ \E c \in Clients : TPlace(c, T) \/ TCancel(c)
    \/ \E w \in Workers : TTick(w)
    \/ \E t \in Tokens : Workers # {} /\ CloseBook(t) /\ UNCHANGED <<tables, tx>>
    \/ \E s \in Clients \cup Workers : Statement(s) \/ Rollback(s)

\* Whatever the table outcome_tokens says of the market's tokens.
ReadsTokens(p) ==
    /\ At(p, "tokens")
    /\ \E S \in SUBSET TokensOf(tx[p].job.market) :
          \E winner \in [S -> Verdicts] : ReadTokens(p, S, winner)

TSettle(p) == (\E m \in Markets : BeginSettle(p, m)) \/ ReadsTokens(p)

TNext ==
    \/ Trading(Tokens)
    \/ \E p \in Pollers : TSettle(p) \/ Statement(p) \/ Rollback(p)

TSpec == TInit /\ [][TNext]_tvars

\* Sessions that wait for a row get it in turn, each statement is answered or
\* refused and the code goes on, and the database breaks deadlocks.
TFairness ==
    /\ \A s \in Sessions : SF_tvars(Statement(s) \/ ReadsTokens(s) \/ Refuse(s))
    /\ WF_tvars(BreakDeadlock)

TFairSpec == TSpec /\ TFairness

-----------------------------------------------------------------------------
(* Properties.                                                             *)

\* Statement by statement, on snapshots and row locks, the requests and the
\* worker do what Ledger's atomic transactions do: every commit of theirs is a
\* step of Ledger, only a settlement's commit is none.
ImplementsLedger ==
    Init /\ [][(\E p \in Pollers : Commit(p)) \/ Next]_vars

\* A signed order that is posted again, also while the first request is still
\* open, is never stored and paid for twice.
SignedOnce ==
    \A i, j \in DOMAIN orders :
        i # j /\ orders[i].user = orders[j].user => orders[i].salt # orders[j].salt

\* No share is paid out twice: two settlements of a market at once, or one
\* that meets a fill, pay for no more shares than were bought.
SettledWereBought ==
    \A u \in Users, t \in Tokens : settled[u][t] + position[u][t] <= Bought(u, t)

\* A transaction of any kind comes to its end, whatever it meets: waiting for
\* each other's rows stops nobody for good.
TransactionsEnd == \A s \in Sessions : Open(s) ~> ~Open(s)

\* resolver.go, SettleMarket: "Zero out CONDITIONAL wallet for this token": the
\* wallet of a settled position is empty when the settlement commits.
SettledWalletEmpty ==
    [][\A p \in Pollers, u \in Users, t \in Tokens :
          Commit(p) /\ settled'[u][t] > settled[u][t]
             => conditional'[u][t] = 0]_tvars

\* resolver.go, SettleMarket: "Refund reservations for LIVE orders before
\* canceling them": what an order reserves is refunded when it is canceled, so
\* that no money appears or vanishes.
RefundedOnce ==
    \A u \in Users :
        collateral[u] + HeldMoney(Live, u) + NetCost(u)
            = funded[u] + SumOver(paid[u], Tokens)

=============================================================================
