-------------------------- MODULE StatementProofs --------------------------
(***************************************************************************)
(* The inductive invariant of Transactions, and what one statement of a    *)
(* transaction does to it: what the statements of a transaction have done  *)
(* and what they still have to do add up, in every row, to what the        *)
(* transaction of Ledger does at once.  A session sees the others only     *)
(* through the rows it has not locked, so what is said about a session is  *)
(* kept by any step of another one that leaves the locked rows alone       *)
(* (TxKept).  TransactionsProofs puts the steps together.                  *)
(***************************************************************************)
EXTENDS Transactions, ConservationProofs

-----------------------------------------------------------------------------
(* The inductive invariant.                                                *)

Clerks == Workers \cup Clients

IsSeq(x) == x \in Seq({x[k] : k \in DOMAIN x})

\* x is what a session keeps of its open transaction.
Shaped(x) ==
    /\ x = [job |-> x.job, todo |-> x.todo, mine |-> x.mine,
            new |-> x.new, made |-> x.made, seized |-> x.seized]
    /\ IsSeq(x.todo)

\* The rows it has locked, and the value it sees in a row.
Mine(x, row) == row \in DOMAIN x.mine
View(x, row) == IF Mine(x, row) THEN x.mine[row] ELSE Committed(row)

\* The statements still to come that one of these words names.
Coming(x, words) == {k \in DOMAIN x.todo : x.todo[k].do \in words}

OnlyComing(x, words) == \A k \in DOMAIN x.todo : x.todo[k].do \in words

WalletRows == {Cash(u) : u \in Users} \cup {Shares(u, t) : u \in Users, t \in Tokens}
HeldRows   == {Held(u, t) : u \in Users, t \in Tokens}

\* Sizes and balances are natural numbers, in the rows and in the statements,
\* and orders are orders of the table.
TypedStatement(z) ==
    /\ z.do \in {"add", "take"} => z.n \in Nat /\ z.row \in WalletRows
    /\ z.do = "put" => z.n \in Nat /\ z.row \in WalletRows \cup HeldRows
    /\ z.do = "credit" => \A c \in z.ids : c[1] \in WalletRows /\ c[2] \in Nat
    /\ z.do = "seize" => \A p \in z.ids : p[1] \in Users /\ p[2] \in Tokens
    /\ z.do = "cancel" => z.ids \subseteq DOMAIN orders /\ "refund" \in DOMAIN z
    /\ z.do \in {"cancel", "seize", "pay", "credit"} => {"do", "ids"} \subseteq DOMAIN z

Typed(x) ==
    /\ \A row \in WalletRows \cup HeldRows : Mine(x, row) => x.mine[row] \in Nat
    /\ \A row \in DOMAIN x.mine : row[1] = "order" => row[2] \in DOMAIN orders
    /\ \A k \in DOMAIN x.todo : TypedStatement(x.todo[k])

\* What the statements to come add to a wallet, and what will be left in it.
Amount(z, row) ==
    IF z.do = "add" /\ z.row = row THEN z.n
    ELSE IF z.do = "take" /\ z.row = row THEN 0 - z.n ELSE 0

Pending(todo, row) ==
    SumTo([k \in DOMAIN todo |-> Amount(todo[k], row)], Len(todo))

Outlook(x, row) == View(x, row) + Pending(x.todo, row)

\* The transaction will add to the wallets of o's user what these two say.
Pays(x, o, money, shares) ==
    /\ \A u \in Users : Outlook(x, Cash(u))
          = collateral[u] + IF u = o.user THEN money ELSE 0
    /\ \A u \in Users, t \in Tokens : Outlook(x, Shares(u, t))
          = conditional[u][t] + IF u = o.user /\ t = o.token THEN shares ELSE 0

\* The position of a fill: not read yet, read, or written.  A position without
\* a row cannot be locked; then the wallet of its tokens is.
ToRead(x, o, fill) ==
    \E k \in Coming(x, {"position"}) :
        /\ x.todo[k].o = o /\ x.todo[k].n = fill.size
        /\ ~Mine(x, Held(o.user, o.token))
        /\ o.side = "BUY" =>
              \/ Mine(x, Shares(o.user, o.token))
              \/ \E j \in Coming(x, {"add"}) :
                    j < k /\ x.todo[j].row = Shares(o.user, o.token)

After(o, fill) == PositionAfter(position[o.user][o.token], o.side, fill.size)

ToWrite(x, o, fill) ==
    \E k \in Coming(x, {"put"}) :
        /\ x.todo[k].row = Held(o.user, o.token)
        /\ x.todo[k].n = After(o, fill)
        /\ \/ Mine(x, Held(o.user, o.token))
           \/ /\ <<o.user, o.token>> \notin opened
              /\ Mine(x, Shares(o.user, o.token))

Written(x, o, fill) ==
    /\ Coming(x, {"position", "put"}) = {}
    /\ Mine(x, Held(o.user, o.token))
    /\ x.mine[Held(o.user, o.token)] = After(o, fill)

HeldIsOwn(x, o) ==
    \A u \in Users, t \in Tokens :
        Mine(x, Held(u, t)) => /\ u = o.user /\ t = o.token
                               /\ <<u, t>> \in opened \/ Mine(x, Shares(u, t))

PositionComes(x, o, fill) ==
    /\ HeldIsOwn(x, o)
    /\ \A j, k \in Coming(x, {"position", "put"}) : j = k
    /\ fill.size = 0 => /\ Coming(x, {"position", "put"}) = {}
                        /\ ~Mine(x, Held(o.user, o.token))
    /\ fill.size > 0 =>
          ToRead(x, o, fill) \/ ToWrite(x, o, fill) \/ Written(x, o, fill)

\* An order request: what it asks for is what PlaceOrder is given.
Requested(o, fill) ==
    \E u \in Users, t \in Tokens, side \in Sides, type \in OrderTypes,
       price \in Prices, size \in Sizes, salt \in Salts :
        \E answer \in {NoFill} \cup Fills(side, price, size) :
            LET init == InitialFill(type, size, answer)
            IN  /\ fill = init.fill
                /\ o = [user |-> u, token |-> t, side |-> side, type |-> type,
                        price |-> price, size |-> size, salt |-> salt,
                        matched |-> init.fill.size, status |-> init.status]
                /\ ~(type = "FOK" /\ init.status = "CANCELED")

Unfilled(o, fill) ==
    IF o.type = "FAK" /\ o.status = "CANCELED" THEN o.size - fill.size ELSE 0

ReservedIn(o) == IF o.side = "BUY" THEN Cash(o.user) ELSE Shares(o.user, o.token)
Reserved(o)   == ReservedCollateral(o, o.size) + ReservedConditional(o, o.size)

MoneyOf(o, fill) ==
    FillCollateral(o, fill) + ReservedCollateral(o, Unfilled(o, fill))
        - ReservedCollateral(o, o.size)

SharesOf(o, fill) ==
    FillConditional(o, fill) + ReservedConditional(o, Unfilled(o, fill))
        - ReservedConditional(o, o.size)

\* The reservation is taken first, then the order is inserted.
Reserves(x, o) ==
    /\ \A k \in Coming(x, {"take"}) :
          /\ k = 1 /\ DOMAIN x.mine = {}
          /\ x.todo[k].row = ReservedIn(o) /\ x.todo[k].n = Reserved(o)
    /\ Coming(x, {"take"}) = {} =>
          Mine(x, ReservedIn(o)) /\ Affordable(o.user, o.token, o)

Inserts(x, o) ==
    /\ \A k \in Coming(x, {"insert"}) : k = 1 \/ (k = 2 /\ 1 \in Coming(x, {"take"}))
    /\ Coming(x, {"insert"}) # {} => x.new = <<>>
    /\ Coming(x, {"insert"}) = {} => x.new = <<o>> /\ Mine(x, Key(o)) /\ ~Taken(o)

Places(x, o, fill) ==
    /\ Requested(o, fill)
    /\ OnlyComing(x, {"take", "insert", "add", "position", "put"})
    /\ x.made = <<>>
    /\ \A i \in DOMAIN orders : ~Mine(x, OrderRow(i))
    /\ Reserves(x, o)
    /\ Inserts(x, o)
    /\ Pays(x, o, MoneyOf(o, fill), SharesOf(o, fill))
    /\ PositionComes(x, o, fill)

\* A worker's transaction before and after it has locked the order.
FillBegins(x, r) ==
    /\ x.made = <<>> /\ DOMAIN x.mine = {}
    /\ \E found \in Fills(orders[r.id].side, orders[r.id].price,
                          orders[r.id].size - r.matched) :
          x.todo = <<[do |-> "order", r |-> r, found |-> found]>>

Filled(o, fill) ==
    [o EXCEPT !.matched = o.matched + fill.size,
              !.status = IF o.matched + fill.size >= o.size
                         THEN "MATCHED" ELSE "LIVE"]

Matches(x, i, o, fill) ==
    /\ OnlyComing(x, {"add", "position", "put"})
    /\ o.status = "LIVE"
    /\ x.made = <<TradeOf(i, o, fill, <<i, o.matched + fill.size>>)>>
    /\ \A j \in DOMAIN orders : Mine(x, OrderRow(j)) <=> j = i
    /\ x.mine[OrderRow(i)] = Filled(o, fill)
    /\ Pays(x, o, FillCollateral(o, fill), FillConditional(o, fill))
    /\ PositionComes(x, o, fill)

FillGoesOn(x, r) ==
    \E found \in Fills(orders[r.id].side, orders[r.id].price,
                       orders[r.id].size - r.matched) :
        Matches(x, r.id, orders[r.id], Capped(orders[r.id], found))

Matching(w, x, r) ==
    /\ Current(w, r)
    /\ x.new = <<>>
    /\ FillBegins(x, r) \/ FillGoesOn(x, r)

\* A cancellation closes LIVE orders, and those only.
Closed(x) == {i \in DOMAIN orders : Mine(x, OrderRow(i))}

Closes(x) ==
    \A i \in Closed(x) :
        /\ i \in Live
        /\ x.mine[OrderRow(i)] = [orders[i] EXCEPT !.status = "CANCELED"]

\* The orders a cancellation has closed or will close are these.
Aims(x, ids) ==
    /\ \A k \in Coming(x, {"cancel"}) : x.todo[k].ids \cap Live \subseteq ids
    /\ Closed(x) \subseteq ids
    /\ \A i \in ids \cap Live :
          i \in Closed(x) \/ \E k \in Coming(x, {"cancel"}) : i \in x.todo[k].ids

Refunding(x) ==
    /\ \A u \in Users : Outlook(x, Cash(u)) = collateral[u] + HeldMoney(Closed(x), u)
    /\ \A u \in Users, t \in Tokens : Outlook(x, Shares(u, t))
          = conditional[u][t] + HeldTokens(Closed(x), u, t)

Cancelling(x) ==
    /\ OnlyComing(x, {"cancel", "add"})
    /\ \A k \in Coming(x, {"cancel"}) : x.todo[k].refund
    /\ x.new = <<>> /\ x.made = <<>>
    /\ \A row \in HeldRows : ~Mine(x, row)
    /\ Closes(x)
    /\ Refunding(x)

\* DELETE of one order, or of those of a filter that there were when it began.
Chosen(u, S, n) ==
    {i \in DOMAIN orders : i <= n /\ orders[i].user = u /\ orders[i].token \in S}

CancelAims(x) ==
    \/ \E i \in DOMAIN orders : Aims(x, {i})
    \/ \E u \in Users, S \in Filters, n \in 0..Len(orders) : Aims(x, Chosen(u, S, n))

OfToken(t, n) == {i \in DOMAIN orders : i <= n /\ orders[i].token = t}

GoneAims(w, x, t) ==
    /\ book[w] = NoToken
    /\ t \in SnapshotTokens(w) \cap gone
    /\ \E n \in 0..Len(orders) :
          (\A r \in SnapshotOf(w, t) : r.id <= n) /\ Aims(x, OfToken(t, n))

\* A settlement: rows of tokens exist only where a position was opened, and a
\* position that is paid for is zeroed.
OnOpened(x) ==
    \A u \in Users, t \in Tokens :
        <<u, t>> \notin opened =>
            /\ ~Mine(x, Shares(u, t)) /\ ~Mine(x, Held(u, t))
            /\ \A k \in Coming(x, {"add", "put"}) :
                  x.todo[k].row # Shares(u, t) /\ x.todo[k].row # Held(u, t)
            /\ \A k \in Coming(x, {"credit"}) :
                  \A z \in x.todo[k].ids : z[1] # Shares(u, t)

Settling(x) ==
    /\ OnlyComing(x, {"tokens", "positions", "seize", "pay", "add", "put",
                      "refund", "credit", "close", "cancel"})
    /\ x.job.S \subseteq Tokens
    /\ x.new = <<>> /\ x.made = <<>>
    /\ \A k \in Coming(x, {"cancel"}) : ~x.todo[k].refund
    /\ Closes(x)
    /\ OnOpened(x)

Grip(x) == {p \in Users \X Tokens : Mine(x, Held(p[1], p[2]))}

Puts(x, row) == {k \in Coming(x, {"put"}) : x.todo[k].row = row}

\* One position of a settlement.
Pocket(x, u, t) ==
    LET row == Held(u, t)
    IN  /\ Mine(x, row) /\ <<u, t>> \notin DOMAIN x.seized =>
              Puts(x, row) = {} /\ x.mine[row] = position[u][t]
        /\ <<u, t>> \in DOMAIN x.seized =>
              /\ x.seized[<<u, t>>] = position[u][t]
              /\ Puts(x, row) # {} \/ x.mine[row] = 0
        /\ ~Mine(x, row) => Puts(x, row) = {}
        /\ \A k \in Puts(x, row) : x.todo[k].n = 0

Pockets(x) ==
    /\ \A j, k \in Coming(x, {"positions", "seize", "pay"}) : j = k
    /\ Coming(x, {"positions", "seize"}) # {} => DOMAIN x.seized = {}
    /\ \A k \in Coming(x, {"pay"}) : x.todo[k].ids \subseteq Grip(x) \ DOMAIN x.seized
    /\ DOMAIN x.seized \subseteq Grip(x)
    /\ \A u \in Users, t \in Tokens : Pocket(x, u, t)

ClientOK(x) ==
    \/ x.job.kind = "place" /\ Places(x, x.job.o, x.job.fill)
    \/ x.job.kind = "cancel" /\ Cancelling(x) /\ CancelAims(x)

WorkerOK(w, x) ==
    \/ x.job.kind = "fill" /\ Matching(w, x, x.job.r)
    \/ x.job.kind = "gone" /\ Cancelling(x) /\ GoneAims(w, x, x.job.t)

\* What is settled has a winner or is lost by what the settlement has read of
\* the tokens, and it reads that first.
Ruled(x, p) == p[2] \in x.job.won \cup x.job.lost

Judged(x) ==
    /\ x.job = [kind |-> "settle", market |-> x.job.market, S |-> x.job.S,
                won |-> x.job.won, lost |-> x.job.lost]
    /\ \A k \in Coming(x, {"tokens"}) : k = 1
    /\ Coming(x, {"tokens"}) # {} => Coming(x, {"pay"}) = {} /\ DOMAIN x.seized = {}
    /\ \A k \in Coming(x, {"pay"}) : \A p \in x.todo[k].ids : Ruled(x, p)
    /\ \A p \in DOMAIN x.seized : Ruled(x, p)

PollerOK(x) == x.job.kind = "settle" /\ Settling(x) /\ Pockets(x) /\ Judged(x)

TxOK(s, x) ==
    /\ Shaped(x)
    /\ Typed(x)
    /\ s \notin Pollers => DOMAIN x.seized = {}
    /\ s \in Clients => ClientOK(x)
    /\ s \in Workers => WorkerOK(s, x)
    /\ s \in Pollers => PollerOK(x)

Disjoint ==
    \A s, q \in Sessions :
        s # q /\ Open(s) /\ Open(q)
            => DOMAIN tx[s].mine \cap DOMAIN tx[q].mine = {}

\* Without a row in positions there are no tokens, and none on offer.
Unopened ==
    \A u \in Users, t \in Tokens :
        <<u, t>> \notin opened =>
            /\ conditional[u][t] = 0 /\ position[u][t] = 0
            /\ \A i \in DOMAIN orders :
                  orders[i].user = u /\ orders[i].token = t => orders[i].side # "SELL"

TInv ==
    /\ Inv
    /\ tx = [s \in Sessions |-> tx[s]]
    /\ opened \subseteq Users \X Tokens
    /\ settled \in [Users -> [Tokens -> Nat]]
    /\ paid \in [Users -> [Tokens -> Nat]]
    /\ Disjoint
    /\ Unopened
    /\ SignedOnce
    /\ SettledWereBought
    /\ \A s \in Sessions : Open(s) => TxOK(s, tx[s])

-----------------------------------------------------------------------------
(* Rows.                                                                   *)

\* Rows of different tables are different, and so are the rows of one table.
LEMMA RowsDiffer ==
  /\ \A u, v, t : Cash(u) # Shares(v, t) /\ Cash(u) # Held(v, t)
  /\ \A u, i, o : Cash(u) # OrderRow(i) /\ Cash(u) # Key(o)
  /\ \A u, t, v, x : Shares(u, t) # Held(v, x)
  /\ \A u, t, i, o : Shares(u, t) # OrderRow(i) /\ Shares(u, t) # Key(o)
  /\ \A u, t, i, o : Held(u, t) # OrderRow(i) /\ Held(u, t) # Key(o)
  /\ \A i, o : OrderRow(i) # Key(o)
BY DEF Cash, Shares, Held, OrderRow, Key

LEMMA RowsNamed ==
  /\ \A u, v : Cash(u) = Cash(v) => u = v
  /\ \A u, t, v, x : Shares(u, t) = Shares(v, x) => u = v /\ t = x
  /\ \A u, t, v, x : Held(u, t) = Held(v, x) => u = v /\ t = x
  /\ \A i, j : OrderRow(i) = OrderRow(j) => i = j
  /\ \A o, q : Key(o) = Key(q) => o.user = q.user /\ o.salt = q.salt
BY DEF Cash, Shares, Held, OrderRow, Key

LEMMA CommittedRows ==
  /\ \A u : Committed(Cash(u)) = collateral[u]
  /\ \A u, t : Committed(Shares(u, t)) = conditional[u][t]
  /\ \A u, t : Committed(Held(u, t)) = position[u][t]
  /\ \A i : Committed(OrderRow(i)) = orders[i]
<1>1. ASSUME NEW u PROVE Committed(Cash(u)) = collateral[u]
  BY DEF Committed, Cash
<1>2. ASSUME NEW u, NEW t PROVE Committed(Shares(u, t)) = conditional[u][t]
  BY DEF Committed, Shares
<1>3. ASSUME NEW u, NEW t PROVE Committed(Held(u, t)) = position[u][t]
  BY DEF Committed, Held
<1>4. ASSUME NEW i PROVE Committed(OrderRow(i)) = orders[i]
  BY DEF Committed, OrderRow
<1> QED
  BY <1>1, <1>2, <1>3, <1>4

LEMMA RowTags ==
  /\ \A u : Cash(u)[1] = "collateral"
  /\ \A u, t : Shares(u, t)[1] = "conditional" /\ Held(u, t)[1] = "position"
  /\ \A i : OrderRow(i)[1] = "order" /\ OrderRow(i)[2] = i
  /\ \A o : Key(o)[1] = "key"
BY DEF Cash, Shares, Held, OrderRow, Key

\* What a session sees is what its transaction does.
LEMMA SeenIsView ==
  ASSUME NEW s, Open(s), NEW row
  PROVE  /\ Seen(s, row) = View(tx[s], row)
         /\ Holds(s, row) <=> Mine(tx[s], row)
BY DEF Seen, View, Holds, Mine

-----------------------------------------------------------------------------
(* Sequences of statements.                                                *)

LEMMA SeqOwn ==
  ASSUME NEW S, NEW x \in Seq(S)
  PROVE  IsSeq(x)
<1> DEFINE T == {x[k] : k \in DOMAIN x}
<1>1. Len(x) \in Nat /\ DOMAIN x = 1..Len(x) /\ x \in [1..Len(x) -> S]
  OBVIOUS
<1>2. x \in [1..Len(x) -> T]
  BY <1>1
<1>3. x \in Seq(T)
  <2> HIDE DEF T
  <2> QED
    BY <1>1, <1>2
<1> QED
  BY <1>3 DEF IsSeq

LEMMA SeqFacts ==
  ASSUME NEW x, IsSeq(x)
  PROVE  /\ Len(x) \in Nat /\ DOMAIN x = 1..Len(x)
         /\ x = <<>> <=> DOMAIN x = {}
         /\ <<>> \o x = x /\ x \o <<>> = x
<1> DEFINE S == {x[k] : k \in DOMAIN x}
<1>1. x \in Seq(S)
  BY DEF IsSeq
<1> HIDE DEF S
<1>2. Len(x) \in Nat /\ DOMAIN x = 1..Len(x)
  BY <1>1
<1>3. x = <<>> <=> DOMAIN x = {}
  BY <1>1
<1>4. <<>> \o x = x /\ x \o <<>> = x
  BY <1>1
<1> QED
  BY <1>2, <1>3, <1>4

LEMMA TailFacts ==
  ASSUME NEW x, IsSeq(x), x # <<>>
  PROVE  /\ 1 \in DOMAIN x /\ Head(x) = x[1]
         /\ IsSeq(Tail(x)) /\ Len(Tail(x)) = Len(x) - 1
         /\ \A k \in DOMAIN Tail(x) : k + 1 \in DOMAIN x /\ Tail(x)[k] = x[k + 1]
         /\ \A k \in DOMAIN x \ {1} : k - 1 \in DOMAIN Tail(x)
<1> DEFINE S == {x[k] : k \in DOMAIN x}
<1>1. x \in Seq(S)
  BY DEF IsSeq
<1> HIDE DEF S
<1>2. Len(x) \in Nat /\ DOMAIN x = 1..Len(x)
  BY <1>1
<1>3. 1 \in DOMAIN x /\ Head(x) = x[1]
  BY <1>1
<1>4. Tail(x) \in Seq(S) /\ Len(Tail(x)) = Len(x) - 1
  BY <1>1
<1>5. DOMAIN Tail(x) = 1..(Len(x) - 1)
  BY <1>4
<1>6. \A k \in DOMAIN Tail(x) : k + 1 \in DOMAIN x /\ Tail(x)[k] = x[k + 1]
  BY <1>1, <1>2, <1>5
<1>7. \A k \in DOMAIN x \ {1} : k - 1 \in DOMAIN Tail(x)
  BY <1>2, <1>5
<1>8. IsSeq(Tail(x))
  BY <1>4, SeqOwn
<1> QED
  BY <1>3, <1>4, <1>6, <1>7, <1>8

\* z is x and then y.
Joined(x, y, z) ==
    /\ IsSeq(z) /\ Len(z) = Len(x) + Len(y)
    /\ \A k \in DOMAIN x : k \in DOMAIN z /\ z[k] = x[k]
    /\ \A k \in DOMAIN y : Len(x) + k \in DOMAIN z /\ z[Len(x) + k] = y[k]
    /\ \A k \in DOMAIN z : \/ k \in DOMAIN x
                           \/ k > Len(x) /\ k - Len(x) \in DOMAIN y

LEMMA CatFacts ==
  ASSUME NEW x, IsSeq(x), NEW y, IsSeq(y), NEW z, z = x \o y
  PROVE  Joined(x, y, z)
<1> DEFINE S == {x[k] : k \in DOMAIN x} \cup {y[k] : k \in DOMAIN y}
<1>1. x \in Seq(S) /\ y \in Seq(S)
  BY DEF IsSeq
<1> HIDE DEF S
<1>2. /\ Len(x) \in Nat /\ DOMAIN x = 1..Len(x)
      /\ Len(y) \in Nat /\ DOMAIN y = 1..Len(y)
  BY <1>1
<1>3. x \o y \in Seq(S) /\ Len(x \o y) = Len(x) + Len(y)
  BY <1>1
<1>4. DOMAIN (x \o y) = 1..(Len(x) + Len(y))
  BY <1>3
<1>5. \A k \in DOMAIN x : (x \o y)[k] = x[k]
  BY <1>1, <1>2
<1>6. \A k \in DOMAIN y : (x \o y)[Len(x) + k] = y[k]
  BY <1>1, <1>2
<1>7. IsSeq(x \o y)
  BY <1>3, SeqOwn
<1>8. /\ IsSeq(z) /\ Len(z) = Len(x) + Len(y)
      /\ DOMAIN z = 1..(Len(x) + Len(y))
      /\ \A k \in DOMAIN x : z[k] = x[k]
      /\ \A k \in DOMAIN y : z[Len(x) + k] = y[k]
  BY <1>3, <1>4, <1>5, <1>6, <1>7
<1> QED
  BY <1>2, <1>8 DEF Joined

LEMMA OneFacts ==
  ASSUME NEW a
  PROVE  /\ IsSeq(<<a>>) /\ Len(<<a>>) = 1 /\ DOMAIN <<a>> = {1}
         /\ <<a>>[1] = a
         /\ IsSeq(<<>>) /\ Len(<<>>) = 0 /\ DOMAIN <<>> = {}
<1>1. <<a>> \in Seq({a}) /\ <<>> \in Seq({a})
  OBVIOUS
<1>2. IsSeq(<<a>>) /\ IsSeq(<<>>)
  BY <1>1, SeqOwn
<1> QED
  BY <1>2

\* After a statement the sequence is what the statement pushed and the rest.
Shifted(x, pre, y) ==
    /\ IsSeq(x) /\ IsSeq(pre) /\ IsSeq(y) /\ 1 \in DOMAIN x
    /\ Len(pre) \in Nat
    /\ \A k \in DOMAIN x : k \in Nat \ {0}
    /\ \A k \in DOMAIN pre : k \in 1..Len(pre) /\ k \in DOMAIN y /\ y[k] = pre[k]
    /\ \A k \in DOMAIN x \ {1} :
          k - 1 + Len(pre) \in DOMAIN y /\ y[k - 1 + Len(pre)] = x[k]
    /\ \A k \in DOMAIN y :
          /\ k \in Nat \ {0}
          /\ \/ k \in DOMAIN pre
             \/ /\ k > Len(pre) /\ k - Len(pre) + 1 \in DOMAIN x \ {1}
                /\ y[k] = x[k - Len(pre) + 1]

LEMMA Shift ==
  ASSUME NEW x, IsSeq(x), x # <<>>, NEW pre, IsSeq(pre),
         NEW y, y = pre \o Tail(x)
  PROVE  Shifted(x, pre, y)
<1>1. /\ Len(x) \in Nat /\ DOMAIN x = 1..Len(x)
      /\ Len(pre) \in Nat /\ DOMAIN pre = 1..Len(pre)
  BY SeqFacts
<1> DEFINE z == Tail(x)
<1>2. /\ 1 \in DOMAIN x /\ IsSeq(z) /\ Len(z) = Len(x) - 1
      /\ \A k \in DOMAIN z : k + 1 \in DOMAIN x /\ z[k] = x[k + 1]
      /\ \A k \in DOMAIN x \ {1} : k - 1 \in DOMAIN z
  BY TailFacts
<1> HIDE DEF z
<1>3. Len(z) \in Nat /\ DOMAIN z = 1..Len(z)
  BY <1>2, SeqFacts
<1>4. /\ IsSeq(y)
      /\ \A k \in DOMAIN pre : k \in DOMAIN y /\ y[k] = pre[k]
      /\ \A k \in DOMAIN z : Len(pre) + k \in DOMAIN y /\ y[Len(pre) + k] = z[k]
      /\ \A k \in DOMAIN y : \/ k \in DOMAIN pre
                             \/ k > Len(pre) /\ k - Len(pre) \in DOMAIN z
  <2>1. y = pre \o z
    BY DEF z
  <2>2. Joined(pre, z, y)
    BY <1>2, <2>1, CatFacts
  <2> QED
    BY <2>2 DEF Joined
<1>5. Len(y) \in Nat /\ DOMAIN y = 1..Len(y)
  BY <1>4, SeqFacts
<1>6. ASSUME NEW k \in DOMAIN x \ {1}
      PROVE  k - 1 + Len(pre) \in DOMAIN y /\ y[k - 1 + Len(pre)] = x[k]
  <2>1. PICK j \in DOMAIN z : j = k - 1
    BY <1>2
  <2>2. j + 1 = k /\ k - 1 + Len(pre) = Len(pre) + j
    BY <1>1, <1>3, <2>1
  <2>3. z[j] = x[j + 1] /\ Len(pre) + j \in DOMAIN y /\ y[Len(pre) + j] = z[j]
    BY <1>2, <1>4
  <2> QED
    BY <2>2, <2>3
<1>7. ASSUME NEW k \in DOMAIN y, k \notin DOMAIN pre
      PROVE  /\ k > Len(pre) /\ k - Len(pre) + 1 \in DOMAIN x \ {1}
             /\ y[k] = x[k - Len(pre) + 1]
  <2>1. PICK j \in DOMAIN z : j = k - Len(pre)
    BY <1>4, <1>7
  <2>2. k = Len(pre) + j /\ k > Len(pre) /\ j + 1 # 1
    BY <1>1, <1>3, <1>5, <2>1
  <2>3. z[j] = x[j + 1] /\ j + 1 \in DOMAIN x /\ y[Len(pre) + j] = z[j]
    BY <1>2, <1>4
  <2> QED
    BY <2>1, <2>2, <2>3
<1>8. /\ \A k \in DOMAIN x : k \in Nat \ {0}
      /\ \A k \in DOMAIN pre : k \in 1..Len(pre)
      /\ \A k \in DOMAIN y : k \in Nat \ {0}
  BY <1>1, <1>5
<1> QED
  BY <1>1, <1>2, <1>4, <1>6, <1>7, <1>8 DEF Shifted

\* The amounts of adding and taking statements are numbers.
Numbers(todo) ==
    /\ IsSeq(todo)
    /\ \A k \in DOMAIN todo : todo[k].do \in {"add", "take"} => todo[k].n \in Int

LEMMA PendingInt ==
  ASSUME NEW x, Numbers(x), NEW row
  PROVE  /\ Pending(x, row) \in Int
         /\ \A k \in DOMAIN x : Amount(x[k], row) \in Int
<1>1. \A k \in DOMAIN x : Amount(x[k], row) \in Int
  BY DEF Numbers, Amount
<1>2. Len(x) \in Nat /\ DOMAIN x = 1..Len(x)
  BY SeqFacts DEF Numbers
<1> DEFINE f == [k \in DOMAIN x |-> Amount(x[k], row)]
<1>3. \A k \in 1..Len(x) : f[k] \in Int
  BY <1>1, <1>2
<1> HIDE DEF f
<1>4. SumTo(f, Len(x)) \in Int
  BY <1>2, <1>3, SumToInt
<1> QED
  BY <1>1, <1>4 DEF Pending, f

LEMMA PendingCat ==
  ASSUME NEW x, Numbers(x), NEW y, Numbers(y), NEW row
  PROVE  /\ Numbers(x \o y)
         /\ Pending(x \o y, row) = Pending(x, row) + Pending(y, row)
<1> DEFINE z == x \o y
<1>1. /\ Len(x) \in Nat /\ DOMAIN x = 1..Len(x)
      /\ Len(y) \in Nat /\ DOMAIN y = 1..Len(y)
  BY SeqFacts DEF Numbers
<1>2. /\ IsSeq(z) /\ Len(z) = Len(x) + Len(y)
      /\ \A k \in DOMAIN x : k \in DOMAIN z /\ z[k] = x[k]
      /\ \A k \in DOMAIN y : Len(x) + k \in DOMAIN z /\ z[Len(x) + k] = y[k]
      /\ \A k \in DOMAIN z : \/ k \in DOMAIN x
                             \/ k > Len(x) /\ k - Len(x) \in DOMAIN y
  <2>1. IsSeq(x) /\ IsSeq(y)
    BY DEF Numbers
  <2>2. Joined(x, y, z)
    BY <2>1, CatFacts
  <2> QED
    BY <2>2 DEF Joined
<1> HIDE DEF z
<1>3. Len(z) \in Nat /\ DOMAIN z = 1..Len(z)
  BY <1>2, SeqFacts
<1>4. Numbers(z)
  <2> SUFFICES ASSUME NEW k \in DOMAIN z, z[k].do \in {"add", "take"}
               PROVE  z[k].n \in Int
    BY <1>2 DEF Numbers
  <2>1. CASE k \in DOMAIN x
    BY <1>2, <2>1 DEF Numbers
  <2>2. CASE k > Len(x) /\ k - Len(x) \in DOMAIN y
    <3>1. PICK j \in DOMAIN y : j = k - Len(x)
      BY <2>2
    <3>2. k = Len(x) + j
      BY <1>1, <1>3, <3>1
    <3> QED
      BY <1>2, <3>1, <3>2 DEF Numbers
  <2> QED
    BY <1>2, <2>1, <2>2
<1> DEFINE f == [k \in DOMAIN x |-> Amount(x[k], row)]
           g == [k \in DOMAIN y |-> Amount(y[k], row)]
           h == [k \in DOMAIN z |-> Amount(z[k], row)]
<1>5. \A k \in 1..Len(x) : f[k] \in Int /\ h[k] = f[k]
  BY <1>1, <1>2, PendingInt
<1>6. \A k \in 1..Len(y) : g[k] \in Int /\ h[Len(x) + k] = g[k]
  BY <1>1, <1>2, PendingInt
<1> HIDE DEF f, g, h
<1>7. Follows(f, Len(x), g, Len(y), h)
  BY <1>5, <1>6 DEF Follows
<1>8. SumTo(h, Len(z)) = SumTo(f, Len(x)) + SumTo(g, Len(y))
  BY <1>1, <1>2, <1>7, SumToCat
<1> QED
  BY <1>4, <1>8 DEF Pending, f, g, h, z

LEMMA PendingOne ==
  ASSUME NEW row
  PROVE  /\ Numbers(<<>>) /\ Pending(<<>>, row) = 0
         /\ \A a : (a.do \in {"add", "take"} => a.n \in Int)
                => Numbers(<<a>>) /\ Pending(<<a>>, row) = Amount(a, row)
<1>1. Numbers(<<>>) /\ Pending(<<>>, row) = 0
  BY OneFacts, SumToDef DEF Numbers, Pending
<1>2. ASSUME NEW a, a.do \in {"add", "take"} => a.n \in Int
      PROVE  Numbers(<<a>>) /\ Pending(<<a>>, row) = Amount(a, row)
  <2>1. Numbers(<<a>>)
    BY <1>2, OneFacts DEF Numbers
  <2> DEFINE f == [k \in DOMAIN <<a>> |-> Amount(<<a>>[k], row)]
  <2>2. f[1] = Amount(a, row) /\ f[1] \in Int
    BY <1>2, OneFacts DEF Amount
  <2>3. Pending(<<a>>, row) = SumTo(f, 1)
    BY OneFacts DEF Pending
  <2> HIDE DEF f
  <2>4. SumTo(f, 1) = SumTo(f, 0) + f[1] /\ SumTo(f, 0) = 0
    BY SumToDef, 1 - 1 = 0
  <2> QED
    BY <2>1, <2>2, <2>3, <2>4
<1> QED
  BY <1>1, <1>2

\* What a statement leaves pending.
LEMMA PendingShift ==
  ASSUME NEW x, Numbers(x), x # <<>>, NEW pre, Numbers(pre), NEW row
  PROVE  /\ Numbers(pre \o Tail(x))
         /\ Pending(pre \o Tail(x), row)
              = Pending(pre, row) + Pending(x, row) - Amount(x[1], row)
<1> DEFINE z == Tail(x)
<1>1. /\ 1 \in DOMAIN x /\ IsSeq(z) /\ Len(z) = Len(x) - 1
      /\ \A k \in DOMAIN z : k + 1 \in DOMAIN x /\ z[k] = x[k + 1]
      /\ \A k \in DOMAIN x \ {1} : k - 1 \in DOMAIN z
  BY TailFacts DEF Numbers
<1> HIDE DEF z
<1>2. /\ Len(x) \in Nat /\ DOMAIN x = 1..Len(x)
      /\ Len(z) \in Nat /\ DOMAIN z = 1..Len(z)
  BY <1>1, SeqFacts DEF Numbers
<1>3. Numbers(z)
  BY <1>1 DEF Numbers
<1> DEFINE a == x[1]
<1>4. a.do \in {"add", "take"} => a.n \in Int
  BY <1>1 DEF Numbers
<1>5. x = <<a>> \o z
  <2>1. x \in Seq({x[k] : k \in DOMAIN x})
    BY DEF Numbers, IsSeq
  <2> QED
    BY <2>1 DEF z
<1> HIDE DEF a
<1>6. Numbers(<<a>>) /\ Pending(<<a>>, row) = Amount(a, row)
  <2>1. \A b : (b.do \in {"add", "take"} => b.n \in Int)
           => Numbers(<<b>>) /\ Pending(<<b>>, row) = Amount(b, row)
    BY PendingOne
  <2> QED
    BY <1>4, <2>1
<1>7. Pending(x, row) = Amount(a, row) + Pending(z, row)
  BY <1>3, <1>5, <1>6, PendingCat
<1>8. Numbers(pre \o z) /\ Pending(pre \o z, row) = Pending(pre, row) + Pending(z, row)
  BY <1>3, PendingCat
<1>9. Pending(pre, row) \in Int /\ Pending(z, row) \in Int
  BY <1>3, PendingInt
<1>10. Amount(a, row) \in Int
  BY <1>4 DEF Amount
<1> QED
  BY <1>7, <1>8, <1>9, <1>10 DEF z, a

-----------------------------------------------------------------------------
(* One statement of a transaction.                                         *)

\* x before a statement and y after it, which pushed pre.
Steps(x, y, pre) ==
    /\ Shaped(x) /\ Shaped(y)
    /\ Shifted(x.todo, pre, y.todo)
    /\ Numbers(x.todo) /\ Numbers(pre) /\ Numbers(y.todo)
    /\ \A row : Pending(y.todo, row)
          = Pending(pre, row) + Pending(x.todo, row) - Amount(x.todo[1], row)
    /\ y.job = x.job

\* The statement wrote one row.
Wrote(x, y, row, value) ==
    /\ DOMAIN y.mine = DOMAIN x.mine \cup {row}
    /\ y.mine[row] = value
    /\ \A r \in DOMAIN x.mine \ {row} : y.mine[r] = x.mine[r]

Goes(x, mine, todo) ==
    [job |-> x.job, todo |-> todo, mine |-> mine,
     new |-> x.new, made |-> x.made, seized |-> x.seized]

LEMMA TypedNumbers ==
  ASSUME NEW x, Shaped(x), Typed(x)
  PROVE  Numbers(x.todo)
<1>1. ASSUME NEW k \in DOMAIN x.todo, x.todo[k].do \in {"add", "take"}
      PROVE  x.todo[k].n \in Int
  <2>1. x.todo[k].n \in Nat
    BY <1>1 DEF Typed, TypedStatement
  <2> QED
    BY <2>1
<1> QED
  BY <1>1 DEF Shaped, Numbers

LEMMA StepsTo ==
  ASSUME NEW x, Shaped(x), Typed(x), x.todo # <<>>, NEW pre, Numbers(pre),
         NEW y, Shaped(y), y.job = x.job, y.todo = pre \o Tail(x.todo)
  PROVE  Steps(x, y, pre)
<1>1. Numbers(x.todo) /\ IsSeq(x.todo) /\ IsSeq(pre)
  BY TypedNumbers DEF Numbers
<1> DEFINE todo == x.todo
<1>2. Numbers(todo) /\ IsSeq(todo) /\ todo # <<>> /\ y.todo = pre \o Tail(todo)
  BY <1>1
<1> HIDE DEF todo
<1>3. Shifted(todo, pre, y.todo)
  BY <1>1, <1>2, Shift
<1>4. ASSUME NEW row
      PROVE  /\ Numbers(y.todo)
             /\ Pending(y.todo, row)
                  = Pending(pre, row) + Pending(todo, row) - Amount(todo[1], row)
  BY <1>2, PendingShift
<1> QED
  BY <1>1, <1>3, <1>4 DEF Steps, todo

LEMMA Dropped ==
  ASSUME NEW x, NEW y, Steps(x, y, <<>>)
  PROVE  /\ 1 \in DOMAIN x.todo
         /\ \A k \in DOMAIN x.todo : k \in Nat \ {0}
         /\ \A k \in DOMAIN y.todo : k \in Nat \ {0}
         /\ \A k \in DOMAIN x.todo \ {1} :
               k - 1 \in DOMAIN y.todo /\ y.todo[k - 1] = x.todo[k]
         /\ \A k \in DOMAIN y.todo :
               k + 1 \in DOMAIN x.todo \ {1} /\ y.todo[k] = x.todo[k + 1]
<1> DEFINE a == x.todo
           b == y.todo
<1>1. Shifted(a, <<>>, b)
  BY DEF Steps
<1>2. Len(<<>>) = 0 /\ DOMAIN <<>> = {}
  BY OneFacts
<1> HIDE DEF a, b
<1>3. /\ 1 \in DOMAIN a
      /\ \A k \in DOMAIN a : k \in Nat \ {0}
      /\ \A k \in DOMAIN b : k \in Nat \ {0}
      /\ \A k \in DOMAIN a \ {1} : k - 1 + 0 \in DOMAIN b /\ b[k - 1 + 0] = a[k]
      /\ \A k \in DOMAIN b : /\ k - 0 + 1 \in DOMAIN a \ {1}
                             /\ b[k] = a[k - 0 + 1]
  BY <1>1, <1>2 DEF Shifted
<1>4. \A k \in DOMAIN a \ {1} : k - 1 + 0 = k - 1
  BY <1>3
<1>5. \A k \in DOMAIN b : k - 0 + 1 = k + 1
  BY <1>3
<1> QED
  BY <1>3, <1>4, <1>5 DEF a, b

LEMMA Replaced ==
  ASSUME NEW x, NEW y, NEW z, Steps(x, y, <<z>>)
  PROVE  /\ 1 \in DOMAIN x.todo /\ 1 \in DOMAIN y.todo /\ y.todo[1] = z
         /\ \A k \in DOMAIN x.todo : k \in Nat \ {0}
         /\ DOMAIN y.todo = DOMAIN x.todo
         /\ \A k \in DOMAIN x.todo \ {1} : y.todo[k] = x.todo[k]
<1> DEFINE a == x.todo
           b == y.todo
<1>1. Shifted(a, <<z>>, b)
  BY DEF Steps
<1>2. Len(<<z>>) = 1 /\ DOMAIN <<z>> = {1} /\ <<z>>[1] = z
  BY OneFacts
<1> HIDE DEF a, b
<1>3. /\ 1 \in DOMAIN a
      /\ \A k \in DOMAIN a : k \in Nat \ {0}
      /\ \A k \in DOMAIN b : k \in Nat \ {0}
      /\ 1 \in DOMAIN b /\ b[1] = z
      /\ \A k \in DOMAIN a \ {1} : k - 1 + 1 \in DOMAIN b /\ b[k - 1 + 1] = a[k]
      /\ \A k \in DOMAIN b \ {1} : k - 1 + 1 \in DOMAIN a
  BY <1>1, <1>2 DEF Shifted
<1>4. \A k \in DOMAIN a \ {1} : k - 1 + 1 = k
  BY <1>3
<1>5. \A k \in DOMAIN b \ {1} : k - 1 + 1 = k
  BY <1>3
<1>6. \A k \in DOMAIN a \ {1} : k \in DOMAIN b /\ b[k] = a[k]
  BY <1>3, <1>4
<1>7. \A k \in DOMAIN b \ {1} : k \in DOMAIN a
  BY <1>3, <1>5
<1>8. DOMAIN b = DOMAIN a
  BY <1>3, <1>6, <1>7
<1> QED
  BY <1>3, <1>6, <1>8 DEF a, b

\* Every statement after the step was pushed or was there before.
LEMMA NothingNew ==
  ASSUME NEW x, NEW y, NEW pre, Steps(x, y, pre)
  PROVE  /\ 1 \in DOMAIN x.todo
         /\ \A k \in DOMAIN y.todo :
              \/ \E j \in DOMAIN pre : y.todo[k] = pre[j]
              \/ \E j \in DOMAIN x.todo \ {1} : y.todo[k] = x.todo[j]
         /\ \A j \in DOMAIN x.todo \ {1} :
              \E k \in DOMAIN y.todo : y.todo[k] = x.todo[j]
         /\ \A j \in DOMAIN pre : \E k \in DOMAIN y.todo : y.todo[k] = pre[j]
<1> DEFINE a == x.todo
           b == y.todo
<1>1. Shifted(a, pre, b)
  BY DEF Steps
<1> HIDE DEF a, b
<1>2. /\ \A k \in DOMAIN b : \/ \E j \in DOMAIN pre : b[k] = pre[j]
                             \/ \E j \in DOMAIN a \ {1} : b[k] = a[j]
      /\ \A j \in DOMAIN a \ {1} : \E k \in DOMAIN b : b[k] = a[j]
      /\ \A j \in DOMAIN pre : \E k \in DOMAIN b : b[k] = pre[j]
      /\ 1 \in DOMAIN a
  BY <1>1 DEF Shifted
<1> QED
  BY <1>2 DEF a, b

LEMMA ViewNat ==
  ASSUME Rows, NEW x, Typed(x)
  PROVE  /\ \A u \in Users : View(x, Cash(u)) \in Nat
         /\ \A u \in Users, t \in Tokens :
               View(x, Shares(u, t)) \in Nat /\ View(x, Held(u, t)) \in Nat
         /\ \A row \in WalletRows \cup HeldRows : View(x, row) \in Nat
<1>1. ASSUME NEW u \in Users PROVE View(x, Cash(u)) \in Nat
  <2>1. Cash(u) \in WalletRows
    BY DEF WalletRows
  <2>2. collateral[u] \in Nat
    BY DEF Rows, AccountsTypeOK
  <2> QED
    BY <2>1, <2>2, CommittedRows DEF Typed, View
<1>2. ASSUME NEW u \in Users, NEW t \in Tokens
      PROVE  View(x, Shares(u, t)) \in Nat /\ View(x, Held(u, t)) \in Nat
  <2>1. Shares(u, t) \in WalletRows /\ Held(u, t) \in HeldRows
    BY DEF WalletRows, HeldRows
  <2>2. conditional[u][t] \in Nat /\ position[u][t] \in Nat
    BY DEF Rows, AccountsTypeOK
  <2> QED
    BY <2>1, <2>2, CommittedRows DEF Typed, View
<1>3. ASSUME NEW row \in WalletRows \cup HeldRows PROVE View(x, row) \in Nat
  BY <1>1, <1>2 DEF WalletRows, HeldRows
<1> QED
  BY <1>1, <1>2, <1>3

\* What is left in a row does not change when a statement writes what it says.
LEMMA OutlookSteps ==
  ASSUME NEW x, NEW y, NEW pre, Steps(x, y, pre), NEW row,
         View(x, row) \in Int, View(y, row) \in Int,
         View(y, row) + Pending(pre, row) = View(x, row) + Amount(x.todo[1], row)
  PROVE  Outlook(y, row) = Outlook(x, row)
<1>1. 1 \in DOMAIN x.todo
  BY NothingNew
<1>2. /\ Pending(x.todo, row) \in Int /\ Pending(pre, row) \in Int
      /\ Amount(x.todo[1], row) \in Int
  <2>1. Numbers(x.todo) /\ Numbers(pre)
    BY DEF Steps
  <2> QED
    BY <1>1, <2>1, PendingInt
<1>3. Pending(y.todo, row)
        = Pending(pre, row) + Pending(x.todo, row) - Amount(x.todo[1], row)
  BY DEF Steps
<1> QED
  BY <1>2, <1>3 DEF Outlook

LEMMA TypedSteps ==
  ASSUME NEW x, NEW y, NEW pre, Steps(x, y, pre), Typed(x),
         \A k \in DOMAIN pre : TypedStatement(pre[k]),
         \A r \in DOMAIN y.mine :
            \/ r \in DOMAIN x.mine /\ y.mine[r] = x.mine[r]
            \/ /\ r \in WalletRows \cup HeldRows => y.mine[r] \in Nat
               /\ r[1] = "order" => r[2] \in DOMAIN orders
  PROVE  Typed(y)
<1>1. \A k \in DOMAIN y.todo : TypedStatement(y.todo[k])
  BY NothingNew DEF Typed
<1>2. \A r \in WalletRows \cup HeldRows : Mine(y, r) => y.mine[r] \in Nat
  BY DEF Typed, Mine
<1>3. \A r \in DOMAIN y.mine : r[1] = "order" => r[2] \in DOMAIN orders
  BY DEF Typed
<1> QED
  BY <1>1, <1>2, <1>3 DEF Typed

LEMMA WroteView ==
  ASSUME NEW x, NEW y, NEW row, NEW value, Wrote(x, y, row, value)
  PROVE  /\ View(y, row) = value /\ Mine(y, row)
         /\ \A r : r # row => /\ View(y, r) = View(x, r)
                              /\ Mine(y, r) <=> Mine(x, r)
         /\ \A r : Mine(x, r) => Mine(y, r)
         /\ \A r : Mine(y, r) => Mine(x, r) \/ r = row
BY DEF Wrote, View, Mine

LEMMA GoesFields ==
  ASSUME NEW x, NEW mine, NEW todo
  PROVE  /\ Goes(x, mine, todo).job = x.job /\ Goes(x, mine, todo).todo = todo
         /\ Goes(x, mine, todo).mine = mine /\ Goes(x, mine, todo).new = x.new
         /\ Goes(x, mine, todo).made = x.made
         /\ Goes(x, mine, todo).seized = x.seized
         /\ IsSeq(todo) => Shaped(Goes(x, mine, todo))
BY DEF Goes, Shaped

-----------------------------------------------------------------------------
(* The wallets and the position of a fill.                                 *)

LEMMA PaysKept ==
  ASSUME NEW x, NEW y, NEW o, NEW money, NEW shares, Pays(x, o, money, shares),
         \A u \in Users : Outlook(y, Cash(u)) = Outlook(x, Cash(u)),
         \A u \in Users, t \in Tokens :
            Outlook(y, Shares(u, t)) = Outlook(x, Shares(u, t))
  PROVE  Pays(y, o, money, shares)
BY DEF Pays

\* A statement that touches no position leaves what is to come of it.
LEMMA PositionWaits ==
  ASSUME NEW x, NEW y, NEW o, NEW fill, PositionComes(x, o, fill),
         Steps(x, y, <<>>), x.todo[1].do \in {"take", "insert", "add"},
         NEW row, NEW value, Wrote(x, y, row, value),
         \A u, t : row # Held(u, t),
         x.todo[1].do = "add" => x.todo[1].row = row
  PROVE  PositionComes(y, o, fill)
<1> DEFINE W == {"position", "put"}
<1>1. /\ 1 \in DOMAIN x.todo
      /\ \A k \in DOMAIN x.todo : k \in Nat \ {0}
      /\ \A k \in DOMAIN y.todo : k \in Nat \ {0}
      /\ \A k \in DOMAIN x.todo \ {1} :
            k - 1 \in DOMAIN y.todo /\ y.todo[k - 1] = x.todo[k]
      /\ \A k \in DOMAIN y.todo :
            k + 1 \in DOMAIN x.todo \ {1} /\ y.todo[k] = x.todo[k + 1]
  BY Dropped
<1>2. /\ \A u, t : /\ Mine(y, Held(u, t)) <=> Mine(x, Held(u, t))
                   /\ Mine(x, Held(u, t)) =>
                         y.mine[Held(u, t)] = x.mine[Held(u, t)]
      /\ \A r : Mine(x, r) => Mine(y, r)
  BY DEF Wrote, Mine
<1>3. HeldIsOwn(y, o)
  BY <1>2 DEF PositionComes, HeldIsOwn
<1>4. \A k \in Coming(y, W) : k + 1 \in Coming(x, W)
  BY <1>1 DEF Coming
<1>5. \A j, k \in Coming(y, W) : j = k
  <2> SUFFICES ASSUME NEW j \in Coming(y, W), NEW k \in Coming(y, W)
               PROVE  j = k
    OBVIOUS
  <2>1. j + 1 = k + 1
    BY <1>4 DEF PositionComes
  <2>2. j \in Nat /\ k \in Nat
    BY <1>1 DEF Coming
  <2> QED
    BY <2>1, <2>2
<1>6. Coming(x, W) = {} => Coming(y, W) = {}
  BY <1>4
<1>7. CASE fill.size = 0
  BY <1>2, <1>3, <1>5, <1>6, <1>7 DEF PositionComes
<1>8. CASE fill.size > 0
  <2>1. ToRead(x, o, fill) \/ ToWrite(x, o, fill) \/ Written(x, o, fill)
    BY <1>8 DEF PositionComes
  <2>2. CASE ToRead(x, o, fill)
    <3>1. PICK k \in Coming(x, {"position"}) :
             /\ x.todo[k].o = o /\ x.todo[k].n = fill.size
             /\ ~Mine(x, Held(o.user, o.token))
             /\ o.side = "BUY" =>
                   \/ Mine(x, Shares(o.user, o.token))
                   \/ \E j \in Coming(x, {"add"}) :
                         j < k /\ x.todo[j].row = Shares(o.user, o.token)
      BY <2>2 DEF ToRead
    <3>2. k \in DOMAIN x.todo /\ k # 1 /\ x.todo[k].do = "position"
      BY DEF Coming
    <3>3. PICK i : i = k - 1
      OBVIOUS
    <3>4. i \in DOMAIN y.todo /\ y.todo[i] = x.todo[k] /\ i \in Coming(y, {"position"})
      BY <1>1, <3>2, <3>3 DEF Coming
    <3>5. ASSUME NEW j \in Coming(x, {"add"}),
                 j < k, x.todo[j].row = Shares(o.user, o.token)
          PROVE  \/ Mine(y, Shares(o.user, o.token))
                 \/ \E h \in Coming(y, {"add"}) :
                       h < i /\ y.todo[h].row = Shares(o.user, o.token)
      <4>1. CASE j = 1
        BY <3>5, <4>1 DEF Coming, Wrote, Mine
      <4>2. CASE j # 1
        <5>1. PICK h : h = j - 1
          OBVIOUS
        <5>2. h \in DOMAIN y.todo /\ y.todo[h] = x.todo[j]
          BY <1>1, <4>2, <5>1 DEF Coming
        <5>3. h \in Coming(y, {"add"}) /\ y.todo[h].row = Shares(o.user, o.token)
          BY <3>5, <5>2 DEF Coming
        <5>4. h < i
          BY <1>1, <3>2, <3>3, <3>5, <5>1 DEF Coming
        <5> QED
          BY <5>3, <5>4
      <4> QED
        BY <4>1, <4>2
    <3>6. ToRead(y, o, fill)
      BY <1>2, <3>1, <3>4, <3>5 DEF ToRead
    <3> QED
      BY <1>3, <1>5, <1>8, <3>6 DEF PositionComes
  <2>3. CASE ToWrite(x, o, fill)
    <3>1. PICK k \in Coming(x, {"put"}) :
             /\ x.todo[k].row = Held(o.user, o.token)
             /\ x.todo[k].n = After(o, fill)
             /\ \/ Mine(x, Held(o.user, o.token))
                \/ /\ <<o.user, o.token>> \notin opened
                   /\ Mine(x, Shares(o.user, o.token))
      BY <2>3 DEF ToWrite
    <3>2. k \in DOMAIN x.todo /\ k # 1
      BY DEF Coming
    <3>3. k - 1 \in Coming(y, {"put"}) /\ y.todo[k - 1] = x.todo[k]
      BY <1>1, <3>2 DEF Coming
    <3>4. ToWrite(y, o, fill)
      BY <1>2, <3>1, <3>3 DEF ToWrite
    <3> QED
      BY <1>3, <1>5, <1>8, <3>4 DEF PositionComes
  <2>4. CASE Written(x, o, fill)
    <3>1. Written(y, o, fill)
      BY <1>2, <1>6, <2>4 DEF Written
    <3> QED
      BY <1>3, <1>5, <1>8, <3>1 DEF PositionComes
  <2> QED
    BY <2>1, <2>2, <2>3, <2>4
<1>9. fill.size = 0 \/ fill.size > 0 \/ ~(fill.size = 0 \/ fill.size > 0)
  OBVIOUS
<1> QED
  BY <1>3, <1>5, <1>7, <1>8, <1>9 DEF PositionComes

\* The position is read, and its new size computed from it.
LEMMA PositionRead ==
  ASSUME NEW x, NEW y, NEW z, NEW o, NEW fill, PositionComes(x, o, fill),
         fill.size \in Nat, x.todo[1].do = "position", 1 \in DOMAIN x.todo,
         Steps(x, y, <<z>>), z.do = "put", z.row = Held(o.user, o.token),
         z.n = After(o, fill),
         \/ Wrote(x, y, z.row, position[o.user][o.token])
            /\ <<o.user, o.token>> \in opened
         \/ y.mine = x.mine /\ <<o.user, o.token>> \notin opened
            /\ Mine(x, Shares(o.user, o.token))
  PROVE  PositionComes(y, o, fill)
<1> DEFINE W == {"position", "put"}
<1>1. /\ 1 \in DOMAIN x.todo /\ 1 \in DOMAIN y.todo /\ y.todo[1] = z
      /\ DOMAIN y.todo = DOMAIN x.todo
      /\ \A k \in DOMAIN x.todo \ {1} : y.todo[k] = x.todo[k]
  BY Replaced
<1>2. 1 \in Coming(x, W) /\ 1 \in Coming(y, {"put"}) /\ 1 \in Coming(y, W)
  BY <1>1 DEF Coming
<1>3. \A k \in Coming(y, W) : k \in Coming(x, W)
  BY <1>1, <1>2 DEF Coming
<1>4. \A j, k \in Coming(y, W) : j = k
  BY <1>3 DEF PositionComes
<1>5. fill.size > 0
  BY <1>2 DEF PositionComes
<1>6. HeldIsOwn(y, o)
  <2>1. \A u \in Users, t \in Tokens : Held(u, t) = z.row
           => u = o.user /\ t = o.token
    BY RowsNamed
  <2>2. CASE Wrote(x, y, z.row, position[o.user][o.token])
             /\ <<o.user, o.token>> \in opened
    <3>1. \A r : Mine(y, r) <=> Mine(x, r) \/ r = z.row
      BY <2>2 DEF Wrote, Mine
    <3>2. HeldIsOwn(x, o)
      BY DEF PositionComes
    <3> QED
      BY <2>1, <2>2, <3>1, <3>2 DEF HeldIsOwn
  <2>3. CASE y.mine = x.mine
    BY <2>3 DEF PositionComes, HeldIsOwn, Mine
  <2> QED
    BY <2>2, <2>3
<1>7. ToWrite(y, o, fill)
  <2>1. y.todo[1].row = Held(o.user, o.token) /\ y.todo[1].n = After(o, fill)
    BY <1>1
  <2>2. \/ Mine(y, Held(o.user, o.token))
        \/ <<o.user, o.token>> \notin opened /\ Mine(y, Shares(o.user, o.token))
    BY DEF Wrote, Mine
  <2> QED
    BY <1>2, <2>1, <2>2 DEF ToWrite
<1> QED
  BY <1>4, <1>5, <1>6, <1>7 DEF PositionComes

\* The new size is written.
LEMMA PositionPut ==
  ASSUME NEW x, NEW y, NEW o, NEW fill, PositionComes(x, o, fill),
         fill.size \in Nat, o.user \in Users, o.token \in Tokens,
         x.todo[1].do = "put", Steps(x, y, <<>>),
         Wrote(x, y, x.todo[1].row, x.todo[1].n)
  PROVE  /\ PositionComes(y, o, fill)
         /\ x.todo[1].row = Held(o.user, o.token)
<1> DEFINE W == {"position", "put"}
           row == Held(o.user, o.token)
<1>1. /\ 1 \in DOMAIN x.todo
      /\ \A k \in DOMAIN x.todo : k \in Nat \ {0}
      /\ \A k \in DOMAIN y.todo : k \in Nat \ {0}
      /\ \A k \in DOMAIN y.todo :
            k + 1 \in DOMAIN x.todo \ {1} /\ y.todo[k] = x.todo[k + 1]
  BY Dropped
<1>2. 1 \in Coming(x, W) /\ 1 \notin Coming(x, {"position"})
  BY <1>1 DEF Coming
<1>3. \A k \in Coming(x, W) : k = 1
  BY <1>2 DEF PositionComes
<1>4. Coming(y, W) = {}
  <2> SUFFICES ASSUME NEW k \in Coming(y, W) PROVE FALSE
    OBVIOUS
  <2>1. k + 1 \in Coming(x, W) /\ k \in Nat \ {0}
    BY <1>1 DEF Coming
  <2> QED
    BY <1>3, <2>1
<1>5. fill.size > 0
  BY <1>2 DEF PositionComes
<1>6. ToWrite(x, o, fill)
  <2>1. Coming(x, {"position"}) \subseteq Coming(x, W)
    BY DEF Coming
  <2>2. ~ToRead(x, o, fill)
    BY <1>2, <1>3, <2>1 DEF ToRead
  <2>3. ~Written(x, o, fill)
    BY <1>2 DEF Written
  <2> QED
    BY <1>5, <2>2, <2>3 DEF PositionComes
<1>7. /\ x.todo[1].row = row /\ x.todo[1].n = After(o, fill)
      /\ \/ Mine(x, row)
         \/ <<o.user, o.token>> \notin opened /\ Mine(x, Shares(o.user, o.token))
  <2>1. Coming(x, {"put"}) \subseteq Coming(x, W)
    BY DEF Coming
  <2> QED
    BY <1>3, <1>6, <2>1 DEF ToWrite
<1>8. Written(y, o, fill)
  BY <1>4, <1>7 DEF Written, Wrote, Mine
<1>9. HeldIsOwn(y, o)
  <2>1. HeldIsOwn(x, o)
    BY DEF PositionComes
  <2>2. \A r : Mine(y, r) <=> Mine(x, r) \/ r = row
    BY <1>7 DEF Wrote, Mine
  <2>3. \A u \in Users, t \in Tokens : Held(u, t) = row
           => u = o.user /\ t = o.token
    BY RowsNamed
  <2>4. \/ <<o.user, o.token>> \in opened
        \/ Mine(x, Shares(o.user, o.token))
    BY <1>7, <2>1 DEF HeldIsOwn
  <2> QED
    BY <2>1, <2>2, <2>3, <2>4 DEF HeldIsOwn
<1> QED
  BY <1>4, <1>5, <1>7, <1>8, <1>9 DEF PositionComes

-----------------------------------------------------------------------------
(* The wallets.                                                            *)

LEMMA PendingNone ==
  ASSUME NEW x, IsSeq(x), \A k \in DOMAIN x : x[k].do \notin {"add", "take"}
  PROVE  Numbers(x) /\ \A row : Pending(x, row) = 0
<1>1. Numbers(x)
  BY DEF Numbers
<1>2. ASSUME NEW row PROVE Pending(x, row) = 0
  <2> DEFINE f == [k \in DOMAIN x |-> Amount(x[k], row)]
  <2>1. Len(x) \in Nat /\ DOMAIN x = 1..Len(x)
    BY SeqFacts
  <2>2. \A k \in 1..Len(x) : f[k] = 0
    BY <2>1 DEF Amount
  <2> HIDE DEF f
  <2>3. SumTo(f, Len(x)) = 0
    BY <2>1, <2>2, SumToZero
  <2> QED
    BY <2>3 DEF Pending, f
<1> QED
  BY <1>1, <1>2

LEMMA AddFacts ==
  ASSUME NEW row, NEW n \in Nat
  PROVE  /\ Numbers(Add(row, n)) /\ IsSeq(Add(row, n))
         /\ \A k \in DOMAIN Add(row, n) :
               /\ Add(row, n)[k].do = "add" /\ Add(row, n)[k].row = row
               /\ Add(row, n)[k].n = n
         /\ n # 0 => DOMAIN Add(row, n) = {1}
         /\ \A w : Pending(Add(row, n), w) = IF w = row THEN n ELSE 0
<1>1. CASE n = 0
  BY <1>1, PendingOne, OneFacts DEF Add
<1>2. CASE n # 0
  <2> DEFINE a == [do |-> "add", row |-> row, n |-> n]
  <2>1. Add(row, n) = <<a>>
    BY <1>2 DEF Add
  <2>2. a.do = "add" /\ a.row = row /\ a.n = n
    OBVIOUS
  <2> HIDE DEF a
  <2>3. \A w : Amount(a, w) = IF w = row THEN n ELSE 0
    BY <2>2 DEF Amount
  <2>4. IsSeq(<<a>>) /\ DOMAIN <<a>> = {1} /\ <<a>>[1] = a
    BY OneFacts
  <2>5. ASSUME NEW w PROVE Numbers(<<a>>) /\ Pending(<<a>>, w) = Amount(a, w)
    <3>1. \A b : (b.do \in {"add", "take"} => b.n \in Int)
             => Numbers(<<b>>) /\ Pending(<<b>>, w) = Amount(b, w)
      BY PendingOne
    <3> QED
      BY <2>2, <3>1
  <2> QED
    BY <2>1, <2>2, <2>3, <2>4, <2>5
<1> QED
  BY <1>1, <1>2

\* The statement adds to a wallet or takes from it what it says.
Moves(x, y) ==
    LET row == x.todo[1].row
        n   == x.todo[1].n
    IN  \/ x.todo[1].do = "add" /\ Wrote(x, y, row, View(x, row) + n)
        \/ /\ x.todo[1].do = "take"
           /\ View(x, row) >= n /\ Wrote(x, y, row, View(x, row) - n)

LEMMA MoneyMoves ==
  ASSUME Rows, NEW x, NEW y, Typed(x), Steps(x, y, <<>>), Moves(x, y)
  PROVE  /\ Typed(y)
         /\ \A row \in WalletRows : Outlook(y, row) = Outlook(x, row)
         /\ x.todo[1].row \in WalletRows
         /\ \E value : Wrote(x, y, x.todo[1].row, value)
<1> DEFINE row == x.todo[1].row
           n   == x.todo[1].n
<1>1. 1 \in DOMAIN x.todo
  BY NothingNew
<1>2. x.todo[1].do \in {"add", "take"} /\ row \in WalletRows /\ n \in Nat
  BY <1>1 DEF Typed, TypedStatement, Moves
<1>3. View(x, row) \in Nat
  BY <1>2, ViewNat
<1>4. PICK value \in Nat : /\ Wrote(x, y, row, value)
                           /\ value = View(x, row) + Amount(x.todo[1], row)
  <2>1. CASE x.todo[1].do = "add"
    <3>1. View(x, row) + n \in Nat /\ Amount(x.todo[1], row) = n
      BY <1>2, <1>3, <2>1 DEF Amount
    <3> QED
      BY <2>1, <3>1 DEF Moves
  <2>2. CASE x.todo[1].do = "take"
    <3>1. View(x, row) >= n /\ Wrote(x, y, row, View(x, row) - n)
      BY <2>2 DEF Moves
    <3>2. /\ View(x, row) - n \in Nat /\ Amount(x.todo[1], row) = 0 - n
          /\ View(x, row) + (0 - n) = View(x, row) - n
      BY <1>2, <1>3, <2>2, <3>1 DEF Amount
    <3> QED
      BY <3>1, <3>2
  <2> QED
    BY <1>2, <2>1, <2>2
<1> HIDE DEF row, n
<1>5. Typed(y)
  <2>1. \A r \in DOMAIN y.mine : \/ r \in DOMAIN x.mine /\ y.mine[r] = x.mine[r]
                                 \/ r = row /\ y.mine[r] = value
    BY <1>4 DEF Wrote
  <2>2. row[1] # "order"
    BY <1>2, RowTags DEF WalletRows, row
  <2>3. DOMAIN <<>> = {}
    BY OneFacts
  <2> QED
    BY <1>4, <2>1, <2>2, <2>3, TypedSteps
<1>6. ASSUME NEW w \in WalletRows PROVE Outlook(y, w) = Outlook(x, w)
  <2>1. View(x, w) \in Nat
    BY ViewNat
  <2>2. Pending(<<>>, w) = 0
    BY PendingOne
  <2>3. CASE w = row
    <3>1. View(y, w) = value
      BY <1>4, <2>3, WroteView
    <3> QED
      BY <1>4, <2>1, <2>2, <2>3, <3>1, OutlookSteps
  <2>4. CASE w # row
    <3>1. View(y, w) = View(x, w)
      BY <1>4, <2>4, WroteView
    <3>2. Amount(x.todo[1], w) = 0
      BY <2>4 DEF Amount, row
    <3> QED
      BY <2>1, <2>2, <3>1, <3>2, OutlookSteps
  <2> QED
    BY <2>3, <2>4
<1> QED
  BY <1>2, <1>4, <1>5, <1>6 DEF row

\* Other statements leave the wallets alone.
LEMMA WalletsRest ==
  ASSUME Rows, NEW x, NEW y, NEW pre, Typed(x), Steps(x, y, pre),
         x.todo[1].do \notin {"add", "take"},
         \A k \in DOMAIN pre : pre[k].do \notin {"add", "take"},
         \A row \in WalletRows : View(y, row) = View(x, row)
  PROVE  \A row \in WalletRows : Outlook(y, row) = Outlook(x, row)
<1> SUFFICES ASSUME NEW row \in WalletRows
             PROVE  Outlook(y, row) = Outlook(x, row)
  OBVIOUS
<1>1. View(x, row) \in Nat /\ View(y, row) = View(x, row)
  BY ViewNat
<1>2. Pending(pre, row) = 0
  BY PendingNone DEF Steps, Numbers
<1>3. Amount(x.todo[1], row) = 0
  BY DEF Amount
<1> QED
  BY <1>1, <1>2, <1>3, OutlookSteps

LEMMA WalletsKept ==
  ASSUME NEW x, NEW y, \A row \in WalletRows : Outlook(y, row) = Outlook(x, row)
  PROVE  /\ \A u \in Users : Outlook(y, Cash(u)) = Outlook(x, Cash(u))
         /\ \A u \in Users, t \in Tokens :
               Outlook(y, Shares(u, t)) = Outlook(x, Shares(u, t))
BY DEF WalletRows

\* A statement that writes a row of no wallet.
LEMMA OtherRow ==
  ASSUME NEW x, NEW y, NEW row, NEW value, Wrote(x, y, row, value),
         row \notin WalletRows
  PROVE  \A w \in WalletRows : View(y, w) = View(x, w)
BY WroteView

-----------------------------------------------------------------------------
(* The statements of an order request.                                     *)

LEMMA RequestedFields ==
  ASSUME NEW o, NEW fill, Requested(o, fill)
  PROVE  /\ o.user \in Users /\ o.token \in Tokens /\ o.side \in Sides
         /\ o.price \in Nat \ {0} /\ o.size \in Nat \ {0} /\ o \in Order
         /\ fill.size \in Nat /\ fill.size <= o.size /\ fill.price \in Nat
         /\ o.side = "BUY" => fill.price <= o.price
         /\ Unfilled(o, fill) \in Nat
<1>1. PICK u \in Users, t \in Tokens, side \in Sides, type \in OrderTypes,
           price \in Prices, size \in Sizes, salt \in Salts :
        \E answer \in {NoFill} \cup Fills(side, price, size) :
            LET init == InitialFill(type, size, answer)
            IN  /\ fill = init.fill
                /\ o = [user |-> u, token |-> t, side |-> side, type |-> type,
                        price |-> price, size |-> size, salt |-> salt,
                        matched |-> init.fill.size, status |-> init.status]
                /\ ~(type = "FOK" /\ init.status = "CANCELED")
  BY DEF Requested
<1>2. PICK answer \in {NoFill} \cup Fills(side, price, size) :
        \E init :
          /\ init = InitialFill(type, size, answer)
          /\ fill = init.fill
          /\ o = [user |-> u, token |-> t, side |-> side, type |-> type,
                  price |-> price, size |-> size, salt |-> salt,
                  matched |-> init.fill.size, status |-> init.status]
          /\ ~(type = "FOK" /\ init.status = "CANCELED")
  BY <1>1
<1>3. PICK init :
          /\ init = InitialFill(type, size, answer)
          /\ fill = init.fill
          /\ o = [user |-> u, token |-> t, side |-> side, type |-> type,
                  price |-> price, size |-> size, salt |-> salt,
                  matched |-> init.fill.size, status |-> init.status]
          /\ ~(type = "FOK" /\ init.status = "CANCELED")
  BY <1>2
<1>4. /\ fill.size \in Nat /\ fill.size <= size /\ fill.price \in Nat
      /\ side = "BUY" => fill.price <= price
      /\ init.status \in {"LIVE", "MATCHED", "CANCELED"}
  BY <1>3, InitialFillProperties
<1>5. size \in Nat \ {0} /\ price \in Nat \ {0}
  BY AmountsAssumption
<1>6. /\ o.user = u /\ o.token = t /\ o.side = side /\ o.price = price
      /\ o.size = size
  BY <1>3
<1>7. o \in Order
  BY <1>3, <1>4 DEF Order
<1>8. Unfilled(o, fill) \in Nat
  <2>1. size - fill.size \in Nat
    BY <1>4, <1>5
  <2> QED
    BY <1>6, <2>1 DEF Unfilled
<1> QED
  BY <1>4, <1>5, <1>6, <1>7, <1>8

\* After the reservation and the INSERT only wallets and the position are left.
LEMMA PlacesGoOn ==
  ASSUME Rows, NEW x, NEW y, NEW pre, NEW o, NEW fill, Places(x, o, fill),
         Steps(x, y, pre), x.todo[1].do \in {"add", "position", "put"},
         \A k \in DOMAIN pre : pre[k].do = "put",
         y.new = x.new, y.made = x.made, \A r : Mine(x, r) => Mine(y, r),
         \A i \in DOMAIN orders : ~Mine(y, OrderRow(i)),
         \A row \in WalletRows : Outlook(y, row) = Outlook(x, row),
         PositionComes(y, o, fill)
  PROVE  Places(y, o, fill)
<1>1. OnlyComing(y, {"take", "insert", "add", "position", "put"})
  BY NothingNew DEF Places, OnlyComing
<1>2. 1 \notin Coming(x, {"take"})
  BY DEF Coming
<1>3. Coming(x, {"take"}) = {} /\ Coming(x, {"insert"}) = {}
  <2>1. Coming(x, {"take"}) = {}
    BY <1>2 DEF Places, Reserves
  <2>2. 1 \notin Coming(x, {"insert"})
    BY DEF Coming
  <2> QED
    BY <2>1, <2>2 DEF Places, Inserts
<1>4. Coming(y, {"take"}) = {} /\ Coming(y, {"insert"}) = {}
  BY <1>3, NothingNew DEF Coming
<1>5. Reserves(y, o)
  BY <1>3, <1>4 DEF Places, Reserves
<1>6. Inserts(y, o)
  BY <1>3, <1>4 DEF Places, Inserts
<1>7. Pays(y, o, MoneyOf(o, fill), SharesOf(o, fill))
  BY WalletsKept, PaysKept DEF Places
<1> QED
  BY <1>1, <1>5, <1>6, <1>7 DEF Places

\* The reservation is taken.
LEMMA PlacesTake ==
  ASSUME Rows, NEW x, NEW y, NEW o, NEW fill, Typed(x), Places(x, o, fill),
         Steps(x, y, <<>>), x.todo[1].do = "take", Moves(x, y),
         y.new = x.new, y.made = x.made
  PROVE  Places(y, o, fill) /\ Typed(y)
<1> DEFINE row == x.todo[1].row
           n   == x.todo[1].n
<1>1. /\ 1 \in DOMAIN x.todo
      /\ \A k \in DOMAIN x.todo : k \in Nat \ {0}
      /\ \A k \in DOMAIN y.todo : k \in Nat \ {0}
      /\ \A k \in DOMAIN y.todo :
            k + 1 \in DOMAIN x.todo \ {1} /\ y.todo[k] = x.todo[k + 1]
      /\ \A k \in DOMAIN x.todo \ {1} :
            k - 1 \in DOMAIN y.todo /\ y.todo[k - 1] = x.todo[k]
  BY Dropped
<1>2. /\ Typed(y)
      /\ \A w \in WalletRows : Outlook(y, w) = Outlook(x, w)
      /\ row \in WalletRows
  BY MoneyMoves
<1>3. PICK value : Wrote(x, y, row, value)
  BY MoneyMoves
<1>4. 1 \in Coming(x, {"take"})
  BY <1>1 DEF Coming
<1>5. /\ \A k \in Coming(x, {"take"}) : k = 1
      /\ DOMAIN x.mine = {} /\ row = ReservedIn(o) /\ n = Reserved(o)
  BY <1>4 DEF Places, Reserves
<1>6. Coming(y, {"take"}) = {}
  <2> SUFFICES ASSUME NEW k \in Coming(y, {"take"}) PROVE FALSE
    OBVIOUS
  <2>1. k + 1 \in Coming(x, {"take"}) /\ k \in Nat \ {0}
    BY <1>1 DEF Coming
  <2> QED
    BY <1>5, <2>1
<1>7. o.user \in Users /\ o.token \in Tokens /\ o.side \in Sides
      /\ o.price \in Nat /\ o.size \in Nat
  BY RequestedFields DEF Places
<1>8. Affordable(o.user, o.token, o)
  <2>1. View(x, row) = Committed(row)
    BY <1>5 DEF View, Mine
  <2>2. Committed(row) >= Reserved(o)
    BY <1>5, <2>1 DEF Moves
  <2>3. collateral[o.user] \in Nat /\ conditional[o.user][o.token] \in Nat
    BY <1>7 DEF Rows, AccountsTypeOK
  <2>4. CASE o.side = "BUY"
    <3>1. Committed(row) = collateral[o.user]
      BY <1>5, <2>4, CommittedRows DEF ReservedIn
    <3>2. Reserved(o) = ReservedCollateral(o, o.size) + 0
          /\ ReservedConditional(o, o.size) = 0
      BY <2>4 DEF Reserved, ReservedConditional
    <3>3. ReservedCollateral(o, o.size) \in Nat
      BY <1>7, Product DEF ReservedCollateral
    <3> QED
      BY <2>2, <2>3, <3>1, <3>2, <3>3 DEF Affordable
  <2>5. CASE o.side = "SELL"
    <3>1. Committed(row) = conditional[o.user][o.token]
      BY <1>5, <2>5, CommittedRows DEF ReservedIn
    <3>2. /\ Reserved(o) = 0 + ReservedConditional(o, o.size)
          /\ ReservedCollateral(o, o.size) = 0
          /\ ReservedConditional(o, o.size) \in Nat
      BY <1>7, <2>5 DEF Reserved, ReservedCollateral, ReservedConditional
    <3> QED
      BY <2>2, <2>3, <3>1, <3>2 DEF Affordable
  <2> QED
    BY <1>7, <2>4, <2>5 DEF Sides
<1>9. Reserves(y, o)
  BY <1>3, <1>5, <1>6, <1>8, WroteView DEF Reserves
<1>10. Inserts(y, o)
  <2>1. \A k \in Coming(y, {"insert"}) : k = 1
    <3> SUFFICES ASSUME NEW k \in Coming(y, {"insert"}) PROVE k = 1
      OBVIOUS
    <3>1. k + 1 \in Coming(x, {"insert"}) /\ k \in Nat \ {0}
      BY <1>1 DEF Coming
    <3>2. k + 1 = 1 \/ k + 1 = 2
      BY <3>1 DEF Places, Inserts
    <3> QED
      BY <3>1, <3>2
  <2>2. Coming(y, {"insert"}) # {} <=> Coming(x, {"insert"}) # {}
    <3>1. 1 \notin Coming(x, {"insert"})
      BY DEF Coming
    <3>2. \A k \in Coming(x, {"insert"}) : k - 1 \in Coming(y, {"insert"})
      BY <1>1, <3>1 DEF Coming
    <3>3. \A k \in Coming(y, {"insert"}) : k + 1 \in Coming(x, {"insert"})
      BY <1>1 DEF Coming
    <3> QED
      BY <3>2, <3>3
  <2>3. Inserts(x, o)
    BY DEF Places
  <2>4. Mine(x, Key(o)) => Mine(y, Key(o))
    BY <1>3, WroteView
  <2> QED
    BY <2>1, <2>2, <2>3, <2>4 DEF Inserts
<1>11. OnlyComing(y, {"take", "insert", "add", "position", "put"})
  BY <1>1 DEF Places, OnlyComing
<1>12. /\ \A u, t : row # Held(u, t)
       /\ \A i : row # OrderRow(i)
  BY <1>2, RowsDiffer DEF WalletRows
<1>13. \A i \in DOMAIN orders : ~Mine(y, OrderRow(i))
  BY <1>3, <1>12, WroteView DEF Places
<1>14. PositionComes(y, o, fill)
  <2>1. PositionComes(x, o, fill)
    BY DEF Places
  <2>2. Wrote(x, y, row, value) /\ (\A u, t : row # Held(u, t))
    BY <1>3, <1>12
  <2> HIDE DEF row
  <2> QED
    BY <2>1, <2>2, PositionWaits
<1>15. Pays(y, o, MoneyOf(o, fill), SharesOf(o, fill))
  BY <1>2, WalletsKept, PaysKept DEF Places
<1> QED
  BY <1>2, <1>9, <1>10, <1>11, <1>13, <1>14, <1>15 DEF Places

\* The order is inserted.
LEMMA PlacesInsert ==
  ASSUME Rows, NEW x, NEW y, NEW o, NEW fill, Typed(x), Places(x, o, fill),
         Steps(x, y, <<>>), x.todo[1].do = "insert", ~Taken(o),
         Wrote(x, y, Key(o), o), y.new = <<o>>, y.made = x.made
  PROVE  Places(y, o, fill) /\ Typed(y)
<1>1. /\ 1 \in DOMAIN x.todo
      /\ \A k \in DOMAIN x.todo : k \in Nat \ {0}
      /\ \A k \in DOMAIN y.todo : k \in Nat \ {0}
      /\ \A k \in DOMAIN y.todo :
            k + 1 \in DOMAIN x.todo \ {1} /\ y.todo[k] = x.todo[k + 1]
  BY Dropped
<1>2. /\ Key(o) \notin WalletRows /\ Key(o) \notin HeldRows
      /\ \A u, t : Key(o) # Held(u, t)
      /\ \A i : Key(o) # OrderRow(i)
      /\ Key(o)[1] # "order"
  BY RowsDiffer, RowTags DEF WalletRows, HeldRows
<1>3. Typed(y)
  <2>1. \A r \in DOMAIN y.mine : \/ r \in DOMAIN x.mine /\ y.mine[r] = x.mine[r]
                                 \/ r = Key(o)
    BY DEF Wrote
  <2>2. DOMAIN <<>> = {}
    BY OneFacts
  <2> QED
    BY <1>2, <2>1, <2>2, TypedSteps
<1>4. \A row \in WalletRows : Outlook(y, row) = Outlook(x, row)
  <2>1. \A w \in WalletRows : View(y, w) = View(x, w)
    BY <1>2, OtherRow
  <2>2. DOMAIN <<>> = {}
    BY OneFacts
  <2> QED
    BY <2>1, <2>2, WalletsRest
<1>5. Coming(x, {"take"}) = {}
  BY <1>1 DEF Coming, Places, Reserves
<1>6. Coming(y, {"take"}) = {}
  BY <1>1, <1>5 DEF Coming
<1>7. Reserves(y, o)
  BY <1>5, <1>6, WroteView DEF Places, Reserves
<1>8. Coming(y, {"insert"}) = {}
  <2> SUFFICES ASSUME NEW k \in Coming(y, {"insert"}) PROVE FALSE
    OBVIOUS
  <2>1. k + 1 \in Coming(x, {"insert"}) /\ k \in Nat \ {0}
    BY <1>1 DEF Coming
  <2>2. k + 1 = 1
    BY <1>5, <2>1 DEF Places, Inserts
  <2> QED
    BY <2>1, <2>2
<1>9. Inserts(y, o)
  BY <1>8, WroteView DEF Inserts
<1>10. OnlyComing(y, {"take", "insert", "add", "position", "put"})
  BY <1>1 DEF Places, OnlyComing
<1>11. \A i \in DOMAIN orders : ~Mine(y, OrderRow(i))
  BY <1>2, WroteView DEF Places
<1>12. PositionComes(y, o, fill)
  BY <1>2, PositionWaits DEF Places
<1>13. Pays(y, o, MoneyOf(o, fill), SharesOf(o, fill))
  BY <1>4, WalletsKept, PaysKept DEF Places
<1> QED
  BY <1>3, <1>7, <1>9, <1>10, <1>11, <1>12, <1>13 DEF Places

-----------------------------------------------------------------------------
(* The statements of a fill.                                               *)

Credits(x, y) == x.todo[1].do = "add" /\ Steps(x, y, <<>>) /\ Moves(x, y)

\* Reads of positions push the statement that writes the new size.
PutOf(x) ==
    LET q   == x.todo[1].o
        row == Held(q.user, q.token)
    IN  [do |-> "put", row |-> row,
         n |-> PositionAfter(View(x, row), q.side, x.todo[1].n)]

Reads(x, y) ==
    LET q   == x.todo[1].o
        row == Held(q.user, q.token)
    IN  /\ x.todo[1].do = "position"
        /\ IF <<q.user, q.token>> \in opened
           THEN Steps(x, y, <<PutOf(x)>>) /\ Wrote(x, y, row, View(x, row))
           ELSE /\ y.mine = x.mine
                /\ q.side = "BUY" => Steps(x, y, <<PutOf(x)>>)
                /\ q.side # "BUY" => Steps(x, y, <<>>)

Overwrites(x, y) ==
    /\ x.todo[1].do = "put" /\ Steps(x, y, <<>>)
    /\ Wrote(x, y, x.todo[1].row, x.todo[1].n)

\* What such a statement leaves as it was.
Ahead(x, y) ==
    /\ Typed(y)
    /\ \A row \in WalletRows : Outlook(y, row) = Outlook(x, row)
    /\ \A r : Mine(x, r) => Mine(y, r)
    /\ \A i : /\ Mine(y, OrderRow(i)) <=> Mine(x, OrderRow(i))
              /\ Mine(x, OrderRow(i)) => y.mine[OrderRow(i)] = x.mine[OrderRow(i)]
    /\ \E pre : Steps(x, y, pre) /\ \A k \in DOMAIN pre : pre[k].do = "put"

LEMMA AddAhead ==
  ASSUME Rows, NEW x, NEW y, NEW o, NEW fill, Typed(x), PositionComes(x, o, fill),
         Credits(x, y)
  PROVE  Ahead(x, y) /\ PositionComes(y, o, fill)
<1> DEFINE row == x.todo[1].row
<1>1. /\ Typed(y)
      /\ \A w \in WalletRows : Outlook(y, w) = Outlook(x, w)
      /\ row \in WalletRows
  BY MoneyMoves DEF Credits
<1>2. PICK value : Wrote(x, y, row, value)
  BY MoneyMoves DEF Credits
<1>3. /\ \A u, t : row # Held(u, t)
      /\ \A i : row # OrderRow(i)
  BY <1>1, RowsDiffer DEF WalletRows
<1>4. Steps(x, y, <<>>) /\ x.todo[1].do = "add"
  BY DEF Credits
<1>5. PositionComes(y, o, fill)
  <2>1. Wrote(x, y, row, value) /\ row = x.todo[1].row
    BY <1>2
  <2> HIDE DEF row
  <2> QED
    BY <1>3, <1>4, <2>1, PositionWaits
<1>6. DOMAIN <<>> = {}
  BY OneFacts
<1>7. \A r : Mine(x, r) => Mine(y, r)
  BY <1>2, WroteView
<1>8. \A i : /\ Mine(y, OrderRow(i)) <=> Mine(x, OrderRow(i))
             /\ Mine(x, OrderRow(i)) => y.mine[OrderRow(i)] = x.mine[OrderRow(i)]
  <2> HIDE DEF row
  <2> QED
    BY <1>2, <1>3 DEF Wrote, Mine
<1> QED
  BY <1>1, <1>4, <1>5, <1>6, <1>7, <1>8 DEF Ahead

LEMMA PutAhead ==
  ASSUME Rows, NEW x, NEW y, NEW o, NEW fill, Typed(x), PositionComes(x, o, fill),
         fill.size \in Nat, o.user \in Users, o.token \in Tokens,
         Overwrites(x, y)
  PROVE  Ahead(x, y) /\ PositionComes(y, o, fill)
<1> DEFINE row == Held(o.user, o.token)
<1>1. /\ PositionComes(y, o, fill) /\ x.todo[1].row = row
  BY PositionPut DEF Overwrites
<1>2. 1 \in DOMAIN x.todo
  BY NothingNew DEF Overwrites
<1>3. Wrote(x, y, row, x.todo[1].n) /\ x.todo[1].n \in Nat
  BY <1>1, <1>2 DEF Overwrites, Typed, TypedStatement
<1>4. Steps(x, y, <<>>) /\ x.todo[1].do = "put" /\ DOMAIN <<>> = {}
  BY OneFacts DEF Overwrites
<1>5. /\ row \notin WalletRows /\ row[1] # "order"
      /\ \A i : row # OrderRow(i)
  BY RowsDiffer, RowTags DEF WalletRows
<1> HIDE DEF row
<1>6. \A w \in WalletRows : Outlook(y, w) = Outlook(x, w)
  <2>1. \A w \in WalletRows : View(y, w) = View(x, w)
    BY <1>3, <1>5, OtherRow
  <2> QED
    BY <1>4, <2>1, WalletsRest
<1>7. Typed(y)
  <2>1. \A r \in DOMAIN y.mine : \/ r \in DOMAIN x.mine /\ y.mine[r] = x.mine[r]
                                 \/ r = row /\ y.mine[r] = x.todo[1].n
    BY <1>3 DEF Wrote
  <2> QED
    BY <1>3, <1>4, <1>5, <2>1, TypedSteps
<1>8. \A r : Mine(x, r) => Mine(y, r)
  BY <1>3, WroteView
<1>9. \A i : /\ Mine(y, OrderRow(i)) <=> Mine(x, OrderRow(i))
             /\ Mine(x, OrderRow(i)) => y.mine[OrderRow(i)] = x.mine[OrderRow(i)]
  BY <1>3, <1>5 DEF Wrote, Mine
<1> QED
  BY <1>1, <1>4, <1>6, <1>7, <1>8, <1>9 DEF Ahead

LEMMA ReadAhead ==
  ASSUME Rows, NEW x, NEW y, NEW o, NEW fill, Typed(x), PositionComes(x, o, fill),
         fill.size \in Nat, o.user \in Users, o.token \in Tokens,
         o.side \in Sides,
         o.side = "SELL" => <<o.user, o.token>> \in opened,
         1 \in DOMAIN x.todo, Reads(x, y)
  PROVE  Ahead(x, y) /\ PositionComes(y, o, fill)
<1> DEFINE row == Held(o.user, o.token)
<1>1. x.todo[1].do = "position"
  BY DEF Reads
<1>2. 1 \in Coming(x, {"position", "put"}) /\ 1 \in Coming(x, {"position"})
  BY <1>1 DEF Coming
<1>3. \A k \in Coming(x, {"position", "put"}) : k = 1
  BY <1>2 DEF PositionComes
<1>4. ToRead(x, o, fill)
  <2>1. fill.size > 0
    BY <1>2 DEF PositionComes
  <2>2. ~ToWrite(x, o, fill)
    <3>1. Coming(x, {"put"}) \subseteq Coming(x, {"position", "put"})
      BY DEF Coming
    <3>2. 1 \notin Coming(x, {"put"})
      BY <1>1 DEF Coming
    <3> QED
      BY <1>3, <3>1, <3>2 DEF ToWrite
  <2>3. ~Written(x, o, fill)
    BY <1>2 DEF Written
  <2> QED
    BY <2>1, <2>2, <2>3 DEF PositionComes
<1>5. /\ x.todo[1].o = o /\ x.todo[1].n = fill.size
      /\ ~Mine(x, row)
      /\ o.side = "BUY" => Mine(x, Shares(o.user, o.token))
  <2>1. PICK k \in Coming(x, {"position"}) :
             /\ x.todo[k].o = o /\ x.todo[k].n = fill.size
             /\ ~Mine(x, row)
             /\ o.side = "BUY" =>
                   \/ Mine(x, Shares(o.user, o.token))
                   \/ \E j \in Coming(x, {"add"}) :
                         j < k /\ x.todo[j].row = Shares(o.user, o.token)
    BY <1>4 DEF ToRead
  <2>2. k = 1
    BY <1>3 DEF Coming
  <2>3. \A j \in DOMAIN x.todo : j \in Nat \ {0}
    <3>1. Numbers(x.todo)
      BY DEF Reads, Steps
    <3>2. IsSeq(x.todo)
      BY <3>1 DEF Numbers
    <3> QED
      BY <3>2, SeqFacts
  <2>4. \A j \in Coming(x, {"add"}) : ~(j < 1)
    BY <2>3 DEF Coming
  <2> QED
    BY <2>1, <2>2, <2>4
<1>6. View(x, row) = position[o.user][o.token]
  BY <1>5, CommittedRows DEF View
<1>7. PICK z : z = PutOf(x)
  OBVIOUS
<1>8. z.do = "put" /\ z.row = row /\ z.n = After(o, fill)
  BY <1>5, <1>6, <1>7 DEF PutOf, After
<1>9. /\ row \in HeldRows /\ row \notin WalletRows /\ row[1] # "order"
      /\ \A i : row # OrderRow(i)
      /\ position[o.user][o.token] \in Nat
  <2>1. row \in HeldRows
    BY DEF HeldRows
  <2>2. position[o.user][o.token] \in Nat
    BY DEF Rows, AccountsTypeOK
  <2> QED
    BY <2>1, <2>2, RowsDiffer, RowTags DEF WalletRows
<1>10. After(o, fill) \in Nat
  BY <1>9, PositionNat DEF After
<1>11. /\ Steps(x, y, <<z>>)
       /\ \/ Wrote(x, y, row, position[o.user][o.token])
             /\ <<o.user, o.token>> \in opened
          \/ /\ y.mine = x.mine /\ <<o.user, o.token>> \notin opened
             /\ Mine(x, Shares(o.user, o.token))
  <2>1. CASE <<o.user, o.token>> \in opened
    BY <1>5, <1>6, <1>7, <2>1 DEF Reads
  <2>2. CASE <<o.user, o.token>> \notin opened
    BY <1>5, <1>7, <2>2 DEF Reads, Sides
  <2> QED
    BY <2>1, <2>2
<1>12. PositionComes(y, o, fill)
  <2>1. \/ Wrote(x, y, z.row, position[o.user][o.token])
             /\ <<o.user, o.token>> \in opened
        \/ y.mine = x.mine /\ <<o.user, o.token>> \notin opened
             /\ Mine(x, Shares(o.user, o.token))
    BY <1>8, <1>11
  <2> QED
    BY <1>1, <1>8, <1>11, <2>1, PositionRead
<1>13. /\ \A r \in DOMAIN y.mine :
             \/ r \in DOMAIN x.mine /\ y.mine[r] = x.mine[r]
             \/ r = row /\ y.mine[r] = position[o.user][o.token]
       /\ \A r : Mine(x, r) => Mine(y, r)
       /\ \A r : r # row => /\ View(y, r) = View(x, r)
                            /\ Mine(y, r) <=> Mine(x, r)
                            /\ Mine(x, r) => y.mine[r] = x.mine[r]
  <2> HIDE DEF row
  <2> QED
    BY <1>11 DEF Wrote, Mine, View
<1> HIDE DEF row
<1>14. DOMAIN <<z>> = {1} /\ <<z>>[1] = z
  BY OneFacts
<1>15. Typed(y)
  <2>1. TypedStatement(z)
    BY <1>8, <1>9, <1>10 DEF TypedStatement
  <2>2. \A k \in DOMAIN <<z>> : TypedStatement(<<z>>[k])
    BY <1>14, <2>1
  <2>3. \A r \in DOMAIN y.mine :
            \/ r \in DOMAIN x.mine /\ y.mine[r] = x.mine[r]
            \/ /\ r \in WalletRows \cup HeldRows => y.mine[r] \in Nat
               /\ r[1] = "order" => r[2] \in DOMAIN orders
    BY <1>9, <1>13
  <2> QED
    BY <1>11, <2>2, <2>3, TypedSteps
<1>16. \A w \in WalletRows : Outlook(y, w) = Outlook(x, w)
  <2>1. \A w \in WalletRows : View(y, w) = View(x, w)
    BY <1>9, <1>13
  <2>2. \A k \in DOMAIN <<z>> : <<z>>[k].do \notin {"add", "take"}
    BY <1>8, <1>14
  <2> QED
    BY <1>1, <1>11, <2>1, <2>2, WalletsRest
<1>17. \A i : /\ Mine(y, OrderRow(i)) <=> Mine(x, OrderRow(i))
              /\ Mine(x, OrderRow(i)) => y.mine[OrderRow(i)] = x.mine[OrderRow(i)]
  BY <1>9, <1>13
<1>18. \E pre : Steps(x, y, pre) /\ \A k \in DOMAIN pre : pre[k].do = "put"
  BY <1>8, <1>11, <1>14
<1> QED
  BY <1>12, <1>13, <1>15, <1>16, <1>17, <1>18 DEF Ahead

LEMMA PlacesAhead ==
  ASSUME Rows, Unopened, NEW x, NEW y, NEW o, NEW fill, Typed(x),
         Places(x, o, fill), 1 \in DOMAIN x.todo,
         Credits(x, y) \/ Reads(x, y) \/ Overwrites(x, y),
         y.new = x.new, y.made = x.made
  PROVE  Places(y, o, fill) /\ Typed(y)
<1>1. /\ o.user \in Users /\ o.token \in Tokens /\ o.side \in Sides
      /\ fill.size \in Nat /\ o.size \in Nat \ {0}
  BY RequestedFields DEF Places
<1>2. PositionComes(x, o, fill)
  BY DEF Places
<1>3. Reads(x, y) /\ o.side = "SELL" => <<o.user, o.token>> \in opened
  <2> SUFFICES ASSUME Reads(x, y), o.side = "SELL"
               PROVE  <<o.user, o.token>> \in opened
    OBVIOUS
  <2>1. 1 \notin Coming(x, {"take"})
    BY DEF Coming, Reads
  <2>2. Coming(x, {"take"}) = {}
    BY <2>1 DEF Places, Reserves
  <2>3. Affordable(o.user, o.token, o)
    BY <2>2 DEF Places, Reserves
  <2>4. conditional[o.user][o.token] >= o.size
    BY <2>3 DEF Affordable, ReservedConditional
  <2>5. conditional[o.user][o.token] # 0
    BY <1>1, <2>4
  <2> QED
    BY <1>1, <2>5 DEF Unopened
<1>4. Ahead(x, y) /\ PositionComes(y, o, fill)
  <2>1. CASE Credits(x, y)
    BY <1>2, <2>1, AddAhead
  <2>2. CASE Reads(x, y)
    BY <1>1, <1>2, <1>3, <2>2, ReadAhead
  <2>3. CASE Overwrites(x, y)
    BY <1>1, <1>2, <2>3, PutAhead
  <2> QED
    BY <2>1, <2>2, <2>3
<1>5. PICK pre : Steps(x, y, pre) /\ \A k \in DOMAIN pre : pre[k].do = "put"
  BY <1>4 DEF Ahead
<1>6. x.todo[1].do \in {"add", "position", "put"}
  BY DEF Credits, Reads, Overwrites
<1>7. /\ \A r : Mine(x, r) => Mine(y, r)
      /\ \A i \in DOMAIN orders : ~Mine(y, OrderRow(i))
      /\ \A row \in WalletRows : Outlook(y, row) = Outlook(x, row)
  BY <1>4 DEF Ahead, Places
<1>8. Places(y, o, fill)
  BY <1>4, <1>5, <1>6, <1>7, PlacesGoOn
<1> QED
  BY <1>4, <1>8 DEF Ahead

\* A fill of a LIVE order goes on like that of a new one.
LEMMA MatchesAhead ==
  ASSUME Rows, Unopened, NEW x, NEW y, NEW i \in DOMAIN orders, NEW fill,
         Typed(x), Matches(x, i, orders[i], fill), fill.size \in Nat,
         1 \in DOMAIN x.todo,
         Credits(x, y) \/ Reads(x, y) \/ Overwrites(x, y), y.made = x.made
  PROVE  Matches(y, i, orders[i], fill) /\ Typed(y)
<1> DEFINE o == orders[i]
<1>1. o.user \in Users /\ o.token \in Tokens /\ o.side \in Sides
  BY OrderFields DEF Rows
<1>2. PositionComes(x, o, fill)
  BY DEF Matches
<1>3. o.side = "SELL" => <<o.user, o.token>> \in opened
  BY <1>1 DEF Unopened
<1>4. Ahead(x, y) /\ PositionComes(y, o, fill)
  <2> HIDE DEF o
  <2>1. CASE Credits(x, y)
    BY <1>2, <2>1, AddAhead
  <2>2. CASE Reads(x, y)
    BY <1>1, <1>2, <1>3, <2>2, ReadAhead
  <2>3. CASE Overwrites(x, y)
    BY <1>1, <1>2, <2>3, PutAhead
  <2> QED
    BY <2>1, <2>2, <2>3
<1>5. PICK pre : Steps(x, y, pre) /\ \A k \in DOMAIN pre : pre[k].do = "put"
  BY <1>4 DEF Ahead
<1>6. OnlyComing(y, {"add", "position", "put"})
  BY <1>5, NothingNew DEF Matches, OnlyComing
<1>7. /\ \A j \in DOMAIN orders : Mine(y, OrderRow(j)) <=> j = i
      /\ y.mine[OrderRow(i)] = Filled(o, fill)
  BY <1>4 DEF Ahead, Matches
<1>8. Pays(y, o, FillCollateral(o, fill), FillConditional(o, fill))
  BY <1>4, WalletsKept, PaysKept DEF Ahead, Matches
<1> QED
  BY <1>4, <1>6, <1>7, <1>8 DEF Matches, Ahead

\* What a fill sends: two amounts, and the position.
LEMMA FillSends ==
  ASSUME NEW o, NEW fill, FillCollateral(o, fill) \in Nat,
         FillConditional(o, fill) \in Nat, o.user \in Users, o.token \in Tokens
  PROVE  LET z == FillStatements(o, fill)
         IN  /\ Numbers(z)
             /\ \A k \in DOMAIN z : TypedStatement(z[k])
             /\ \A k \in DOMAIN z : z[k].do \in {"add", "position"}
             /\ \A j, k \in DOMAIN z : z[j].do = "position" /\ z[k].do = "position"
                   => j = k
             /\ \E k \in DOMAIN z :
                   /\ z[k].do = "position" /\ z[k].o = o /\ z[k].n = fill.size
                   /\ FillConditional(o, fill) # 0 =>
                        \E j \in DOMAIN z : /\ z[j].do = "add" /\ j < k
                                            /\ z[j].row = Shares(o.user, o.token)
             /\ \A w : Pending(z, w)
                   = (IF w = Cash(o.user) THEN FillCollateral(o, fill) ELSE 0)
                   + (IF w = Shares(o.user, o.token)
                      THEN FillConditional(o, fill) ELSE 0)
<1> DEFINE a == Add(Cash(o.user), FillCollateral(o, fill))
           b == Add(Shares(o.user, o.token), FillConditional(o, fill))
           p == [do |-> "position", o |-> o, n |-> fill.size]
           c == a \o b
           z == FillStatements(o, fill)
<1>1. /\ Numbers(a) /\ IsSeq(a)
      /\ \A k \in DOMAIN a : /\ a[k].do = "add" /\ a[k].row = Cash(o.user)
                             /\ a[k].n = FillCollateral(o, fill)
      /\ \A w : Pending(a, w) = IF w = Cash(o.user)
                                THEN FillCollateral(o, fill) ELSE 0
  BY AddFacts
<1>2. /\ Numbers(b) /\ IsSeq(b)
      /\ \A k \in DOMAIN b : /\ b[k].do = "add"
                             /\ b[k].row = Shares(o.user, o.token)
                             /\ b[k].n = FillConditional(o, fill)
      /\ FillConditional(o, fill) # 0 => DOMAIN b = {1}
      /\ \A w : Pending(b, w) = IF w = Shares(o.user, o.token)
                                THEN FillConditional(o, fill) ELSE 0
  BY AddFacts
<1>3. p.do = "position" /\ p.o = o /\ p.n = fill.size
  OBVIOUS
<1>4. z = c \o <<p>>
  BY DEF FillStatements
<1> HIDE DEF a, b, p
<1>5. Cash(o.user) \in WalletRows /\ Shares(o.user, o.token) \in WalletRows
  BY DEF WalletRows
<1>6. Numbers(c) /\ \A w : Pending(c, w) = Pending(a, w) + Pending(b, w)
  BY <1>1, <1>2, PendingCat
<1>7. Joined(a, b, c)
  BY <1>1, <1>2, CatFacts
<1> HIDE DEF c, z
<1>8. /\ Len(a) \in Nat /\ DOMAIN a = 1..Len(a)
      /\ Len(b) \in Nat /\ DOMAIN b = 1..Len(b)
      /\ IsSeq(c) /\ Len(c) \in Nat /\ DOMAIN c = 1..Len(c)
  BY <1>1, <1>2, <1>6, SeqFacts DEF Numbers
<1>9. \A k \in DOMAIN c : (\E j \in DOMAIN a : c[k] = a[j]) \/ (\E j \in DOMAIN b : c[k] = b[j])
  <2> SUFFICES ASSUME NEW k \in DOMAIN c, k \notin DOMAIN a
               PROVE  \E j \in DOMAIN b : c[k] = b[j]
    BY <1>7 DEF Joined
  <2>1. PICK j \in DOMAIN b : j = k - Len(a)
    BY <1>7 DEF Joined
  <2>2. k = Len(a) + j
    BY <1>8, <2>1
  <2> QED
    BY <1>7, <2>2 DEF Joined
<1>10. FillConditional(o, fill) # 0 =>
          \E j \in DOMAIN c : c[j].do = "add" /\ c[j].row = Shares(o.user, o.token)
  <2> SUFFICES ASSUME FillConditional(o, fill) # 0
               PROVE  \E j \in DOMAIN c : /\ c[j].do = "add"
                                          /\ c[j].row = Shares(o.user, o.token)
    OBVIOUS
  <2>1. 1 \in DOMAIN b
    BY <1>2
  <2>2. Len(a) + 1 \in DOMAIN c /\ c[Len(a) + 1] = b[1]
    BY <1>7, <2>1 DEF Joined
  <2> QED
    BY <1>2, <2>1, <2>2
<1>11. \A w : Numbers(<<p>>) /\ Pending(<<p>>, w) = 0
  <2>1. IsSeq(<<p>>) /\ DOMAIN <<p>> = {1} /\ <<p>>[1] = p /\ Len(<<p>>) = 1
    BY OneFacts
  <2>2. \A k \in DOMAIN <<p>> : <<p>>[k].do \notin {"add", "take"}
    BY <1>3, <2>1
  <2> QED
    BY <2>1, <2>2, PendingNone
<1>12. Numbers(z) /\ \A w : Pending(z, w) = Pending(c, w) + Pending(<<p>>, w)
  BY <1>4, <1>6, <1>11, PendingCat
<1>13. /\ Len(z) = Len(c) + 1
       /\ \A k \in DOMAIN c : k \in DOMAIN z /\ z[k] = c[k]
       /\ Len(c) + 1 \in DOMAIN z /\ z[Len(c) + 1] = p
       /\ \A k \in DOMAIN z : k \in DOMAIN c \/ k = Len(c) + 1
  <2>1. IsSeq(<<p>>) /\ DOMAIN <<p>> = {1} /\ <<p>>[1] = p /\ Len(<<p>>) = 1
    BY OneFacts
  <2>2. Joined(c, <<p>>, z)
    BY <1>4, <1>8, <2>1, CatFacts
  <2>3. IsSeq(z)
    BY <2>2 DEF Joined
  <2>4. Len(z) \in Nat /\ DOMAIN z = 1..Len(z)
    BY <2>3, SeqFacts
  <2>5. /\ Len(z) = Len(c) + 1
        /\ \A k \in DOMAIN c : k \in DOMAIN z /\ z[k] = c[k]
        /\ Len(c) + 1 \in DOMAIN z /\ z[Len(c) + 1] = p
    BY <2>1, <2>2 DEF Joined
  <2> QED
    BY <1>8, <2>4, <2>5
<1>14. \A k \in DOMAIN c : c[k].do = "add" /\ TypedStatement(c[k])
  <2>1. ASSUME NEW q, q.do = "add", q.row \in WalletRows, q.n \in Nat
        PROVE  TypedStatement(q)
    BY <2>1 DEF TypedStatement
  <2> QED
    BY <1>1, <1>2, <1>5, <1>9, <2>1
<1>15. TypedStatement(p)
  BY <1>3 DEF TypedStatement
<1>16. /\ \A k \in DOMAIN z : TypedStatement(z[k])
       /\ \A k \in DOMAIN z : z[k].do \in {"add", "position"}
       /\ \A j, k \in DOMAIN z : z[j].do = "position" /\ z[k].do = "position"
             => j = k
  BY <1>3, <1>13, <1>14, <1>15
<1>17. \E k \in DOMAIN z :
                   /\ z[k].do = "position" /\ z[k].o = o /\ z[k].n = fill.size
                   /\ FillConditional(o, fill) # 0 =>
                        \E j \in DOMAIN z : /\ z[j].do = "add" /\ j < k
                                            /\ z[j].row = Shares(o.user, o.token)
  <2>1. \A j \in DOMAIN c : j < Len(c) + 1
    BY <1>8
  <2> QED
    BY <1>3, <1>10, <1>13, <2>1
<1>18. \A w : Pending(z, w)
           = (IF w = Cash(o.user) THEN FillCollateral(o, fill) ELSE 0)
           + (IF w = Shares(o.user, o.token) THEN FillConditional(o, fill) ELSE 0)
  BY <1>1, <1>2, <1>6, <1>11, <1>12
<1> QED
  BY <1>12, <1>16, <1>17, <1>18 DEF z

\* The position of a fill whose statements have just been listed.
PositionListed(z, o, fill) ==
    /\ \A j, k \in DOMAIN z : z[j].do \in {"position", "put"}
                              /\ z[k].do \in {"position", "put"} => j = k
    /\ fill.size = 0 => \A k \in DOMAIN z : z[k].do \notin {"position", "put"}
    /\ fill.size > 0 =>
         \E k \in DOMAIN z :
            /\ z[k].do = "position" /\ z[k].o = o /\ z[k].n = fill.size
            /\ FillConditional(o, fill) # 0 =>
                 \E j \in DOMAIN z : /\ z[j].do = "add" /\ j < k
                                     /\ z[j].row = Shares(o.user, o.token)

LEMMA PositionBegins ==
  ASSUME NEW y, NEW o, NEW fill, fill.size \in Nat, PositionListed(y.todo, o, fill),
         \A u, t : ~Mine(y, Held(u, t))
  PROVE  PositionComes(y, o, fill)
<1>1. HeldIsOwn(y, o)
  BY DEF HeldIsOwn
<1>2. \A j, k \in Coming(y, {"position", "put"}) : j = k
  BY DEF Coming, PositionListed
<1>3. fill.size = 0 => Coming(y, {"position", "put"}) = {}
  BY DEF Coming, PositionListed
<1>4. ASSUME fill.size > 0 PROVE ToRead(y, o, fill)
  <2>1. PICK k \in DOMAIN y.todo :
            /\ y.todo[k].do = "position" /\ y.todo[k].o = o
            /\ y.todo[k].n = fill.size
            /\ FillConditional(o, fill) # 0 =>
                 \E j \in DOMAIN y.todo :
                    /\ y.todo[j].do = "add" /\ j < k
                    /\ y.todo[j].row = Shares(o.user, o.token)
    BY <1>4 DEF PositionListed
  <2>2. o.side = "BUY" => FillConditional(o, fill) # 0
    BY <1>4 DEF FillConditional
  <2>3. o.side = "BUY" => \E j \in Coming(y, {"add"}) :
           j < k /\ y.todo[j].row = Shares(o.user, o.token)
    BY <2>1, <2>2 DEF Coming
  <2>4. k \in Coming(y, {"position"})
    BY <2>1 DEF Coming
  <2> QED
    BY <2>1, <2>3, <2>4 DEF ToRead
<1> QED
  BY <1>1, <1>2, <1>3, <1>4 DEF PositionComes

LEMMA FillListed ==
  ASSUME NEW o, NEW fill, FillCollateral(o, fill) \in Nat,
         FillConditional(o, fill) \in Nat, o.user \in Users, o.token \in Tokens,
         fill.size > 0, fill.size \in Nat
  PROVE  PositionListed(FillStatements(o, fill), o, fill)
<1> DEFINE z == FillStatements(o, fill)
<1>1. /\ \A k \in DOMAIN z : z[k].do \in {"add", "position"}
      /\ \A j, k \in DOMAIN z : z[j].do = "position" /\ z[k].do = "position"
            => j = k
      /\ \E k \in DOMAIN z :
            /\ z[k].do = "position" /\ z[k].o = o /\ z[k].n = fill.size
            /\ FillConditional(o, fill) # 0 =>
                 \E j \in DOMAIN z : /\ z[j].do = "add" /\ j < k
                                     /\ z[j].row = Shares(o.user, o.token)
  BY FillSends
<1> HIDE DEF z
<1>2. \A j, k \in DOMAIN z : z[j].do \in {"position", "put"}
                             /\ z[k].do \in {"position", "put"} => j = k
  BY <1>1
<1>3. PositionListed(z, o, fill)
  BY <1>1, <1>2 DEF PositionListed
<1> QED
  BY <1>3 DEF z

\* The order to fill is locked, and the statements of the fill are listed.
LEMMA FillLocks ==
  ASSUME Rows, NEW x, NEW y, NEW r, NEW i \in Live, i = r.id, NEW m \in Nat,
         NEW found \in Fills(orders[i].side, orders[i].price,
                             orders[i].size - m),
         NEW fill, fill = Capped(orders[i], found),
         Shaped(y), Typed(x), DOMAIN x.mine = {},
         Wrote(x, y, OrderRow(i), Filled(orders[i], fill)),
         y.made = <<TradeOf(i, orders[i], fill, FillKey(orders[i], r, fill))>>,
         y.todo = FillStatements(orders[i], fill)
  PROVE  Matches(y, i, orders[i], fill) /\ Typed(y) /\ fill.size \in Nat
<1> DEFINE o == orders[i]
<1>1. /\ i \in DOMAIN orders /\ o.status = "LIVE"
      /\ fill.size \in Nat \ {0} /\ fill.price \in Prices
      /\ o.side = "BUY" => fill.price <= o.price
  BY CappedFill DEF Live
<1>2. /\ o.user \in Users /\ o.token \in Tokens /\ o.price \in Nat
      /\ fill.price \in Nat
  <2>1. fill.price \in Nat
    BY <1>1, AmountsAssumption
  <2> QED
    BY <1>1, <2>1, OrderFields DEF Rows
<1>3. FillCollateral(o, fill) \in Nat /\ FillConditional(o, fill) \in Nat
  <2> HIDE DEF o
  <2> QED
    BY <1>1, <1>2, FillNat
<1> DEFINE z == FillStatements(o, fill)
<1>4. /\ Numbers(z)
      /\ \A k \in DOMAIN z : TypedStatement(z[k])
      /\ \A k \in DOMAIN z : z[k].do \in {"add", "position"}
      /\ \A w : Pending(z, w)
           = (IF w = Cash(o.user) THEN FillCollateral(o, fill) ELSE 0)
           + (IF w = Shares(o.user, o.token) THEN FillConditional(o, fill) ELSE 0)
  <2> HIDE DEF o
  <2> QED
    BY <1>2, <1>3, FillSends
<1>5. PositionListed(z, o, fill)
  <2>1. fill.size > 0 /\ fill.size \in Nat
    BY <1>1
  <2> HIDE DEF o
  <2> QED
    BY <1>2, <1>3, <2>1, FillListed
<1>6. y.todo = z
  OBVIOUS
<1> HIDE DEF z
<1>7. \A w : Mine(y, w) <=> w = OrderRow(i)
  BY DEF Wrote, Mine
<1>8. PositionComes(y, o, fill)
  <2>1. \A u, t : ~Mine(y, Held(u, t))
    BY <1>7, RowsDiffer
  <2>2. PositionListed(y.todo, o, fill) /\ fill.size \in Nat
    BY <1>1, <1>5, <1>6
  <2> HIDE DEF o
  <2> QED
    BY <2>1, <2>2, PositionBegins
<1>9. Typed(y)
  <2>1. \A w \in WalletRows \cup HeldRows : ~Mine(y, w)
    BY <1>7, RowsDiffer DEF WalletRows, HeldRows
  <2>2. \A w \in DOMAIN y.mine : w[1] = "order" => w[2] \in DOMAIN orders
    BY <1>1, <1>7, RowTags DEF Mine
  <2> QED
    BY <1>4, <1>6, <2>1, <2>2 DEF Typed
<1>10. Pays(y, o, FillCollateral(o, fill), FillConditional(o, fill))
  <2>1. ASSUME NEW u \in Users
        PROVE  Outlook(y, Cash(u)) = collateral[u]
                  + IF u = o.user THEN FillCollateral(o, fill) ELSE 0
    <3>1. View(y, Cash(u)) = collateral[u]
      BY <1>7, RowsDiffer, CommittedRows DEF View
    <3>2. Pending(z, Cash(u)) = (IF u = o.user THEN FillCollateral(o, fill) ELSE 0) + 0
      BY <1>4, RowsDiffer, RowsNamed
    <3> QED
      BY <1>3, <1>6, <3>1, <3>2 DEF Outlook
  <2>2. ASSUME NEW u \in Users, NEW t \in Tokens
        PROVE  Outlook(y, Shares(u, t)) = conditional[u][t]
                  + IF u = o.user /\ t = o.token THEN FillConditional(o, fill) ELSE 0
    <3>1. View(y, Shares(u, t)) = conditional[u][t]
      BY <1>7, RowsDiffer, CommittedRows DEF View
    <3>2. Pending(z, Shares(u, t))
             = 0 + (IF u = o.user /\ t = o.token THEN FillConditional(o, fill) ELSE 0)
      BY <1>4, RowsDiffer, RowsNamed
    <3> QED
      BY <1>3, <1>6, <3>1, <3>2 DEF Outlook
  <2> QED
    BY <2>1, <2>2 DEF Pays
<1>11. OnlyComing(y, {"add", "position", "put"})
  BY <1>4, <1>6 DEF OnlyComing
<1>12. /\ \A j \in DOMAIN orders : Mine(y, OrderRow(j)) <=> j = i
       /\ y.mine[OrderRow(i)] = Filled(o, fill)
  BY <1>7, RowsNamed DEF Wrote
<1>13. y.made = <<TradeOf(i, o, fill, <<i, o.matched + fill.size>>)>>
  BY DEF FillKey, MatchedAfter
<1> QED
  BY <1>1, <1>8, <1>9, <1>10, <1>11, <1>12, <1>13 DEF Matches

-----------------------------------------------------------------------------
(* Cancellations.                                                          *)

LEMMA EachFacts ==
  ASSUME NEW z
  PROVE  /\ IsSeq(Each(z)) /\ \A k \in DOMAIN Each(z) : Each(z)[k] = z
         /\ z.ids # {} => 1 \in DOMAIN Each(z) /\ Each(z)[1] = z
         /\ z.ids = {} => DOMAIN Each(z) = {}
BY OneFacts DEF Each

\* A statement without one of its rows.
LEMMA WithoutFacts ==
  ASSUME NEW c, NEW i, {"do", "ids"} \subseteq DOMAIN c
  PROVE  \E d : /\ d = [c EXCEPT !.ids = @ \ {i}]
                /\ Without(c, i) = Each(d)
                /\ d.do = c.do /\ d.ids = c.ids \ {i}
                /\ "refund" \in DOMAIN c => d.refund = c.refund /\ "refund" \in DOMAIN d
                /\ {"do", "ids"} \subseteq DOMAIN d
BY DEF Without

LEMMA RefundSends ==
  ASSUME NEW o, NEW n, ReservedCollateral(o, n) \in Nat,
         ReservedConditional(o, n) \in Nat, o.user \in Users, o.token \in Tokens,
         NEW z, z = RefundStatements(o, n)
  PROVE  /\ Numbers(z)
         /\ \A k \in DOMAIN z : z[k].do = "add" /\ TypedStatement(z[k])
         /\ \A w : Pending(z, w)
               = (IF w = Cash(o.user) THEN ReservedCollateral(o, n) ELSE 0)
               + (IF w = Shares(o.user, o.token)
                  THEN ReservedConditional(o, n) ELSE 0)
<1> DEFINE a == Add(Cash(o.user), ReservedCollateral(o, n))
           b == Add(Shares(o.user, o.token), ReservedConditional(o, n))
<1>1. /\ Numbers(a) /\ IsSeq(a)
      /\ \A k \in DOMAIN a : /\ a[k].do = "add" /\ a[k].row = Cash(o.user)
                             /\ a[k].n = ReservedCollateral(o, n)
      /\ \A w : Pending(a, w) = IF w = Cash(o.user)
                                THEN ReservedCollateral(o, n) ELSE 0
  BY AddFacts
<1>2. /\ Numbers(b) /\ IsSeq(b)
      /\ \A k \in DOMAIN b : /\ b[k].do = "add"
                             /\ b[k].row = Shares(o.user, o.token)
                             /\ b[k].n = ReservedConditional(o, n)
      /\ \A w : Pending(b, w) = IF w = Shares(o.user, o.token)
                                THEN ReservedConditional(o, n) ELSE 0
  BY AddFacts
<1>3. z = a \o b
  BY DEF RefundStatements
<1> HIDE DEF a, b
<1>4. Cash(o.user) \in WalletRows /\ Shares(o.user, o.token) \in WalletRows
  BY DEF WalletRows
<1>5. Numbers(z) /\ \A w : Pending(z, w) = Pending(a, w) + Pending(b, w)
  BY <1>1, <1>2, <1>3, PendingCat
<1>6. Joined(a, b, z)
  BY <1>1, <1>2, <1>3, CatFacts
<1>7. Len(a) \in Nat /\ DOMAIN z \subseteq Nat
  BY <1>1, <1>5, SeqFacts DEF Numbers
<1>8. \A k \in DOMAIN z : (\E j \in DOMAIN a : z[k] = a[j]) \/ (\E j \in DOMAIN b : z[k] = b[j])
  <2> SUFFICES ASSUME NEW k \in DOMAIN z, k \notin DOMAIN a
               PROVE  \E j \in DOMAIN b : z[k] = b[j]
    BY <1>6 DEF Joined
  <2>1. PICK j \in DOMAIN b : j = k - Len(a)
    BY <1>6 DEF Joined
  <2>2. k = Len(a) + j
    BY <1>7, <2>1
  <2> QED
    BY <1>6, <2>2 DEF Joined
<1>9. ASSUME NEW q, q.do = "add", q.row \in WalletRows, q.n \in Nat
      PROVE  TypedStatement(q)
  BY <1>9 DEF TypedStatement
<1>10. \A k \in DOMAIN z : z[k].do = "add" /\ TypedStatement(z[k])
  BY <1>1, <1>2, <1>4, <1>8, <1>9
<1> QED
  BY <1>1, <1>2, <1>5, <1>10

\* One more order closed is one more reservation to refund.
LEMMA HeldGrows ==
  ASSUME Rows, NEW S, NEW i \in DOMAIN orders, i \notin S, NEW u, NEW t
  PROVE  /\ HeldMoney(S \cup {i}, u) = HeldMoney(S, u)
              + (IF orders[i].user = u
                 THEN ReservedCollateral(orders[i], Remaining(orders[i])) ELSE 0)
         /\ HeldTokens(S \cup {i}, u, t) = HeldTokens(S, u, t)
              + (IF orders[i].user = u /\ orders[i].token = t
                 THEN ReservedConditional(orders[i], Remaining(orders[i])) ELSE 0)
<1> DEFINE n == Len(orders)
           T == S \cup {i}
           a == [j \in DOMAIN orders |-> MoneyTerm(S, u, j)]
           b == [j \in DOMAIN orders |-> MoneyTerm(T, u, j)]
           c == [j \in DOMAIN orders |-> TokenTerm(S, u, t, j)]
           d == [j \in DOMAIN orders |-> TokenTerm(T, u, t, j)]
<1>1. n \in Nat /\ DOMAIN orders = 1..n /\ i \in 1..n
  BY DEF Rows, AccountsTypeOK
<1>2. \A j \in 1..n : a[j] \in Int /\ b[j] \in Int /\ c[j] \in Int /\ d[j] \in Int
  BY <1>1, TermTypes
<1>3. \A j \in 1..n \ {i} : b[j] = a[j] /\ d[j] = c[j]
  BY <1>1 DEF MoneyTerm, TokenTerm
<1>4. /\ a[i] = 0 /\ c[i] = 0
      /\ b[i] = IF orders[i].user = u
                THEN ReservedCollateral(orders[i], Remaining(orders[i])) ELSE 0
      /\ d[i] = IF orders[i].user = u /\ orders[i].token = t
                THEN ReservedConditional(orders[i], Remaining(orders[i])) ELSE 0
  BY <1>1 DEF MoneyTerm, TokenTerm
<1>5. /\ HeldMoney(S, u) = SumTo(a, n) /\ HeldMoney(T, u) = SumTo(b, n)
      /\ HeldTokens(S, u, t) = SumTo(c, n) /\ HeldTokens(T, u, t) = SumTo(d, n)
  BY DEF HeldMoney, HeldTokens, MoneyTerm, TokenTerm
<1> HIDE DEF a, b, c, d, n
<1>6. /\ SumTo(b, n) = SumTo(a, n) + b[i] - a[i]
      /\ SumTo(d, n) = SumTo(c, n) + d[i] - c[i]
  BY <1>1, <1>2, <1>3, SumToPoint
<1>7. SumTo(a, n) \in Int /\ SumTo(c, n) \in Int
  BY <1>1, <1>2, SumToInt
<1>8. b[i] \in Int /\ d[i] \in Int
  BY <1>1, <1>2
<1>9. SumTo(b, n) = SumTo(a, n) + b[i] /\ SumTo(d, n) = SumTo(c, n) + d[i]
  BY <1>4, <1>6, <1>7, <1>8
<1> QED
  BY <1>4, <1>5, <1>9

\* One row of a cancel statement, which may push a refund behind the others.
RefundOf(x, o) ==
    IF Fillable(o) /\ x.todo[1].refund
    THEN RefundStatements(o, Remaining(o)) ELSE <<>>

CloseRow(x, y, i) ==
    LET o == View(x, OrderRow(i))
    IN  /\ x.todo[1].do = "cancel" /\ i \in x.todo[1].ids
        /\ Shaped(y) /\ y.job = x.job /\ y.new = x.new /\ y.made = x.made
        /\ y.todo = (Without(x.todo[1], i) \o Tail(x.todo)) \o RefundOf(x, o)
        /\ Fillable(o) => Wrote(x, y, OrderRow(i), [o EXCEPT !.status = "CANCELED"])
        /\ ~Fillable(o) => y.mine = x.mine

\* The statements after it: those of before, d in place of the first one, and
\* the refund.
Follow(x, d, more, y) ==
    /\ \A k \in DOMAIN y.todo :
         \/ y.todo[k] = d /\ d.ids # {}
         \/ \E j \in DOMAIN x.todo \ {1} : y.todo[k] = x.todo[j]
         \/ \E j \in DOMAIN more : y.todo[k] = more[j]
    /\ \A j \in DOMAIN x.todo \ {1} : \E k \in DOMAIN y.todo : y.todo[k] = x.todo[j]
    /\ d.ids # {} => \E k \in DOMAIN y.todo : y.todo[k] = d
    /\ \A row : Pending(y.todo, row) = Pending(x.todo, row) + Pending(more, row)

LEMMA CloseFollows ==
  ASSUME NEW x, NEW y, NEW i, Shaped(x), Typed(x), 1 \in DOMAIN x.todo,
         CloseRow(x, y, i), NEW more, Numbers(more),
         more = RefundOf(x, View(x, OrderRow(i)))
  PROVE  /\ i \in DOMAIN orders
         /\ \E d : /\ d.do = "cancel" /\ d.ids = x.todo[1].ids \ {i}
                   /\ d.refund = x.todo[1].refund /\ TypedStatement(d)
                   /\ Follow(x, d, more, y)
<1> DEFINE c == x.todo[1]
<1>1. /\ c.do = "cancel" /\ i \in c.ids /\ c.ids \subseteq DOMAIN orders
      /\ "refund" \in DOMAIN c /\ {"do", "ids"} \subseteq DOMAIN c
  BY DEF CloseRow, Typed, TypedStatement
<1>2. PICK d : /\ Without(c, i) = Each(d)
               /\ d.do = c.do /\ d.ids = c.ids \ {i}
               /\ d.refund = c.refund /\ "refund" \in DOMAIN d
               /\ {"do", "ids"} \subseteq DOMAIN d
  BY <1>1, WithoutFacts
<1>3. TypedStatement(d)
  BY <1>1, <1>2 DEF TypedStatement
<1>4. /\ IsSeq(x.todo) /\ x.todo # <<>> /\ Numbers(x.todo)
  <2>1. IsSeq(x.todo)
    BY DEF Shaped
  <2> QED
    BY <2>1, SeqFacts, TypedNumbers
<1> DEFINE pre == Each(d)
           mid == pre \o Tail(x.todo)
<1>5. /\ IsSeq(pre) /\ \A k \in DOMAIN pre : pre[k] = d
      /\ d.ids # {} => 1 \in DOMAIN pre /\ pre[1] = d
      /\ d.ids = {} => DOMAIN pre = {}
  BY EachFacts
<1>6. Numbers(pre) /\ \A row : Pending(pre, row) = 0
  <2> HIDE DEF pre
  <2>1. \A k \in DOMAIN pre : pre[k].do \notin {"add", "take"}
    BY <1>1, <1>2, <1>5
  <2> QED
    BY <1>5, <2>1, PendingNone
<1>7. y.todo = mid \o more
  BY <1>2 DEF CloseRow
<1> HIDE DEF c, pre
<1> DEFINE todo == x.todo
<1> HIDE DEF todo
<1>8. Shifted(todo, pre, mid)
  <2>1. IsSeq(todo) /\ todo # <<>> /\ mid = pre \o Tail(todo)
    BY <1>4 DEF todo
  <2> HIDE DEF mid
  <2> QED
    BY <1>5, <2>1, Shift
<1>9. \A row : /\ Numbers(mid)
               /\ Pending(mid, row)
                     = Pending(pre, row) + Pending(todo, row) - Amount(todo[1], row)
  <2>1. Numbers(todo) /\ todo # <<>> /\ mid = pre \o Tail(todo)
    BY <1>4 DEF todo
  <2> HIDE DEF mid
  <2> QED
    BY <1>6, <2>1, PendingShift
<1>10. \A row : Amount(todo[1], row) = 0
  BY <1>1 DEF Amount, c, todo
<1>11. \A row : Pending(todo, row) \in Int
  BY <1>4, PendingInt DEF todo
<1> DEFINE z == y.todo
<1>12. z = mid \o more
  BY <1>7
<1> HIDE DEF mid, z
<1>13. Joined(mid, more, z) /\ IsSeq(mid) /\ IsSeq(more)
  <2>1. IsSeq(mid) /\ IsSeq(more)
    BY <1>9 DEF Numbers
  <2> QED
    BY <1>12, <2>1, CatFacts
<1>14. \A row : Pending(z, row) = Pending(mid, row) + Pending(more, row)
  BY <1>9, <1>12, PendingCat
<1>15. \A row : Pending(z, row) = Pending(todo, row) + Pending(more, row)
  <2> SUFFICES ASSUME NEW row
               PROVE  Pending(z, row) = Pending(todo, row) + Pending(more, row)
    OBVIOUS
  <2>1. Pending(mid, row) = Pending(pre, row) + Pending(todo, row) - Amount(todo[1], row)
    BY <1>9
  <2>2. Pending(mid, row) = Pending(todo, row)
    BY <1>6, <1>10, <1>11, <2>1
  <2> QED
    BY <1>14, <2>2
<1>16. \A k \in DOMAIN z : \/ k \in DOMAIN mid /\ z[k] = mid[k]
                           \/ \E j \in DOMAIN more : z[k] = more[j]
  <2> SUFFICES ASSUME NEW k \in DOMAIN z, k \notin DOMAIN mid
               PROVE  \E j \in DOMAIN more : z[k] = more[j]
    BY <1>13 DEF Joined
  <2>1. PICK j \in DOMAIN more : j = k - Len(mid)
    BY <1>13 DEF Joined
  <2>2. Len(mid) \in Nat /\ DOMAIN z \subseteq Nat
    BY <1>13, SeqFacts DEF Joined
  <2>3. k = Len(mid) + j
    BY <2>1, <2>2
  <2> QED
    BY <1>13, <2>3 DEF Joined
<1>17. /\ \A k \in DOMAIN mid : \/ mid[k] = d /\ d.ids # {}
                                \/ \E j \in DOMAIN todo \ {1} : mid[k] = todo[j]
       /\ \A j \in DOMAIN todo \ {1} : \E k \in DOMAIN mid : mid[k] = todo[j]
       /\ d.ids # {} => \E k \in DOMAIN mid : mid[k] = d
  BY <1>5, <1>8 DEF Shifted
<1>18. \A k \in DOMAIN mid : k \in DOMAIN z /\ z[k] = mid[k]
  BY <1>13 DEF Joined
<1>19. Follow(x, d, more, y)
  <2>1. \A k \in DOMAIN z :
         \/ z[k] = d /\ d.ids # {}
         \/ \E j \in DOMAIN todo \ {1} : z[k] = todo[j]
         \/ \E j \in DOMAIN more : z[k] = more[j]
    BY <1>16, <1>17
  <2>2. /\ \A j \in DOMAIN todo \ {1} : \E k \in DOMAIN z : z[k] = todo[j]
        /\ d.ids # {} => \E k \in DOMAIN z : z[k] = d
    BY <1>17, <1>18
  <2> QED
    BY <1>15, <2>1, <2>2 DEF Follow, todo, z
<1> QED
  BY <1>1, <1>2, <1>3, <1>19 DEF c

\* A row is closed when it is LIVE, and passed over when it no longer is.
LEMMA RowCloses ==
  ASSUME NEW x, NEW y, NEW i \in DOMAIN orders, Closes(x), CloseRow(x, y, i)
  PROVE  LET o == View(x, OrderRow(i))
         IN  /\ Closes(y)
             /\ Fillable(o) => /\ o = orders[i] /\ i \in Live /\ i \notin Closed(x)
                               /\ Closed(y) = Closed(x) \cup {i}
             /\ ~Fillable(o) => Closed(y) = Closed(x) /\ (i \in Live => i \in Closed(x))
             /\ \A r : Mine(y, r) => Mine(x, r) \/ r = OrderRow(i)
             /\ \A r : r # OrderRow(i) => View(y, r) = View(x, r)
<1> DEFINE o == View(x, OrderRow(i))
<1>1. CASE Fillable(o)
  <2>1. i \notin Closed(x)
    <3> SUFFICES ASSUME i \in Closed(x) PROVE FALSE
      OBVIOUS
    <3>1. o = [orders[i] EXCEPT !.status = "CANCELED"] /\ i \in Live
      BY DEF Closes, Closed, View
    <3>2. orders[i].status = "LIVE"
      BY <3>1 DEF Live
    <3>3. [orders[i] EXCEPT !.status = "CANCELED"].status # "LIVE"
      BY <3>2
    <3> QED
      BY <1>1, <3>1, <3>3 DEF Fillable
  <2>2. o = orders[i]
    BY <2>1, CommittedRows DEF View, Closed
  <2>3. i \in Live
    BY <1>1, <2>2 DEF Live, Fillable
  <2>4. Wrote(x, y, OrderRow(i), [orders[i] EXCEPT !.status = "CANCELED"])
    BY <1>1, <2>2 DEF CloseRow
  <2>5. /\ \A r : Mine(y, r) <=> Mine(x, r) \/ r = OrderRow(i)
        /\ \A r : r # OrderRow(i) => View(y, r) = View(x, r)
    BY <2>4 DEF Wrote, Mine, View
  <2>6. Closed(y) = Closed(x) \cup {i}
    BY <2>5, RowsNamed DEF Closed
  <2>7. Closes(y)
    <3> SUFFICES ASSUME NEW j \in Closed(y)
                 PROVE  /\ j \in Live
                        /\ y.mine[OrderRow(j)] = [orders[j] EXCEPT !.status = "CANCELED"]
      BY DEF Closes
    <3>1. CASE j = i
      BY <2>3, <2>4, <3>1 DEF Wrote
    <3>2. CASE j # i
      <4>1. j \in Closed(x) /\ OrderRow(j) # OrderRow(i)
        BY <2>6, <3>2, RowsNamed
      <4>2. OrderRow(j) \in DOMAIN x.mine
        BY <4>1 DEF Closed, Mine
      <4>3. y.mine[OrderRow(j)] = x.mine[OrderRow(j)]
        BY <2>4, <4>1, <4>2 DEF Wrote
      <4> QED
        BY <4>1, <4>3 DEF Closes
    <3> QED
      BY <3>1, <3>2
  <2> QED
    BY <1>1, <2>1, <2>2, <2>3, <2>5, <2>6, <2>7
<1>2. CASE ~Fillable(o)
  <2>1. y.mine = x.mine
    BY <1>2 DEF CloseRow
  <2>2. i \in Live => i \in Closed(x)
    BY <1>2, CommittedRows DEF View, Closed, Fillable, Live
  <2>3. Closed(y) = Closed(x) /\ Closes(y)
    BY <2>1 DEF Closes, Closed, Mine
  <2>4. \A r : Mine(y, r) = Mine(x, r) /\ View(y, r) = View(x, r)
    BY <2>1 DEF Mine, View
  <2> QED
    BY <1>2, <2>2, <2>3, <2>4
<1> QED
  BY <1>1, <1>2

LEMMA AimsKept ==
  ASSUME NEW x, NEW y, NEW i, NEW d, NEW more, Follow(x, d, more, y),
         x.todo[1].do = "cancel", 1 \in DOMAIN x.todo,
         d.do = "cancel", d.ids = x.todo[1].ids \ {i}, i \in x.todo[1].ids,
         \A k \in DOMAIN more : more[k].do # "cancel",
         Closed(x) \subseteq Closed(y),
         \A j \in Closed(y) : j \in Closed(x) \/ (j = i /\ i \in Live),
         i \in Live => i \in Closed(y),
         NEW ids, Aims(x, ids)
  PROVE  Aims(y, ids)
<1>1. \A k \in Coming(y, {"cancel"}) :
         y.todo[k].ids \subseteq x.todo[1].ids
         \/ \E j \in Coming(x, {"cancel"}) : y.todo[k] = x.todo[j]
  BY DEF Follow, Coming
<1>2. 1 \in Coming(x, {"cancel"})
  BY DEF Coming
<1>3. \A k \in Coming(y, {"cancel"}) : y.todo[k].ids \cap Live \subseteq ids
  BY <1>1, <1>2 DEF Aims
<1>4. i \in Live => i \in ids
  BY <1>2 DEF Aims
<1>5. Closed(y) \subseteq ids
  BY <1>4 DEF Aims
<1>6. ASSUME NEW j \in ids \cap Live, j \notin Closed(y)
      PROVE  \E k \in Coming(y, {"cancel"}) : j \in y.todo[k].ids
  <2>1. PICK k \in Coming(x, {"cancel"}) : j \in x.todo[k].ids
    BY <1>6 DEF Aims
  <2>2. j # i
    BY <1>6
  <2>3. CASE k = 1
    <3>1. j \in d.ids
      BY <2>1, <2>2, <2>3
    <3> QED
      BY <3>1 DEF Follow, Coming
  <2>4. CASE k # 1
    <3>1. PICK h \in DOMAIN y.todo : y.todo[h] = x.todo[k]
      BY <2>4 DEF Follow, Coming
    <3> QED
      BY <2>1, <3>1 DEF Coming
  <2> QED
    BY <2>3, <2>4
<1> QED
  BY <1>3, <1>5, <1>6 DEF Aims

LEMMA CancellingRow ==
  ASSUME Rows, NEW x, NEW y, NEW i, Shaped(x), Typed(x), 1 \in DOMAIN x.todo,
         Cancelling(x), CloseRow(x, y, i)
  PROVE  /\ Typed(y) /\ Cancelling(y)
         /\ \A ids : Aims(x, ids) => Aims(y, ids)
<1> DEFINE c    == x.todo[1]
           o    == View(x, OrderRow(i))
           more == RefundOf(x, o)
<1>1. c.do = "cancel" /\ i \in c.ids /\ c.refund /\ i \in DOMAIN orders
  <2>1. c.do = "cancel" /\ i \in c.ids
    BY DEF CloseRow
  <2>2. i \in DOMAIN orders
    BY <2>1 DEF Typed, TypedStatement
  <2> QED
    BY <2>1, <2>2 DEF Cancelling, Coming
<1>2. /\ Closes(y)
      /\ Fillable(o) => /\ o = orders[i] /\ i \in Live /\ i \notin Closed(x)
                        /\ Closed(y) = Closed(x) \cup {i}
      /\ ~Fillable(o) => Closed(y) = Closed(x) /\ (i \in Live => i \in Closed(x))
      /\ \A r : Mine(y, r) => Mine(x, r) \/ r = OrderRow(i)
      /\ \A r : r # OrderRow(i) => View(y, r) = View(x, r)
  BY <1>1, RowCloses DEF Cancelling
<1> DEFINE p    == orders[i]
           rc   == ReservedCollateral(p, Remaining(p))
           rt   == ReservedConditional(p, Remaining(p))
<1>3. /\ p.user \in Users /\ p.token \in Tokens
      /\ rc \in Nat /\ rt \in Nat
  <2>1. Remaining(p) \in Nat
    BY <1>1, OrderFields DEF Rows, MatchedFits, Remaining
  <2> QED
    BY <1>1, <2>1, OrderFields, ReservedNat DEF Rows
<1>4. /\ Numbers(more)
      /\ \A k \in DOMAIN more : more[k].do = "add" /\ TypedStatement(more[k])
      /\ Fillable(o) => \A w : Pending(more, w)
               = (IF w = Cash(p.user) THEN rc ELSE 0)
               + (IF w = Shares(p.user, p.token) THEN rt ELSE 0)
      /\ ~Fillable(o) => \A w : Pending(more, w) = 0
  <2>1. CASE Fillable(o)
    <3>1. more = RefundStatements(p, Remaining(p))
      BY <1>1, <1>2, <2>1 DEF RefundOf
    <3> HIDE DEF more, o, p
    <3> QED
      BY <1>3, <2>1, <3>1, RefundSends
  <2>2. CASE ~Fillable(o)
    <3>1. more = <<>>
      BY <2>2 DEF RefundOf
    <3> HIDE DEF more, o
    <3> QED
      BY <2>2, <3>1, OneFacts, PendingOne
  <2> QED
    BY <2>1, <2>2
<1>5. PICK d : /\ d.do = "cancel" /\ d.ids = c.ids \ {i}
               /\ d.refund = c.refund /\ TypedStatement(d)
               /\ Follow(x, d, more, y)
  <2>1. more = RefundOf(x, View(x, OrderRow(i)))
    OBVIOUS
  <2> HIDE DEF more
  <2> QED
    BY <1>4, <2>1, CloseFollows
<1> HIDE DEF more
<1>6. Typed(y)
  <2>1. \A k \in DOMAIN y.todo : TypedStatement(y.todo[k])
    BY <1>4, <1>5 DEF Follow, Typed
  <2>2. /\ \A r : OrderRow(i) # r \/ r \notin WalletRows \cup HeldRows
        /\ OrderRow(i)[2] = i
    BY RowsDiffer, RowTags DEF WalletRows, HeldRows
  <2>3. \A r : Mine(y, r) => \/ Mine(x, r) /\ y.mine[r] = x.mine[r]
                             \/ r = OrderRow(i)
    BY <1>2 DEF View
  <2> QED
    BY <1>1, <2>1, <2>2, <2>3 DEF Typed, Mine
<1>7. /\ OnlyComing(y, {"cancel", "add"})
      /\ \A k \in Coming(y, {"cancel"}) : y.todo[k].refund
  <2>1. \A k \in DOMAIN y.todo :
           \/ y.todo[k] = d
           \/ \E j \in DOMAIN x.todo : y.todo[k] = x.todo[j]
           \/ y.todo[k].do = "add"
    BY <1>4, <1>5 DEF Follow
  <2>2. OnlyComing(x, {"cancel", "add"})
    BY DEF Cancelling
  <2>3. OnlyComing(y, {"cancel", "add"})
    BY <1>5, <2>1, <2>2 DEF OnlyComing
  <2>4. ASSUME NEW k \in Coming(y, {"cancel"}) PROVE y.todo[k].refund
    <3>1. y.todo[k] = d \/ \E j \in Coming(x, {"cancel"}) : y.todo[k] = x.todo[j]
      BY <2>1 DEF Coming
    <3>2. d.refund
      BY <1>1, <1>5
    <3>3. \A j \in Coming(x, {"cancel"}) : x.todo[j].refund
      BY DEF Cancelling
    <3> QED
      BY <3>1, <3>2, <3>3, Zenon
  <2> QED
    BY <2>3, <2>4
<1>8. \A row \in HeldRows : ~Mine(y, row)
  BY <1>2, RowsDiffer DEF Cancelling, HeldRows
<1>9. Numbers(x.todo)
  BY TypedNumbers
<1>10. ASSUME NEW u \in Users
       PROVE  Outlook(y, Cash(u)) = collateral[u] + HeldMoney(Closed(y), u)
  <2>1. Outlook(x, Cash(u)) = collateral[u] + HeldMoney(Closed(x), u)
    BY DEF Cancelling, Refunding
  <2>2. View(y, Cash(u)) = View(x, Cash(u))
    BY <1>2, RowsDiffer
  <2>3. Pending(y.todo, Cash(u)) = Pending(x.todo, Cash(u)) + Pending(more, Cash(u))
    BY <1>5 DEF Follow
  <2>4. Pending(x.todo, Cash(u)) \in Int /\ View(x, Cash(u)) \in Nat
        /\ collateral[u] \in Nat /\ HeldMoney(Closed(x), u) \in Nat
    BY <1>9, PendingInt, ViewNat, HeldNat DEF Rows, AccountsTypeOK
  <2>5. Pending(more, Cash(u)) \in Int
        /\ HeldMoney(Closed(y), u) = HeldMoney(Closed(x), u) + Pending(more, Cash(u))
    <3>1. CASE Fillable(o)
      <4>1. Pending(more, Cash(u)) = IF p.user = u THEN rc ELSE 0
        BY <1>3, <1>4, <3>1, RowsDiffer, RowsNamed
      <4>2. HeldMoney(Closed(x) \cup {i}, u) = HeldMoney(Closed(x), u)
              + (IF p.user = u THEN rc ELSE 0)
        BY <1>1, <1>2, <3>1, HeldGrows
      <4> HIDE DEF p, rc, rt
      <4>3. Pending(more, Cash(u)) \in Int
        BY <1>3, <4>1
      <4>4. Closed(y) = Closed(x) \cup {i}
        BY <1>2, <3>1
      <4> QED
        BY <4>1, <4>2, <4>3, <4>4
    <3>2. CASE ~Fillable(o)
      <4>1. Pending(more, Cash(u)) = 0 /\ Closed(y) = Closed(x)
        BY <1>2, <1>4, <3>2
      <4> QED
        BY <2>4, <4>1
    <3> QED
      BY <3>1, <3>2
  <2> QED
    BY <2>1, <2>2, <2>3, <2>4, <2>5 DEF Outlook
<1>11. ASSUME NEW u \in Users, NEW t \in Tokens
       PROVE  Outlook(y, Shares(u, t))
                = conditional[u][t] + HeldTokens(Closed(y), u, t)
  <2> DEFINE w == Shares(u, t)
  <2>1. Outlook(x, w) = conditional[u][t] + HeldTokens(Closed(x), u, t)
    BY DEF Cancelling, Refunding
  <2>2. View(y, w) = View(x, w)
    BY <1>2, RowsDiffer
  <2>3. Pending(y.todo, w) = Pending(x.todo, w) + Pending(more, w)
    BY <1>5 DEF Follow
  <2>4. Pending(x.todo, w) \in Int /\ View(x, w) \in Nat
        /\ conditional[u][t] \in Nat /\ HeldTokens(Closed(x), u, t) \in Nat
    BY <1>9, PendingInt, ViewNat, HeldNat DEF Rows, AccountsTypeOK
  <2>5. Pending(more, w) \in Int
        /\ HeldTokens(Closed(y), u, t) = HeldTokens(Closed(x), u, t) + Pending(more, w)
    <3>1. CASE Fillable(o)
      <4>1. Pending(more, w) = IF p.user = u /\ p.token = t THEN rt ELSE 0
        BY <1>3, <1>4, <3>1, RowsDiffer, RowsNamed
      <4>2. HeldTokens(Closed(x) \cup {i}, u, t) = HeldTokens(Closed(x), u, t)
              + (IF p.user = u /\ p.token = t THEN rt ELSE 0)
        BY <1>1, <1>2, <3>1, HeldGrows
      <4> HIDE DEF p, rc, rt
      <4>3. Pending(more, w) \in Int
        BY <1>3, <4>1
      <4>4. Closed(y) = Closed(x) \cup {i}
        BY <1>2, <3>1
      <4> QED
        BY <4>1, <4>2, <4>3, <4>4
    <3>2. CASE ~Fillable(o)
      <4>1. Pending(more, w) = 0 /\ Closed(y) = Closed(x)
        BY <1>2, <1>4, <3>2
      <4> QED
        BY <2>4, <4>1
    <3> QED
      BY <3>1, <3>2
  <2> HIDE DEF w
  <2>6. Outlook(y, w) = conditional[u][t] + HeldTokens(Closed(y), u, t)
    BY <2>1, <2>2, <2>3, <2>4, <2>5 DEF Outlook
  <2> QED
    BY <2>6 DEF w
<1>12. y.new = <<>> /\ y.made = <<>>
  BY DEF CloseRow, Cancelling
<1>13. Cancelling(y)
  BY <1>2, <1>7, <1>8, <1>10, <1>11, <1>12 DEF Cancelling, Refunding
<1>14. ASSUME NEW ids, Aims(x, ids) PROVE Aims(y, ids)
  <2>1. /\ Closed(x) \subseteq Closed(y)
        /\ \A j \in Closed(y) : j \in Closed(x) \/ (j = i /\ i \in Live)
        /\ i \in Live => i \in Closed(y)
    BY <1>2
  <2>2. \A k \in DOMAIN more : more[k].do # "cancel"
    BY <1>4
  <2> QED
    BY <1>1, <1>5, <1>14, <2>1, <2>2, AimsKept
<1> QED
  BY <1>6, <1>13, <1>14

LEMMA CancellingAdd ==
  ASSUME Rows, NEW x, NEW y, Typed(x), Cancelling(x), Credits(x, y),
         y.new = x.new, y.made = x.made
  PROVE  /\ Typed(y) /\ Cancelling(y)
         /\ \A ids : Aims(x, ids) => Aims(y, ids)
<1> DEFINE row == x.todo[1].row
<1>1. /\ Typed(y)
      /\ \A w \in WalletRows : Outlook(y, w) = Outlook(x, w)
      /\ row \in WalletRows
  BY MoneyMoves DEF Credits
<1>2. PICK value : Wrote(x, y, row, value)
  BY MoneyMoves DEF Credits
<1>3. row \notin HeldRows /\ \A i : row # OrderRow(i)
  BY <1>1, RowsDiffer DEF WalletRows, HeldRows
<1> HIDE DEF row
<1>4. /\ \A r : r # row => (Mine(y, r) <=> Mine(x, r))
      /\ \A r \in DOMAIN x.mine : r # row => y.mine[r] = x.mine[r]
  BY <1>2 DEF Wrote, Mine
<1>5. /\ 1 \in DOMAIN x.todo
      /\ \A k \in DOMAIN y.todo : \E j \in DOMAIN x.todo : y.todo[k] = x.todo[j]
      /\ \A j \in DOMAIN x.todo \ {1} : \E k \in DOMAIN y.todo : y.todo[k] = x.todo[j]
  <2>1. Steps(x, y, <<>>) /\ DOMAIN <<>> = {}
    BY OneFacts DEF Credits
  <2> QED
    BY <2>1, NothingNew
<1>6. x.todo[1].do = "add"
  BY DEF Credits
<1>7. Closed(y) = Closed(x)
  BY <1>3, <1>4 DEF Closed
<1>8. Closes(y)
  <2>1. \A i \in Closed(x) : OrderRow(i) \in DOMAIN x.mine
    BY DEF Closed, Mine
  <2> QED
    BY <1>3, <1>4, <1>7, <2>1 DEF Cancelling, Closes
<1>9. /\ \A k \in Coming(y, {"cancel"}) :
            \E j \in Coming(x, {"cancel"}) : y.todo[k] = x.todo[j]
      /\ \A j \in Coming(x, {"cancel"}) :
            \E k \in Coming(y, {"cancel"}) : y.todo[k] = x.todo[j]
  BY <1>5, <1>6 DEF Coming
<1>10. OnlyComing(y, {"cancel", "add"})
  BY <1>5 DEF Cancelling, OnlyComing
<1>11. \A k \in Coming(y, {"cancel"}) : y.todo[k].refund
  <2>1. \A j \in Coming(x, {"cancel"}) : x.todo[j].refund
    BY DEF Cancelling
  <2> QED
    BY <1>9, <2>1, Zenon
<1>12. \A r \in HeldRows : ~Mine(y, r)
  BY <1>3, <1>4 DEF Cancelling
<1>13. Refunding(y)
  <2>1. /\ \A u \in Users : Outlook(y, Cash(u)) = Outlook(x, Cash(u))
        /\ \A u \in Users, t \in Tokens :
              Outlook(y, Shares(u, t)) = Outlook(x, Shares(u, t))
    BY <1>1, WalletsKept
  <2> QED
    BY <1>7, <2>1 DEF Cancelling, Refunding
<1>14. Cancelling(y)
  BY <1>8, <1>10, <1>11, <1>12, <1>13 DEF Cancelling
<1>15. ASSUME NEW ids, Aims(x, ids) PROVE Aims(y, ids)
  <2>1. \A k \in Coming(y, {"cancel"}) : y.todo[k].ids \cap Live \subseteq ids
    BY <1>9, <1>15 DEF Aims
  <2>2. \A i \in ids \cap Live :
          i \in Closed(y) \/ \E k \in Coming(y, {"cancel"}) : i \in y.todo[k].ids
    BY <1>7, <1>9, <1>15 DEF Aims
  <2> QED
    BY <1>7, <1>15, <2>1, <2>2 DEF Aims
<1> QED
  BY <1>1, <1>14, <1>15

-----------------------------------------------------------------------------
(* Settlements.                                                            *)

\* What a settlement may push.
Pushed(z) ==
    /\ z.do \in {"seize", "pay", "add", "put", "credit", "cancel"}
    /\ z.do = "cancel" => ~z.refund
    /\ \A u \in Users, t \in Tokens :
          <<u, t>> \notin opened =>
             /\ z.do \in {"add", "put"} => z.row # Shares(u, t) /\ z.row # Held(u, t)
             /\ z.do = "credit" => \A c \in z.ids : c[1] # Shares(u, t)

LEMMA SettlingPushes ==
  ASSUME NEW x, NEW y, NEW pre, Settling(x), Steps(x, y, pre),
         y.new = x.new, y.made = x.made, \A k \in DOMAIN pre : Pushed(pre[k]),
         Closes(y),
         \A u \in Users, t \in Tokens : <<u, t>> \notin opened =>
            ~Mine(y, Shares(u, t)) /\ ~Mine(y, Held(u, t))
  PROVE  Settling(y)
<1>1. \A k \in DOMAIN y.todo :
          \/ \E j \in DOMAIN pre : y.todo[k] = pre[j]
          \/ \E j \in DOMAIN x.todo : y.todo[k] = x.todo[j]
  BY NothingNew
<1>2. OnlyComing(y, {"tokens", "positions", "seize", "pay", "add", "put",
                     "refund", "credit", "close", "cancel"})
  <2>1. OnlyComing(x, {"tokens", "positions", "seize", "pay", "add", "put",
                       "refund", "credit", "close", "cancel"})
    BY DEF Settling
  <2> QED
    BY <1>1, <2>1 DEF OnlyComing, Pushed
<1>3. \A k \in Coming(y, {"cancel"}) : ~y.todo[k].refund
  <2>1. \A j \in DOMAIN x.todo : x.todo[j].do = "cancel" => ~x.todo[j].refund
    BY DEF Settling, Coming
  <2>2. \A j \in DOMAIN pre : pre[j].do = "cancel" => ~pre[j].refund
    BY DEF Pushed
  <2>3. \A k \in DOMAIN y.todo : y.todo[k].do = "cancel" => ~y.todo[k].refund
    BY <1>1, <2>1, <2>2, Zenon
  <2> QED
    BY <2>3 DEF Coming
<1>4. OnOpened(y)
  <2> SUFFICES ASSUME NEW u \in Users, NEW t \in Tokens, <<u, t>> \notin opened
               PROVE  /\ \A k \in Coming(y, {"add", "put"}) :
                            /\ y.todo[k].row # Shares(u, t)
                            /\ y.todo[k].row # Held(u, t)
                      /\ \A k \in Coming(y, {"credit"}) :
                            \A z \in y.todo[k].ids : z[1] # Shares(u, t)
    BY DEF OnOpened
  <2>1. /\ \A k \in Coming(x, {"add", "put"}) :
                            /\ x.todo[k].row # Shares(u, t)
                            /\ x.todo[k].row # Held(u, t)
        /\ \A k \in Coming(x, {"credit"}) :
                            \A z \in x.todo[k].ids : z[1] # Shares(u, t)
    BY DEF Settling, OnOpened
  <2>2. \A k \in DOMAIN pre :
             /\ pre[k].do \in {"add", "put"} => pre[k].row # Shares(u, t)
                                                /\ pre[k].row # Held(u, t)
             /\ pre[k].do = "credit" => \A c \in pre[k].ids : c[1] # Shares(u, t)
    BY DEF Pushed
  <2> QED
    BY <1>1, <2>1, <2>2 DEF Coming
<1>5. x.job.S \subseteq Tokens /\ y.job = x.job
  BY DEF Settling, Steps
<1> QED
  BY <1>2, <1>3, <1>4, <1>5 DEF Settling

\* One statement at a time goes through the positions.
Phases == {"positions", "seize", "pay"}

LEMMA PhaseKept ==
  ASSUME NEW x, NEW y, NEW pre, Steps(x, y, pre),
         \A j, k \in Coming(x, Phases) : j = k,
         \A j, k \in DOMAIN pre :
            pre[j].do \in Phases /\ pre[k].do \in Phases => j = k,
         \A k \in DOMAIN pre : pre[k].do \in Phases => x.todo[1].do \in Phases
  PROVE  \A j, k \in Coming(y, Phases) : j = k
<1> DEFINE a == x.todo
           b == y.todo
<1>1. Shifted(a, pre, b)
  BY DEF Steps
<1>2. \A j, k \in DOMAIN a : a[j].do \in Phases /\ a[k].do \in Phases => j = k
  BY DEF Coming
<1>3. \A k \in DOMAIN pre : pre[k].do \in Phases => a[1].do \in Phases
  OBVIOUS
<1> HIDE DEF a, b
<1>4. ASSUME NEW j \in DOMAIN b, NEW k \in DOMAIN b,
             b[j].do \in Phases, b[k].do \in Phases
      PROVE  j = k
  <2>1. 1 \in DOMAIN a /\ Len(pre) \in Nat /\ j \in Nat /\ k \in Nat
    BY <1>1 DEF Shifted
  <2>2. \A i \in DOMAIN b : i \notin DOMAIN pre =>
           i - Len(pre) + 1 \in DOMAIN a \ {1} /\ b[i] = a[i - Len(pre) + 1]
    BY <1>1 DEF Shifted
  <2>3. \A i \in DOMAIN pre : b[i] = pre[i]
    BY <1>1 DEF Shifted
  <2>4. CASE j \in DOMAIN pre /\ k \in DOMAIN pre
    BY <1>4, <2>3, <2>4
  <2>5. CASE j \notin DOMAIN pre /\ k \notin DOMAIN pre
    <3>1. j - Len(pre) + 1 = k - Len(pre) + 1
      BY <1>2, <1>4, <2>2, <2>5
    <3> QED
      BY <2>1, <3>1
  <2>6. CASE j \in DOMAIN pre /\ k \notin DOMAIN pre
    BY <1>2, <1>3, <1>4, <2>1, <2>2, <2>3, <2>6
  <2>7. CASE j \notin DOMAIN pre /\ k \in DOMAIN pre
    BY <1>2, <1>3, <1>4, <2>1, <2>2, <2>3, <2>7
  <2> QED
    BY <2>4, <2>5, <2>6, <2>7
<1> QED
  BY <1>4 DEF Coming, b

LEMMA PocketsRest ==
  ASSUME NEW x, NEW y, NEW pre, Pockets(x), Steps(x, y, pre),
         y.seized = x.seized, x.todo[1].do \notin Phases \cup {"put"},
         \A k \in DOMAIN pre : pre[k].do \notin Phases \cup {"put"},
         \A u \in Users, t \in Tokens :
            /\ Mine(y, Held(u, t)) <=> Mine(x, Held(u, t))
            /\ Mine(x, Held(u, t)) => y.mine[Held(u, t)] = x.mine[Held(u, t)]
  PROVE  Pockets(y)
<1>1. /\ \A k \in DOMAIN y.todo :
            y.todo[k].do \in Phases \cup {"put"} =>
               \E j \in DOMAIN x.todo : y.todo[k] = x.todo[j]
      /\ \A j \in DOMAIN x.todo :
            x.todo[j].do \in Phases \cup {"put"} =>
               \E k \in DOMAIN y.todo : y.todo[k] = x.todo[j]
  BY NothingNew
<1>2. \A j, k \in Coming(y, Phases) : j = k
  <2>1. \A j, k \in Coming(x, Phases) : j = k
    BY DEF Pockets, Phases
  <2> QED
    BY <2>1, PhaseKept
<1>3. Coming(y, {"positions", "seize"}) # {} => DOMAIN y.seized = {}
  BY <1>1 DEF Pockets, Coming, Phases
<1>4. Grip(y) = Grip(x)
  <2>1. \A p \in Users \X Tokens : Mine(y, Held(p[1], p[2])) <=> Mine(x, Held(p[1], p[2]))
    OBVIOUS
  <2> QED
    BY <2>1 DEF Grip
<1>5. \A k \in Coming(y, {"pay"}) : y.todo[k].ids \subseteq Grip(y) \ DOMAIN y.seized
  BY <1>1, <1>4 DEF Pockets, Coming, Phases
<1>6. ASSUME NEW u \in Users, NEW t \in Tokens PROVE Pocket(y, u, t)
  <2> DEFINE row == Held(u, t)
  <2>1. Pocket(x, u, t)
    BY DEF Pockets
  <2>2. /\ Puts(y, row) = {} <=> Puts(x, row) = {}
        /\ \A k \in Puts(y, row) : \E j \in Puts(x, row) : y.todo[k] = x.todo[j]
    BY <1>1 DEF Puts, Coming
  <2>3. /\ Mine(y, row) <=> Mine(x, row)
        /\ Mine(x, row) => y.mine[row] = x.mine[row]
    OBVIOUS
  <2> HIDE DEF row
  <2>4. <<u, t>> \in DOMAIN x.seized => Mine(x, row)
    <3>1. <<u, t>> \in DOMAIN x.seized => <<u, t>> \in Grip(x)
      BY DEF Pockets
    <3> QED
      BY <3>1 DEF Grip, row
  <2> QED
    BY <2>1, <2>2, <2>3, <2>4 DEF Pocket, row
<1> QED
  BY <1>2, <1>3, <1>4, <1>5, <1>6 DEF Pockets, Phases

LEMMA PocketsSeize ==
  ASSUME NEW x, NEW y, NEW pre, Pockets(x), Steps(x, y, pre),
         y.seized = x.seized, x.todo[1].do \in {"positions", "seize"},
         \A k \in DOMAIN pre :
            /\ pre[k].do \in {"seize", "pay"}
            /\ pre[k].do = "pay" => pre[k].ids \subseteq Grip(y),
         \A j, k \in DOMAIN pre : j = k,
         \A u \in Users, t \in Tokens :
            /\ Mine(x, Held(u, t)) => /\ Mine(y, Held(u, t))
                                      /\ y.mine[Held(u, t)] = x.mine[Held(u, t)]
            /\ Mine(y, Held(u, t)) /\ ~Mine(x, Held(u, t)) =>
                  y.mine[Held(u, t)] = position[u][t]
  PROVE  Pockets(y)
<1>1. /\ 1 \in DOMAIN x.todo
      /\ \A k \in DOMAIN y.todo :
            \/ \E j \in DOMAIN pre : y.todo[k] = pre[j]
            \/ \E j \in DOMAIN x.todo \ {1} : y.todo[k] = x.todo[j]
      /\ \A j \in DOMAIN x.todo \ {1} : \E k \in DOMAIN y.todo : y.todo[k] = x.todo[j]
  BY NothingNew
<1>2. \A j, k \in Coming(x, Phases) : j = k
  BY DEF Pockets, Phases
<1>3. \A j, k \in Coming(y, Phases) : j = k
  <2>1. x.todo[1].do \in Phases
    BY DEF Phases
  <2> QED
    BY <1>2, <2>1, PhaseKept
<1>4. \A j \in DOMAIN x.todo \ {1} : x.todo[j].do \notin Phases
  BY <1>1, <1>2 DEF Coming, Phases
<1>5. DOMAIN y.seized = {}
  BY <1>1 DEF Pockets, Coming
<1>6. Grip(x) \subseteq Grip(y)
  <2>1. \A p \in Users \X Tokens : Mine(x, Held(p[1], p[2])) => Mine(y, Held(p[1], p[2]))
    OBVIOUS
  <2> QED
    BY <2>1 DEF Grip
<1>7. \A k \in Coming(y, {"pay"}) : y.todo[k].ids \subseteq Grip(y)
  BY <1>1, <1>4 DEF Coming, Phases
<1>8. ASSUME NEW u \in Users, NEW t \in Tokens PROVE Pocket(y, u, t)
  <2> DEFINE row == Held(u, t)
  <2>1. Pocket(x, u, t)
    BY DEF Pockets
  <2>2. Puts(y, row) = {} <=> Puts(x, row) = {}
    BY <1>1 DEF Puts, Coming
  <2>3. /\ Mine(x, row) => Mine(y, row) /\ y.mine[row] = x.mine[row]
        /\ Mine(y, row) /\ ~Mine(x, row) => y.mine[row] = position[u][t]
    OBVIOUS
  <2>4. Puts(x, row) = {}
    BY <1>5, <2>1 DEF Pocket
  <2> HIDE DEF row
  <2> QED
    BY <1>5, <2>1, <2>2, <2>3, <2>4 DEF Pocket, row
<1> QED
  BY <1>3, <1>5, <1>7, <1>8 DEF Pockets, Phases

LEMMA PocketsPut ==
  ASSUME NEW x, NEW y, Pockets(x), Typed(x), Overwrites(x, y),
         y.seized = x.seized
  PROVE  Pockets(y) /\ \A r : Mine(y, r) => Mine(x, r) \/ r = x.todo[1].row
<1> DEFINE c == x.todo[1]
<1>1. /\ 1 \in DOMAIN x.todo
      /\ \A k \in DOMAIN y.todo : \E j \in DOMAIN x.todo \ {1} : y.todo[k] = x.todo[j]
      /\ \A j \in DOMAIN x.todo \ {1} : \E k \in DOMAIN y.todo : y.todo[k] = x.todo[j]
  <2>1. Steps(x, y, <<>>) /\ DOMAIN <<>> = {}
    BY OneFacts DEF Overwrites
  <2> QED
    BY <2>1, NothingNew
<1>2. c.do = "put" /\ Wrote(x, y, c.row, c.n)
  BY DEF Overwrites
<1> HIDE DEF c
<1>3. \A j, k \in Coming(y, Phases) : j = k
  <2>1. \A j, k \in Coming(x, Phases) : j = k
    BY DEF Pockets, Phases
  <2>2. Steps(x, y, <<>>) /\ DOMAIN <<>> = {}
    BY OneFacts DEF Overwrites
  <2> QED
    BY <2>1, <2>2, PhaseKept
<1>4. Coming(y, {"positions", "seize"}) # {} => DOMAIN y.seized = {}
  BY <1>1 DEF Pockets, Coming
<1>5. \A r : Mine(x, r) => Mine(y, r)
  BY <1>2, WroteView
<1>6. Grip(x) \subseteq Grip(y)
  BY <1>5 DEF Grip
<1>7. \A k \in Coming(y, {"pay"}) : y.todo[k].ids \subseteq Grip(y) \ DOMAIN y.seized
  BY <1>1, <1>6 DEF Pockets, Coming
<1>8. ASSUME NEW u \in Users, NEW t \in Tokens PROVE Pocket(y, u, t)
  <2> DEFINE row == Held(u, t)
  <2>1. Pocket(x, u, t)
    BY DEF Pockets
  <2>2. <<u, t>> \in DOMAIN x.seized => Mine(x, row)
    <3>1. <<u, t>> \in DOMAIN x.seized => <<u, t>> \in Grip(x)
      BY DEF Pockets
    <3> QED
      BY <3>1 DEF Grip
  <2> HIDE DEF row
  <2>3. \A k \in Puts(y, row) : \E j \in Puts(x, row) : y.todo[k] = x.todo[j]
    BY <1>1 DEF Puts, Coming
  <2>4. CASE c.row = row
    <3>1. 1 \in Puts(x, row)
      BY <1>1, <1>2, <2>4 DEF Puts, Coming, c
    <3>2. Mine(x, row) /\ <<u, t>> \in DOMAIN x.seized /\ c.n = 0
      BY <2>1, <3>1 DEF Pocket, row, c
    <3>3. y.mine[row] = 0 /\ Mine(y, row)
      BY <1>2, <1>5, <2>4, <3>2 DEF Wrote
    <3> QED
      BY <2>1, <2>3, <3>2, <3>3 DEF Pocket, row
  <2>5. CASE c.row # row
    <3>1. \A j \in Puts(x, row) : \E k \in Puts(y, row) : y.todo[k] = x.todo[j]
      BY <1>1, <2>5 DEF Puts, Coming, c
    <3>2. /\ Mine(y, row) <=> Mine(x, row)
          /\ Mine(x, row) => y.mine[row] = x.mine[row]
      BY <1>2, <2>5 DEF Wrote, Mine
    <3>3. Puts(y, row) = {} <=> Puts(x, row) = {}
      BY <2>3, <3>1
    <3> QED
      BY <2>1, <2>2, <2>3, <3>2, <3>3 DEF Pocket, row
  <2> QED
    BY <2>4, <2>5
<1>9. DOMAIN y.seized \subseteq Grip(y)
  BY <1>6 DEF Pockets
<1>10. \A r : Mine(y, r) => Mine(x, r) \/ r = c.row
  BY <1>2, WroteView
<1> QED
  BY <1>3, <1>4, <1>7, <1>8, <1>9, <1>10 DEF Pockets, Phases, c

\* A position is paid for: its rows are about to be emptied.
LEMMA PocketsPay ==
  ASSUME NEW x, NEW y, NEW pre, NEW p, Pockets(x), Steps(x, y, pre),
         x.todo[1].do = "pay", p \in x.todo[1].ids, y.mine = x.mine,
         DOMAIN y.seized = DOMAIN x.seized \cup {p},
         y.seized[p] = x.mine[Held(p[1], p[2])],
         \A q \in DOMAIN x.seized : q # p => y.seized[q] = x.seized[q],
         \A k \in DOMAIN pre :
            /\ pre[k].do \in {"pay", "add", "put"}
            /\ pre[k].do = "pay" => pre[k].ids = x.todo[1].ids \ {p}
            /\ pre[k].do = "put" =>
                  /\ pre[k].n = 0
                  /\ \/ pre[k].row = Held(p[1], p[2])
                     \/ \A u, t : pre[k].row # Held(u, t),
         \E k \in DOMAIN pre : pre[k].do = "put" /\ pre[k].row = Held(p[1], p[2]),
         \A j, k \in DOMAIN pre : pre[j].do = "pay" /\ pre[k].do = "pay" => j = k
  PROVE  Pockets(y)
<1>1. /\ 1 \in DOMAIN x.todo
      /\ \A k \in DOMAIN y.todo :
            \/ \E j \in DOMAIN pre : y.todo[k] = pre[j]
            \/ \E j \in DOMAIN x.todo \ {1} : y.todo[k] = x.todo[j]
      /\ \A j \in DOMAIN x.todo \ {1} : \E k \in DOMAIN y.todo : y.todo[k] = x.todo[j]
      /\ \A j \in DOMAIN pre : \E k \in DOMAIN y.todo : y.todo[k] = pre[j]
  BY NothingNew
<1>2. \A j, k \in Coming(x, Phases) : j = k
  BY DEF Pockets, Phases
<1>3. \A j, k \in Coming(y, Phases) : j = k
  <2>1. x.todo[1].do \in Phases
    BY DEF Phases
  <2>2. \A j, k \in DOMAIN pre :
            pre[j].do \in Phases /\ pre[k].do \in Phases => j = k
    BY DEF Phases
  <2> QED
    BY <1>2, <2>1, <2>2, PhaseKept
<1>4. \A j \in DOMAIN x.todo \ {1} : x.todo[j].do \notin Phases
  BY <1>1, <1>2 DEF Coming, Phases
<1>5. Coming(y, {"positions", "seize"}) = {}
  BY <1>1, <1>4 DEF Coming, Phases
<1>6. /\ p \in Grip(x) /\ p \notin DOMAIN x.seized
      /\ x.todo[1].ids \subseteq Grip(x) \ DOMAIN x.seized
  BY <1>1 DEF Pockets, Coming
<1>7. Grip(y) = Grip(x)
  BY DEF Grip, Mine
<1>8. \A k \in Coming(y, {"pay"}) : y.todo[k].ids \subseteq Grip(y) \ DOMAIN y.seized
  BY <1>1, <1>4, <1>6, <1>7 DEF Coming, Phases
<1>9. DOMAIN y.seized \subseteq Grip(y)
  BY <1>6, <1>7 DEF Pockets
<1>10. p = <<p[1], p[2]>> /\ p[1] \in Users /\ p[2] \in Tokens /\ Mine(x, Held(p[1], p[2]))
  BY <1>6 DEF Grip
<1>11. ASSUME NEW u \in Users, NEW t \in Tokens PROVE Pocket(y, u, t)
  <2> DEFINE row == Held(u, t)
  <2>1. Pocket(x, u, t)
    BY DEF Pockets
  <2>2. \A r : (Mine(y, r) <=> Mine(x, r)) /\ y.mine[r] = x.mine[r]
    BY DEF Mine
  <2>3. CASE <<u, t>> = p
    <3>1. u = p[1] /\ t = p[2]
      BY <1>10, <2>3
    <3>2. Mine(x, row) /\ Puts(x, row) = {} /\ x.mine[row] = position[u][t]
      BY <1>6, <1>10, <2>1, <2>3, <3>1 DEF Pocket
    <3>3. y.seized[<<u, t>>] = position[u][t] /\ <<u, t>> \in DOMAIN y.seized
      BY <2>3, <3>1, <3>2
    <3>4. Puts(y, row) # {}
      BY <1>1, <3>1 DEF Puts, Coming
    <3>5. \A j \in DOMAIN x.todo \ {1} : ~(x.todo[j].do = "put" /\ x.todo[j].row = row)
      BY <3>2 DEF Puts, Coming
    <3>6. \A k \in Puts(y, row) : y.todo[k].n = 0
      BY <1>1, <3>5 DEF Puts, Coming
    <3> HIDE DEF row
    <3> QED
      BY <2>2, <3>2, <3>3, <3>4, <3>6 DEF Pocket, row
  <2>4. CASE <<u, t>> # p
    <3>1. row # Held(p[1], p[2])
      BY <1>10, <2>4, RowsNamed
    <3>2. /\ \A k \in Puts(y, row) : \E j \in Puts(x, row) : y.todo[k] = x.todo[j]
          /\ \A j \in Puts(x, row) : \E k \in Puts(y, row) : y.todo[k] = x.todo[j]
      BY <1>1, <3>1 DEF Puts, Coming
    <3>3. Puts(y, row) = {} <=> Puts(x, row) = {}
      BY <3>2
    <3>4. /\ <<u, t>> \in DOMAIN y.seized <=> <<u, t>> \in DOMAIN x.seized
          /\ <<u, t>> \in DOMAIN x.seized => y.seized[<<u, t>>] = x.seized[<<u, t>>]
      BY <2>4
    <3> HIDE DEF row
    <3> QED
      BY <2>1, <2>2, <3>2, <3>3, <3>4 DEF Pocket, row
  <2> QED
    BY <2>3, <2>4
<1> QED
  BY <1>3, <1>5, <1>8, <1>9, <1>11 DEF Pockets, Phases

LEMMA SettleSends ==
  ASSUME NEW x, NEW y, NEW pre, Typed(x), Settling(x), Steps(x, y, pre),
         y.mine = x.mine, y.new = x.new, y.made = x.made,
         \A k \in DOMAIN pre : Pushed(pre[k]) /\ TypedStatement(pre[k])
  PROVE  Typed(y) /\ Settling(y)
<1>1. Typed(y)
  BY TypedSteps
<1>2. Closes(y)
  BY DEF Settling, Closes, Closed, Mine
<1>3. \A u \in Users, t \in Tokens : <<u, t>> \notin opened =>
            ~Mine(y, Shares(u, t)) /\ ~Mine(y, Held(u, t))
  BY DEF Settling, OnOpened, Mine
<1> QED
  BY <1>1, <1>2, <1>3, SettlingPushes

LEMMA SettleWrites ==
  ASSUME NEW x, NEW y, NEW pre, Typed(x), Settling(x), Steps(x, y, pre),
         NEW row \in WalletRows \cup HeldRows, NEW value \in Nat,
         Wrote(x, y, row, value), y.new = x.new, y.made = x.made,
         \A u \in Users, t \in Tokens : <<u, t>> \notin opened =>
            row # Shares(u, t) /\ row # Held(u, t),
         \A k \in DOMAIN pre : Pushed(pre[k]) /\ TypedStatement(pre[k])
  PROVE  Typed(y) /\ Settling(y)
<1>1. row[1] # "order" /\ \A i : row # OrderRow(i)
  BY RowsDiffer, RowTags DEF WalletRows, HeldRows
<1>2. Typed(y)
  <2>1. \A r \in DOMAIN y.mine : \/ r \in DOMAIN x.mine /\ y.mine[r] = x.mine[r]
                                 \/ r = row /\ y.mine[r] = value
    BY DEF Wrote
  <2> QED
    BY <1>1, <2>1, TypedSteps
<1>3. Closes(y)
  <2>1. Closed(y) = Closed(x)
    BY <1>1 DEF Wrote, Closed, Mine
  <2>2. \A i \in Closed(x) : y.mine[OrderRow(i)] = x.mine[OrderRow(i)]
    BY <1>1 DEF Wrote, Closed, Mine
  <2> QED
    BY <2>1, <2>2 DEF Settling, Closes
<1>4. \A u \in Users, t \in Tokens : <<u, t>> \notin opened =>
            ~Mine(y, Shares(u, t)) /\ ~Mine(y, Held(u, t))
  BY WroteView DEF Settling, OnOpened
<1> QED
  BY <1>2, <1>3, <1>4, SettlingPushes

LEMMA SettleAdd ==
  ASSUME Rows, NEW x, NEW y, Typed(x), Settling(x), Pockets(x), Credits(x, y),
         y.new = x.new, y.made = x.made, y.seized = x.seized
  PROVE  Typed(y) /\ Settling(y) /\ Pockets(y)
<1> DEFINE c == x.todo[1]
<1>1. /\ Steps(x, y, <<>>) /\ DOMAIN <<>> = {} /\ 1 \in DOMAIN x.todo
      /\ c.do = "add"
  BY OneFacts, NothingNew DEF Credits
<1>2. c.row \in WalletRows /\ c.n \in Nat /\ View(x, c.row) \in Nat
  BY <1>1, ViewNat DEF Typed, TypedStatement
<1>3. Wrote(x, y, c.row, View(x, c.row) + c.n) /\ View(x, c.row) + c.n \in Nat
  BY <1>1, <1>2 DEF Credits, Moves
<1>4. \A u \in Users, t \in Tokens : <<u, t>> \notin opened =>
            c.row # Shares(u, t) /\ c.row # Held(u, t)
  BY <1>1 DEF Settling, OnOpened, Coming
<1>5. Typed(y) /\ Settling(y)
  <2>1. c.row \in WalletRows \cup HeldRows
    BY <1>2
  <2> HIDE DEF c
  <2> QED
    BY <1>1, <1>3, <1>4, <2>1, SettleWrites
<1>6. \A u \in Users, t \in Tokens :
            /\ Mine(y, Held(u, t)) <=> Mine(x, Held(u, t))
            /\ Mine(x, Held(u, t)) => y.mine[Held(u, t)] = x.mine[Held(u, t)]
  <2>1. \A u, t : c.row # Held(u, t)
    BY <1>2, RowsDiffer DEF WalletRows
  <2> HIDE DEF c
  <2> QED
    BY <1>3, <2>1 DEF Wrote, Mine
<1>7. Pockets(y)
  BY <1>1, <1>6, PocketsRest DEF Phases
<1> QED
  BY <1>5, <1>7

LEMMA SettlePut ==
  ASSUME Rows, NEW x, NEW y, Typed(x), Settling(x), Pockets(x), Overwrites(x, y),
         y.new = x.new, y.made = x.made, y.seized = x.seized
  PROVE  Typed(y) /\ Settling(y) /\ Pockets(y)
<1> DEFINE c == x.todo[1]
<1>1. /\ Steps(x, y, <<>>) /\ DOMAIN <<>> = {} /\ 1 \in DOMAIN x.todo
      /\ c.do = "put" /\ Wrote(x, y, c.row, c.n)
  BY OneFacts, NothingNew DEF Overwrites
<1>2. c.row \in WalletRows \cup HeldRows /\ c.n \in Nat
  BY <1>1 DEF Typed, TypedStatement
<1>3. \A u \in Users, t \in Tokens : <<u, t>> \notin opened =>
            c.row # Shares(u, t) /\ c.row # Held(u, t)
  BY <1>1 DEF Settling, OnOpened, Coming
<1>4. Typed(y) /\ Settling(y)
  <2> HIDE DEF c
  <2> QED
    BY <1>1, <1>2, <1>3, SettleWrites
<1>5. Pockets(y)
  BY PocketsPut
<1> QED
  BY <1>4, <1>5

\* The open positions are found, and locked one by one.
LEMMA SettleFinds ==
  ASSUME NEW x, NEW y, NEW z, Typed(x), Settling(x), Pockets(x),
         Steps(x, y, <<z>>), x.todo[1].do = "positions",
         z.do = "seize", {"do", "ids"} \subseteq DOMAIN z,
         \A p \in z.ids : p[1] \in Users /\ p[2] \in Tokens,
         y.mine = x.mine,
         y.new = x.new, y.made = x.made, y.seized = x.seized
  PROVE  Typed(y) /\ Settling(y) /\ Pockets(y)
<1>1. DOMAIN <<z>> = {1} /\ <<z>>[1] = z
  BY OneFacts
<1>2. Pushed(z) /\ TypedStatement(z)
  BY DEF Pushed, TypedStatement
<1>3. Typed(y) /\ Settling(y)
  BY <1>1, <1>2, SettleSends
<1>4. Pockets(y)
  BY <1>1, PocketsSeize DEF Mine
<1> QED
  BY <1>3, <1>4

LEMMA SettleSeizes ==
  ASSUME Rows, Unopened, NEW x, NEW y, NEW z, NEW p, Typed(x), Settling(x),
         Pockets(x), Steps(x, y, <<z>>), x.todo[1].do = "seize",
         p \in x.todo[1].ids,
         z.do = "seize", {"do", "ids"} \subseteq DOMAIN z,
         z.ids \subseteq x.todo[1].ids,
         \/ /\ View(x, Held(p[1], p[2])) > 0
            /\ Wrote(x, y, Held(p[1], p[2]), View(x, Held(p[1], p[2])))
         \/ y.mine = x.mine,
         y.new = x.new, y.made = x.made, y.seized = x.seized
  PROVE  Typed(y) /\ Settling(y) /\ Pockets(y)
<1> DEFINE row == Held(p[1], p[2])
<1>1. DOMAIN <<z>> = {1} /\ <<z>>[1] = z /\ 1 \in DOMAIN x.todo
  BY OneFacts, NothingNew
<1>2. \A q \in x.todo[1].ids : q[1] \in Users /\ q[2] \in Tokens
  BY <1>1 DEF Typed, TypedStatement
<1>3. Pushed(z) /\ TypedStatement(z)
  BY <1>2 DEF Pushed, TypedStatement
<1>4. CASE y.mine = x.mine
  <2>1. Typed(y) /\ Settling(y)
    BY <1>1, <1>3, <1>4, SettleSends
  <2>2. Pockets(y)
    BY <1>1, <1>4, PocketsSeize DEF Mine
  <2> QED
    BY <2>1, <2>2
<1>5. CASE View(x, row) > 0 /\ Wrote(x, y, row, View(x, row))
  <2>1. /\ p[1] \in Users /\ p[2] \in Tokens /\ row \in HeldRows
        /\ View(x, row) \in Nat
    <3>1. p[1] \in Users /\ p[2] \in Tokens
      BY <1>2
    <3>2. row \in HeldRows
      BY <3>1 DEF HeldRows
    <3> QED
      BY <3>1, <3>2, ViewNat
  <2>2. <<p[1], p[2]>> \in opened
    <3> SUFFICES ASSUME <<p[1], p[2]>> \notin opened PROVE FALSE
      OBVIOUS
    <3>1. ~Mine(x, row)
      BY <2>1 DEF Settling, OnOpened
    <3>2. View(x, row) = position[p[1]][p[2]]
      BY <3>1, CommittedRows DEF View
    <3>3. position[p[1]][p[2]] = 0
      BY <2>1 DEF Unopened
    <3> QED
      BY <1>5, <3>2, <3>3
  <2>3. \A u \in Users, t \in Tokens : <<u, t>> \notin opened =>
            row # Shares(u, t) /\ row # Held(u, t)
    BY <2>2, RowsDiffer, RowsNamed
  <2>4. Typed(y) /\ Settling(y)
    <3>1. row \in WalletRows \cup HeldRows
      BY <2>1
    <3> HIDE DEF row
    <3> QED
      BY <1>1, <1>3, <1>5, <2>1, <2>3, <3>1, SettleWrites
  <2>5. \A u \in Users, t \in Tokens :
            /\ Mine(x, Held(u, t)) => /\ Mine(y, Held(u, t))
                                      /\ y.mine[Held(u, t)] = x.mine[Held(u, t)]
            /\ Mine(y, Held(u, t)) /\ ~Mine(x, Held(u, t)) =>
                  y.mine[Held(u, t)] = position[u][t]
    <3> SUFFICES ASSUME NEW u \in Users, NEW t \in Tokens
                 PROVE  /\ Mine(x, Held(u, t)) =>
                              /\ Mine(y, Held(u, t))
                              /\ y.mine[Held(u, t)] = x.mine[Held(u, t)]
                        /\ Mine(y, Held(u, t)) /\ ~Mine(x, Held(u, t)) =>
                              y.mine[Held(u, t)] = position[u][t]
      OBVIOUS
    <3>1. CASE Held(u, t) = row
      <4>1. y.mine[Held(u, t)] = View(x, Held(u, t)) /\ Mine(y, Held(u, t))
        BY <1>5, <3>1 DEF Wrote, Mine
      <4> QED
        BY <4>1, CommittedRows DEF View
    <3>2. CASE Held(u, t) # row
      BY <1>5, <3>2 DEF Wrote, Mine
    <3> QED
      BY <3>1, <3>2
  <2>6. Pockets(y)
    BY <1>1, <2>5, PocketsSeize
  <2> QED
    BY <2>4, <2>6
<1> QED
  BY <1>4, <1>5

\* All are locked: the loop over them begins.
LEMMA SettleLoops ==
  ASSUME NEW x, NEW y, NEW z, Typed(x), Settling(x), Pockets(x),
         Steps(x, y, Each(z)), x.todo[1].do = "seize",
         z.do = "pay", {"do", "ids"} \subseteq DOMAIN z, z.ids \subseteq Grip(x),
         y.mine = x.mine,
         y.new = x.new, y.made = x.made, y.seized = x.seized
  PROVE  Typed(y) /\ Settling(y) /\ Pockets(y)
<1> DEFINE pre == Each(z)
<1>1. \A k \in DOMAIN pre : pre[k] = z
  BY EachFacts
<1>2. \A j, k \in DOMAIN pre : j = k
  BY OneFacts DEF Each
<1>3. Pushed(z) /\ TypedStatement(z)
  BY DEF Pushed, TypedStatement
<1> HIDE DEF pre
<1>4. Steps(x, y, pre)
  BY DEF pre
<1>5. Typed(y) /\ Settling(y)
  BY <1>1, <1>3, <1>4, SettleSends
<1>6. Grip(y) = Grip(x)
  BY DEF Grip, Mine
<1>7. Pockets(y)
  BY <1>1, <1>2, <1>4, <1>6, PocketsSeize DEF Mine
<1> QED
  BY <1>5, <1>7

LEMMA TwoFacts ==
  ASSUME NEW a, NEW b
  PROVE  /\ IsSeq(<<a, b>>) /\ Len(<<a, b>>) = 2 /\ DOMAIN <<a, b>> = {1, 2}
         /\ <<a, b>>[1] = a /\ <<a, b>>[2] = b
<1>1. <<a, b>> \in Seq({a, b})
  OBVIOUS
<1>2. IsSeq(<<a, b>>)
  BY <1>1, SeqOwn
<1> QED
  BY <1>2

\* What is sent for a position: two wallets, the position, and the others.
PayPut(u, t) == <<[do |-> "put", row |-> Shares(u, t), n |-> 0],
                  [do |-> "put", row |-> Held(u, t), n |-> 0]>>

PayList(u, n, t, d) == (Add(Cash(u), n) \o PayPut(u, t)) \o Each(d)

LEMMA PaySends ==
  ASSUME NEW u \in Users, NEW t \in Tokens, NEW n \in Nat, NEW d, d.do = "pay",
         NEW pre, pre = PayList(u, n, t, d)
  PROVE  /\ Numbers(pre)
         /\ \A k \in DOMAIN pre :
               \/ pre[k] = d
               \/ pre[k].do = "add" /\ pre[k].row = Cash(u) /\ pre[k].n = n
               \/ /\ pre[k].do = "put" /\ pre[k].n = 0
                  /\ pre[k].row = Held(u, t) \/ pre[k].row = Shares(u, t)
         /\ \E k \in DOMAIN pre : pre[k].do = "put" /\ pre[k].row = Held(u, t)
         /\ \A j, k \in DOMAIN pre : pre[j].do = "pay" /\ pre[k].do = "pay" => j = k
<1> DEFINE a == Add(Cash(u), n)
           b == PayPut(u, t)
           c == a \o b
           e == Each(d)
<1>1. /\ Numbers(a) /\ IsSeq(a)
      /\ \A k \in DOMAIN a : /\ a[k].do = "add" /\ a[k].row = Cash(u)
                             /\ a[k].n = n
  BY AddFacts
<1>2. /\ IsSeq(b) /\ 2 \in DOMAIN b
      /\ \A k \in DOMAIN b : /\ b[k].do = "put" /\ b[k].n = 0
                             /\ b[k].row = Held(u, t) \/ b[k].row = Shares(u, t)
      /\ b[2].row = Held(u, t)
  <2> DEFINE f == [do |-> "put", row |-> Shares(u, t), n |-> 0]
             g == [do |-> "put", row |-> Held(u, t), n |-> 0]
  <2>1. /\ f.do = "put" /\ f.n = 0 /\ f.row = Shares(u, t)
        /\ g.do = "put" /\ g.n = 0 /\ g.row = Held(u, t)
    OBVIOUS
  <2>2. b = <<f, g>>
    BY DEF PayPut
  <2> HIDE DEF f, g, b
  <2>3. /\ IsSeq(<<f, g>>) /\ DOMAIN <<f, g>> = {1, 2}
        /\ <<f, g>>[1] = f /\ <<f, g>>[2] = g
    BY TwoFacts
  <2> QED
    BY <2>1, <2>2, <2>3
<1>3. /\ IsSeq(e) /\ \A k \in DOMAIN e : e[k] = d /\ k = 1
  <2>1. \A k \in DOMAIN e : k = 1
    BY OneFacts DEF Each
  <2> QED
    BY <2>1, EachFacts
<1>4. pre = c \o e
  BY DEF PayList
<1> HIDE DEF a, b, e
<1>5. /\ Numbers(b) /\ Numbers(e)
  <2>1. \A k \in DOMAIN b : b[k].do \notin {"add", "take"}
    BY <1>2
  <2>2. \A k \in DOMAIN e : e[k].do \notin {"add", "take"}
    BY <1>3
  <2> QED
    BY <1>2, <1>3, <2>1, <2>2, PendingNone
<1>6. Numbers(c)
  BY <1>1, <1>5, PendingCat
<1>7. Joined(a, b, c)
  BY <1>1, <1>2, CatFacts
<1> HIDE DEF c
<1>8. Numbers(pre)
  BY <1>4, <1>5, <1>6, PendingCat
<1>9. Joined(c, e, pre)
  BY <1>3, <1>4, <1>6, CatFacts DEF Numbers
<1>10. /\ Len(a) \in Nat /\ Len(c) \in Nat /\ DOMAIN c = 1..Len(c)
       /\ DOMAIN pre \subseteq Nat /\ DOMAIN c \subseteq Nat
  BY <1>1, <1>6, <1>8, SeqFacts DEF Numbers
<1>11. \A k \in DOMAIN c :
          \/ c[k].do = "add" /\ c[k].row = Cash(u) /\ c[k].n = n
          \/ /\ c[k].do = "put" /\ c[k].n = 0
             /\ c[k].row = Held(u, t) \/ c[k].row = Shares(u, t)
  <2> SUFFICES ASSUME NEW k \in DOMAIN c
               PROVE  (\E j \in DOMAIN a : c[k] = a[j]) \/ (\E j \in DOMAIN b : c[k] = b[j])
    BY <1>1, <1>2
  <2>1. CASE k \in DOMAIN a
    BY <1>7, <2>1 DEF Joined
  <2>2. CASE k \notin DOMAIN a
    <3>1. PICK j \in DOMAIN b : j = k - Len(a)
      BY <1>7, <2>2 DEF Joined
    <3>2. k = Len(a) + j
      BY <1>10, <3>1
    <3> QED
      BY <1>7, <3>2 DEF Joined
  <2> QED
    BY <2>1, <2>2
<1>12. \A k \in DOMAIN pre : \/ k \in DOMAIN c /\ pre[k] = c[k]
                             \/ k = Len(c) + 1 /\ pre[k] = d
  <2> SUFFICES ASSUME NEW k \in DOMAIN pre, k \notin DOMAIN c
               PROVE  k = Len(c) + 1 /\ pre[k] = d
    BY <1>9 DEF Joined
  <2>1. PICK j \in DOMAIN e : j = k - Len(c)
    BY <1>9 DEF Joined
  <2>2. k = Len(c) + j /\ j = 1 /\ e[j] = d
    BY <1>3, <1>10, <2>1
  <2> QED
    BY <1>9, <2>2 DEF Joined
<1>13. \E k \in DOMAIN pre : pre[k].do = "put" /\ pre[k].row = Held(u, t)
  <2>1. Len(a) + 2 \in DOMAIN c /\ c[Len(a) + 2] = b[2]
    BY <1>2, <1>7 DEF Joined
  <2>2. Len(a) + 2 \in DOMAIN pre /\ pre[Len(a) + 2] = b[2]
    BY <1>9, <2>1 DEF Joined
  <2> QED
    BY <1>2, <2>2
<1>14. \A j, k \in DOMAIN pre : pre[j].do = "pay" /\ pre[k].do = "pay" => j = k
  <2>1. \A k \in DOMAIN c : c[k].do # "pay"
    BY <1>11
  <2> QED
    BY <1>12, <2>1
<1> QED
  BY <1>8, <1>11, <1>12, <1>13, <1>14

\* The rows of an opened position are not those of one never opened.
LEMMA OpenedRows ==
  ASSUME NEW a, NEW b, <<a, b>> \in opened, NEW row,
         row = Held(a, b) \/ row = Shares(a, b)
  PROVE  \A u \in Users, t \in Tokens : <<u, t>> \notin opened =>
            row # Shares(u, t) /\ row # Held(u, t)
BY RowsDiffer, RowsNamed

\* The settlement x becomes y by paying p.
PaysOut(x, y, p, d, n) ==
    /\ Shaped(x) /\ Typed(x) /\ Settling(x) /\ Pockets(x)
    /\ 1 \in DOMAIN x.todo /\ x.todo[1].do = "pay" /\ p \in x.todo[1].ids
    /\ d.do = "pay" /\ {"do", "ids"} \subseteq DOMAIN d /\ d.ids = x.todo[1].ids \ {p}
    /\ Shaped(y) /\ y.job = x.job
    /\ y.todo = PayList(p[1], n, p[2], d) \o Tail(x.todo)
    /\ y.mine = x.mine /\ y.new = x.new /\ y.made = x.made
    /\ DOMAIN y.seized = DOMAIN x.seized \cup {p}
    /\ y.seized[p] = x.mine[Held(p[1], p[2])]
    /\ \A q \in DOMAIN x.seized : q # p => y.seized[q] = x.seized[q]

LEMMA SettlePays ==
  ASSUME Rows, NEW x, NEW y, NEW p, NEW d, NEW n \in Nat, PaysOut(x, y, p, d, n)
  PROVE  Typed(y) /\ Settling(y) /\ Pockets(y)
<1>a. /\ Shaped(x) /\ Typed(x) /\ Settling(x) /\ Pockets(x)
      /\ 1 \in DOMAIN x.todo /\ x.todo[1].do = "pay" /\ p \in x.todo[1].ids
  BY DEF PaysOut
<1>b. /\ d.do = "pay" /\ {"do", "ids"} \subseteq DOMAIN d /\ d.ids = x.todo[1].ids \ {p}
  BY DEF PaysOut
<1>c. /\ Shaped(y) /\ y.job = x.job
      /\ y.todo = PayList(p[1], n, p[2], d) \o Tail(x.todo)
      /\ y.mine = x.mine /\ y.new = x.new /\ y.made = x.made
      /\ DOMAIN y.seized = DOMAIN x.seized \cup {p}
      /\ y.seized[p] = x.mine[Held(p[1], p[2])]
      /\ \A q \in DOMAIN x.seized : q # p => y.seized[q] = x.seized[q]
  BY DEF PaysOut
<1>1. p \in Grip(x)
  BY <1>a DEF Pockets, Coming
<1>2. p[1] \in Users /\ p[2] \in Tokens /\ Mine(x, Held(p[1], p[2]))
  BY <1>1 DEF Grip
<1>3. <<p[1], p[2]>> \in opened
  BY <1>a, <1>2 DEF Settling, OnOpened
<1>4. PICK pre : pre = PayList(p[1], n, p[2], d)
  OBVIOUS
<1>5. /\ Numbers(pre)
      /\ \A k \in DOMAIN pre :
            \/ pre[k] = d
            \/ pre[k].do = "add" /\ pre[k].row = Cash(p[1]) /\ pre[k].n = n
            \/ /\ pre[k].do = "put" /\ pre[k].n = 0
               /\ pre[k].row = Held(p[1], p[2]) \/ pre[k].row = Shares(p[1], p[2])
      /\ \E k \in DOMAIN pre : pre[k].do = "put" /\ pre[k].row = Held(p[1], p[2])
      /\ \A j, k \in DOMAIN pre : pre[j].do = "pay" /\ pre[k].do = "pay" => j = k
  BY <1>b, <1>2, <1>4, PaySends
<1>6. Steps(x, y, pre)
  <2>1. x.todo # <<>>
    BY <1>a, SeqFacts DEF Shaped
  <2> QED
    BY <1>a, <1>c, <1>4, <1>5, <2>1, StepsTo
<1>7. /\ Cash(p[1]) \in WalletRows /\ Shares(p[1], p[2]) \in WalletRows
      /\ Held(p[1], p[2]) \in HeldRows
  BY <1>2 DEF WalletRows, HeldRows
<1>8. ASSUME NEW k \in DOMAIN pre PROVE Pushed(pre[k]) /\ TypedStatement(pre[k])
  <2>1. CASE pre[k] = d
    BY <1>b, <2>1 DEF Pushed, TypedStatement
  <2>2. CASE pre[k].do = "add" /\ pre[k].row = Cash(p[1]) /\ pre[k].n = n
    BY <1>7, <2>2, RowsDiffer DEF Pushed, TypedStatement
  <2>3. CASE /\ pre[k].do = "put" /\ pre[k].n = 0
             /\ pre[k].row = Held(p[1], p[2]) \/ pre[k].row = Shares(p[1], p[2])
    <3>1. \A u \in Users, t \in Tokens : <<u, t>> \notin opened =>
             pre[k].row # Shares(u, t) /\ pre[k].row # Held(u, t)
      <4>1. PICK row : row = pre[k].row
        OBVIOUS
      <4>2. row = Held(p[1], p[2]) \/ row = Shares(p[1], p[2])
        BY <2>3, <4>1
      <4>3. \A u \in Users, t \in Tokens : <<u, t>> \notin opened =>
               row # Shares(u, t) /\ row # Held(u, t)
        BY <1>3, <4>2, OpenedRows
      <4> QED
        BY <4>1, <4>3
    <3> QED
      BY <1>7, <2>3, <3>1 DEF Pushed, TypedStatement
  <2> QED
    BY <1>5, <2>1, <2>2, <2>3
<1>9. Typed(y) /\ Settling(y)
  BY <1>a, <1>c, <1>6, <1>8, SettleSends
<1>10. \A u, t : Shares(p[1], p[2]) # Held(u, t)
  BY RowsDiffer
<1>11. \A k \in DOMAIN pre :
            /\ pre[k].do \in {"pay", "add", "put"}
            /\ pre[k].do = "pay" => pre[k].ids = x.todo[1].ids \ {p}
            /\ pre[k].do = "put" =>
                  /\ pre[k].n = 0
                  /\ \/ pre[k].row = Held(p[1], p[2])
                     \/ \A u, t : pre[k].row # Held(u, t)
  BY <1>b, <1>5, <1>10
<1>12. Pockets(y)
  BY <1>a, <1>c, <1>5, <1>6, <1>11, PocketsPay
<1> QED
  BY <1>9, <1>12

\* A refund statement: nobody holds tokens of a position never opened.
LEMMA NothingOffered ==
  ASSUME Rows, Unopened, NEW u \in Users, NEW t \in Tokens,
         <<u, t>> \notin opened, NEW S
  PROVE  HeldTokens(S, u, t) = 0
<1> DEFINE f == [i \in DOMAIN orders |-> TokenTerm(S, u, t, i)]
<1>1. Len(orders) \in Nat /\ DOMAIN orders = 1..Len(orders)
  BY DEF Rows, AccountsTypeOK
<1>2. \A i \in 1..Len(orders) : f[i] = 0
  BY <1>1 DEF TokenTerm, ReservedConditional, Unopened
<1> HIDE DEF f
<1>3. SumTo(f, Len(orders)) = 0
  BY <1>1, <1>2, SumToZero
<1> QED
  BY <1>3 DEF HeldTokens, TokenTerm, f

LEMMA SettleRefunds ==
  ASSUME Rows, Unopened, NEW x, NEW y, NEW z, NEW L, Typed(x), Settling(x),
         Pockets(x), Steps(x, y, Each(z)), x.todo[1].do = "refund",
         z.do = "credit", {"do", "ids"} \subseteq DOMAIN z,
         z.ids = {c \in Refunds(L, x.job.S) : c[2] > 0},
         y.mine = x.mine, y.new = x.new, y.made = x.made, y.seized = x.seized
  PROVE  Typed(y) /\ Settling(y) /\ Pockets(y)
<1> DEFINE pre == Each(z)
<1>1. \A k \in DOMAIN pre : pre[k] = z
  BY EachFacts
<1>2. ASSUME NEW c \in z.ids
      PROVE  /\ c[1] \in WalletRows /\ c[2] \in Nat
             /\ \A u \in Users, t \in Tokens :
                   <<u, t>> \notin opened => c[1] # Shares(u, t)
  <2>1. c[2] > 0
    OBVIOUS
  <2>2. CASE \E u \in Users : c = <<Cash(u), HeldMoney(L, u)>>
    <3>1. PICK u \in Users : c = <<Cash(u), HeldMoney(L, u)>>
      BY <2>2
    <3>2. c[1] = Cash(u) /\ c[2] = HeldMoney(L, u)
      BY <3>1
    <3>3. HeldMoney(L, u) \in Nat
      BY HeldNat DEF Rows
    <3> QED
      BY <3>2, <3>3, RowsDiffer DEF WalletRows
  <2>3. CASE \E u \in Users, t \in x.job.S : c = <<Shares(u, t), HeldTokens(L, u, t)>>
    <3>1. PICK u \in Users, t \in x.job.S : c = <<Shares(u, t), HeldTokens(L, u, t)>>
      BY <2>3
    <3>2. t \in Tokens /\ c[1] = Shares(u, t) /\ c[2] = HeldTokens(L, u, t)
      BY <3>1 DEF Settling
    <3>3. HeldTokens(L, u, t) \in Nat
      BY HeldNat DEF Rows
    <3>4. <<u, t>> \notin opened => HeldTokens(L, u, t) = 0
      BY <3>2, NothingOffered
    <3>5. <<u, t>> \in opened
      BY <2>1, <3>2, <3>4
    <3> QED
      BY <3>2, <3>3, <3>5, RowsNamed DEF WalletRows
  <2> QED
    BY <2>2, <2>3 DEF Refunds
<1>3. Pushed(z) /\ TypedStatement(z)
  BY <1>2 DEF Pushed, TypedStatement
<1> HIDE DEF pre
<1>4. Steps(x, y, pre)
  BY DEF pre
<1>5. Typed(y) /\ Settling(y)
  BY <1>1, <1>3, <1>4, SettleSends
<1>6. Pockets(y)
  <2>1. \A k \in DOMAIN pre : pre[k].do \notin Phases \cup {"put"}
    BY <1>1 DEF Phases
  <2>2. x.todo[1].do \notin Phases \cup {"put"}
    BY DEF Phases
  <2> QED
    BY <1>4, <2>1, <2>2, PocketsRest DEF Mine
<1> QED
  BY <1>5, <1>6

LEMMA SettleCredits ==
  ASSUME Rows, NEW x, NEW y, NEW z, NEW c, Typed(x), Settling(x),
         Pockets(x), Steps(x, y, Each(z)), x.todo[1].do = "credit",
         c \in x.todo[1].ids,
         z.do = "credit", {"do", "ids"} \subseteq DOMAIN z,
         z.ids = x.todo[1].ids \ {c},
         Wrote(x, y, c[1], View(x, c[1]) + c[2]),
         y.new = x.new, y.made = x.made, y.seized = x.seized
  PROVE  Typed(y) /\ Settling(y) /\ Pockets(y)
<1> DEFINE pre == Each(z)
<1>1. /\ \A k \in DOMAIN pre : pre[k] = z
      /\ 1 \in DOMAIN x.todo
  BY EachFacts, NothingNew
<1>2. \A q \in x.todo[1].ids : q[1] \in WalletRows /\ q[2] \in Nat
  BY <1>1 DEF Typed, TypedStatement
<1>3. \A u \in Users, t \in Tokens : <<u, t>> \notin opened =>
         \A q \in x.todo[1].ids : q[1] # Shares(u, t)
  BY <1>1 DEF Settling, OnOpened, Coming
<1>4. Pushed(z) /\ TypedStatement(z)
  BY <1>2, <1>3 DEF Pushed, TypedStatement
<1> DEFINE row   == c[1]
           value == View(x, row) + c[2]
<1>5. row \in WalletRows \cup HeldRows /\ value \in Nat
  BY <1>2, ViewNat
<1>6. /\ \A u, t : row # Held(u, t)
      /\ \A u \in Users, t \in Tokens : <<u, t>> \notin opened =>
            row # Shares(u, t) /\ row # Held(u, t)
  <2>1. \A u, t : row # Held(u, t)
    BY <1>2, RowsDiffer DEF WalletRows
  <2> QED
    BY <1>3, <2>1
<1>7. Wrote(x, y, row, value)
  OBVIOUS
<1> HIDE DEF row, value, pre
<1>8. Steps(x, y, pre)
  BY DEF pre
<1>9. Typed(y) /\ Settling(y)
  BY <1>1, <1>4, <1>5, <1>6, <1>7, <1>8, SettleWrites
<1>10. Pockets(y)
  <2>1. \A k \in DOMAIN pre : pre[k].do \notin Phases \cup {"put"}
    BY <1>1 DEF Phases
  <2>2. x.todo[1].do \notin Phases \cup {"put"}
    BY DEF Phases
  <2>3. \A u \in Users, t \in Tokens :
            /\ Mine(y, Held(u, t)) <=> Mine(x, Held(u, t))
            /\ Mine(x, Held(u, t)) => y.mine[Held(u, t)] = x.mine[Held(u, t)]
    BY <1>6, <1>7 DEF Wrote, Mine
  <2> QED
    BY <1>8, <2>1, <2>2, <2>3, PocketsRest
<1> QED
  BY <1>9, <1>10

LEMMA SettleCloses ==
  ASSUME NEW x, NEW y, NEW z, Typed(x), Settling(x),
         Pockets(x), Steps(x, y, Each(z)), x.todo[1].do = "close",
         z.do = "cancel", {"do", "ids", "refund"} \subseteq DOMAIN z, ~z.refund,
         z.ids \subseteq DOMAIN orders,
         y.mine = x.mine, y.new = x.new, y.made = x.made, y.seized = x.seized
  PROVE  Typed(y) /\ Settling(y) /\ Pockets(y)
<1> DEFINE pre == Each(z)
<1>1. \A k \in DOMAIN pre : pre[k] = z
  BY EachFacts
<1>2. Pushed(z) /\ TypedStatement(z)
  BY DEF Pushed, TypedStatement
<1> HIDE DEF pre
<1>3. Steps(x, y, pre)
  BY DEF pre
<1>4. Typed(y) /\ Settling(y)
  BY <1>1, <1>2, <1>3, SettleSends
<1>5. Pockets(y)
  <2>1. \A k \in DOMAIN pre : pre[k].do \notin Phases \cup {"put"}
    BY <1>1 DEF Phases
  <2>2. x.todo[1].do \notin Phases \cup {"put"}
    BY DEF Phases
  <2> QED
    BY <1>3, <2>1, <2>2, PocketsRest DEF Mine
<1> QED
  BY <1>4, <1>5

LEMMA SettleCancels ==
  ASSUME NEW x, NEW y, NEW z, NEW i, Shaped(x), Typed(x), Settling(x), Pockets(x),
         1 \in DOMAIN x.todo, CloseRow(x, y, i), Steps(x, y, Each(z)),
         z.do = "cancel", {"do", "ids", "refund"} \subseteq DOMAIN z, ~z.refund,
         z.ids = x.todo[1].ids \ {i}, y.seized = x.seized
  PROVE  Typed(y) /\ Settling(y) /\ Pockets(y)
<1> DEFINE pre == Each(z)
<1>1. \A k \in DOMAIN pre : pre[k] = z
  BY EachFacts
<1>2. /\ x.todo[1].do = "cancel" /\ i \in DOMAIN orders
      /\ x.todo[1].ids \subseteq DOMAIN orders
  BY DEF CloseRow, Typed, TypedStatement
<1>3. Pushed(z) /\ TypedStatement(z)
  BY <1>2 DEF Pushed, TypedStatement
<1> HIDE DEF pre
<1>4. Steps(x, y, pre) /\ y.new = x.new /\ y.made = x.made
  BY DEF pre, CloseRow
<1>5. Closes(y)
  BY <1>2, RowCloses DEF Settling
<1>6. /\ \A r \in DOMAIN y.mine : \/ r \in DOMAIN x.mine /\ y.mine[r] = x.mine[r]
                                  \/ r = OrderRow(i)
      /\ \A r \in DOMAIN x.mine : r # OrderRow(i) =>
                                     r \in DOMAIN y.mine /\ y.mine[r] = x.mine[r]
  BY DEF CloseRow, Wrote
<1>7. /\ OrderRow(i)[2] = i /\ OrderRow(i) \notin WalletRows \cup HeldRows
      /\ \A u, t : OrderRow(i) # Shares(u, t) /\ OrderRow(i) # Held(u, t)
  BY RowsDiffer, RowTags DEF WalletRows, HeldRows
<1>8. Typed(y)
  BY <1>1, <1>2, <1>3, <1>4, <1>6, <1>7, TypedSteps
<1>9. \A u \in Users, t \in Tokens : <<u, t>> \notin opened =>
            ~Mine(y, Shares(u, t)) /\ ~Mine(y, Held(u, t))
  BY <1>6, <1>7 DEF Settling, OnOpened, Mine
<1>10. Settling(y)
  BY <1>1, <1>3, <1>4, <1>5, <1>9, SettlingPushes
<1>11. Pockets(y)
  <2>1. \A k \in DOMAIN pre : pre[k].do \notin Phases \cup {"put"}
    BY <1>1 DEF Phases
  <2>2. x.todo[1].do \notin Phases \cup {"put"}
    BY <1>2 DEF Phases
  <2>3. \A u \in Users, t \in Tokens :
            /\ Mine(y, Held(u, t)) <=> Mine(x, Held(u, t))
            /\ Mine(x, Held(u, t)) => y.mine[Held(u, t)] = x.mine[Held(u, t)]
    BY <1>6, <1>7 DEF Mine
  <2> QED
    BY <1>4, <2>1, <2>2, <2>3, PocketsRest
<1> QED
  BY <1>8, <1>10, <1>11

\* The statements after the first one pay for what is ruled on.
LEMMA JudgedGoesOn ==
  ASSUME NEW x, NEW y, NEW pre, Judged(x), Steps(x, y, pre),
         x.todo[1].do # "tokens", \A k \in DOMAIN pre : pre[k].do # "tokens",
         \A k \in DOMAIN pre : pre[k].do = "pay" => \A p \in pre[k].ids : Ruled(x, p),
         \A p \in DOMAIN y.seized : p \in DOMAIN x.seized \/ Ruled(x, p)
  PROVE  Judged(y)
<1>1. y.job = x.job
  BY DEF Steps
<1>2. \A p : Ruled(y, p) <=> Ruled(x, p)
  BY <1>1 DEF Ruled
<1>3. /\ 1 \in DOMAIN x.todo
      /\ \A k \in DOMAIN y.todo :
            \/ \E j \in DOMAIN pre : y.todo[k] = pre[j]
            \/ \E j \in DOMAIN x.todo \ {1} : y.todo[k] = x.todo[j]
  BY NothingNew
<1>4. \A j \in DOMAIN x.todo : x.todo[j].do # "tokens"
  <2>1. \A j \in DOMAIN x.todo : x.todo[j].do = "tokens" => j = 1
    BY DEF Judged, Coming
  <2> QED
    BY <2>1
<1>5. Coming(y, {"tokens"}) = {}
  BY <1>3, <1>4 DEF Coming
<1>6. ASSUME NEW k \in Coming(y, {"pay"}), NEW p \in y.todo[k].ids PROVE Ruled(y, p)
  <2>1. k \in DOMAIN y.todo /\ y.todo[k].do = "pay"
    BY <1>6 DEF Coming
  <2>2. CASE \E j \in DOMAIN pre : y.todo[k] = pre[j]
    BY <1>2, <1>6, <2>1, <2>2
  <2>3. CASE \E j \in DOMAIN x.todo \ {1} : y.todo[k] = x.todo[j]
    <3>1. PICK j \in DOMAIN x.todo : y.todo[k] = x.todo[j]
      BY <2>3
    <3>2. j \in Coming(x, {"pay"})
      BY <2>1, <3>1 DEF Coming
    <3> QED
      BY <1>2, <1>6, <3>1, <3>2 DEF Judged
  <2> QED
    BY <1>3, <2>1, <2>2, <2>3
<1>7. \A p \in DOMAIN y.seized : Ruled(y, p)
  BY <1>2 DEF Judged
<1>8. y.job = [kind |-> "settle", market |-> y.job.market, S |-> y.job.S,
               won |-> y.job.won, lost |-> y.job.lost]
  BY <1>1 DEF Judged
<1> QED
  BY <1>5, <1>6, <1>7, <1>8 DEF Judged

\* The settlement x has read the tokens of the market, and is y.
LEMMA SettleReads ==
  ASSUME NEW x, NEW y, Shaped(x), Typed(x), PollerOK(x), 1 \in DOMAIN x.todo,
         x.todo[1].do = "tokens", NEW S, S \subseteq Tokens, NEW won, NEW lost,
         Shaped(y), y.todo = Tail(x.todo), y.mine = x.mine, y.new = x.new,
         y.made = x.made, y.seized = x.seized,
         y.job = [kind |-> "settle", market |-> x.job.market, S |-> S,
                  won |-> won, lost |-> lost]
  PROVE  Typed(y) /\ PollerOK(y)
<1> DEFINE z == Goes(x, x.mine, y.todo)
<1>1. Settling(x) /\ Pockets(x) /\ Judged(x)
  BY DEF PollerOK
<1>2. IsSeq(x.todo) /\ IsSeq(y.todo)
  BY DEF Shaped
<1>3. x.todo # <<>> /\ y.todo = <<>> \o Tail(x.todo)
  BY <1>2, SeqFacts
<1>4. /\ z.job = x.job /\ z.todo = y.todo /\ z.mine = x.mine /\ z.new = x.new
      /\ z.made = x.made /\ z.seized = x.seized /\ Shaped(z)
  BY <1>2, GoesFields
<1> HIDE DEF z
<1>5. Numbers(<<>>) /\ DOMAIN <<>> = {}
  BY OneFacts DEF Numbers
<1>6. Steps(x, z, <<>>)
  BY <1>3, <1>4, <1>5, StepsTo
<1>7. Typed(z) /\ Settling(z)
  BY <1>1, <1>4, <1>5, <1>6, SettleSends
<1>8. Pockets(z)
  <2>1. z.seized = x.seized /\ x.todo[1].do \notin Phases \cup {"put"}
    BY <1>4 DEF Phases
  <2>2. \A k \in DOMAIN <<>> : <<>>[k].do \notin Phases \cup {"put"}
    BY <1>5
  <2>3. \A u \in Users, t \in Tokens :
           /\ Mine(z, Held(u, t)) <=> Mine(x, Held(u, t))
           /\ Mine(x, Held(u, t)) => z.mine[Held(u, t)] = x.mine[Held(u, t)]
    BY <1>4 DEF Mine
  <2> QED
    BY <1>1, <1>6, <2>1, <2>2, <2>3, PocketsRest
<1>9. Typed(y)
  BY <1>4, <1>7 DEF Typed, Mine
<1>10. Settling(y)
  BY <1>4, <1>7 DEF Settling, OnlyComing, Coming, Closes, Closed, OnOpened, Mine
<1>11. Pockets(y)
  BY <1>4, <1>8 DEF Pockets, Pocket, Puts, Coming, Grip, Mine
<1>12. Judged(y)
  <2>1. 1 \in Coming(x, {"tokens"})
    BY DEF Coming
  <2>2. Coming(x, {"pay"}) = {} /\ DOMAIN y.seized = {}
    BY <1>1, <2>1 DEF Judged
  <2>3. \A k \in DOMAIN x.todo : x.todo[k].do = "tokens" => k = 1
    BY <1>1 DEF Judged, Coming
  <2>4. \A k \in DOMAIN y.todo : \E j \in DOMAIN x.todo \ {1} : y.todo[k] = x.todo[j]
    <3>1. \A k \in DOMAIN z.todo :
             k + 1 \in DOMAIN x.todo \ {1} /\ z.todo[k] = x.todo[k + 1]
      BY <1>6, Dropped
    <3>2. z.todo = y.todo
      BY <1>4
    <3> QED
      BY <3>1, <3>2
  <2>5. Coming(y, {"tokens"}) = {} /\ Coming(y, {"pay"}) = {}
    BY <2>2, <2>3, <2>4 DEF Coming
  <2> QED
    BY <2>2, <2>5 DEF Judged
<1> QED
  BY <1>9, <1>10, <1>11, <1>12 DEF PollerOK

-----------------------------------------------------------------------------
(* Transactions that have just begun.                                      *)

Fresh(y) ==
    /\ y = [job |-> y.job, todo |-> y.todo, mine |-> <<>>, new |-> <<>>,
            made |-> <<>>, seized |-> <<>>]
    /\ IsSeq(y.todo)

LEMMA FreshFacts ==
  ASSUME NEW y, Fresh(y)
  PROVE  /\ Shaped(y) /\ DOMAIN y.mine = {} /\ DOMAIN y.seized = {}
         /\ y.new = <<>> /\ y.made = <<>>
         /\ \A row : ~Mine(y, row) /\ View(y, row) = Committed(row)
         /\ Closed(y) = {} /\ Closes(y)
         /\ (\A k \in DOMAIN y.todo : TypedStatement(y.todo[k])) => Typed(y)
<1>1. /\ y.mine = <<>> /\ y.new = <<>> /\ y.made = <<>> /\ y.seized = <<>>
      /\ IsSeq(y.todo)
  BY DEF Fresh
<1>2. Shaped(y)
  BY <1>1 DEF Fresh, Shaped
<1>3. DOMAIN <<>> = {}
  BY OneFacts
<1>4. \A row : ~Mine(y, row) /\ View(y, row) = Committed(row)
  BY <1>1, <1>3 DEF Mine, View
<1>5. Closed(y) = {} /\ Closes(y)
  BY <1>4 DEF Closed, Closes
<1>6. (\A k \in DOMAIN y.todo : TypedStatement(y.todo[k])) => Typed(y)
  BY <1>1, <1>3, <1>4 DEF Typed
<1> QED
  BY <1>1, <1>2, <1>3, <1>4, <1>5, <1>6

\* Other statements before or behind those of a fill.
LEMMA ListedBehind ==
  ASSUME NEW a, IsSeq(a), NEW z, IsSeq(z), NEW o, NEW fill, fill.size \in Nat,
         PositionListed(z, o, fill),
         \A k \in DOMAIN a : a[k].do \notin {"position", "put"}
  PROVE  PositionListed(a \o z, o, fill)
<1> DEFINE b == a \o z
<1>1. Joined(a, z, b)
  BY CatFacts
<1>2. Len(a) \in Nat /\ DOMAIN z = 1..Len(z) /\ Len(z) \in Nat
  BY SeqFacts
<1> HIDE DEF b
<1>3. ASSUME NEW k \in DOMAIN b, b[k].do \in {"position", "put"}
      PROVE  \E j \in DOMAIN z : k = Len(a) + j /\ b[k] = z[j]
  <2>1. k \notin DOMAIN a
    BY <1>1, <1>3 DEF Joined
  <2>2. IsSeq(b)
    BY <1>1 DEF Joined
  <2>3. k \in Nat
    BY <2>2, SeqFacts
  <2>4. k > Len(a) /\ k - Len(a) \in DOMAIN z
    BY <1>1, <2>1 DEF Joined
  <2>5. PICK j \in DOMAIN z : j = k - Len(a)
    BY <2>4
  <2>6. k = Len(a) + j
    BY <1>2, <2>3, <2>5
  <2> QED
    BY <1>1, <2>6 DEF Joined
<1>4. ASSUME NEW j \in DOMAIN z
      PROVE  Len(a) + j \in DOMAIN b /\ b[Len(a) + j] = z[j]
  BY <1>1 DEF Joined
<1>5. ASSUME NEW j \in DOMAIN b, NEW k \in DOMAIN b,
             b[j].do \in {"position", "put"}, b[k].do \in {"position", "put"}
      PROVE  j = k
  <2>1. PICK i \in DOMAIN z : j = Len(a) + i /\ b[j] = z[i]
    BY <1>3, <1>5
  <2>2. PICK l \in DOMAIN z : k = Len(a) + l /\ b[k] = z[l]
    BY <1>3, <1>5
  <2>3. i = l
    BY <1>5, <2>1, <2>2 DEF PositionListed
  <2> QED
    BY <2>1, <2>2, <2>3
<1>6. ASSUME fill.size = 0, NEW k \in DOMAIN b PROVE b[k].do \notin {"position", "put"}
  BY <1>3, <1>6 DEF PositionListed
<1>7. ASSUME fill.size > 0
      PROVE  \E k \in DOMAIN b :
                /\ b[k].do = "position" /\ b[k].o = o /\ b[k].n = fill.size
                /\ FillConditional(o, fill) # 0 =>
                     \E j \in DOMAIN b : /\ b[j].do = "add" /\ j < k
                                         /\ b[j].row = Shares(o.user, o.token)
  <2>1. PICK l \in DOMAIN z :
            /\ z[l].do = "position" /\ z[l].o = o /\ z[l].n = fill.size
            /\ FillConditional(o, fill) # 0 =>
                 \E j \in DOMAIN z : /\ z[j].do = "add" /\ j < l
                                     /\ z[j].row = Shares(o.user, o.token)
    BY <1>7 DEF PositionListed
  <2>2. PICK k \in DOMAIN b : k = Len(a) + l /\ b[k] = z[l]
    BY <1>4
  <2>3. ASSUME FillConditional(o, fill) # 0
        PROVE  \E j \in DOMAIN b : /\ b[j].do = "add" /\ j < k
                                   /\ b[j].row = Shares(o.user, o.token)
    <3>1. PICK j \in DOMAIN z : /\ z[j].do = "add" /\ j < l
                                /\ z[j].row = Shares(o.user, o.token)
      BY <2>1, <2>3
    <3>2. PICK i \in DOMAIN b : i = Len(a) + j /\ b[i] = z[j]
      BY <1>4
    <3>3. i < k
      <4>1. j \in Nat /\ l \in Nat
        BY <1>2
      <4> QED
        BY <1>2, <2>2, <3>1, <3>2, <4>1
    <3> QED
      BY <3>1, <3>2, <3>3
  <2> QED
    BY <2>1, <2>2, <2>3
<1>8. PositionListed(b, o, fill)
  BY <1>5, <1>6, <1>7 DEF PositionListed
<1> QED
  BY <1>8 DEF b

LEMMA ListedBefore ==
  ASSUME NEW a, IsSeq(a), NEW z, IsSeq(z), NEW o, NEW fill, fill.size \in Nat,
         PositionListed(z, o, fill),
         \A k \in DOMAIN a : a[k].do \notin {"position", "put"}
  PROVE  PositionListed(z \o a, o, fill)
<1> DEFINE b == z \o a
<1>1. Joined(z, a, b)
  BY CatFacts
<1> HIDE DEF b
<1>2. ASSUME NEW k \in DOMAIN b, b[k].do \in {"position", "put"}
      PROVE  k \in DOMAIN z /\ b[k] = z[k]
  <2>1. ASSUME k > Len(z), k - Len(z) \in DOMAIN a PROVE FALSE
    <3>1. PICK j \in DOMAIN a : j = k - Len(z)
      BY <2>1
    <3>2. IsSeq(b)
      BY <1>1 DEF Joined
    <3>3. k \in Nat /\ Len(z) \in Nat
      BY <3>2, SeqFacts
    <3>4. k = Len(z) + j
      BY <3>1, <3>3
    <3> QED
      BY <1>1, <1>2, <3>4 DEF Joined
  <2> QED
    BY <1>1, <2>1 DEF Joined
<1>3. \A k \in DOMAIN z : k \in DOMAIN b /\ b[k] = z[k]
  BY <1>1 DEF Joined
<1>4. \A j, k \in DOMAIN b : b[j].do \in {"position", "put"}
                             /\ b[k].do \in {"position", "put"} => j = k
  BY <1>2 DEF PositionListed
<1>5. fill.size = 0 => \A k \in DOMAIN b : b[k].do \notin {"position", "put"}
  BY <1>2 DEF PositionListed
<1>6. ASSUME fill.size > 0
      PROVE  \E k \in DOMAIN b :
                /\ b[k].do = "position" /\ b[k].o = o /\ b[k].n = fill.size
                /\ FillConditional(o, fill) # 0 =>
                     \E j \in DOMAIN b : /\ b[j].do = "add" /\ j < k
                                         /\ b[j].row = Shares(o.user, o.token)
  <2>1. PICK l \in DOMAIN z :
            /\ z[l].do = "position" /\ z[l].o = o /\ z[l].n = fill.size
            /\ FillConditional(o, fill) # 0 =>
                 \E j \in DOMAIN z : /\ z[j].do = "add" /\ j < l
                                     /\ z[j].row = Shares(o.user, o.token)
    BY <1>6 DEF PositionListed
  <2> QED
    BY <1>3, <2>1
<1>7. PositionListed(b, o, fill)
  BY <1>4, <1>5, <1>6 DEF PositionListed
<1> QED
  BY <1>7 DEF b

\* The statements of an order request: take, insert, those of the fill, those
\* of a refund.
PlaceListed(a, b, f, g, z) ==
    /\ Numbers(z)
    /\ 1 \in DOMAIN z /\ z[1] = a /\ 2 \in DOMAIN z /\ z[2] = b
    /\ \A k \in DOMAIN z : \/ k = 1 \/ k = 2
                           \/ \E j \in DOMAIN f : z[k] = f[j]
                           \/ \E j \in DOMAIN g : z[k] = g[j]
    /\ \A row : Pending(z, row) = Amount(a, row) + Pending(f, row) + Pending(g, row)

LEMMA PlaceList ==
  ASSUME NEW a, NEW b, NEW f, Numbers(f), NEW g, Numbers(g),
         a.do = "take", a.n \in Int, b.do = "insert", NEW z, z = (<<a, b>> \o f) \o g
  PROVE  PlaceListed(a, b, f, g, z)
<1> DEFINE w == <<a, b>>
           v == w \o f
<1>1. /\ IsSeq(w) /\ Len(w) = 2 /\ DOMAIN w = {1, 2} /\ w[1] = a /\ w[2] = b
  BY TwoFacts
<1>2. IsSeq(f) /\ IsSeq(g)
  BY DEF Numbers
<1>3. Numbers(w) /\ \A row : Pending(w, row) = Amount(a, row)
  <2>1. \A row : Numbers(<<a>>) /\ Pending(<<a>>, row) = Amount(a, row)
    <3> SUFFICES ASSUME NEW row
                 PROVE  Numbers(<<a>>) /\ Pending(<<a>>, row) = Amount(a, row)
      OBVIOUS
    <3>1. \A c : (c.do \in {"add", "take"} => c.n \in Int)
                    => Numbers(<<c>>) /\ Pending(<<c>>, row) = Amount(c, row)
      BY PendingOne
    <3> QED
      BY <3>1
  <2>2. \A row : Numbers(<<b>>) /\ Pending(<<b>>, row) = 0
    <3> SUFFICES ASSUME NEW row
                 PROVE  Numbers(<<b>>) /\ Pending(<<b>>, row) = 0
      OBVIOUS
    <3>1. \A c : (c.do \in {"add", "take"} => c.n \in Int)
                    => Numbers(<<c>>) /\ Pending(<<c>>, row) = Amount(c, row)
      BY PendingOne
    <3>2. Numbers(<<b>>) /\ Pending(<<b>>, row) = Amount(b, row)
      BY <3>1
    <3>3. Amount(b, row) = 0
      BY DEF Amount
    <3> QED
      BY <3>2, <3>3
  <2>3. w = <<a>> \o <<b>>
    <3> DEFINE c == <<a>> \o <<b>>
    <3>1. Joined(<<a>>, <<b>>, c) /\ Len(<<a>>) = 1 /\ Len(<<b>>) = 1
      BY OneFacts, CatFacts
    <3>2. 1 \in DOMAIN <<a>> /\ 1 \in DOMAIN <<b>> /\ <<a>>[1] = a /\ <<b>>[1] = b
      BY OneFacts
    <3> HIDE DEF c
    <3>3. IsSeq(c) /\ Len(c) = 2 /\ c[1] = a /\ c[2] = b
      <4>1. Len(c) = 1 + 1 /\ c[1] = a /\ c[1 + 1] = b /\ IsSeq(c)
        BY <3>1, <3>2 DEF Joined
      <4> QED
        BY <4>1
    <3>4. c = [k \in 1..2 |-> c[k]]
      BY <3>3 DEF IsSeq
    <3>5. w = [k \in 1..2 |-> w[k]]
      OBVIOUS
    <3> HIDE DEF w
    <3>6. \A k \in 1..2 : c[k] = w[k]
      BY <1>1, <3>3
    <3> DEFINE d == [k \in 1..2 |-> c[k]]
               e == [k \in 1..2 |-> w[k]]
    <3>7. d = e
      BY <3>6
    <3> QED
      BY <3>4, <3>5, <3>7 DEF c
  <2> HIDE DEF w
  <2>4. ASSUME NEW row PROVE Numbers(w) /\ Pending(w, row) = Amount(a, row) + 0
    BY <2>1, <2>2, <2>3, PendingCat
  <2>5. ASSUME NEW row PROVE Amount(a, row) + 0 = Amount(a, row)
    <3>1. Amount(a, row) \in Int
      BY DEF Amount
    <3> QED
      BY <3>1
  <2> QED
    BY <2>4, <2>5
<1> HIDE DEF w
<1>4. Numbers(v) /\ \A row : Pending(v, row) = Amount(a, row) + Pending(f, row)
  BY <1>3, PendingCat
<1>5. Joined(w, f, v)
  BY <1>1, <1>2, CatFacts
<1> HIDE DEF v
<1>6. z = v \o g
  BY DEF v, w
<1>7. /\ Numbers(z)
      /\ \A row : Pending(z, row) = Amount(a, row) + Pending(f, row) + Pending(g, row)
  <2>1. ASSUME NEW row
        PROVE  Numbers(z) /\ Pending(z, row) = Pending(v, row) + Pending(g, row)
    <3>1. Numbers(v)
      BY <1>4
    <3>2. Numbers(v \o g) /\ Pending(v \o g, row) = Pending(v, row) + Pending(g, row)
      BY <3>1, PendingCat
    <3> QED
      BY <1>6, <3>2, Zenon
  <2> QED
    BY <1>4, <2>1
<1>8. Joined(v, g, z)
  BY <1>2, <1>4, <1>6, CatFacts DEF Numbers
<1>9. /\ 1 \in DOMAIN v /\ v[1] = a /\ 2 \in DOMAIN v /\ v[2] = b
      /\ \A k \in DOMAIN v : k = 1 \/ k = 2 \/ \E j \in DOMAIN f : v[k] = f[j]
  <2>1. /\ \A k \in DOMAIN w : k \in DOMAIN v /\ v[k] = w[k]
        /\ \A k \in DOMAIN f : 2 + k \in DOMAIN v /\ v[2 + k] = f[k]
        /\ \A k \in DOMAIN v : k \in DOMAIN w \/ k - 2 \in DOMAIN f
        /\ IsSeq(v)
    BY <1>1, <1>5 DEF Joined
  <2>2. ASSUME NEW k \in DOMAIN v, k \notin DOMAIN w
        PROVE  \E j \in DOMAIN f : v[k] = f[j]
    <3>1. k \in Nat
      BY <2>1, SeqFacts
    <3>2. PICK j \in DOMAIN f : j = k - 2
      BY <2>1, <2>2
    <3>3. j \in Nat
      BY <1>2, SeqFacts
    <3>4. k = 2 + j
      BY <3>1, <3>2, <3>3
    <3> QED
      BY <2>1, <3>4
  <2> QED
    BY <1>1, <2>1, <2>2
<1>10. /\ \A k \in DOMAIN v : k \in DOMAIN z /\ z[k] = v[k]
       /\ \A k \in DOMAIN z : k \in DOMAIN v \/ \E j \in DOMAIN g : z[k] = g[j]
  <2>1. /\ \A k \in DOMAIN v : k \in DOMAIN z /\ z[k] = v[k]
        /\ \A k \in DOMAIN g : Len(v) + k \in DOMAIN z /\ z[Len(v) + k] = g[k]
        /\ \A k \in DOMAIN z : k \in DOMAIN v \/ k - Len(v) \in DOMAIN g
        /\ IsSeq(z)
    BY <1>8 DEF Joined
  <2>2. ASSUME NEW k \in DOMAIN z, k \notin DOMAIN v
        PROVE  \E j \in DOMAIN g : z[k] = g[j]
    <3>1. k \in Nat
      BY <2>1, SeqFacts
    <3>2. PICK j \in DOMAIN g : j = k - Len(v)
      BY <2>1, <2>2
    <3>3. j \in Nat /\ Len(v) \in Nat
      BY <1>2, <1>4, SeqFacts DEF Numbers
    <3>4. k = Len(v) + j
      BY <3>1, <3>2, <3>3
    <3> QED
      BY <2>1, <3>4
  <2> QED
    BY <2>1, <2>2
<1>11. /\ 1 \in DOMAIN z /\ z[1] = a /\ 2 \in DOMAIN z /\ z[2] = b
       /\ \A k \in DOMAIN z : \/ k = 1 \/ k = 2
                              \/ \E j \in DOMAIN f : z[k] = f[j]
                              \/ \E j \in DOMAIN g : z[k] = g[j]
  BY <1>9, <1>10
<1> QED
  BY <1>7, <1>11 DEF PlaceListed

LEMMA PlaceBegins ==
  ASSUME NEW y, Fresh(y), NEW o, NEW fill, Requested(o, fill),
         NEW f, f = (IF fill.size > 0 THEN FillStatements(o, fill) ELSE <<>>),
         NEW g, g = (IF o.type = "FAK" /\ o.status = "CANCELED"
                     THEN RefundStatements(o, Remaining(o)) ELSE <<>>),
         y.todo = (<<[do |-> "take", row |-> ReservedIn(o), n |-> Reserved(o)],
                     [do |-> "insert"]>> \o f) \o g
  PROVE  Places(y, o, fill) /\ Typed(y)
<1> DEFINE a == [do |-> "take", row |-> ReservedIn(o), n |-> Reserved(o)]
           b == [do |-> "insert"]
           z == y.todo
           m == Unfilled(o, fill)
<1>1. /\ o.user \in Users /\ o.token \in Tokens /\ o.side \in Sides
      /\ o.price \in Nat \ {0} /\ o.size \in Nat \ {0}
      /\ fill.size \in Nat /\ fill.size <= o.size /\ fill.price \in Nat
      /\ o.side = "BUY" => fill.price <= o.price
      /\ m \in Nat
  BY RequestedFields
<1>2. o.side = "BUY" \/ o.side = "SELL"
  BY <1>1 DEF Sides
<1>3. FillCollateral(o, fill) \in Nat /\ FillConditional(o, fill) \in Nat
  BY <1>1, FillNat
<1>4. fill.size = 0 => FillCollateral(o, fill) = 0 /\ FillConditional(o, fill) = 0
  BY <1>1 DEF FillCollateral, FillConditional
<1>5. /\ \A n \in Nat : ReservedCollateral(o, n) \in Nat
      /\ \A n \in Nat : ReservedConditional(o, n) \in Nat
  BY <1>1, Product DEF ReservedCollateral, ReservedConditional
<1>6. Remaining(o) = o.size - fill.size
  <2>1. o.matched = fill.size
    BY DEF Requested
  <2> QED
    BY <2>1 DEF Remaining
<1> DEFINE goods == ReservedCollateral(o, m)
           wares == ReservedConditional(o, m)
<1>7. /\ Numbers(f)
      /\ \A k \in DOMAIN f : TypedStatement(f[k]) /\ f[k].do \in {"add", "position"}
      /\ PositionListed(f, o, fill)
      /\ \A w : Pending(f, w)
           = (IF w = Cash(o.user) THEN FillCollateral(o, fill) ELSE 0)
           + (IF w = Shares(o.user, o.token) THEN FillConditional(o, fill) ELSE 0)
  <2>1. CASE fill.size > 0
    <3>1. f = FillStatements(o, fill)
      BY <2>1
    <3> DEFINE s == FillStatements(o, fill)
    <3>2. /\ Numbers(s)
          /\ \A k \in DOMAIN s : TypedStatement(s[k]) /\ s[k].do \in {"add", "position"}
          /\ \A w : Pending(s, w)
               = (IF w = Cash(o.user) THEN FillCollateral(o, fill) ELSE 0)
               + (IF w = Shares(o.user, o.token)
                  THEN FillConditional(o, fill) ELSE 0)
      BY <1>1, <1>3, FillSends
    <3>3. PositionListed(s, o, fill)
      BY <1>1, <1>3, <2>1, FillListed
    <3> HIDE DEF s
    <3>4. f = s
      BY <3>1 DEF s
    <3> QED
      BY <3>2, <3>3, <3>4
  <2>2. CASE ~(fill.size > 0)
    <3>1. f = <<>> /\ fill.size = 0
      BY <1>1, <2>2
    <3>2. Numbers(<<>>) /\ \A w : Pending(<<>>, w) = 0
      BY PendingOne
    <3>3. DOMAIN <<>> = {}
      BY OneFacts
    <3>4. PositionListed(f, o, fill)
      BY <3>1, <3>3 DEF PositionListed
    <3> QED
      BY <1>4, <3>1, <3>2, <3>3, <3>4
  <2> QED
    BY <2>1, <2>2
<1>8. /\ Numbers(g)
      /\ \A k \in DOMAIN g : TypedStatement(g[k]) /\ g[k].do = "add"
      /\ \A w : Pending(g, w) = (IF w = Cash(o.user) THEN goods ELSE 0)
                              + (IF w = Shares(o.user, o.token) THEN wares ELSE 0)
  <2>1. CASE o.type = "FAK" /\ o.status = "CANCELED"
    <3>1. g = RefundStatements(o, Remaining(o)) /\ m = Remaining(o)
      BY <1>6, <2>1 DEF Unfilled
    <3>2. g = RefundStatements(o, m)
      BY <3>1
    <3>3. goods \in Nat /\ wares \in Nat
      BY <1>1, <1>5
    <3> QED
      BY <1>1, <3>2, <3>3, RefundSends
  <2>2. CASE ~(o.type = "FAK" /\ o.status = "CANCELED")
    <3>1. g = <<>> /\ m = 0
      BY <2>2 DEF Unfilled
    <3>2. Numbers(<<>>) /\ \A w : Pending(<<>>, w) = 0
      BY PendingOne
    <3>3. DOMAIN <<>> = {}
      BY OneFacts
    <3>4. goods = 0 /\ wares = 0
      BY <1>1, <3>1 DEF ReservedCollateral, ReservedConditional
    <3> QED
      BY <3>1, <3>2, <3>3, <3>4
  <2> QED
    BY <2>1, <2>2
<1>9. /\ a.do = "take" /\ a.row = ReservedIn(o) /\ a.n = Reserved(o)
      /\ b.do = "insert"
  OBVIOUS
<1>10. Reserved(o) \in Nat /\ ReservedIn(o) \in WalletRows
  <2>1. ReservedCollateral(o, o.size) \in Nat /\ ReservedConditional(o, o.size) \in Nat
    BY <1>1, <1>5
  <2> QED
    BY <1>1, <2>1 DEF Reserved, ReservedIn, WalletRows
<1>11. z = (<<a, b>> \o f) \o g
  OBVIOUS
<1> HIDE DEF a, b, z, m, goods, wares
<1>12. /\ Numbers(z)
       /\ 1 \in DOMAIN z /\ z[1] = a /\ 2 \in DOMAIN z /\ z[2] = b
       /\ \A k \in DOMAIN z : \/ k = 1 \/ k = 2
                              \/ \E j \in DOMAIN f : z[k] = f[j]
                              \/ \E j \in DOMAIN g : z[k] = g[j]
       /\ \A row : Pending(z, row)
            = Amount(a, row) + Pending(f, row) + Pending(g, row)
  <2>1. Numbers(f) /\ Numbers(g) /\ a.n \in Int
    BY <1>7, <1>8, <1>9, <1>10
  <2>2. PlaceListed(a, b, f, g, z)
    BY <1>9, <1>11, <2>1, PlaceList
  <2> QED
    BY <2>2 DEF PlaceListed
<1>13. PositionListed(z, o, fill)
  <2> DEFINE w == <<a, b>>
  <2>1. /\ IsSeq(w) /\ IsSeq(f) /\ IsSeq(g)
        /\ \A k \in DOMAIN w : w[k].do \notin {"position", "put"}
        /\ \A k \in DOMAIN g : g[k].do \notin {"position", "put"}
    BY <1>7, <1>8, <1>9, TwoFacts DEF Numbers
  <2>2. z = (w \o f) \o g
    BY <1>11
  <2> HIDE DEF w
  <2>3. PositionListed(w \o f, o, fill)
    BY <1>1, <1>7, <2>1, ListedBehind
  <2>4. IsSeq(w \o f)
    BY <2>1, CatFacts DEF Joined
  <2> QED
    BY <1>1, <2>1, <2>2, <2>3, <2>4, ListedBefore
<1>14. /\ DOMAIN y.mine = {} /\ y.new = <<>> /\ y.made = <<>>
       /\ \A row : ~Mine(y, row) /\ View(y, row) = Committed(row)
       /\ (\A k \in DOMAIN y.todo : TypedStatement(y.todo[k])) => Typed(y)
  BY FreshFacts
<1>15. PositionComes(y, o, fill)
  <2>1. PositionListed(y.todo, o, fill)
    BY <1>13 DEF z
  <2> QED
    BY <1>1, <1>14, <2>1, PositionBegins
<1>16. \A k \in DOMAIN z : \/ k = 1 /\ z[k].do = "take"
                           \/ k = 2 /\ z[k].do = "insert"
                           \/ /\ TypedStatement(z[k])
                              /\ z[k].do \in {"add", "position"}
  BY <1>7, <1>8, <1>9, <1>12
<1>17. Typed(y)
  <2>1. TypedStatement(a) /\ TypedStatement(b)
    BY <1>9, <1>10 DEF TypedStatement
  <2>2. \A k \in DOMAIN z : TypedStatement(z[k])
    BY <1>12, <1>16, <2>1
  <2> QED
    BY <1>14, <2>2 DEF z
<1>18. OnlyComing(y, {"take", "insert", "add", "position", "put"})
  BY <1>16 DEF OnlyComing, z
<1>19. Reserves(y, o)
  <2>1. \A k \in Coming(y, {"take"}) : k = 1 /\ y.todo[k] = a
    BY <1>12, <1>16 DEF Coming, z
  <2>2. 1 \in Coming(y, {"take"})
    BY <1>9, <1>12 DEF Coming, z
  <2> QED
    BY <1>9, <1>14, <2>1, <2>2 DEF Reserves
<1>20. Inserts(y, o)
  <2>1. \A k \in Coming(y, {"insert"}) : k = 2
    BY <1>16 DEF Coming, z
  <2>2. 1 \in Coming(y, {"take"}) /\ 2 \in Coming(y, {"insert"})
    BY <1>9, <1>12 DEF Coming, z
  <2> QED
    BY <1>14, <2>1, <2>2 DEF Inserts
<1>21. Pays(y, o, MoneyOf(o, fill), SharesOf(o, fill))
  <2>1. \A row : Outlook(y, row) = Committed(row)
           + (Amount(a, row) + Pending(f, row) + Pending(g, row))
    BY <1>12, <1>14 DEF Outlook, z
  <2> DEFINE fc == FillCollateral(o, fill)
             fs == FillConditional(o, fill)
             rc == ReservedCollateral(o, o.size)
             rs == ReservedConditional(o, o.size)
  <2>2. fc \in Nat /\ fs \in Nat /\ rc \in Nat /\ rs \in Nat
    BY <1>1, <1>3, <1>5
  <2>3. goods \in Nat /\ wares \in Nat
    BY <1>1, <1>5 DEF goods, wares, m
  <2>4. /\ MoneyOf(o, fill) = fc + goods - rc
        /\ SharesOf(o, fill) = fs + wares - rs
    BY DEF MoneyOf, SharesOf, goods, wares, m
  <2>5. \A row : Amount(a, row) = IF row = ReservedIn(o) THEN 0 - (rc + rs) ELSE 0
    BY <1>9 DEF Amount, Reserved
  <2>6. /\ o.side = "BUY" => rs = 0 /\ ReservedIn(o) = Cash(o.user)
        /\ o.side = "SELL" => rc = 0 /\ ReservedIn(o) = Shares(o.user, o.token)
    BY DEF ReservedConditional, ReservedCollateral, ReservedIn
  <2> HIDE DEF fc, fs, rc, rs
  <2>7. ASSUME NEW u \in Users
        PROVE  Outlook(y, Cash(u))
                 = collateral[u] + IF u = o.user THEN MoneyOf(o, fill) ELSE 0
    <3>1. /\ Cash(u) # Shares(o.user, o.token)
          /\ Cash(u) = Cash(o.user) <=> u = o.user
      BY RowsDiffer, RowsNamed
    <3>2. Pending(f, Cash(u)) = (IF u = o.user THEN fc ELSE 0) + 0
      BY <1>7, <3>1 DEF fc
    <3>3. Pending(g, Cash(u)) = (IF u = o.user THEN goods ELSE 0) + 0
      BY <1>8, <3>1
    <3>4. Amount(a, Cash(u)) = IF u = o.user THEN 0 - rc ELSE 0
      BY <1>2, <2>2, <2>5, <2>6, <3>1
    <3>5. Amount(a, Cash(u)) + Pending(f, Cash(u)) + Pending(g, Cash(u))
            = IF u = o.user THEN fc + goods - rc ELSE 0
      BY <2>2, <2>3, <3>2, <3>3, <3>4
    <3> QED
      BY <2>1, <2>4, <3>5, CommittedRows
  <2>8. ASSUME NEW u \in Users, NEW t \in Tokens
        PROVE  Outlook(y, Shares(u, t)) = conditional[u][t]
                 + IF u = o.user /\ t = o.token THEN SharesOf(o, fill) ELSE 0
    <3>1. /\ Cash(o.user) # Shares(u, t)
          /\ Shares(u, t) = Shares(o.user, o.token) <=> u = o.user /\ t = o.token
      <4>1. Cash(o.user) # Shares(u, t)
        BY RowsDiffer
      <4>2. ASSUME Shares(u, t) = Shares(o.user, o.token)
            PROVE  u = o.user /\ t = o.token
        BY <4>2, RowsNamed
      <4>3. ASSUME u = o.user, t = o.token PROVE Shares(u, t) = Shares(o.user, o.token)
        BY <4>3
      <4> QED
        BY <4>1, <4>2, <4>3
    <3>2. Pending(f, Shares(u, t)) = 0 + (IF u = o.user /\ t = o.token THEN fs ELSE 0)
      BY <1>7, <3>1 DEF fs
    <3>3. Pending(g, Shares(u, t))
            = 0 + (IF u = o.user /\ t = o.token THEN wares ELSE 0)
      BY <1>8, <3>1
    <3>4. Amount(a, Shares(u, t)) = IF u = o.user /\ t = o.token THEN 0 - rs ELSE 0
      BY <1>2, <2>2, <2>5, <2>6, <3>1
    <3>5. Amount(a, Shares(u, t)) + Pending(f, Shares(u, t)) + Pending(g, Shares(u, t))
            = IF u = o.user /\ t = o.token THEN fs + wares - rs ELSE 0
      BY <2>2, <2>3, <3>2, <3>3, <3>4
    <3> QED
      BY <2>1, <2>4, <3>5, CommittedRows
  <2> QED
    BY <2>7, <2>8 DEF Pays
<1> QED
  BY <1>14, <1>15, <1>17, <1>18, <1>19, <1>20, <1>21 DEF Places

LEMMA CancelBegins ==
  ASSUME Rows, NEW y, Fresh(y), NEW ids, ids \subseteq DOMAIN orders,
         y.todo = CancelRows(ids, TRUE),
         NEW A, ids \cap Live \subseteq A, A \cap Live \subseteq ids
  PROVE  Cancelling(y) /\ Typed(y) /\ Aims(y, A)
<1> DEFINE c == [do |-> "cancel", ids |-> ids, refund |-> TRUE]
           z == y.todo
<1>1. z = Each(c)
  BY DEF CancelRows
<1>2. c.do = "cancel" /\ c.ids = ids /\ DOMAIN c = {"do", "ids", "refund"}
  OBVIOUS
<1>3. c.refund
  BY Zenon
<1>4. TypedStatement(c)
  BY <1>2 DEF TypedStatement
<1> HIDE DEF c, z
<1>5. /\ IsSeq(z) /\ \A k \in DOMAIN z : z[k] = c
      /\ ids # {} => 1 \in DOMAIN z /\ z[1] = c
      /\ ids = {} => DOMAIN z = {}
  BY <1>1, <1>2, EachFacts
<1>6. Numbers(z) /\ \A row : Pending(z, row) = 0
  BY <1>2, <1>5, PendingNone
<1>7. /\ DOMAIN y.mine = {} /\ y.new = <<>> /\ y.made = <<>>
      /\ \A row : ~Mine(y, row) /\ View(y, row) = Committed(row)
      /\ Closed(y) = {} /\ Closes(y)
      /\ (\A k \in DOMAIN y.todo : TypedStatement(y.todo[k])) => Typed(y)
  BY FreshFacts
<1>8. Typed(y)
  BY <1>4, <1>5, <1>7 DEF z
<1>9. OnlyComing(y, {"cancel", "add"})
  BY <1>2, <1>5 DEF OnlyComing, z
<1>10. \A k \in Coming(y, {"cancel"}) : y.todo[k].refund
  <2>1. \A k \in Coming(y, {"cancel"}) : y.todo[k] = c
    BY <1>5 DEF Coming, z
  <2> QED
    BY <1>3, <2>1, Zenon
<1>11. Refunding(y)
  <2>1. ASSUME NEW u \in Users
        PROVE  Outlook(y, Cash(u)) = collateral[u] + HeldMoney(Closed(y), u)
    <3>1. HeldMoney({}, u) = 0
      <4> DEFINE f == [i \in DOMAIN orders |->
                         IF i \in {} /\ orders[i].user = u
                         THEN ReservedCollateral(orders[i], Remaining(orders[i]))
                         ELSE 0]
      <4>1. Len(orders) \in Nat /\ DOMAIN orders = 1..Len(orders)
        BY DEF Rows, AccountsTypeOK
      <4>2. \A k \in 1..Len(orders) : f[k] = 0
        BY <4>1
      <4> HIDE DEF f
      <4>3. SumTo(f, Len(orders)) = 0
        BY <4>1, <4>2, SumToZero
      <4> QED
        BY <4>3 DEF HeldMoney, f
    <3>2. View(y, Cash(u)) = collateral[u] /\ Pending(y.todo, Cash(u)) = 0
      BY <1>6, <1>7, CommittedRows DEF z
    <3> QED
      BY <1>7, <3>1, <3>2 DEF Outlook
  <2>2. ASSUME NEW u \in Users, NEW t \in Tokens
        PROVE  Outlook(y, Shares(u, t)) = conditional[u][t] + HeldTokens(Closed(y), u, t)
    <3>1. HeldTokens({}, u, t) = 0
      <4> DEFINE f == [i \in DOMAIN orders |->
                         IF i \in {} /\ orders[i].user = u /\ orders[i].token = t
                         THEN ReservedConditional(orders[i], Remaining(orders[i]))
                         ELSE 0]
      <4>1. Len(orders) \in Nat /\ DOMAIN orders = 1..Len(orders)
        BY DEF Rows, AccountsTypeOK
      <4>2. \A k \in 1..Len(orders) : f[k] = 0
        BY <4>1
      <4> HIDE DEF f
      <4>3. SumTo(f, Len(orders)) = 0
        BY <4>1, <4>2, SumToZero
      <4> QED
        BY <4>3 DEF HeldTokens, f
    <3>2. View(y, Shares(u, t)) = conditional[u][t] /\ Pending(y.todo, Shares(u, t)) = 0
      <4>1. View(y, Shares(u, t)) = Committed(Shares(u, t))
        BY <1>7
      <4>2. Committed(Shares(u, t)) = conditional[u][t]
        BY CommittedRows
      <4>3. Pending(y.todo, Shares(u, t)) = 0
        BY <1>6 DEF z
      <4> QED
        BY <4>1, <4>2, <4>3
    <3> QED
      BY <1>7, <3>1, <3>2 DEF Outlook
  <2> QED
    BY <2>1, <2>2 DEF Refunding
<1>12. Cancelling(y)
  BY <1>7, <1>9, <1>10, <1>11 DEF Cancelling
<1>13. Aims(y, A)
  <2>1. \A k \in Coming(y, {"cancel"}) : y.todo[k].ids = ids
    BY <1>2, <1>5 DEF Coming, z
  <2>2. ASSUME NEW i \in A \cap Live
        PROVE  \E k \in Coming(y, {"cancel"}) : i \in y.todo[k].ids
    <3>1. i \in ids
      OBVIOUS
    <3>2. 1 \in DOMAIN z /\ z[1] = c
      BY <1>5, <3>1
    <3>3. 1 \in Coming(y, {"cancel"})
      BY <1>2, <3>2 DEF Coming, z
    <3> QED
      BY <2>1, <3>1, <3>3
  <2> QED
    BY <1>7, <2>1, <2>2 DEF Aims
<1> QED
  BY <1>8, <1>12, <1>13

LEMMA FiveFacts ==
  ASSUME NEW a, NEW b, NEW c, NEW d, NEW e
  PROVE  /\ IsSeq(<<a, b, c, d, e>>) /\ DOMAIN <<a, b, c, d, e>> = {1, 2, 3, 4, 5}
         /\ <<a, b, c, d, e>>[1] = a /\ <<a, b, c, d, e>>[2] = b
         /\ <<a, b, c, d, e>>[3] = c /\ <<a, b, c, d, e>>[4] = d
         /\ <<a, b, c, d, e>>[5] = e
<1>1. <<a, b, c, d, e>> \in Seq({a, b, c, d, e})
  OBVIOUS
<1>2. IsSeq(<<a, b, c, d, e>>)
  BY <1>1, SeqOwn
<1> QED
  BY <1>2

LEMMA SettleBegins ==
  ASSUME NEW m, NEW y, Fresh(y),
         y.job = [kind |-> "settle", market |-> m, S |-> {}, won |-> {}, lost |-> {}],
         y.todo = <<[do |-> "tokens"], [do |-> "positions"],
                    [do |-> "refund", side |-> "BUY"],
                    [do |-> "refund", side |-> "SELL"], [do |-> "close"]>>
  PROVE  Typed(y) /\ PollerOK(y)
<1> DEFINE a == [do |-> "tokens"]
           b == [do |-> "positions"]
           c == [do |-> "refund", side |-> "BUY"]
           d == [do |-> "refund", side |-> "SELL"]
           e == [do |-> "close"]
           z == y.todo
<1>1. /\ a.do = "tokens" /\ b.do = "positions" /\ c.do = "refund"
      /\ d.do = "refund" /\ e.do = "close"
  OBVIOUS
<1>2. z = <<a, b, c, d, e>>
  OBVIOUS
<1> HIDE DEF a, b, c, d, e, z
<1>3. /\ IsSeq(z) /\ DOMAIN z = {1, 2, 3, 4, 5}
      /\ z[1] = a /\ z[2] = b /\ z[3] = c /\ z[4] = d /\ z[5] = e
  BY <1>2, FiveFacts
<1>4. /\ DOMAIN y.mine = {} /\ y.new = <<>> /\ y.made = <<>> /\ DOMAIN y.seized = {}
      /\ \A row : ~Mine(y, row)
      /\ Closed(y) = {} /\ Closes(y)
      /\ (\A k \in DOMAIN y.todo : TypedStatement(y.todo[k])) => Typed(y)
  BY FreshFacts
<1>5. \A k \in DOMAIN z : \/ k = 1 /\ z[k].do = "tokens"
                          \/ k = 2 /\ z[k].do = "positions"
                          \/ k \notin {1, 2} /\ z[k].do \in {"refund", "close"}
  BY <1>1, <1>3
<1>6. Typed(y)
  <2>1. \A k \in DOMAIN z : z[k].do \in {"tokens", "positions", "refund", "close"}
    BY <1>5
  <2>2. \A k \in DOMAIN z : TypedStatement(z[k])
    BY <2>1 DEF TypedStatement
  <2> QED
    BY <1>4, <2>2 DEF z
<1>7. /\ Coming(y, {"cancel"}) = {} /\ Coming(y, {"add", "put"}) = {}
      /\ Coming(y, {"credit"}) = {} /\ Coming(y, {"pay"}) = {}
      /\ Coming(y, {"put"}) = {}
  BY <1>5 DEF Coming, z
<1>8. Settling(y)
  <2>1. OnlyComing(y, {"tokens", "positions", "seize", "pay", "add", "put",
                       "refund", "credit", "close", "cancel"})
    BY <1>5 DEF OnlyComing, z
  <2>2. OnOpened(y)
    BY <1>4, <1>7 DEF OnOpened
  <2>3. y.job.S \subseteq Tokens
    OBVIOUS
  <2> QED
    BY <1>4, <1>7, <2>1, <2>2, <2>3 DEF Settling
<1>9. Pockets(y)
  <2>1. \A j, k \in Coming(y, {"positions", "seize", "pay"}) : j = k
    BY <1>5 DEF Coming, z
  <2>2. ASSUME NEW u \in Users, NEW t \in Tokens PROVE Pocket(y, u, t)
    <3>1. Puts(y, Held(u, t)) = {}
      BY <1>7 DEF Puts
    <3> QED
      BY <1>4, <3>1 DEF Pocket
  <2> QED
    BY <1>4, <1>7, <2>1, <2>2 DEF Pockets
<1>10. Judged(y)
  <2>1. \A k \in Coming(y, {"tokens"}) : k = 1
    BY <1>5 DEF Coming, z
  <2> QED
    BY <1>4, <1>7, <2>1 DEF Judged
<1> QED
  BY <1>6, <1>8, <1>9, <1>10 DEF PollerOK

LEMMA MatchBegins ==
  ASSUME NEW w, NEW r, Current(w, r),
         NEW found \in Fills(orders[r.id].side, orders[r.id].price,
                             orders[r.id].size - r.matched),
         NEW y, Fresh(y), y.todo = <<[do |-> "order", r |-> r, found |-> found]>>
  PROVE  Matching(w, y, r) /\ Typed(y)
<1>1. /\ DOMAIN y.mine = {} /\ y.new = <<>> /\ y.made = <<>>
      /\ (\A k \in DOMAIN y.todo : TypedStatement(y.todo[k])) => Typed(y)
  BY FreshFacts
<1>2. Matching(w, y, r)
  BY <1>1 DEF Matching, FillBegins
<1> DEFINE a == [do |-> "order", r |-> r, found |-> found]
<1>3. a.do = "order" /\ y.todo = <<a>>
  OBVIOUS
<1> HIDE DEF a
<1>4. \A k \in DOMAIN y.todo : y.todo[k] = a
  BY <1>3, OneFacts
<1>5. TypedStatement(a)
  BY <1>3 DEF TypedStatement
<1> QED
  BY <1>1, <1>2, <1>4, <1>5

-----------------------------------------------------------------------------
(* What the steps of others leave alone.                                   *)

\* A step keeps the terms of every order and opens none again, leaves the rows
\* that x has locked as they are, and does not open a position or take a salt
\* that x holds.
Undisturbed(x) ==
    /\ \A i \in DOMAIN orders :
          /\ i \in DOMAIN orders' /\ (i \in Live' => i \in Live)
          /\ orders'[i].user = orders[i].user /\ orders'[i].token = orders[i].token
          /\ orders'[i].side = orders[i].side /\ orders'[i].price = orders[i].price
          /\ orders'[i].size = orders[i].size
          /\ Mine(x, OrderRow(i)) => orders'[i] = orders[i]
    /\ \A u \in Users : Mine(x, Cash(u)) => collateral'[u] = collateral[u]
    /\ \A u \in Users, t \in Tokens :
          /\ Mine(x, Shares(u, t)) => conditional'[u][t] = conditional[u][t]
          /\ Mine(x, Held(u, t)) => position'[u][t] = position[u][t]
          /\ <<u, t>> \notin opened /\ Mine(x, Shares(u, t))
                => <<u, t>> \notin opened' /\ position'[u][t] = position[u][t]
    /\ opened \subseteq opened'
    /\ \A o : Mine(x, Key(o)) /\ ~Taken(o) => ~Taken(o)'

\* Nor what a worker goes by.
Steady(w) ==
    /\ snapshot'[w] = snapshot[w] /\ book'[w] = book[w] /\ gone \subseteq gone'
    /\ \A r \in snapshot[w] : r.id \in DOMAIN orders

LEMMA TypedKept ==
  ASSUME NEW x, Typed(x), Undisturbed(x)
  PROVE  Typed(x)'
<1>1. DOMAIN orders \subseteq DOMAIN orders'
  BY DEF Undisturbed
<1>2. \A k \in DOMAIN x.todo : TypedStatement(x.todo[k])'
  BY <1>1 DEF Typed, TypedStatement
<1> QED
  BY <1>1, <1>2 DEF Typed, Mine

\* Orders that x has locked are there already.
LEMMA ClosedKept ==
  ASSUME NEW x, Typed(x), Undisturbed(x)
  PROVE  /\ Closed(x)' = Closed(x)
         /\ \A i \in DOMAIN orders' : Mine(x, OrderRow(i)) => i \in DOMAIN orders
<1>1. ASSUME NEW i, Mine(x, OrderRow(i)) PROVE i \in DOMAIN orders
  BY <1>1, RowTags DEF Typed, Mine
<1>2. \A i \in DOMAIN orders : i \in DOMAIN orders'
  BY DEF Undisturbed
<1> QED
  BY <1>1, <1>2 DEF Closed, Mine

\* A row that is not locked yet will be changed by what is pending, whatever it
\* is by then.
LEMMA OutlookKept ==
  ASSUME NEW x, Numbers(x.todo), NEW row, NEW n \in Int,
         Committed(row) \in Nat, Committed(row)' \in Nat,
         Mine(x, row) => Committed(row)' = Committed(row) /\ x.mine[row] \in Nat,
         Outlook(x, row) = Committed(row) + n
  PROVE  Outlook(x, row)' = Committed(row)' + n
<1>1. Pending(x.todo, row) \in Int
  BY PendingInt
<1> DEFINE p == Pending(x.todo, row)
           a == Committed(row)
           b == Committed(row)'
<1>2. CASE Mine(x, row)
  <2>1. View(x, row) = x.mine[row] /\ View(x, row)' = x.mine[row]
    BY <1>2 DEF View, Mine
  <2>2. Outlook(x, row)' = x.mine[row] + p /\ Outlook(x, row) = x.mine[row] + p
    BY <2>1 DEF Outlook
  <2> QED
    BY <1>2, <2>2
<1>3. CASE ~Mine(x, row)
  <2>1. View(x, row) = a /\ View(x, row)' = b
    BY <1>3 DEF View, Mine
  <2>2. Outlook(x, row)' = b + p /\ Outlook(x, row) = a + p
    BY <2>1 DEF Outlook
  <2>3. a \in Nat /\ p \in Int /\ a + p = a + n
    BY <1>1, <2>2
  <2> HIDE DEF a, b, p
  <2>4. p = n
    BY <2>3
  <2> QED
    BY <2>2, <2>4 DEF b
<1> QED
  BY <1>2, <1>3

LEMMA WalletsCommitted ==
  ASSUME Rows, Rows', NEW x, Typed(x), Undisturbed(x)
  PROVE  /\ \A u \in Users :
              /\ Committed(Cash(u)) \in Nat /\ Committed(Cash(u))' \in Nat
              /\ Mine(x, Cash(u)) =>
                    Committed(Cash(u))' = Committed(Cash(u)) /\ x.mine[Cash(u)] \in Nat
         /\ \A u \in Users, t \in Tokens :
              /\ Committed(Shares(u, t)) \in Nat /\ Committed(Shares(u, t))' \in Nat
              /\ Mine(x, Shares(u, t)) =>
                    /\ Committed(Shares(u, t))' = Committed(Shares(u, t))
                    /\ x.mine[Shares(u, t)] \in Nat
<1>1. /\ collateral \in [Users -> Nat] /\ conditional \in [Users -> [Tokens -> Nat]]
      /\ collateral' \in [Users -> Nat] /\ conditional' \in [Users -> [Tokens -> Nat]]
  BY DEF Rows, AccountsTypeOK
<1>2. /\ \A u : Committed(Cash(u)) = collateral[u] /\ Committed(Cash(u))' = collateral'[u]
      /\ \A u, t : /\ Committed(Shares(u, t)) = conditional[u][t]
                   /\ Committed(Shares(u, t))' = conditional'[u][t]
  BY DEF Committed, Cash, Shares
<1>3. ASSUME NEW u \in Users
      PROVE  /\ Committed(Cash(u)) \in Nat /\ Committed(Cash(u))' \in Nat
             /\ Mine(x, Cash(u)) =>
                   Committed(Cash(u))' = Committed(Cash(u)) /\ x.mine[Cash(u)] \in Nat
  <2>1. Cash(u) \in WalletRows
    BY DEF WalletRows
  <2> QED
    BY <1>1, <1>2, <2>1 DEF Typed, Undisturbed
<1>4. ASSUME NEW u \in Users, NEW t \in Tokens
      PROVE  /\ Committed(Shares(u, t)) \in Nat /\ Committed(Shares(u, t))' \in Nat
             /\ Mine(x, Shares(u, t)) =>
                   /\ Committed(Shares(u, t))' = Committed(Shares(u, t))
                   /\ x.mine[Shares(u, t)] \in Nat
  <2>1. Shares(u, t) \in WalletRows
    BY DEF WalletRows
  <2>2. Mine(x, Shares(u, t)) => conditional'[u][t] = conditional[u][t]
    BY DEF Undisturbed
  <2>3. Mine(x, Shares(u, t)) => x.mine[Shares(u, t)] \in Nat
    BY <2>1 DEF Typed
  <2>4. conditional[u][t] \in Nat /\ conditional'[u][t] \in Nat
    BY <1>1
  <2>5. /\ Committed(Shares(u, t)) = conditional[u][t]
        /\ Committed(Shares(u, t))' = conditional'[u][t]
    BY <1>2
  <2> QED
    BY <2>2, <2>3, <2>4, <2>5
<1> QED
  BY <1>3, <1>4

LEMMA PaysStill ==
  ASSUME Rows, Rows', NEW x, Shaped(x), Typed(x), Undisturbed(x), NEW o,
         NEW money \in Int, NEW shares \in Int, Pays(x, o, money, shares)
  PROVE  Pays(x, o, money, shares)'
<1>1. Numbers(x.todo)
  BY TypedNumbers
<1>2. ASSUME NEW u \in Users
      PROVE  Outlook(x, Cash(u))' = collateral'[u] + IF u = o.user THEN money ELSE 0
  <2> DEFINE n == IF u = o.user THEN money ELSE 0
  <2>1. n \in Int /\ Outlook(x, Cash(u)) = Committed(Cash(u)) + n
    BY CommittedRows DEF Pays
  <2> HIDE DEF n
  <2>2. Outlook(x, Cash(u))' = Committed(Cash(u))' + n
    BY <1>1, <2>1, WalletsCommitted, OutlookKept
  <2>3. Committed(Cash(u))' = collateral'[u]
    BY DEF Committed, Cash
  <2> QED
    BY <2>2, <2>3 DEF n
<1>3. ASSUME NEW u \in Users, NEW t \in Tokens
      PROVE  Outlook(x, Shares(u, t))'
               = conditional'[u][t] + IF u = o.user /\ t = o.token THEN shares ELSE 0
  <2> DEFINE n == IF u = o.user /\ t = o.token THEN shares ELSE 0
  <2>1. n \in Int /\ Outlook(x, Shares(u, t)) = Committed(Shares(u, t)) + n
    BY CommittedRows DEF Pays
  <2> HIDE DEF n
  <2>2. Outlook(x, Shares(u, t))' = Committed(Shares(u, t))' + n
    BY <1>1, <2>1, WalletsCommitted, OutlookKept
  <2>3. Committed(Shares(u, t))' = conditional'[u][t]
    BY DEF Committed, Shares
  <2> QED
    BY <2>2, <2>3 DEF n
<1> QED
  BY <1>2, <1>3 DEF Pays

LEMMA PositionStill ==
  ASSUME NEW x, Undisturbed(x), NEW o, NEW fill, o.user \in Users,
         o.token \in Tokens, PositionComes(x, o, fill)
  PROVE  PositionComes(x, o, fill)'
<1> DEFINE row == Held(o.user, o.token)
<1>1. Mine(x, row) => After(o, fill)' = After(o, fill)
  <2>1. ASSUME NEW u \in Users, NEW t \in Tokens, Mine(x, Held(u, t))
        PROVE  position'[u][t] = position[u][t]
    BY <2>1 DEF Undisturbed
  <2> QED
    BY <2>1 DEF After
<1>2. <<o.user, o.token>> \notin opened /\ Mine(x, Shares(o.user, o.token))
         => <<o.user, o.token>> \notin opened' /\ After(o, fill)' = After(o, fill)
  <2>1. ASSUME NEW u \in Users, NEW t \in Tokens, <<u, t>> \notin opened,
               Mine(x, Shares(u, t))
        PROVE  <<u, t>> \notin opened' /\ position'[u][t] = position[u][t]
    BY <2>1 DEF Undisturbed
  <2> QED
    BY <2>1 DEF After
<1>3. HeldIsOwn(x, o)'
  BY DEF Undisturbed, HeldIsOwn, PositionComes
<1>4. ToRead(x, o, fill) => ToRead(x, o, fill)'
  BY DEF ToRead
<1>5. ASSUME ToWrite(x, o, fill) PROVE ToWrite(x, o, fill)'
  <2>1. PICK k \in Coming(x, {"put"}) :
          /\ x.todo[k].row = row /\ x.todo[k].n = After(o, fill)
          /\ \/ Mine(x, row)
             \/ <<o.user, o.token>> \notin opened /\ Mine(x, Shares(o.user, o.token))
    BY <1>5 DEF ToWrite
  <2> QED
    BY <1>1, <1>2, <2>1 DEF ToWrite
<1>6. Written(x, o, fill) => Written(x, o, fill)'
  BY <1>1 DEF Written
<1> QED
  BY <1>3, <1>4, <1>5, <1>6 DEF PositionComes

LEMMA ReservedInt ==
  ASSUME NEW o, NEW fill, Requested(o, fill)
  PROVE  MoneyOf(o, fill) \in Int /\ SharesOf(o, fill) \in Int
<1>1. /\ o.side \in Sides /\ o.price \in Nat /\ o.size \in Nat
      /\ fill.size \in Nat /\ fill.price \in Nat
      /\ o.side = "BUY" => fill.price <= o.price
      /\ Unfilled(o, fill) \in Nat
  BY RequestedFields
<1>2. FillCollateral(o, fill) \in Nat /\ FillConditional(o, fill) \in Nat
  BY <1>1, FillNat
<1>3. /\ \A n \in Nat : ReservedCollateral(o, n) \in Nat
      /\ \A n \in Nat : ReservedConditional(o, n) \in Nat
  BY <1>1, Product DEF ReservedCollateral, ReservedConditional
<1>4. /\ ReservedCollateral(o, o.size) \in Nat
      /\ ReservedConditional(o, o.size) \in Nat
      /\ ReservedCollateral(o, Unfilled(o, fill)) \in Nat
      /\ ReservedConditional(o, Unfilled(o, fill)) \in Nat
  BY <1>1, <1>3
<1> QED
  BY <1>2, <1>4 DEF MoneyOf, SharesOf

LEMMA PlacesStill ==
  ASSUME Rows, Rows', NEW x, Shaped(x), Typed(x), Undisturbed(x), NEW o, NEW fill,
         Places(x, o, fill)
  PROVE  Places(x, o, fill)'
<1>1. /\ Requested(o, fill) /\ Reserves(x, o) /\ Inserts(x, o)
      /\ Pays(x, o, MoneyOf(o, fill), SharesOf(o, fill))
      /\ PositionComes(x, o, fill)
      /\ OnlyComing(x, {"take", "insert", "add", "position", "put"})
      /\ x.made = <<>>
      /\ \A i \in DOMAIN orders : ~Mine(x, OrderRow(i))
  BY DEF Places
<1>2. /\ o.user \in Users /\ o.token \in Tokens /\ o.side \in Sides
      /\ o.size \in Nat /\ o.price \in Nat
  BY <1>1, RequestedFields
<1>3. Requested(o, fill)'
  BY <1>1 DEF Requested
<1>4. Reserves(x, o)'
  <2>1. ASSUME Coming(x, {"take"}) = {} PROVE Affordable(o.user, o.token, o)'
    <3> DEFINE u == o.user
               t == o.token
               a == ReservedCollateral(o, o.size)
               b == ReservedConditional(o, o.size)
    <3>1. collateral[u] >= a /\ conditional[u][t] >= b /\ Mine(x, ReservedIn(o))
      BY <1>1, <2>1 DEF Reserves, Affordable
    <3>2. collateral'[u] \in Nat /\ conditional'[u][t] \in Nat
      BY <1>2 DEF Rows, AccountsTypeOK
    <3>3. CASE o.side = "BUY"
      <4>1. Mine(x, Cash(u)) /\ b = 0
        BY <3>1, <3>3 DEF ReservedIn, ReservedConditional
      <4>2. collateral'[u] = collateral[u]
        BY <1>2, <4>1 DEF Undisturbed
      <4>3. collateral'[u] >= a /\ conditional'[u][t] >= b
        BY <3>1, <3>2, <4>1, <4>2
      <4> QED
        BY <4>3 DEF Affordable
    <3>4. CASE o.side # "BUY"
      <4>1. Mine(x, Shares(u, t)) /\ a = 0
        BY <3>1, <3>4 DEF ReservedIn, ReservedCollateral
      <4>2. conditional'[u][t] = conditional[u][t]
        BY <1>2, <4>1 DEF Undisturbed
      <4>3. collateral'[u] >= a /\ conditional'[u][t] >= b
        BY <3>1, <3>2, <4>1, <4>2
      <4> QED
        BY <4>3 DEF Affordable
    <3> QED
      BY <3>3, <3>4
  <2> QED
    BY <1>1, <2>1 DEF Reserves
<1>5. Inserts(x, o)'
  <2>1. Mine(x, Key(o)) /\ ~Taken(o) => ~Taken(o)'
    BY DEF Undisturbed
  <2> QED
    BY <1>1, <2>1 DEF Inserts
<1>6. Pays(x, o, MoneyOf(o, fill), SharesOf(o, fill))'
  <2> DEFINE money  == MoneyOf(o, fill)
             shares == SharesOf(o, fill)
  <2>1. money \in Int /\ shares \in Int /\ Pays(x, o, money, shares)
    BY <1>1, ReservedInt
  <2> HIDE DEF money, shares
  <2>2. Pays(x, o, money, shares)'
    BY <2>1, PaysStill
  <2> QED
    BY <2>2 DEF money, shares
<1>7. PositionComes(x, o, fill)'
  BY <1>1, <1>2, PositionStill
<1>8. \A i \in DOMAIN orders' : ~Mine(x, OrderRow(i))
  BY <1>1, ClosedKept
<1> QED
  BY <1>1, <1>3, <1>4, <1>5, <1>6, <1>7, <1>8 DEF Places

LEMMA MatchesStill ==
  ASSUME Rows, Rows', NEW x, Shaped(x), Typed(x), Undisturbed(x),
         NEW i \in DOMAIN orders, NEW o, NEW fill, Matches(x, i, o, fill),
         o.user \in Users, o.token \in Tokens,
         FillCollateral(o, fill) \in Nat, FillConditional(o, fill) \in Nat
  PROVE  Matches(x, i, o, fill)' /\ orders'[i] = orders[i]
<1>1. /\ OnlyComing(x, {"add", "position", "put"})
      /\ o.status = "LIVE"
      /\ x.made = <<TradeOf(i, o, fill, <<i, o.matched + fill.size>>)>>
      /\ \A j \in DOMAIN orders : Mine(x, OrderRow(j)) <=> j = i
      /\ x.mine[OrderRow(i)] = Filled(o, fill)
      /\ Pays(x, o, FillCollateral(o, fill), FillConditional(o, fill))
      /\ PositionComes(x, o, fill)
  BY DEF Matches
<1>2. orders'[i] = orders[i] /\ i \in DOMAIN orders'
  BY <1>1 DEF Undisturbed
<1>3. \A j \in DOMAIN orders' : Mine(x, OrderRow(j)) <=> j = i
  BY <1>1, ClosedKept
<1>4. Pays(x, o, FillCollateral(o, fill), FillConditional(o, fill))'
  <2> DEFINE money  == FillCollateral(o, fill)
             shares == FillConditional(o, fill)
  <2>1. money \in Int /\ shares \in Int /\ Pays(x, o, money, shares)
    BY <1>1
  <2> HIDE DEF money, shares
  <2>2. Pays(x, o, money, shares)'
    BY <2>1, PaysStill
  <2> QED
    BY <2>2 DEF money, shares
<1>5. PositionComes(x, o, fill)'
  BY <1>1, PositionStill
<1> QED
  BY <1>1, <1>2, <1>3, <1>4, <1>5 DEF Matches

LEMMA MatchingStill ==
  ASSUME Rows, Rows', NEW x, Shaped(x), Typed(x), Undisturbed(x), NEW w,
         w \in Workers, Steady(w), WorkerTypeOK, NEW r, Matching(w, x, r)
  PROVE  Matching(w, x, r)'
<1>1. /\ Current(w, r) /\ x.new = <<>>
      /\ FillBegins(x, r) \/ FillGoesOn(x, r)
  BY DEF Matching
<1>2. r \in snapshot[w] /\ r.id \in DOMAIN orders
  BY <1>1 DEF Current, Steady
<1>3. Current(w, r)'
  <2>1. \A q \in snapshot[w] : orders'[q.id].token = orders[q.id].token
    BY DEF Steady, Undisturbed
  <2>2. SnapshotOf(w, book[w])' = SnapshotOf(w, book[w])
    BY <2>1 DEF SnapshotOf, Steady
  <2>3. snapshot'[w] = snapshot[w] /\ book'[w] = book[w]
    BY DEF Steady
  <2>4. r \in snapshot'[w] /\ orders'[r.id].token = book'[w]
    BY <1>1, <1>2, <2>1, <2>3 DEF Current
  <2>5. \A q \in SnapshotOf(w, book[w])' : r.id <= q.id
    BY <1>1, <2>2 DEF Current
  <2> QED
    BY <2>4, <2>5 DEF Current
<1> DEFINE i == r.id
           o == orders[i]
<1>4. /\ orders'[i].side = orders[i].side /\ orders'[i].price = orders[i].price
      /\ orders'[i].size = orders[i].size
  BY <1>2 DEF Undisturbed
<1>5. FillBegins(x, r) => FillBegins(x, r)'
  BY <1>4 DEF FillBegins
<1>6. ASSUME FillGoesOn(x, r) PROVE FillGoesOn(x, r)'
  <2>1. PICK found \in Fills(orders[r.id].side, orders[r.id].price,
                             orders[r.id].size - r.matched) :
           Matches(x, r.id, orders[r.id], Capped(orders[r.id], found))
    BY <1>6 DEF FillGoesOn
  <2>2. PICK j, p, fill : j = r.id /\ p = orders[j] /\ fill = Capped(p, found)
    OBVIOUS
  <2>3. j \in DOMAIN orders /\ Matches(x, j, p, fill)
    BY <1>2, <2>1, <2>2
  <2>4. p.user \in Users /\ p.token \in Tokens /\ j \in Live
    <3>1. p.user \in Users /\ p.token \in Tokens
      BY <2>2, <2>3, OrderFields DEF Rows
    <3>2. p.status = "LIVE"
      BY <2>3 DEF Matches
    <3> QED
      BY <2>2, <2>3, <3>1, <3>2 DEF Live
  <2>5. FillCollateral(p, fill) \in Nat /\ FillConditional(p, fill) \in Nat
    <3>1. r.matched \in Nat
      BY <1>2 DEF WorkerTypeOK
    <3>2. /\ fill.size \in Nat /\ fill.price \in Prices
          /\ p.side = "BUY" => fill.price <= p.price
      BY <2>1, <2>2, <2>4, <3>1, CappedFill
    <3>3. fill.price \in Nat /\ p.price \in Nat
      BY <2>2, <2>3, <3>2, AmountsAssumption, OrderFields DEF Rows
    <3> QED
      BY <3>2, <3>3, FillNat
  <2>6. Matches(x, j, p, fill)' /\ orders'[j] = orders[j]
    BY <2>3, <2>4, <2>5, MatchesStill
  <2>7. found \in Fills(orders'[r.id].side, orders'[r.id].price,
                        orders'[r.id].size - r.matched)
    BY <1>4
  <2> QED
    BY <2>2, <2>6, <2>7 DEF FillGoesOn
<1> QED
  BY <1>1, <1>3, <1>5, <1>6 DEF Matching

\* What orders hold is not changed by what happens to others.
LEMMA HeldStill ==
  ASSUME Rows, Rows', NEW C, C \subseteq DOMAIN orders,
         DOMAIN orders \subseteq DOMAIN orders',
         \A i \in C : orders'[i] = orders[i], NEW u, NEW t
  PROVE  /\ HeldMoney(C, u)' = HeldMoney(C, u)
         /\ HeldTokens(C, u, t)' = HeldTokens(C, u, t)
<1>1. /\ Len(orders) \in Nat /\ DOMAIN orders = 1..Len(orders)
      /\ Len(orders') \in Nat /\ DOMAIN orders' = 1..Len(orders')
  BY DEF Rows, AccountsTypeOK
<1>2. PICK n \in Nat : n = Len(orders)
  BY <1>1
<1>3. PICK m \in Nat : Len(orders') = n + m
  <2>1. Len(orders) <= Len(orders')
    <3>1. CASE Len(orders) = 0
      BY <1>1, <3>1
    <3>2. CASE Len(orders) # 0
      <4>1. Len(orders) \in DOMAIN orders'
        BY <1>1, <3>2
      <4> QED
        BY <1>1, <4>1
    <3> QED
      BY <3>1, <3>2
  <2>2. Len(orders') - n \in Nat /\ Len(orders') = n + (Len(orders') - n)
    BY <1>1, <1>2, <2>1
  <2> QED
    BY <2>2
<1>4. /\ \A j \in 1..n : MoneyTerm(C, u, j) \in Int /\ TokenTerm(C, u, t, j) \in Int
  BY <1>1, <1>2, TermTypes
<1>5. /\ \A j \in 1..n : MoneyTerm(C, u, j)' = MoneyTerm(C, u, j)
      /\ \A j \in 1..n : TokenTerm(C, u, t, j)' = TokenTerm(C, u, t, j)
  BY DEF MoneyTerm, TokenTerm
<1>6. /\ \A j \in 1..m : MoneyTerm(C, u, n + j)' = 0
      /\ \A j \in 1..m : TokenTerm(C, u, t, n + j)' = 0
  <2>1. \A j \in 1..m : n + j \notin C
    BY <1>1, <1>2
  <2> QED
    BY <2>1 DEF MoneyTerm, TokenTerm
<1> DEFINE N == n + m
           f == [j \in 1..n |-> MoneyTerm(C, u, j)]
           h == [j \in 1..N |-> MoneyTerm(C, u, j)']
           a == [j \in 1..n |-> TokenTerm(C, u, t, j)]
           b == [j \in 1..N |-> TokenTerm(C, u, t, j)']
           g == [j \in 1..m |-> 0]
<1>7. /\ \A j \in 1..n : j \in 1..N
      /\ \A j \in 1..m : n + j \in 1..N
      /\ N \in Nat
  OBVIOUS
<1>8. \A i \in 1..n : f[i] \in Int /\ h[i] = f[i]
  BY <1>4, <1>5, <1>7
<1>9. \A i \in 1..m : g[i] \in Int /\ h[n + i] = g[i]
  BY <1>6, <1>7
<1>10. \A i \in 1..n : a[i] \in Int /\ b[i] = a[i]
  BY <1>4, <1>5, <1>7
<1>11. \A i \in 1..m : g[i] \in Int /\ b[n + i] = g[i]
  BY <1>6, <1>7
<1>12. \A i \in 1..m : g[i] = 0
  OBVIOUS
<1>13. /\ HeldMoney(C, u) = SumTo(f, n) /\ HeldTokens(C, u, t) = SumTo(a, n)
  BY <1>1, <1>2 DEF HeldMoney, HeldTokens, MoneyTerm, TokenTerm
<1>14. DOMAIN orders' = 1..N /\ Len(orders') = N
  BY <1>1, <1>3
<1>15. HeldMoney(C, u)' = SumTo(h, N)
  BY <1>14 DEF HeldMoney, MoneyTerm
<1>16. HeldTokens(C, u, t)' = SumTo(b, N)
  BY <1>14 DEF HeldTokens, TokenTerm
<1> HIDE DEF f, h, a, b, g
<1>17. Follows(f, n, g, m, h) /\ Follows(a, n, g, m, b)
  BY <1>8, <1>9, <1>10, <1>11 DEF Follows
<1>18. /\ SumTo(h, n + m) = SumTo(f, n) + SumTo(g, m)
       /\ SumTo(b, n + m) = SumTo(a, n) + SumTo(g, m)
  BY <1>17, SumToCat
<1>19. SumTo(g, m) = 0
  BY <1>12, SumToZero
<1>20. SumTo(f, n) \in Int /\ SumTo(a, n) \in Int
  BY <1>8, <1>10, SumToInt
<1>21. SumTo(h, n + m) = SumTo(f, n) /\ SumTo(b, n + m) = SumTo(a, n)
  BY <1>18, <1>19, <1>20
<1> QED
  BY <1>13, <1>15, <1>16, <1>21

LEMMA ClosesStill ==
  ASSUME NEW x, Typed(x), Undisturbed(x), Closes(x)
  PROVE  Closes(x)' /\ \A i \in Closed(x) : orders'[i] = orders[i]
<1>1. \A i \in Closed(x) : i \in DOMAIN orders /\ Mine(x, OrderRow(i))
  BY DEF Closed
<1>2. ASSUME NEW i \in Closed(x) PROVE orders'[i] = orders[i] /\ i \in DOMAIN orders'
  BY <1>1 DEF Undisturbed
<1>3. \A i \in Closed(x) : i \in Live'
  BY <1>2 DEF Closes, Live
<1> QED
  BY <1>2, <1>3, ClosedKept DEF Closes

LEMMA RefundingStill ==
  ASSUME Rows, Rows', NEW x, Shaped(x), Typed(x), Undisturbed(x),
         \A i \in Closed(x) : orders'[i] = orders[i], Refunding(x)
  PROVE  Refunding(x)'
<1>1. Closed(x)' = Closed(x) /\ Closed(x) \subseteq DOMAIN orders
      /\ DOMAIN orders \subseteq DOMAIN orders'
  BY ClosedKept DEF Closed, Undisturbed
<1>2. PICK C : C = Closed(x)
  OBVIOUS
<1>3. \A u, t : /\ HeldMoney(C, u)' = HeldMoney(C, u)
                /\ HeldTokens(C, u, t)' = HeldTokens(C, u, t)
  BY <1>1, <1>2, HeldStill
<1>4. \A u, t : HeldMoney(C, u) \in Nat /\ HeldTokens(C, u, t) \in Nat
  BY HeldNat DEF Rows
<1>5. Numbers(x.todo)
  BY TypedNumbers
<1>6. ASSUME NEW u \in Users
      PROVE  (Outlook(x, Cash(u)) = collateral[u] + HeldMoney(Closed(x), u))'
  <2>1. PICK n \in Nat : n = HeldMoney(C, u)
    BY <1>4
  <2>2. n \in Int /\ Outlook(x, Cash(u)) = Committed(Cash(u)) + n
    BY <1>2, <2>1, CommittedRows DEF Refunding
  <2>3. Outlook(x, Cash(u))' = Committed(Cash(u))' + n
    BY <1>5, <2>2, WalletsCommitted, OutlookKept
  <2>4. Committed(Cash(u))' = collateral'[u]
    BY DEF Committed, Cash
  <2>5. HeldMoney(C, u)' = n
    BY <1>3, <2>1
  <2>6. HeldMoney(Closed(x), u)' = HeldMoney(C, u)'
    BY <1>1, <1>2 DEF HeldMoney
  <2> QED
    BY <2>3, <2>4, <2>5, <2>6
<1>7. ASSUME NEW u \in Users, NEW t \in Tokens
      PROVE  (Outlook(x, Shares(u, t))
                = conditional[u][t] + HeldTokens(Closed(x), u, t))'
  <2>1. PICK n \in Nat : n = HeldTokens(C, u, t)
    BY <1>4
  <2>2. n \in Int /\ Outlook(x, Shares(u, t)) = Committed(Shares(u, t)) + n
    BY <1>2, <2>1, CommittedRows DEF Refunding
  <2>3. Outlook(x, Shares(u, t))' = Committed(Shares(u, t))' + n
    BY <1>5, <2>2, WalletsCommitted, OutlookKept
  <2>4. Committed(Shares(u, t))' = conditional'[u][t]
    BY DEF Committed, Shares
  <2>5. HeldTokens(C, u, t)' = n
    BY <1>3, <2>1
  <2>6. HeldTokens(Closed(x), u, t)' = HeldTokens(C, u, t)'
    BY <1>1, <1>2 DEF HeldTokens
  <2> QED
    BY <2>3, <2>4, <2>5, <2>6
<1> QED
  BY <1>6, <1>7 DEF Refunding

LEMMA CancellingStill ==
  ASSUME Rows, Rows', NEW x, Shaped(x), Typed(x), Undisturbed(x), Cancelling(x)
  PROVE  Cancelling(x)'
<1>1. /\ OnlyComing(x, {"cancel", "add"})
      /\ x.new = <<>> /\ x.made = <<>>
      /\ \A row \in HeldRows : ~Mine(x, row)
      /\ Closes(x) /\ Refunding(x)
  BY DEF Cancelling
<1>2. \A k \in Coming(x, {"cancel"}) : x.todo[k].refund
  BY Zenon DEF Cancelling
<1>3. Closes(x)' /\ \A i \in Closed(x) : orders'[i] = orders[i]
  BY <1>1, ClosesStill
<1>4. Refunding(x)'
  BY <1>1, <1>3, RefundingStill
<1> QED
  BY <1>1, <1>2, <1>3, <1>4, Zenon DEF Cancelling

LEMMA AimsStill ==
  ASSUME NEW x, Typed(x), Undisturbed(x), NEW ids, ids \subseteq DOMAIN orders,
         Aims(x, ids)
  PROVE  Aims(x, ids)'
<1>1. /\ \A k \in Coming(x, {"cancel"}) : x.todo[k].ids \cap Live \subseteq ids
      /\ Closed(x) \subseteq ids
      /\ \A i \in ids \cap Live :
            i \in Closed(x) \/ \E k \in Coming(x, {"cancel"}) : i \in x.todo[k].ids
  BY DEF Aims
<1>2. \A i \in DOMAIN orders : i \in Live' => i \in Live
  BY DEF Undisturbed
<1>3. \A k \in Coming(x, {"cancel"}) : x.todo[k].ids \subseteq DOMAIN orders
  BY DEF Typed, TypedStatement, Coming
<1>4. \A k \in Coming(x, {"cancel"}) : x.todo[k].ids \cap Live' \subseteq ids
  BY <1>1, <1>2, <1>3
<1>5. Closed(x)' = Closed(x)
  BY ClosedKept
<1>6. \A i \in ids \cap Live' :
         i \in Closed(x) \/ \E k \in Coming(x, {"cancel"}) : i \in x.todo[k].ids
  BY <1>1, <1>2
<1> QED
  BY <1>1, <1>4, <1>5, <1>6 DEF Aims

LEMMA CancelAimsStill ==
  ASSUME Rows, Rows', NEW x, Typed(x), Undisturbed(x), CancelAims(x)
  PROVE  CancelAims(x)'
<1>1. /\ Len(orders) \in Nat /\ DOMAIN orders = 1..Len(orders)
      /\ Len(orders') \in Nat /\ DOMAIN orders' = 1..Len(orders')
  BY DEF Rows, AccountsTypeOK
<1>2. DOMAIN orders \subseteq DOMAIN orders'
  BY DEF Undisturbed
<1>3. CASE \E i \in DOMAIN orders : Aims(x, {i})
  <2>1. PICK i \in DOMAIN orders : Aims(x, {i})
    BY <1>3
  <2>2. Aims(x, {i})'
    BY <2>1, AimsStill
  <2> QED
    BY <1>2, <2>2 DEF CancelAims
<1>4. CASE \E u \in Users, S \in Filters, n \in 0..Len(orders) : Aims(x, Chosen(u, S, n))
  <2>1. PICK u \in Users, S \in Filters, n \in 0..Len(orders) : Aims(x, Chosen(u, S, n))
    BY <1>4
  <2>2. PICK ids : ids = Chosen(u, S, n)
    OBVIOUS
  <2>3. ids \subseteq DOMAIN orders /\ Aims(x, ids)
    BY <2>1, <2>2 DEF Chosen
  <2>4. Aims(x, ids)'
    BY <2>3, AimsStill
  <2>5. /\ n \in 0..Len(orders')
        /\ \A i \in DOMAIN orders' : i <= n => i \in DOMAIN orders
    <3>1. n = 0 \/ n \in DOMAIN orders'
      BY <1>1, <1>2
    <3> QED
      BY <1>1, <3>1
  <2>6. Chosen(u, S, n)' = ids
    BY <1>2, <2>2, <2>5 DEF Chosen, Undisturbed
  <2>7. S \in Filters'
    BY <2>1 DEF Filters
  <2>8. Aims(x, Chosen(u, S, n))'
    BY <2>4, <2>6 DEF Aims
  <2> QED
    BY <2>5, <2>7, <2>8 DEF CancelAims
<1> QED
  BY <1>3, <1>4 DEF CancelAims

LEMMA GoneAimsStill ==
  ASSUME Rows, Rows', NEW x, Typed(x), Undisturbed(x), NEW w, Steady(w), NEW t,
         GoneAims(w, x, t)
  PROVE  GoneAims(w, x, t)'
<1>1. /\ Len(orders) \in Nat /\ DOMAIN orders = 1..Len(orders)
      /\ Len(orders') \in Nat /\ DOMAIN orders' = 1..Len(orders')
  BY DEF Rows, AccountsTypeOK
<1>2. DOMAIN orders \subseteq DOMAIN orders'
  BY DEF Undisturbed
<1>3. \A r \in snapshot[w] : orders'[r.id].token = orders[r.id].token
  BY DEF Steady, Undisturbed
<1>4. SnapshotOf(w, t)' = SnapshotOf(w, t) /\ SnapshotTokens(w)' = SnapshotTokens(w)
  <2>1. snapshot'[w] = snapshot[w]
    BY DEF Steady
  <2>2. SnapshotOf(w, t)' = SnapshotOf(w, t)
    BY <1>3, <2>1 DEF SnapshotOf
  <2>3. SnapshotTokens(w)' = {orders'[r.id].token : r \in snapshot[w]}
    BY <2>1 DEF SnapshotTokens
  <2>4. {orders'[r.id].token : r \in snapshot[w]} = {orders[r.id].token : r \in snapshot[w]}
    BY <1>3
  <2> QED
    BY <2>2, <2>3, <2>4 DEF SnapshotTokens
<1>5. PICK n \in 0..Len(orders) :
         (\A r \in SnapshotOf(w, t) : r.id <= n) /\ Aims(x, OfToken(t, n))
  BY DEF GoneAims
<1>6. PICK ids : ids = OfToken(t, n)
  OBVIOUS
<1>7. ids \subseteq DOMAIN orders /\ Aims(x, ids)
  BY <1>5, <1>6 DEF OfToken
<1>8. Aims(x, ids)'
  BY <1>7, AimsStill
<1>9. /\ n \in 0..Len(orders')
      /\ \A i \in DOMAIN orders' : i <= n => i \in DOMAIN orders
  <2>1. n = 0 \/ n \in DOMAIN orders'
    BY <1>1, <1>2
  <2> QED
    BY <1>1, <2>1
<1>10. OfToken(t, n)' = ids
  BY <1>2, <1>6, <1>9 DEF OfToken, Undisturbed
<1>11. Aims(x, OfToken(t, n))'
  BY <1>8, <1>10 DEF Aims
<1>12. book'[w] = NoToken /\ t \in (SnapshotTokens(w) \cap gone)'
  BY <1>4 DEF GoneAims, Steady
<1>13. \A r \in SnapshotOf(w, t)' : r.id <= n
  BY <1>4, <1>5
<1> QED
  BY <1>9, <1>11, <1>12, <1>13 DEF GoneAims

LEMMA SettlingStill ==
  ASSUME NEW x, Typed(x), Undisturbed(x), Settling(x), Pockets(x)
  PROVE  Settling(x)' /\ Pockets(x)'
<1>1. /\ OnlyComing(x, {"tokens", "positions", "seize", "pay", "add", "put",
                        "refund", "credit", "close", "cancel"})
      /\ x.job.S \subseteq Tokens
      /\ x.new = <<>> /\ x.made = <<>>
      /\ Closes(x) /\ OnOpened(x)
  BY DEF Settling
<1>2. \A k \in Coming(x, {"cancel"}) : ~x.todo[k].refund
  BY Zenon DEF Settling
<1>3. Closes(x)'
  BY <1>1, ClosesStill
<1>4. OnOpened(x)'
  BY <1>1 DEF OnOpened, Undisturbed
<1>5. Settling(x)'
  BY <1>1, <1>2, <1>3, <1>4, Zenon DEF Settling
<1>6. ASSUME NEW u \in Users, NEW t \in Tokens PROVE Pocket(x, u, t)'
  <2>1. Pocket(x, u, t)
    BY DEF Pockets
  <2>2. Mine(x, Held(u, t)) => position'[u][t] = position[u][t]
    BY DEF Undisturbed
  <2>3. <<u, t>> \in DOMAIN x.seized => Mine(x, Held(u, t))
    BY DEF Pockets, Grip
  <2> QED
    BY <2>1, <2>2, <2>3 DEF Pocket
<1>7. /\ \A j, k \in Coming(x, {"positions", "seize", "pay"}) : j = k
      /\ Coming(x, {"positions", "seize"}) # {} => DOMAIN x.seized = {}
      /\ \A k \in Coming(x, {"pay"}) : x.todo[k].ids \subseteq Grip(x) \ DOMAIN x.seized
      /\ DOMAIN x.seized \subseteq Grip(x)
  BY DEF Pockets
<1>8. Pockets(x)'
  BY <1>6, <1>7 DEF Pockets
<1> QED
  BY <1>5, <1>8

\* What is said about a transaction is kept by the steps of others.
LEMMA TxKept ==
  ASSUME Rows, Rows', WorkerTypeOK, NEW s \in Sessions, NEW x, Undisturbed(x),
         s \in Workers => Steady(s), TxOK(s, x)
  PROVE  TxOK(s, x)'
<1>1. /\ Shaped(x) /\ Typed(x)
      /\ s \notin Pollers => DOMAIN x.seized = {}
  BY DEF TxOK
<1>2. Typed(x)' /\ Shaped(x)'
  BY <1>1, TypedKept DEF Shaped
<1>3. ASSUME s \in Clients PROVE ClientOK(x)'
  <2>1. CASE x.job.kind = "place" /\ Places(x, x.job.o, x.job.fill)
    <3>1. Places(x, x.job.o, x.job.fill)'
      BY <1>1, <2>1, PlacesStill
    <3> QED
      BY <2>1, <3>1 DEF ClientOK
  <2>2. CASE x.job.kind = "cancel" /\ Cancelling(x) /\ CancelAims(x)
    <3>1. Cancelling(x)' /\ CancelAims(x)'
      BY <1>1, <2>2, CancellingStill, CancelAimsStill
    <3> QED
      BY <2>2, <3>1 DEF ClientOK
  <2> QED
    BY <1>3, <2>1, <2>2 DEF TxOK, ClientOK
<1>4. ASSUME s \in Workers PROVE WorkerOK(s, x)'
  <2>1. CASE x.job.kind = "fill" /\ Matching(s, x, x.job.r)
    <3>1. Matching(s, x, x.job.r)'
      BY <1>1, <1>4, <2>1, MatchingStill
    <3> QED
      BY <2>1, <3>1 DEF WorkerOK
  <2>2. CASE x.job.kind = "gone" /\ Cancelling(x) /\ GoneAims(s, x, x.job.t)
    <3>1. Cancelling(x)' /\ GoneAims(s, x, x.job.t)'
      BY <1>1, <1>4, <2>2, CancellingStill, GoneAimsStill
    <3> QED
      BY <2>2, <3>1 DEF WorkerOK
  <2> QED
    BY <1>4, <2>1, <2>2 DEF TxOK, WorkerOK
<1>5. ASSUME s \in Pollers PROVE PollerOK(x)'
  <2>1. x.job.kind = "settle" /\ Settling(x) /\ Pockets(x) /\ Judged(x)
    BY <1>5 DEF TxOK, PollerOK
  <2>2. Settling(x)' /\ Pockets(x)'
    BY <1>1, <2>1, SettlingStill
  <2>3. Judged(x)'
    BY <2>1 DEF Judged, Coming, Ruled
  <2> QED
    BY <2>1, <2>2, <2>3 DEF PollerOK
<1> QED
  BY <1>1, <1>2, <1>3, <1>4, <1>5 DEF TxOK

-----------------------------------------------------------------------------
(* What each kind of session may have before it.                           *)

LEMMA ClientSends ==
  ASSUME NEW s \in Clients, NEW x, TxOK(s, x), 1 \in DOMAIN x.todo
  PROVE  \/ /\ x.job.kind = "place" /\ Places(x, x.job.o, x.job.fill)
            /\ x.todo[1].do \in {"take", "insert", "add", "position", "put"}
         \/ /\ x.job.kind = "cancel" /\ Cancelling(x) /\ CancelAims(x)
            /\ x.todo[1].do \in {"cancel", "add"}
<1>1. CASE x.job.kind = "place" /\ Places(x, x.job.o, x.job.fill)
  BY <1>1 DEF Places, OnlyComing
<1>2. CASE x.job.kind = "cancel" /\ Cancelling(x) /\ CancelAims(x)
  <2>1. OnlyComing(x, {"cancel", "add"})
    BY <1>2 DEF Cancelling
  <2> QED
    BY <1>2, <2>1 DEF OnlyComing
<1> QED
  BY <1>1, <1>2 DEF TxOK, ClientOK

LEMMA WorkerSends ==
  ASSUME NEW s \in Workers, NEW x, TxOK(s, x), 1 \in DOMAIN x.todo
  PROVE  \/ /\ x.job.kind = "fill" /\ Current(s, x.job.r) /\ x.new = <<>>
            /\ FillBegins(x, x.job.r) /\ x.todo[1].do = "order"
         \/ /\ x.job.kind = "fill" /\ Current(s, x.job.r) /\ x.new = <<>>
            /\ FillGoesOn(x, x.job.r)
            /\ x.todo[1].do \in {"add", "position", "put"}
         \/ /\ x.job.kind = "gone" /\ Cancelling(x) /\ GoneAims(s, x, x.job.t)
            /\ x.todo[1].do \in {"cancel", "add"}
<1>1. ASSUME x.job.kind = "fill", Matching(s, x, x.job.r), FillBegins(x, x.job.r)
      PROVE  x.todo[1].do = "order"
  <2>1. PICK found : x.todo = <<[do |-> "order", r |-> x.job.r, found |-> found]>>
    BY <1>1 DEF FillBegins
  <2> DEFINE a == [do |-> "order", r |-> x.job.r, found |-> found]
  <2>2. a.do = "order" /\ x.todo = <<a>>
    BY <2>1
  <2> HIDE DEF a
  <2> QED
    BY <2>2
<1>2. ASSUME x.job.kind = "fill", Matching(s, x, x.job.r), FillGoesOn(x, x.job.r)
      PROVE  x.todo[1].do \in {"add", "position", "put"}
  BY <1>2 DEF FillGoesOn, Matches, OnlyComing
<1>3. ASSUME x.job.kind = "gone", Cancelling(x)
      PROVE  x.todo[1].do \in {"cancel", "add"}
  <2>1. OnlyComing(x, {"cancel", "add"})
    BY <1>3 DEF Cancelling
  <2> QED
    BY <2>1 DEF OnlyComing
<1>4. WorkerOK(s, x)
  BY DEF TxOK
<1> QED
  BY <1>1, <1>2, <1>3, <1>4 DEF WorkerOK, Matching

LEMMA PollerSends ==
  ASSUME NEW s \in Pollers, NEW x, TxOK(s, x), 1 \in DOMAIN x.todo
  PROVE  /\ PollerOK(x) /\ x.job.kind = "settle"
         /\ Settling(x) /\ Pockets(x) /\ Judged(x)
         /\ x.todo[1].do \in {"tokens", "positions", "seize", "pay", "add", "put",
                              "refund", "credit", "close", "cancel"}
<1>1. /\ PollerOK(x) /\ x.job.kind = "settle"
      /\ Settling(x) /\ Pockets(x) /\ Judged(x)
  BY DEF TxOK, PollerOK
<1>2. OnlyComing(x, {"tokens", "positions", "seize", "pay", "add", "put",
                     "refund", "credit", "close", "cancel"})
  BY <1>1 DEF Settling
<1> QED
  BY <1>1, <1>2 DEF OnlyComing

\* A statement that locks an order again or one that follows it.
LEMMA FillIs ==
  ASSUME Rows, WorkerTypeOK, SnapshotExists, NEW s \in Workers, NEW x, NEW r,
         Current(s, r), FillGoesOn(x, r)
  PROVE  \E found \in Fills(orders[r.id].side, orders[r.id].price,
                            orders[r.id].size - r.matched) :
            \E fill : /\ fill = Capped(orders[r.id], found)
                      /\ Matches(x, r.id, orders[r.id], fill)
                      /\ fill.size \in Nat \ {0} /\ r.id \in Live
<1>1. PICK found \in Fills(orders[r.id].side, orders[r.id].price,
                           orders[r.id].size - r.matched) :
         Matches(x, r.id, orders[r.id], Capped(orders[r.id], found))
  BY DEF FillGoesOn
<1>2. PICK fill : fill = Capped(orders[r.id], found)
  OBVIOUS
<1>3. r \in snapshot[s] /\ r.id \in DOMAIN orders /\ r.matched \in Nat
  BY DEF Current, WorkerTypeOK, SnapshotExists
<1>4. r.id \in Live
  BY <1>1, <1>3 DEF Live, Matches
<1>5. fill.size \in Nat \ {0}
  <2>1. PICK i, m : i = r.id /\ m = r.matched
    OBVIOUS
  <2>2. i \in Live /\ m \in Nat
    BY <1>3, <1>4, <2>1
  <2>3. found \in Fills(orders[i].side, orders[i].price, orders[i].size - m)
    BY <2>1
  <2>4. fill = Capped(orders[i], found)
    BY <1>2, <2>1
  <2> QED
    BY <2>2, <2>3, <2>4, CappedFill
<1> QED
  BY <1>1, <1>2, <1>4, <1>5

-----------------------------------------------------------------------------
(* A transaction after one statement.                                      *)

LEMMA AheadOK ==
  ASSUME Inv, Unopened, NEW s \in Sessions, NEW x, NEW y, TxOK(s, x),
         1 \in DOMAIN x.todo, Credits(x, y) \/ Reads(x, y) \/ Overwrites(x, y),
         Shaped(y), y.job = x.job, y.new = x.new, y.made = x.made,
         y.seized = x.seized
  PROVE  TxOK(s, y)
<1>1. Rows /\ WorkerTypeOK /\ SnapshotExists /\ Shaped(x) /\ Typed(x)
  BY DEF Inv, Ticks, TxOK
<1>2. x.todo[1].do \in {"add", "position", "put"}
  BY DEF Credits, Reads, Overwrites
<1>3. x.todo[1].do = "add" => Credits(x, y)
  BY DEF Reads, Overwrites
<1>4. x.todo[1].do = "put" => Overwrites(x, y)
  BY DEF Reads, Credits
<1>5. ASSUME s \in Clients PROVE Typed(y) /\ ClientOK(y)
  <2>1. CASE x.job.kind = "place" /\ Places(x, x.job.o, x.job.fill)
    <3>1. Places(y, x.job.o, x.job.fill) /\ Typed(y)
      BY <1>1, <2>1, PlacesAhead
    <3> QED
      BY <2>1, <3>1 DEF ClientOK
  <2>2. CASE /\ x.job.kind = "cancel" /\ Cancelling(x) /\ CancelAims(x)
             /\ x.todo[1].do \in {"cancel", "add"}
    <3>1. Credits(x, y)
      BY <1>2, <1>3, <2>2
    <3>2. Typed(y) /\ Cancelling(y) /\ \A ids : Aims(x, ids) => Aims(y, ids)
      BY <1>1, <2>2, <3>1, CancellingAdd
    <3>3. CancelAims(y)
      BY <2>2, <3>2 DEF CancelAims
    <3> QED
      BY <2>2, <3>2, <3>3 DEF ClientOK
  <2> QED
    BY <1>5, <2>1, <2>2, ClientSends
<1>6. ASSUME s \in Workers PROVE Typed(y) /\ WorkerOK(s, y)
  <2>1. CASE /\ x.job.kind = "fill" /\ Current(s, x.job.r) /\ x.new = <<>>
             /\ FillGoesOn(x, x.job.r)
    <3>1. PICK r, i : r = x.job.r /\ i = r.id
      OBVIOUS
    <3>2. PICK found \in Fills(orders[r.id].side, orders[r.id].price,
                               orders[r.id].size - r.matched) :
            \E fill : /\ fill = Capped(orders[r.id], found)
                      /\ Matches(x, r.id, orders[r.id], fill)
                      /\ fill.size \in Nat \ {0} /\ r.id \in Live
      BY <1>1, <1>6, <2>1, <3>1, FillIs
    <3>3. PICK fill : /\ fill = Capped(orders[i], found)
                      /\ Matches(x, i, orders[i], fill)
                      /\ fill.size \in Nat /\ i \in Live
      BY <3>1, <3>2
    <3>4. i \in DOMAIN orders
      BY <3>3 DEF Live
    <3>5. Matches(y, i, orders[i], fill) /\ Typed(y)
      BY <1>1, <3>3, <3>4, MatchesAhead
    <3>6. FillGoesOn(y, r)
      BY <3>1, <3>2, <3>3, <3>5 DEF FillGoesOn
    <3> QED
      BY <2>1, <3>1, <3>5, <3>6 DEF WorkerOK, Matching
  <2>2. CASE /\ x.job.kind = "gone" /\ Cancelling(x) /\ GoneAims(s, x, x.job.t)
             /\ x.todo[1].do \in {"cancel", "add"}
    <3>1. Credits(x, y)
      BY <1>2, <1>3, <2>2
    <3>2. Typed(y) /\ Cancelling(y) /\ \A ids : Aims(x, ids) => Aims(y, ids)
      BY <1>1, <2>2, <3>1, CancellingAdd
    <3>3. GoneAims(s, y, x.job.t)
      BY <2>2, <3>2 DEF GoneAims
    <3> QED
      BY <2>2, <3>2, <3>3 DEF WorkerOK
  <2> QED
    BY <1>2, <1>6, <2>1, <2>2, WorkerSends
<1>7. ASSUME s \in Pollers PROVE Typed(y) /\ PollerOK(y)
  <2>1. /\ x.job.kind = "settle" /\ Settling(x) /\ Pockets(x) /\ Judged(x)
        /\ x.todo[1].do # "position"
    BY <1>7, PollerSends
  <2>2. Credits(x, y) \/ Overwrites(x, y)
    BY <1>2, <1>3, <1>4, <2>1
  <2>3. Typed(y) /\ Settling(y) /\ Pockets(y)
    BY <1>1, <2>1, <2>2, SettleAdd, SettlePut
  <2>4. Steps(x, y, <<>>) /\ DOMAIN <<>> = {}
    BY <2>2, OneFacts DEF Credits, Overwrites
  <2>5. Judged(y)
    BY <1>2, <2>1, <2>4, JudgedGoesOn
  <2> QED
    BY <2>1, <2>3, <2>5 DEF PollerOK
<1>8. Typed(y)
  BY <1>5, <1>6, <1>7 DEF Sessions
<1> QED
  BY <1>5, <1>6, <1>7, <1>8 DEF TxOK

LEMMA TakeOK ==
  ASSUME Inv, NEW s \in Sessions, NEW x, NEW y, TxOK(s, x), 1 \in DOMAIN x.todo,
         x.todo[1].do = "take", Steps(x, y, <<>>), Moves(x, y),
         y.new = x.new, y.made = x.made, y.seized = x.seized
  PROVE  TxOK(s, y)
<1>1. Rows /\ Typed(x) /\ Shaped(y) /\ y.job = x.job
  BY DEF Inv, TxOK, Steps
<1>2. s \notin Workers /\ s \notin Pollers
  BY WorkerSends, PollerSends
<1>3. s \in Clients /\ x.job.kind = "place" /\ Places(x, x.job.o, x.job.fill)
  BY <1>2, ClientSends DEF Sessions
<1>4. Places(y, x.job.o, x.job.fill) /\ Typed(y)
  BY <1>1, <1>3, PlacesTake
<1> QED
  BY <1>1, <1>2, <1>3, <1>4 DEF TxOK, ClientOK

LEMMA InsertOK ==
  ASSUME Inv, NEW s \in Sessions, NEW x, NEW y, TxOK(s, x), 1 \in DOMAIN x.todo,
         x.todo[1].do = "insert", Steps(x, y, <<>>), ~Taken(x.job.o),
         Wrote(x, y, Key(x.job.o), x.job.o), y.new = <<x.job.o>>,
         y.made = x.made, y.seized = x.seized
  PROVE  TxOK(s, y)
<1>1. Rows /\ Typed(x) /\ Shaped(y) /\ y.job = x.job
  BY DEF Inv, TxOK, Steps
<1>2. s \notin Workers /\ s \notin Pollers
  BY WorkerSends, PollerSends
<1>3. s \in Clients /\ x.job.kind = "place" /\ Places(x, x.job.o, x.job.fill)
  BY <1>2, ClientSends DEF Sessions
<1>4. Places(y, x.job.o, x.job.fill) /\ Typed(y)
  BY <1>1, <1>3, PlacesInsert
<1> QED
  BY <1>1, <1>2, <1>3, <1>4 DEF TxOK, ClientOK

\* executeFill's first statement.
Locks(x, y, r, fill, o) ==
    /\ r = x.todo[1].r /\ fill = Capped(o, x.todo[1].found)
    /\ o = View(x, OrderRow(r.id)) /\ Fillable(o)
    /\ Wrote(x, y, OrderRow(r.id), Filled(o, fill))
    /\ y.made = <<TradeOf(r.id, o, fill, FillKey(o, r, fill))>>
    /\ y.todo = FillStatements(o, fill)

LEMMA LockFill ==
  ASSUME Rows, WorkerTypeOK, SnapshotExists, NEW s \in Workers, NEW x, NEW y,
         Shaped(y), Typed(x), NEW r, Current(s, r), FillBegins(x, r), NEW fill,
         NEW o, Locks(x, y, r, fill, o)
  PROVE  FillGoesOn(y, r) /\ Typed(y)
<1>1. PICK found \in Fills(orders[r.id].side, orders[r.id].price,
                           orders[r.id].size - r.matched) :
         x.todo = <<[do |-> "order", r |-> r, found |-> found]>>
  BY DEF FillBegins
<1>2. x.todo[1].found = found
  <2> DEFINE a == [do |-> "order", r |-> r, found |-> found]
  <2>1. a.found = found /\ x.todo = <<a>>
    BY <1>1
  <2> HIDE DEF a
  <2>2. x.todo[1] = a
    BY <2>1
  <2> QED
    BY <2>1, <2>2
<1>3. r \in snapshot[s]
  BY DEF Current
<1>4. r.id \in DOMAIN orders /\ r.matched \in Nat
  BY <1>3 DEF WorkerTypeOK, SnapshotExists
<1>5. PICK i \in DOMAIN orders, m \in Nat : i = r.id /\ m = r.matched
  BY <1>4
<1>6. DOMAIN x.mine = {}
  BY DEF FillBegins
<1>7. o = orders[i] /\ i \in Live
  <2>1. o = View(x, OrderRow(i)) /\ Fillable(o)
    BY <1>5 DEF Locks
  <2>2. o = orders[i]
    BY <1>6, <2>1, CommittedRows DEF View, Mine
  <2> QED
    BY <2>1, <2>2 DEF Live, Fillable
<1>8. /\ fill = Capped(orders[i], found)
      /\ Wrote(x, y, OrderRow(i), Filled(orders[i], fill))
      /\ y.made = <<TradeOf(i, orders[i], fill, FillKey(orders[i], r, fill))>>
      /\ y.todo = FillStatements(orders[i], fill)
  BY <1>2, <1>5, <1>7 DEF Locks
<1>9. found \in Fills(orders[i].side, orders[i].price, orders[i].size - m)
  BY <1>5
<1>10. Matches(y, i, orders[i], fill) /\ Typed(y)
  BY <1>5, <1>6, <1>7, <1>8, <1>9, FillLocks
<1> QED
  BY <1>5, <1>8, <1>10 DEF FillGoesOn

LEMMA LockOK ==
  ASSUME Inv, NEW s \in Sessions, NEW x, NEW y, TxOK(s, x), 1 \in DOMAIN x.todo,
         x.todo[1].do = "order", NEW r, NEW fill, NEW o, Locks(x, y, r, fill, o),
         Shaped(y), y.job = x.job, y.new = x.new, y.seized = x.seized
  PROVE  TxOK(s, y)
<1>1. Rows /\ WorkerTypeOK /\ SnapshotExists /\ Typed(x)
  BY DEF Inv, Ticks, TxOK
<1>2. s \notin Clients /\ s \notin Pollers
  BY ClientSends, PollerSends
<1>3. s \in Workers
  BY <1>2 DEF Sessions
<1>4. /\ x.job.kind = "fill" /\ Current(s, x.job.r) /\ x.new = <<>>
      /\ FillBegins(x, x.job.r)
  BY <1>3, WorkerSends
<1>5. r = x.job.r
  <2>1. PICK q, found : q = x.job.r /\ x.todo = <<[do |-> "order", r |-> q, found |-> found]>>
    BY <1>4 DEF FillBegins
  <2> DEFINE a == [do |-> "order", r |-> q, found |-> found]
  <2>2. a.r = q /\ x.todo = <<a>>
    BY <2>1
  <2> HIDE DEF a
  <2>3. x.todo[1] = a
    BY <2>2
  <2> QED
    BY <2>1, <2>2, <2>3 DEF Locks
<1>6. FillGoesOn(y, r) /\ Typed(y)
  BY <1>1, <1>3, <1>4, <1>5, LockFill
<1>7. WorkerOK(s, y)
  BY <1>4, <1>5, <1>6 DEF WorkerOK, Matching
<1>8. DOMAIN y.seized = {}
  BY <1>2 DEF TxOK
<1> QED
  BY <1>2, <1>6, <1>7, <1>8 DEF TxOK

LEMMA CancelOK ==
  ASSUME Inv, NEW s \in Sessions, NEW x, NEW y, TxOK(s, x), 1 \in DOMAIN x.todo,
         NEW i, CloseRow(x, y, i), y.seized = x.seized
  PROVE  TxOK(s, y)
<1>1. Rows /\ Shaped(x) /\ Typed(x) /\ Shaped(y) /\ y.job = x.job
      /\ x.todo[1].do = "cancel"
  BY DEF Inv, TxOK, CloseRow
<1>2. ASSUME s \in Clients PROVE Typed(y) /\ ClientOK(y)
  <2>1. x.job.kind = "cancel" /\ Cancelling(x) /\ CancelAims(x)
    BY <1>1, <1>2, ClientSends
  <2>2. Typed(y) /\ Cancelling(y) /\ \A ids : Aims(x, ids) => Aims(y, ids)
    BY <1>1, <2>1, CancellingRow
  <2>3. CancelAims(y)
    BY <2>1, <2>2 DEF CancelAims
  <2> QED
    BY <1>1, <2>1, <2>2, <2>3 DEF ClientOK
<1>3. ASSUME s \in Workers PROVE Typed(y) /\ WorkerOK(s, y)
  <2>1. x.job.kind = "gone" /\ Cancelling(x) /\ GoneAims(s, x, x.job.t)
    BY <1>1, <1>3, WorkerSends
  <2>2. Typed(y) /\ Cancelling(y) /\ \A ids : Aims(x, ids) => Aims(y, ids)
    BY <1>1, <2>1, CancellingRow
  <2>3. GoneAims(s, y, x.job.t)
    BY <2>1, <2>2 DEF GoneAims
  <2> QED
    BY <1>1, <2>1, <2>2, <2>3 DEF WorkerOK
<1>4. ASSUME s \in Pollers PROVE Typed(y) /\ PollerOK(y)
  <2>1. x.job.kind = "settle" /\ Settling(x) /\ Pockets(x) /\ Judged(x)
    BY <1>4, PollerSends
  <2> DEFINE c == x.todo[1]
  <2>2. c.do = "cancel" /\ {"do", "ids"} \subseteq DOMAIN c /\ "refund" \in DOMAIN c
    BY <1>1 DEF Typed, TypedStatement
  <2>3. ~c.refund
    <3>1. 1 \in Coming(x, {"cancel"})
      BY <2>2 DEF Coming
    <3>2. \A k \in Coming(x, {"cancel"}) : ~x.todo[k].refund
      BY <2>1, Zenon DEF Settling
    <3> QED
      BY <3>1, <3>2, Zenon
  <2>4. RefundOf(x, View(x, OrderRow(i))) = <<>>
    BY <2>3, Zenon DEF RefundOf
  <2>5. y.todo = (Without(c, i) \o Tail(x.todo)) \o <<>>
    BY <2>4 DEF CloseRow
  <2> HIDE DEF c
  <2>6. PICK d : /\ Without(c, i) = Each(d)
                 /\ d.do = c.do /\ d.ids = c.ids \ {i}
                 /\ d.refund = c.refund /\ "refund" \in DOMAIN d
                 /\ {"do", "ids"} \subseteq DOMAIN d
    BY <2>2, WithoutFacts
  <2>7. /\ IsSeq(Each(d)) /\ \A k \in DOMAIN Each(d) : Each(d)[k] = d
        /\ Numbers(Each(d))
    <3>1. IsSeq(Each(d)) /\ \A k \in DOMAIN Each(d) : Each(d)[k] = d
      BY EachFacts
    <3>2. d.do \notin {"add", "take"}
      BY <2>2, <2>6
    <3> QED
      BY <3>1, <3>2, PendingNone
  <2>8. x.todo # <<>> /\ IsSeq(x.todo) /\ IsSeq(Tail(x.todo))
    <3>1. IsSeq(x.todo)
      BY <1>1 DEF Shaped
    <3>2. x.todo # <<>>
      BY <3>1, SeqFacts
    <3> QED
      BY <3>1, <3>2, TailFacts
  <2>9. y.todo = Each(d) \o Tail(x.todo)
    <3> DEFINE z == Each(d) \o Tail(x.todo)
    <3>1. IsSeq(z)
      BY <2>7, <2>8, CatFacts DEF Joined
    <3>2. y.todo = z \o <<>>
      BY <2>5, <2>6
    <3> HIDE DEF z
    <3>3. y.todo = z
      BY <3>1, <3>2, SeqFacts
    <3> QED
      BY <3>3 DEF z
  <2>10. Steps(x, y, Each(d))
    BY <1>1, <2>7, <2>8, <2>9, StepsTo
  <2>11. ~d.refund
    BY <2>3, <2>6, Zenon
  <2>12. d.do = "cancel" /\ d.ids = x.todo[1].ids \ {i}
         /\ {"do", "ids", "refund"} \subseteq DOMAIN d
    BY <2>2, <2>6 DEF c
  <2>13. Typed(y) /\ Settling(y) /\ Pockets(y)
    BY <1>1, <2>1, <2>10, <2>11, <2>12, SettleCancels
  <2>14. Judged(y)
    <3>1. \A k \in DOMAIN Each(d) : Each(d)[k].do = "cancel"
      BY <2>7, <2>12
    <3> QED
      BY <1>1, <2>1, <2>10, <3>1, JudgedGoesOn
  <2> QED
    BY <1>1, <2>1, <2>13, <2>14 DEF PollerOK
<1>5. Typed(y)
  BY <1>2, <1>3, <1>4 DEF Sessions
<1>6. s \notin Pollers => DOMAIN y.seized = {}
  BY DEF TxOK
<1> QED
  BY <1>1, <1>2, <1>3, <1>4, <1>5, <1>6 DEF TxOK

\* The statements of a settlement.
LEMMA SettleOK ==
  ASSUME NEW s \in Sessions, NEW x, NEW y, TxOK(s, x), 1 \in DOMAIN x.todo,
         x.todo[1].do \in {"tokens", "positions", "seize", "pay", "refund",
                           "credit", "close"},
         Shaped(y), PollerOK(x) => Typed(y) /\ PollerOK(y)
  PROVE  TxOK(s, y)
<1>1. s \notin Clients /\ s \notin Workers
  BY ClientSends, WorkerSends
<1>2. s \in Pollers
  BY <1>1 DEF Sessions
<1>3. PollerOK(x)
  BY <1>2, PollerSends
<1> QED
  BY <1>1, <1>2, <1>3 DEF TxOK

=============================================================================
