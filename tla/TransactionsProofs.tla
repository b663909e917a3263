------------------------- MODULE TransactionsProofs -------------------------
(***************************************************************************)
(* Transactions implements Ledger, for every number of sessions: every     *)
(* action keeps the inductive invariant of StatementProofs, and what a     *)
(* transaction publishes when it commits is one step of Ledger.            *)
(***************************************************************************)
EXTENDS StatementProofs

-----------------------------------------------------------------------------
(* Steps of one session that commit nothing.                               *)

Becomes(s, y) == tx' = [q \in Sessions |-> IF q = s THEN y ELSE tx[q]]

\* y holds the rows that s held before the step, and rows that were free.
Locked(s, y) == \A r \in DOMAIN y.mine : Holds(s, r) \/ Free(s, r)

LEMMA BecomesTx ==
  ASSUME NEW s \in Sessions, NEW y, Becomes(s, y)
  PROVE  /\ tx' = [q \in Sessions |-> tx'[q]]
         /\ tx'[s] = y /\ \A q \in Sessions \ {s} : tx'[q] = tx[q]
BY DEF Becomes

LEMMA NothingDone ==
  ASSUME Inv, UNCHANGED vars, UNCHANGED opened
  PROVE  /\ Inv' /\ Rows /\ Rows' /\ WorkerTypeOK
         /\ \A x : Undisturbed(x)
         /\ \A w \in Workers : Steady(w)
<1>1. UNCHANGED <<accounts, gone, worker>>
  BY DEF vars
<1>2. UNCHANGED <<collateral, conditional, position, orders, trades, funded>>
  BY <1>1 DEF accounts
<1>3. UNCHANGED <<snapshot, book>>
  BY <1>1 DEF worker
<1>4. Rows /\ Ticks /\ WorkerTypeOK /\ SnapshotExists
  BY DEF Inv, Ticks
<1>5. Inv'
  BY <1>1, <1>2, <1>4, SameRows, SameTicks DEF Inv
<1>6. ASSUME NEW x PROVE Undisturbed(x)
  <2>1. Live' = Live /\ \A o : Taken(o)' = Taken(o)
    BY <1>2 DEF Live, Taken
  <2> QED
    BY <1>2, <2>1 DEF Undisturbed
<1>7. ASSUME NEW w \in Workers PROVE Steady(w)
  <2>1. \A r \in snapshot[w] : r.id \in DOMAIN orders
    BY <1>4 DEF SnapshotExists
  <2> QED
    BY <1>1, <1>3, <2>1 DEF Steady
<1> QED
  BY <1>4, <1>5, <1>6, <1>7 DEF Inv

\* Two sessions that both go on hold different rows.
LEMMA DisjointStays ==
  ASSUME Disjoint, NEW s \in Sessions, NEW y, Becomes(s, y), Locked(s, y)
  PROVE  Disjoint'
<1> SUFFICES ASSUME NEW p \in Sessions, NEW q \in Sessions, p # q,
                    Open(p)', Open(q)'
             PROVE  DOMAIN tx'[p].mine \cap DOMAIN tx'[q].mine = {}
  BY DEF Disjoint
<1>1. tx'[s] = y /\ \A r \in Sessions \ {s} : tx'[r] = tx[r]
  BY BecomesTx
<1>2. ASSUME NEW r \in Sessions \ {s}, Open(r)'
      PROVE  Open(r) /\ DOMAIN tx[r].mine \cap DOMAIN y.mine = {}
  <2>1. Open(r)
    BY <1>1, <1>2 DEF Open
  <2>2. ASSUME NEW row \in DOMAIN tx[r].mine, row \in DOMAIN y.mine PROVE FALSE
    <3>1. Holds(r, row)
      BY <2>1, <2>2 DEF Holds
    <3>2. ~Free(s, row)
      BY <1>2, <3>1 DEF Free
    <3>3. Holds(s, row)
      BY <2>2, <3>2 DEF Locked
    <3> QED
      BY <1>2, <2>1, <2>2, <3>3 DEF Disjoint, Holds
  <2> QED
    BY <2>1, <2>2
<1>3. CASE p = s
  BY <1>1, <1>2, <1>3
<1>4. CASE q = s
  BY <1>1, <1>2, <1>4
<1>5. CASE p # s /\ q # s
  <2>1. Open(p) /\ Open(q) /\ tx'[p] = tx[p] /\ tx'[q] = tx[q]
    BY <1>1, <1>2, <1>5
  <2> QED
    BY <2>1 DEF Disjoint
<1> QED
  BY <1>3, <1>4, <1>5

LEMMA LocalStep ==
  ASSUME TInv, NEW s \in Sessions, NEW y, Becomes(s, y),
         UNCHANGED <<vars, tables>>, y # NoTx => TxOK(s, y),
         Locked(s, y)
  PROVE  TInv'
<1>1. /\ Inv /\ Disjoint /\ Unopened /\ SignedOnce /\ SettledWereBought
      /\ opened \subseteq Users \X Tokens /\ settled \in [Users -> [Tokens -> Nat]]
      /\ paid \in [Users -> [Tokens -> Nat]]
      /\ \A q \in Sessions : Open(q) => TxOK(q, tx[q])
  BY DEF TInv
<1>2. UNCHANGED vars /\ UNCHANGED opened /\ UNCHANGED settled /\ UNCHANGED paid
  BY DEF tables
<1>3. /\ Inv' /\ Rows /\ Rows' /\ WorkerTypeOK
      /\ \A x : Undisturbed(x)
      /\ \A w \in Workers : Steady(w)
  BY <1>1, <1>2, NothingDone
<1>4. /\ tx' = [q \in Sessions |-> tx'[q]]
      /\ tx'[s] = y /\ \A q \in Sessions \ {s} : tx'[q] = tx[q]
  BY BecomesTx
<1>5. ASSUME NEW q \in Sessions, Open(q)' PROVE TxOK(q, tx[q])'
  <2>1. TxOK(q, tx'[q])
    <3>1. CASE q = s
      <4>1. y # NoTx
        BY <1>4, <1>5, <3>1 DEF Open
      <4> QED
        BY <1>4, <3>1, <4>1
    <3>2. CASE q # s
      <4>1. tx'[q] = tx[q] /\ Open(q)
        BY <1>4, <1>5, <3>2 DEF Open
      <4> QED
        BY <1>1, <4>1
    <3> QED
      BY <3>1, <3>2
  <2>2. PICK x : x = tx'[q]
    OBVIOUS
  <2>3. TxOK(q, x)'
    BY <1>3, <2>1, <2>2, TxKept
  <2> QED
    BY <2>2, <2>3
<1>6. UNCHANGED <<collateral, conditional, position, orders, trades>>
  BY <1>2 DEF vars, accounts
<1>7. Unopened' /\ SignedOnce' /\ SettledWereBought'
  <2>1. Unopened'
    BY <1>1, <1>2, <1>6 DEF Unopened
  <2>2. SignedOnce'
    BY <1>1, <1>6 DEF SignedOnce
  <2>3. SettledWereBought'
    BY <1>1, <1>2, <1>6 DEF SettledWereBought, Bought
  <2> QED
    BY <2>1, <2>2, <2>3
<1>8. Disjoint'
  BY <1>1, DisjointStays
<1>9. /\ opened' \subseteq Users \X Tokens /\ settled' \in [Users -> [Tokens -> Nat]]
      /\ paid' \in [Users -> [Tokens -> Nat]]
  BY <1>1, <1>2
<1> QED
  BY <1>3, <1>4, <1>5, <1>7, <1>8, <1>9 DEF TInv

-----------------------------------------------------------------------------
(* One statement, from its action.                                         *)

\* What is known of a session that sends its next statement.
LEMMA Sends ==
  ASSUME TInv, NEW s \in Sessions, NEW what, At(s, what), NEW x, x = tx[s]
  PROVE  /\ Inv /\ Unopened /\ TxOK(s, x) /\ Shaped(x) /\ Typed(x) /\ Open(s)
         /\ 1 \in DOMAIN x.todo /\ x.todo # <<>> /\ IsSeq(x.todo) /\ IsSeq(Tail(x.todo))
         /\ This(s) = x.todo[1] /\ Rest(s) = Tail(x.todo) /\ x.todo[1].do = what
<1>1. Open(s) /\ x.todo # <<>> /\ Head(x.todo).do = what
  BY DEF At
<1>2. TxOK(s, x)
  BY <1>1 DEF TInv
<1>3. Shaped(x) /\ Typed(x) /\ IsSeq(x.todo)
  BY <1>2 DEF TxOK, Shaped
<1>4. 1 \in DOMAIN x.todo /\ Head(x.todo) = x.todo[1] /\ IsSeq(Tail(x.todo))
  BY <1>1, <1>3, TailFacts
<1> QED
  BY <1>1, <1>2, <1>3, <1>4 DEF TInv, This, Rest

LEMMA WithWrites ==
  ASSUME NEW s, NEW row, NEW value, NEW x, x = tx[s], NEW y,
         y.mine = With(s, row, value)
  PROVE  Wrote(x, y, row, value)
BY DEF With, Wrote

LEMMA GoesExcept ==
  ASSUME NEW x, Shaped(x), NEW mine, NEW todo
  PROVE  [[x EXCEPT !.mine = mine] EXCEPT !.todo = todo] = Goes(x, mine, todo)
<1>1. PICK a, b, c, d, e, f :
        x = [job |-> a, todo |-> b, mine |-> c, new |-> d, made |-> e, seized |-> f]
  BY DEF Shaped
<1>2. /\ x.job = a /\ x.new = d /\ x.made = e /\ x.seized = f
  BY <1>1
<1> DEFINE z == [job |-> a, todo |-> b, mine |-> mine, new |-> d, made |-> e, seized |-> f]
           v == [job |-> a, todo |-> todo, mine |-> mine, new |-> d, made |-> e, seized |-> f]
<1>3. [x EXCEPT !.mine = mine] = z
  BY <1>1
<1>4. [z EXCEPT !.todo = todo] = v
  OBVIOUS
<1>5. v = Goes(x, mine, todo)
  BY <1>2 DEF Goes
<1> HIDE DEF v, z
<1> QED
  BY <1>3, <1>4, <1>5

LEMMA Continues ==
  ASSUME TInv, NEW s \in Sessions, Open(s), NEW mine, NEW todo,
         Continue(s, mine, todo), IsSeq(todo), NEW x, x = tx[s]
  PROVE  \E y : /\ Becomes(s, y) /\ UNCHANGED <<vars, tables>>
                /\ Shaped(y) /\ y.job = x.job /\ y.todo = todo /\ y.mine = mine
                /\ y.new = x.new /\ y.made = x.made /\ y.seized = x.seized
<1>1. PICK y : y = Goes(x, mine, todo)
  OBVIOUS
<1>2. /\ y.job = x.job /\ y.todo = todo /\ y.mine = mine
      /\ y.new = x.new /\ y.made = x.made /\ y.seized = x.seized
      /\ Shaped(y)
  BY <1>1, GoesFields
<1>3. Shaped(x) /\ tx = [q \in Sessions |-> tx[q]]
  BY DEF TInv, TxOK
<1>4. [[x EXCEPT !.mine = mine] EXCEPT !.todo = todo] = y
  BY <1>1, <1>3, GoesExcept
<1>5. Becomes(s, y)
  BY <1>3, <1>4 DEF Continue, Becomes
<1>6. UNCHANGED <<vars, tables>>
  BY DEF Continue
<1> QED
  BY <1>2, <1>5, <1>6

\* A statement that writes one free row holds that row as well from now on.
LEMMA LocksOne ==
  ASSUME NEW s, Open(s), NEW x, x = tx[s], NEW y, NEW row, NEW value,
         Wrote(x, y, row, value), Free(s, row)
  PROVE  Locked(s, y)
BY DEF Wrote, Locked, Holds

LEMMA LocksNone ==
  ASSUME NEW s, Open(s), NEW x, x = tx[s], NEW y, y.mine = x.mine
  PROVE  Locked(s, y)
BY DEF Locked, Holds

LEMMA StepsEmpty ==
  ASSUME NEW x, Shaped(x), Typed(x), x.todo # <<>>,
         NEW y, Shaped(y), y.job = x.job, y.todo = Tail(x.todo)
  PROVE  Steps(x, y, <<>>)
<1>1. Numbers(<<>>)
  BY PendingOne
<1>2. IsSeq(Tail(x.todo))
  BY TailFacts DEF Shaped
<1>3. <<>> \o Tail(x.todo) = Tail(x.todo)
  BY <1>2, SeqFacts
<1> QED
  BY <1>1, <1>3, StepsTo

LEMMA StepsOne ==
  ASSUME NEW x, Shaped(x), Typed(x), x.todo # <<>>, NEW z,
         z.do \notin {"add", "take"},
         NEW y, Shaped(y), y.job = x.job, y.todo = <<z>> \o Tail(x.todo)
  PROVE  Steps(x, y, <<z>>)
<1>1. Numbers(<<z>>)
  <2>1. \A a : (a.do \in {"add", "take"} => a.n \in Int) => Numbers(<<a>>)
    BY PendingOne
  <2> QED
    BY <2>1
<1> QED
  BY <1>1, StepsTo

LEMMA StepsEach ==
  ASSUME NEW x, Shaped(x), Typed(x), x.todo # <<>>, NEW z,
         z.do \notin {"add", "take"},
         NEW y, Shaped(y), y.job = x.job, y.todo = Each(z) \o Tail(x.todo)
  PROVE  Steps(x, y, Each(z))
<1>1. IsSeq(Each(z)) /\ \A k \in DOMAIN Each(z) : Each(z)[k] = z
  BY EachFacts
<1>2. Numbers(Each(z))
  BY <1>1, PendingNone
<1> QED
  BY <1>2, StepsTo

LEMMA OneBefore ==
  ASSUME NEW z, NEW x, IsSeq(x)
  PROVE  IsSeq(<<z>> \o x) /\ IsSeq(Each(z) \o x)
<1>1. IsSeq(<<z>>) /\ IsSeq(Each(z))
  BY OneFacts, EachFacts
<1>2. Joined(<<z>>, x, <<z>> \o x) /\ Joined(Each(z), x, Each(z) \o x)
  BY <1>1, CatFacts
<1> QED
  BY <1>2 DEF Joined

LEMMA AddStep ==
  ASSUME TInv, NEW s \in Sessions, AddTo(s)
  PROVE  TInv'
<1> DEFINE row == This(s).row
           mine == With(s, row, Seen(s, row) + This(s).n)
<1>1. At(s, "add") /\ Free(s, row) /\ Continue(s, mine, Rest(s))
  BY DEF AddTo
<1>2. PICK x : x = tx[s]
  OBVIOUS
<1>3. /\ Inv /\ Unopened /\ TxOK(s, x) /\ Shaped(x) /\ Typed(x) /\ Open(s)
      /\ 1 \in DOMAIN x.todo /\ x.todo # <<>> /\ IsSeq(Tail(x.todo))
      /\ This(s) = x.todo[1] /\ Rest(s) = Tail(x.todo) /\ x.todo[1].do = "add"
  BY <1>1, <1>2, Sends
<1> HIDE DEF mine
<1>4. PICK y : /\ Becomes(s, y) /\ UNCHANGED <<vars, tables>>
               /\ Shaped(y) /\ y.job = x.job /\ y.todo = Rest(s) /\ y.mine = mine
               /\ y.new = x.new /\ y.made = x.made /\ y.seized = x.seized
  BY <1>1, <1>2, <1>3, Continues
<1>5. Wrote(x, y, row, View(x, row) + This(s).n)
  <2>1. Seen(s, row) = View(x, row)
    BY <1>2, <1>3, SeenIsView
  <2> QED
    BY <1>2, <1>4, <2>1, WithWrites DEF mine
<1>6. Steps(x, y, <<>>)
  BY <1>3, <1>4, StepsEmpty
<1>7. Credits(x, y)
  BY <1>3, <1>5, <1>6 DEF Credits, Moves
<1>8. TxOK(s, y)
  BY <1>3, <1>4, <1>7, AheadOK
<1>9. Locked(s, y)
  BY <1>1, <1>2, <1>3, <1>5, LocksOne
<1> QED
  BY <1>4, <1>8, <1>9, LocalStep

LEMMA TakeStep ==
  ASSUME TInv, NEW s \in Sessions, Take(s)
  PROVE  TInv'
<1> DEFINE row == This(s).row
           mine == With(s, row, Seen(s, row) - This(s).n)
<1>1. /\ At(s, "take") /\ Free(s, row) /\ Continue(s, mine, Rest(s))
      /\ Seen(s, row) >= This(s).n
  BY DEF Take
<1>2. PICK x : x = tx[s]
  OBVIOUS
<1>3. /\ Inv /\ TxOK(s, x) /\ Shaped(x) /\ Typed(x) /\ Open(s)
      /\ 1 \in DOMAIN x.todo /\ x.todo # <<>> /\ IsSeq(Tail(x.todo))
      /\ This(s) = x.todo[1] /\ Rest(s) = Tail(x.todo) /\ x.todo[1].do = "take"
  BY <1>1, <1>2, Sends
<1> HIDE DEF mine
<1>4. PICK y : /\ Becomes(s, y) /\ UNCHANGED <<vars, tables>>
               /\ Shaped(y) /\ y.job = x.job /\ y.todo = Rest(s) /\ y.mine = mine
               /\ y.new = x.new /\ y.made = x.made /\ y.seized = x.seized
  BY <1>1, <1>2, <1>3, Continues
<1>5. Seen(s, row) = View(x, row)
  BY <1>2, <1>3, SeenIsView
<1>6. Wrote(x, y, row, View(x, row) - This(s).n)
  BY <1>2, <1>4, <1>5, WithWrites DEF mine
<1>7. Steps(x, y, <<>>)
  BY <1>3, <1>4, StepsEmpty
<1>8. Moves(x, y)
  BY <1>1, <1>3, <1>5, <1>6 DEF Moves
<1>9. TxOK(s, y)
  BY <1>3, <1>4, <1>7, <1>8, TakeOK
<1>10. Locked(s, y)
  BY <1>1, <1>2, <1>3, <1>6, LocksOne
<1> QED
  BY <1>4, <1>9, <1>10, LocalStep

LEMMA PutStep ==
  ASSUME TInv, NEW s \in Sessions, Put(s)
  PROVE  TInv'
<1> DEFINE row == This(s).row
           mine == With(s, row, This(s).n)
<1>1. At(s, "put") /\ Free(s, row) /\ Continue(s, mine, Rest(s))
  BY DEF Put
<1>2. PICK x : x = tx[s]
  OBVIOUS
<1>3. /\ Inv /\ Unopened /\ TxOK(s, x) /\ Shaped(x) /\ Typed(x) /\ Open(s)
      /\ 1 \in DOMAIN x.todo /\ x.todo # <<>> /\ IsSeq(Tail(x.todo))
      /\ This(s) = x.todo[1] /\ Rest(s) = Tail(x.todo) /\ x.todo[1].do = "put"
  BY <1>1, <1>2, Sends
<1> HIDE DEF mine
<1>4. PICK y : /\ Becomes(s, y) /\ UNCHANGED <<vars, tables>>
               /\ Shaped(y) /\ y.job = x.job /\ y.todo = Rest(s) /\ y.mine = mine
               /\ y.new = x.new /\ y.made = x.made /\ y.seized = x.seized
  BY <1>1, <1>2, <1>3, Continues
<1>5. Wrote(x, y, row, This(s).n)
  BY <1>2, <1>4, WithWrites DEF mine
<1>6. Steps(x, y, <<>>)
  BY <1>3, <1>4, StepsEmpty
<1>7. Overwrites(x, y)
  BY <1>3, <1>5, <1>6 DEF Overwrites
<1>8. TxOK(s, y)
  BY <1>3, <1>4, <1>7, AheadOK
<1>9. Locked(s, y)
  BY <1>1, <1>2, <1>3, <1>5, LocksOne
<1> QED
  BY <1>4, <1>8, <1>9, LocalStep

LEMMA ReadStep ==
  ASSUME TInv, NEW s \in Sessions, ReadPosition(s)
  PROVE  TInv'
<1> DEFINE o   == This(s).o
           row == Held(o.user, o.token)
           z   == [do |-> "put", row |-> row,
                   n |-> PositionAfter(Seen(s, row), o.side, This(s).n)]
<1>1. At(s, "position")
  BY DEF ReadPosition
<1>2. PICK x : x = tx[s]
  OBVIOUS
<1>3. /\ Inv /\ Unopened /\ TxOK(s, x) /\ Shaped(x) /\ Typed(x) /\ Open(s)
      /\ 1 \in DOMAIN x.todo /\ x.todo # <<>> /\ IsSeq(Tail(x.todo))
      /\ This(s) = x.todo[1] /\ Rest(s) = Tail(x.todo) /\ x.todo[1].do = "position"
  BY <1>1, <1>2, Sends
<1>4. Seen(s, row) = View(x, row)
  BY <1>2, <1>3, SeenIsView
<1>5. z = PutOf(x) /\ z.do = "put"
  BY <1>3, <1>4 DEF PutOf
<1>6. CASE <<o.user, o.token>> \in opened
  <2> DEFINE mine == With(s, row, Seen(s, row))
             todo == <<z>> \o Rest(s)
  <2>1. Free(s, row) /\ Continue(s, mine, todo)
    BY <1>6 DEF ReadPosition
  <2>2. IsSeq(todo)
    BY <1>3, OneBefore
  <2> HIDE DEF mine, todo, z
  <2>3. PICK y : /\ Becomes(s, y) /\ UNCHANGED <<vars, tables>>
                 /\ Shaped(y) /\ y.job = x.job /\ y.todo = todo /\ y.mine = mine
                 /\ y.new = x.new /\ y.made = x.made /\ y.seized = x.seized
    BY <1>2, <1>3, <2>1, <2>2, Continues
  <2>4. Wrote(x, y, row, View(x, row))
    BY <1>2, <1>4, <2>3, WithWrites DEF mine
  <2>5. Steps(x, y, <<PutOf(x)>>)
    BY <1>3, <1>5, <2>3, StepsOne DEF todo
  <2>6. Reads(x, y)
    BY <1>3, <1>6, <2>4, <2>5 DEF Reads
  <2>7. TxOK(s, y)
    BY <1>3, <2>3, <2>6, AheadOK
  <2>8. Locked(s, y)
    BY <1>2, <1>3, <2>1, <2>4, LocksOne
  <2> QED
    BY <2>3, <2>7, <2>8, LocalStep
<1>7. CASE <<o.user, o.token>> \notin opened
  <2> DEFINE put  == IF o.side = "BUY" THEN <<z>> ELSE <<>>
             todo == put \o Rest(s)
  <2>1. Continue(s, tx[s].mine, todo)
    BY <1>7 DEF ReadPosition
  <2>2. IsSeq(todo)
    <3>1. <<>> \o Rest(s) = Rest(s)
      BY <1>3, SeqFacts
    <3> QED
      BY <1>3, <3>1, OneBefore
  <2> HIDE DEF todo, z
  <2>3. PICK y : /\ Becomes(s, y) /\ UNCHANGED <<vars, tables>>
                 /\ Shaped(y) /\ y.job = x.job /\ y.todo = todo /\ y.mine = tx[s].mine
                 /\ y.new = x.new /\ y.made = x.made /\ y.seized = x.seized
    BY <1>2, <1>3, <2>1, <2>2, Continues
  <2>4. y.mine = x.mine
    BY <1>2, <2>3
  <2>5. o.side = "BUY" => Steps(x, y, <<PutOf(x)>>)
    BY <1>3, <1>5, <2>3, StepsOne DEF todo
  <2>6. o.side # "BUY" => Steps(x, y, <<>>)
    <3>1. <<>> \o Rest(s) = Rest(s)
      BY <1>3, SeqFacts
    <3>2. o.side # "BUY" => y.todo = Rest(s)
      BY <2>3, <3>1 DEF todo
    <3> QED
      BY <1>3, <2>3, <3>2, StepsEmpty
  <2>7. Reads(x, y)
    BY <1>3, <1>7, <2>4, <2>5, <2>6 DEF Reads
  <2>8. TxOK(s, y)
    BY <1>3, <2>3, <2>7, AheadOK
  <2>9. Locked(s, y)
    BY <1>2, <1>3, <2>4, LocksNone
  <2> QED
    BY <2>3, <2>8, <2>9, LocalStep
<1> QED
  BY <1>6, <1>7

LEMMA GoesOnSettling ==
  ASSUME NEW x, NEW y, NEW pre, PollerOK(x), Steps(x, y, pre), y.seized = x.seized,
         x.todo[1].do # "tokens", \A k \in DOMAIN pre : pre[k].do # "tokens",
         \A k \in DOMAIN pre : pre[k].do = "pay" => \A p \in pre[k].ids : Ruled(x, p),
         Typed(y), Settling(y), Pockets(y)
  PROVE  Typed(y) /\ PollerOK(y)
<1>1. Judged(x) /\ x.job.kind = "settle" /\ y.job = x.job
  BY DEF PollerOK, Steps
<1>2. Judged(y)
  BY <1>1, JudgedGoesOn
<1> QED
  BY <1>1, <1>2 DEF PollerOK

AfterRead(x, job, todo) == [[x EXCEPT !.job = job] EXCEPT !.todo = todo]

LEMMA ReadLeaves ==
  ASSUME NEW x, Shaped(x), NEW job, NEW todo
  PROVE  AfterRead(x, job, todo) = [job |-> job, todo |-> todo, mine |-> x.mine,
                                    new |-> x.new, made |-> x.made,
                                    seized |-> x.seized]
<1>1. PICK a, b, c, d, e, f :
        x = [job |-> a, todo |-> b, mine |-> c, new |-> d, made |-> e, seized |-> f]
  BY DEF Shaped
<1> DEFINE z == [job |-> job, todo |-> b, mine |-> c, new |-> d, made |-> e, seized |-> f]
           v == [job |-> job, todo |-> todo, mine |-> c, new |-> d, made |-> e, seized |-> f]
<1>2. [x EXCEPT !.job = job] = z
  BY <1>1
<1>3. [z EXCEPT !.todo = todo] = v
  OBVIOUS
<1>4. v = [job |-> job, todo |-> todo, mine |-> x.mine, new |-> x.new,
           made |-> x.made, seized |-> x.seized]
  BY <1>1
<1> HIDE DEF z, v
<1> QED
  BY <1>2, <1>3, <1>4 DEF AfterRead

LEMMA TokensStep ==
  ASSUME TInv, NEW s \in Pollers, NEW S, S \subseteq Tokens, NEW winner,
         ReadTokens(s, S, winner)
  PROVE  TInv' /\ UNCHANGED vars
<1>1. At(s, "tokens") /\ s \in Sessions
  BY DEF ReadTokens, Sessions
<1>2. PICK x : x = tx[s]
  OBVIOUS
<1>3. /\ TxOK(s, x) /\ Shaped(x) /\ Typed(x) /\ Open(s)
      /\ 1 \in DOMAIN x.todo /\ IsSeq(Tail(x.todo))
      /\ Rest(s) = Tail(x.todo) /\ x.todo[1].do = "tokens"
  BY <1>1, <1>2, Sends
<1>4. PollerOK(x) /\ Judged(x)
  BY <1>3, PollerSends
<1>5. PICK won, lost : /\ won = {t \in S : winner[t] = "yes"}
                       /\ lost = {t \in S : winner[t] = "no"}
  OBVIOUS
<1> DEFINE job == [kind |-> "settle", market |-> x.job.market, S |-> S,
                   won |-> won, lost |-> lost]
<1>todo. PICK todo : todo = Tail(x.todo)
  OBVIOUS
<1>6. PICK y : y = [job |-> job, todo |-> todo, mine |-> x.mine,
                    new |-> x.new, made |-> x.made, seized |-> x.seized]
  OBVIOUS
<1>7. /\ y.job = job /\ y.todo = Tail(x.todo) /\ y.mine = x.mine
      /\ y.new = x.new /\ y.made = x.made /\ y.seized = x.seized
  BY <1>6, <1>todo
<1>8. Shaped(y)
  BY <1>3, <1>6, <1>7, <1>todo DEF Shaped
<1>9. Typed(y) /\ PollerOK(y)
  BY <1>3, <1>4, <1>7, <1>8, SettleReads
<1>10. TxOK(s, y)
  BY <1>1, <1>3, <1>8, <1>9, SettleOK
<1>11. Becomes(s, y)
  <2>1. PICK j : j = job
    OBVIOUS
  <2>2. tx' = [tx EXCEPT ![s].job = j, ![s].todo = todo]
    BY <1>2, <1>3, <1>5, <1>todo, <2>1 DEF ReadTokens
  <2>3. AfterRead(x, j, todo) = y
    BY <1>3, <1>6, <2>1, ReadLeaves
  <2>4. tx = [q \in Sessions |-> tx[q]]
    BY DEF TInv
  <2> QED
    BY <1>1, <1>2, <2>2, <2>3, <2>4 DEF Becomes, AfterRead
<1>12. Locked(s, y)
  BY <1>2, <1>3, <1>7, LocksNone
<1>13. UNCHANGED <<vars, tables>>
  BY DEF ReadTokens
<1> QED
  BY <1>1, <1>10, <1>11, <1>12, <1>13, LocalStep

LEMMA FindStep ==
  ASSUME TInv, NEW s \in Sessions, SelectPositions(s)
  PROVE  TInv'
<1>1. At(s, "positions")
  BY DEF SelectPositions
<1>2. PICK x : x = tx[s]
  OBVIOUS
<1>3. /\ Inv /\ Unopened /\ TxOK(s, x) /\ Shaped(x) /\ Typed(x) /\ Open(s)
      /\ 1 \in DOMAIN x.todo /\ x.todo # <<>> /\ IsSeq(Tail(x.todo))
      /\ This(s) = x.todo[1] /\ Rest(s) = Tail(x.todo) /\ x.todo[1].do = "positions"
  BY <1>1, <1>2, Sends
<1>4. PICK z : z = [do |-> "seize", ids |-> OpenPositions(TokensOf(x.job.market))]
  OBVIOUS
<1>5. /\ z.do = "seize" /\ {"do", "ids"} \subseteq DOMAIN z
      /\ z.ids = OpenPositions(TokensOf(x.job.market))
  BY <1>4
<1> DEFINE todo == <<z>> \o Rest(s)
<1>6. Continue(s, x.mine, todo) /\ IsSeq(todo)
  BY <1>2, <1>3, <1>4, OneBefore DEF SelectPositions
<1> HIDE DEF todo
<1>7. PICK y : /\ Becomes(s, y) /\ UNCHANGED <<vars, tables>>
               /\ Shaped(y) /\ y.job = x.job /\ y.todo = todo /\ y.mine = x.mine
               /\ y.new = x.new /\ y.made = x.made /\ y.seized = x.seized
  BY <1>2, <1>3, <1>6, Continues
<1>8. Steps(x, y, <<z>>)
  BY <1>3, <1>5, <1>7, StepsOne DEF todo
<1>9. ASSUME PollerOK(x) PROVE Typed(y) /\ PollerOK(y)
  <2>1. \A p \in z.ids : p[1] \in Users /\ p[2] \in Tokens
    BY <1>5 DEF OpenPositions, TokensOf
  <2>2. Typed(y) /\ Settling(y) /\ Pockets(y)
    BY <1>3, <1>5, <1>7, <1>8, <1>9, <2>1, SettleFinds DEF PollerOK
  <2>3. \A k \in DOMAIN <<z>> : <<z>>[k].do = "seize"
    BY <1>5, OneFacts
  <2> QED
    BY <1>3, <1>7, <1>8, <1>9, <2>2, <2>3, GoesOnSettling
<1>10. TxOK(s, y)
  BY <1>3, <1>7, <1>9, SettleOK
<1>11. Locked(s, y)
  BY <1>2, <1>3, <1>7, LocksNone
<1> QED
  BY <1>7, <1>10, <1>11, LocalStep

LEMMA SeizeStep ==
  ASSUME TInv, NEW s \in Sessions, NEW p, SeizePosition(s, p)
  PROVE  TInv'
<1> DEFINE row  == Held(p[1], p[2])
           mine == Seize(s, p)
<1>1. At(s, "seize") /\ p \in This(s).ids /\ Free(s, row)
  BY DEF SeizePosition
<1>2. PICK x : x = tx[s]
  OBVIOUS
<1>3. /\ Inv /\ Unopened /\ TxOK(s, x) /\ Shaped(x) /\ Typed(x) /\ Open(s)
      /\ 1 \in DOMAIN x.todo /\ x.todo # <<>> /\ IsSeq(Tail(x.todo))
      /\ This(s) = x.todo[1] /\ Rest(s) = Tail(x.todo) /\ x.todo[1].do = "seize"
  BY <1>1, <1>2, Sends
<1>4. PICK c : c = This(s)
  OBVIOUS
<1>5. c.do = "seize" /\ {"do", "ids"} \subseteq DOMAIN c /\ c = x.todo[1] /\ p \in c.ids
  <2>1. TypedStatement(x.todo[1]) /\ c = x.todo[1]
    BY <1>3, <1>4 DEF Typed
  <2> QED
    BY <1>1, <1>3, <1>4, <2>1 DEF TypedStatement
<1>6. PICK z : z = [c EXCEPT !.ids = @ \ {p}]
  OBVIOUS
<1>7. z.do = "seize" /\ z.ids = c.ids \ {p} /\ {"do", "ids"} \subseteq DOMAIN z
  BY <1>5, <1>6
<1> DEFINE todo == <<z>> \o Rest(s)
<1>8. Continue(s, mine, todo) /\ IsSeq(todo)
  BY <1>3, <1>4, <1>6, OneBefore DEF SeizePosition
<1> HIDE DEF todo, mine
<1>9. PICK y : /\ Becomes(s, y) /\ UNCHANGED <<vars, tables>>
               /\ Shaped(y) /\ y.job = x.job /\ y.todo = todo /\ y.mine = mine
               /\ y.new = x.new /\ y.made = x.made /\ y.seized = x.seized
  BY <1>2, <1>3, <1>8, Continues
<1>10. Steps(x, y, <<z>>)
  BY <1>3, <1>7, <1>9, StepsOne DEF todo
<1>11. Seen(s, row) = View(x, row)
  BY <1>2, <1>3, SeenIsView
<1>12. \/ View(x, row) > 0 /\ Wrote(x, y, row, View(x, row))
       \/ y.mine = x.mine
  <2>1. CASE Seen(s, row) > 0
    <3>1. y.mine = With(s, row, View(x, row))
      BY <1>9, <1>11, <2>1 DEF mine, Seize
    <3> QED
      BY <1>2, <1>11, <2>1, <3>1, WithWrites
  <2>2. CASE ~(Seen(s, row) > 0)
    BY <1>2, <1>9, <2>2 DEF mine, Seize
  <2> QED
    BY <2>1, <2>2
<1>13. ASSUME PollerOK(x) PROVE Typed(y) /\ PollerOK(y)
  <2>1. Rows /\ z.ids \subseteq x.todo[1].ids /\ p \in x.todo[1].ids
    BY <1>3, <1>5, <1>7 DEF Inv
  <2>2. Settling(x) /\ Pockets(x)
    BY <1>13 DEF PollerOK
  <2>3. Typed(y) /\ Settling(y) /\ Pockets(y)
    BY <1>3, <1>7, <1>9, <1>10, <1>12, <2>1, <2>2, SettleSeizes
  <2>4. \A k \in DOMAIN <<z>> : <<z>>[k].do = "seize"
    BY <1>7, OneFacts
  <2> QED
    BY <1>3, <1>9, <1>10, <1>13, <2>3, <2>4, GoesOnSettling
<1>14. TxOK(s, y)
  BY <1>3, <1>9, <1>13, SettleOK
<1>15. Locked(s, y)
  BY <1>1, <1>2, <1>3, <1>9, <1>12, LocksOne, LocksNone
<1> QED
  BY <1>9, <1>14, <1>15, LocalStep

LEMMA LoopStep ==
  ASSUME TInv, NEW s \in Sessions, SeizedAll(s)
  PROVE  TInv'
<1>1. At(s, "seize")
  BY DEF SeizedAll
<1>2. PICK x : x = tx[s]
  OBVIOUS
<1>3. /\ Inv /\ Unopened /\ TxOK(s, x) /\ Shaped(x) /\ Typed(x) /\ Open(s)
      /\ 1 \in DOMAIN x.todo /\ x.todo # <<>> /\ IsSeq(Tail(x.todo))
      /\ This(s) = x.todo[1] /\ Rest(s) = Tail(x.todo) /\ x.todo[1].do = "seize"
  BY <1>1, <1>2, Sends
<1>4. PICK z : z = [do |-> "pay", ids |-> Decided(s)]
  OBVIOUS
<1>5. z.do = "pay" /\ {"do", "ids"} \subseteq DOMAIN z /\ z.ids = Decided(s)
  BY <1>4
<1>6. z.ids \subseteq Grip(x) /\ \A p \in z.ids : Ruled(x, p)
  <2>1. Seized(s) = Grip(x)
    BY <1>2, <1>3, SeenIsView DEF Seized, Grip
  <2> QED
    BY <1>2, <1>5, <2>1 DEF Decided, Ruled
<1> DEFINE todo == Each(z) \o Rest(s)
<1>7. Continue(s, x.mine, todo) /\ IsSeq(todo)
  BY <1>2, <1>3, <1>4, OneBefore DEF SeizedAll
<1> HIDE DEF todo
<1>8. PICK y : /\ Becomes(s, y) /\ UNCHANGED <<vars, tables>>
               /\ Shaped(y) /\ y.job = x.job /\ y.todo = todo /\ y.mine = x.mine
               /\ y.new = x.new /\ y.made = x.made /\ y.seized = x.seized
  BY <1>2, <1>3, <1>7, Continues
<1>9. Steps(x, y, Each(z))
  BY <1>3, <1>5, <1>8, StepsEach DEF todo
<1>10. ASSUME PollerOK(x) PROVE Typed(y) /\ PollerOK(y)
  <2>1. Settling(x) /\ Pockets(x)
    BY <1>10 DEF PollerOK
  <2>2. Typed(y) /\ Settling(y) /\ Pockets(y)
    BY <1>3, <1>5, <1>6, <1>8, <1>9, <2>1, SettleLoops
  <2>3. \A k \in DOMAIN Each(z) :
           /\ Each(z)[k].do = "pay"
           /\ \A p \in Each(z)[k].ids : Ruled(x, p)
    BY <1>5, <1>6, EachFacts
  <2> QED
    BY <1>3, <1>8, <1>9, <1>10, <2>2, <2>3, GoesOnSettling
<1>11. TxOK(s, y)
  BY <1>3, <1>8, <1>10, SettleOK
<1>12. Locked(s, y)
  BY <1>2, <1>3, <1>8, LocksNone
<1> QED
  BY <1>8, <1>11, <1>12, LocalStep

LEMMA RefundStep ==
  ASSUME TInv, NEW s \in Sessions, RefundSide(s)
  PROVE  TInv'
<1>1. At(s, "refund")
  BY DEF RefundSide
<1>2. PICK x : x = tx[s]
  OBVIOUS
<1>3. /\ Inv /\ Unopened /\ TxOK(s, x) /\ Shaped(x) /\ Typed(x) /\ Open(s)
      /\ 1 \in DOMAIN x.todo /\ x.todo # <<>> /\ IsSeq(Tail(x.todo))
      /\ This(s) = x.todo[1] /\ Rest(s) = Tail(x.todo) /\ x.todo[1].do = "refund"
  BY <1>1, <1>2, Sends
<1>4. PICK L : L = LiveOf(x.job.S, This(s).side)
  OBVIOUS
<1>5. PICK z : z = [do |-> "credit", ids |-> {c \in Refunds(L, x.job.S) : c[2] > 0}]
  OBVIOUS
<1>6. /\ z.do = "credit" /\ {"do", "ids"} \subseteq DOMAIN z
      /\ z.ids = {c \in Refunds(L, x.job.S) : c[2] > 0}
  BY <1>5
<1> DEFINE todo == Each(z) \o Rest(s)
<1>7. Continue(s, x.mine, todo) /\ IsSeq(todo)
  BY <1>2, <1>3, <1>4, <1>5, OneBefore DEF RefundSide
<1> HIDE DEF todo
<1>8. PICK y : /\ Becomes(s, y) /\ UNCHANGED <<vars, tables>>
               /\ Shaped(y) /\ y.job = x.job /\ y.todo = todo /\ y.mine = x.mine
               /\ y.new = x.new /\ y.made = x.made /\ y.seized = x.seized
  BY <1>2, <1>3, <1>7, Continues
<1>9. Steps(x, y, Each(z))
  BY <1>3, <1>6, <1>8, StepsEach DEF todo
<1>10. ASSUME PollerOK(x) PROVE Typed(y) /\ PollerOK(y)
  <2>1. Rows /\ Settling(x) /\ Pockets(x)
    BY <1>3, <1>10 DEF Inv, PollerOK
  <2>2. Typed(y) /\ Settling(y) /\ Pockets(y)
    BY <1>3, <1>6, <1>8, <1>9, <2>1, SettleRefunds
  <2>3. \A k \in DOMAIN Each(z) : Each(z)[k].do = "credit"
    BY <1>6, EachFacts
  <2> QED
    BY <1>3, <1>8, <1>9, <1>10, <2>2, <2>3, GoesOnSettling
<1>11. TxOK(s, y)
  BY <1>3, <1>8, <1>10, SettleOK
<1>12. Locked(s, y)
  BY <1>2, <1>3, <1>8, LocksNone
<1> QED
  BY <1>8, <1>11, <1>12, LocalStep

LEMMA CreditStep ==
  ASSUME TInv, NEW s \in Sessions, NEW c, CreditRow(s, c)
  PROVE  TInv'
<1> DEFINE row  == c[1]
           mine == With(s, row, Seen(s, row) + c[2])
<1>1. At(s, "credit") /\ c \in This(s).ids /\ Free(s, row)
  BY DEF CreditRow
<1>2. PICK x : x = tx[s]
  OBVIOUS
<1>3. /\ Inv /\ Unopened /\ TxOK(s, x) /\ Shaped(x) /\ Typed(x) /\ Open(s)
      /\ 1 \in DOMAIN x.todo /\ x.todo # <<>> /\ IsSeq(Tail(x.todo))
      /\ This(s) = x.todo[1] /\ Rest(s) = Tail(x.todo) /\ x.todo[1].do = "credit"
  BY <1>1, <1>2, Sends
<1>4. PICK b : b = This(s)
  OBVIOUS
<1>5. b.do = "credit" /\ {"do", "ids"} \subseteq DOMAIN b /\ b = x.todo[1] /\ c \in b.ids
  <2>1. TypedStatement(x.todo[1]) /\ b = x.todo[1]
    BY <1>3, <1>4 DEF Typed
  <2> QED
    BY <1>1, <1>3, <1>4, <2>1 DEF TypedStatement
<1>6. PICK z : /\ Without(b, c) = Each(z) /\ z.do = "credit"
               /\ z.ids = b.ids \ {c} /\ {"do", "ids"} \subseteq DOMAIN z
  BY <1>5, WithoutFacts
<1> DEFINE todo == Each(z) \o Rest(s)
<1>7. Continue(s, mine, todo) /\ IsSeq(todo)
  BY <1>3, <1>4, <1>6, OneBefore DEF CreditRow
<1> HIDE DEF todo, mine
<1>8. PICK y : /\ Becomes(s, y) /\ UNCHANGED <<vars, tables>>
               /\ Shaped(y) /\ y.job = x.job /\ y.todo = todo /\ y.mine = mine
               /\ y.new = x.new /\ y.made = x.made /\ y.seized = x.seized
  BY <1>2, <1>3, <1>7, Continues
<1>9. Steps(x, y, Each(z))
  BY <1>3, <1>6, <1>8, StepsEach DEF todo
<1>10. Seen(s, row) = View(x, row)
  BY <1>2, <1>3, SeenIsView
<1>11. Wrote(x, y, row, View(x, row) + c[2])
  BY <1>2, <1>8, <1>10, WithWrites DEF mine
<1>12. ASSUME PollerOK(x) PROVE Typed(y) /\ PollerOK(y)
  <2>1. Rows /\ z.ids = x.todo[1].ids \ {c} /\ c \in x.todo[1].ids
    BY <1>3, <1>5, <1>6 DEF Inv
  <2>2. Settling(x) /\ Pockets(x)
    BY <1>12 DEF PollerOK
  <2>3. Typed(y) /\ Settling(y) /\ Pockets(y)
    BY <1>3, <1>6, <1>8, <1>9, <1>11, <2>1, <2>2, SettleCredits
  <2>4. \A k \in DOMAIN Each(z) : Each(z)[k].do = "credit"
    BY <1>6, EachFacts
  <2> QED
    BY <1>3, <1>8, <1>9, <1>12, <2>3, <2>4, GoesOnSettling
<1>13. TxOK(s, y)
  BY <1>3, <1>8, <1>12, SettleOK
<1>14. Locked(s, y)
  BY <1>1, <1>2, <1>3, <1>11, LocksOne
<1> QED
  BY <1>8, <1>13, <1>14, LocalStep

LEMMA CloseStep ==
  ASSUME TInv, NEW s \in Sessions, CloseLive(s)
  PROVE  TInv'
<1>1. At(s, "close")
  BY DEF CloseLive
<1>2. PICK x : x = tx[s]
  OBVIOUS
<1>3. /\ Inv /\ Unopened /\ TxOK(s, x) /\ Shaped(x) /\ Typed(x) /\ Open(s)
      /\ 1 \in DOMAIN x.todo /\ x.todo # <<>> /\ IsSeq(Tail(x.todo))
      /\ This(s) = x.todo[1] /\ Rest(s) = Tail(x.todo) /\ x.todo[1].do = "close"
  BY <1>1, <1>2, Sends
<1>4. PICK ids : ids = {i \in Live : orders[i].token \in x.job.S}
  OBVIOUS
<1>5. PICK z : z = [do |-> "cancel", ids |-> ids, refund |-> FALSE]
  OBVIOUS
<1>6. /\ z.do = "cancel" /\ {"do", "ids", "refund"} \subseteq DOMAIN z
      /\ z.ids \subseteq DOMAIN orders
  BY <1>4, <1>5 DEF Live
<1>7. ~z.refund
  BY <1>5
<1> DEFINE todo == Each(z) \o Rest(s)
<1>8. Continue(s, x.mine, todo) /\ IsSeq(todo)
  BY <1>2, <1>3, <1>4, <1>5, OneBefore DEF CloseLive, CancelRows
<1> HIDE DEF todo
<1>9. PICK y : /\ Becomes(s, y) /\ UNCHANGED <<vars, tables>>
               /\ Shaped(y) /\ y.job = x.job /\ y.todo = todo /\ y.mine = x.mine
               /\ y.new = x.new /\ y.made = x.made /\ y.seized = x.seized
  BY <1>2, <1>3, <1>8, Continues
<1>10. Steps(x, y, Each(z))
  BY <1>3, <1>6, <1>9, StepsEach DEF todo
<1>11. ASSUME PollerOK(x) PROVE Typed(y) /\ PollerOK(y)
  <2>1. Settling(x) /\ Pockets(x)
    BY <1>11 DEF PollerOK
  <2>2. Typed(y) /\ Settling(y) /\ Pockets(y)
    BY <1>3, <1>6, <1>7, <1>9, <1>10, <2>1, SettleCloses
  <2>3. \A k \in DOMAIN Each(z) : Each(z)[k].do = "cancel"
    BY <1>6, EachFacts
  <2> QED
    BY <1>3, <1>9, <1>10, <1>11, <2>2, <2>3, GoesOnSettling
<1>12. TxOK(s, y)
  BY <1>3, <1>9, <1>11, SettleOK
<1>13. Locked(s, y)
  BY <1>2, <1>3, <1>9, LocksNone
<1> QED
  BY <1>9, <1>12, <1>13, LocalStep

\* What a statement that does more than write a row and go on leaves.
Leaves(x, mine, todo, new, made, seized) ==
    [job |-> x.job, todo |-> todo, mine |-> mine,
     new |-> new, made |-> made, seized |-> seized]

LEMMA LeavesFields ==
  ASSUME NEW x, NEW mine, NEW todo, NEW new, NEW made, NEW seized, NEW y,
         y = Leaves(x, mine, todo, new, made, seized)
  PROVE  /\ y.job = x.job /\ y.todo = todo /\ y.mine = mine
         /\ y.new = new /\ y.made = made /\ y.seized = seized
         /\ IsSeq(todo) => Shaped(y)
BY DEF Leaves, Shaped

LEMMA InsertLeaves ==
  ASSUME NEW s \in Sessions, tx = [q \in Sessions |-> tx[q]], NEW x, x = tx[s],
         Shaped(x), NEW new, NEW mine, NEW todo,
         tx' = [tx EXCEPT ![s].new = new, ![s].mine = mine, ![s].todo = todo]
  PROVE  Becomes(s, Leaves(x, mine, todo, new, x.made, x.seized))
<1>1. PICK a, b, c, d, e, f :
        x = [job |-> a, todo |-> b, mine |-> c, new |-> d, made |-> e, seized |-> f]
  BY DEF Shaped
<1> DEFINE z == [job |-> a, todo |-> b, mine |-> c, new |-> new, made |-> e, seized |-> f]
           v == [job |-> a, todo |-> b, mine |-> mine, new |-> new, made |-> e, seized |-> f]
           w == [job |-> a, todo |-> todo, mine |-> mine, new |-> new, made |-> e, seized |-> f]
<1>2. [x EXCEPT !.new = new] = z
  BY <1>1
<1>3. [z EXCEPT !.mine = mine] = v
  OBVIOUS
<1>4. [v EXCEPT !.todo = todo] = w
  OBVIOUS
<1>5. w = Leaves(x, mine, todo, new, x.made, x.seized)
  BY <1>1 DEF Leaves
<1> HIDE DEF z, v, w
<1>6. [[[x EXCEPT !.new = new] EXCEPT !.mine = mine] EXCEPT !.todo = todo] = w
  BY <1>2, <1>3, <1>4
<1>7. Becomes(s, w)
  BY <1>6 DEF Becomes
<1> QED
  BY <1>5, <1>7

LEMMA LockLeaves ==
  ASSUME NEW s \in Sessions, tx = [q \in Sessions |-> tx[q]], NEW x, x = tx[s],
         Shaped(x), NEW mine, NEW made, NEW todo,
         tx' = [tx EXCEPT ![s].mine = mine, ![s].made = made, ![s].todo = todo]
  PROVE  Becomes(s, Leaves(x, mine, todo, x.new, made, x.seized))
<1>1. PICK a, b, c, d, e, f :
        x = [job |-> a, todo |-> b, mine |-> c, new |-> d, made |-> e, seized |-> f]
  BY DEF Shaped
<1> DEFINE z == [job |-> a, todo |-> b, mine |-> mine, new |-> d, made |-> e, seized |-> f]
           v == [job |-> a, todo |-> b, mine |-> mine, new |-> d, made |-> made, seized |-> f]
           w == [job |-> a, todo |-> todo, mine |-> mine, new |-> d, made |-> made, seized |-> f]
<1>2. [x EXCEPT !.mine = mine] = z
  BY <1>1
<1>3. [z EXCEPT !.made = made] = v
  OBVIOUS
<1>4. [v EXCEPT !.todo = todo] = w
  OBVIOUS
<1>5. w = Leaves(x, mine, todo, x.new, made, x.seized)
  BY <1>1 DEF Leaves
<1> HIDE DEF z, v, w
<1>6. [[[x EXCEPT !.mine = mine] EXCEPT !.made = made] EXCEPT !.todo = todo] = w
  BY <1>2, <1>3, <1>4
<1>7. Becomes(s, w)
  BY <1>6 DEF Becomes
<1> QED
  BY <1>5, <1>7

\* What a payment leaves.
AfterPay(x, todo, seized) == [[x EXCEPT !.todo = todo] EXCEPT !.seized = seized]

LEMMA PayLeaves ==
  ASSUME NEW x, Shaped(x), NEW todo, NEW seized
  PROVE  AfterPay(x, todo, seized) = Leaves(x, x.mine, todo, x.new, x.made, seized)
<1>1. PICK a, b, c, d, e, f :
        x = [job |-> a, todo |-> b, mine |-> c, new |-> d, made |-> e, seized |-> f]
  BY DEF Shaped
<1> DEFINE z == [job |-> a, todo |-> todo, mine |-> c, new |-> d, made |-> e, seized |-> f]
           v == [job |-> a, todo |-> todo, mine |-> c, new |-> d, made |-> e, seized |-> seized]
<1>2. [x EXCEPT !.todo = todo] = z
  BY <1>1
<1>3. [z EXCEPT !.seized = seized] = v
  OBVIOUS
<1>4. v = Leaves(x, x.mine, todo, x.new, x.made, seized)
  BY <1>1 DEF Leaves
<1> HIDE DEF z, v
<1> QED
  BY <1>2, <1>3, <1>4 DEF AfterPay

LEMMA InsertStep ==
  ASSUME TInv, NEW s \in Sessions, Insert(s)
  PROVE  TInv'
<1>1. At(s, "insert")
  BY DEF Insert
<1>2. PICK x : x = tx[s]
  OBVIOUS
<1>3. /\ Inv /\ Unopened /\ TxOK(s, x) /\ Shaped(x) /\ Typed(x) /\ Open(s)
      /\ 1 \in DOMAIN x.todo /\ x.todo # <<>> /\ IsSeq(Tail(x.todo))
      /\ This(s) = x.todo[1] /\ Rest(s) = Tail(x.todo) /\ x.todo[1].do = "insert"
  BY <1>1, <1>2, Sends
<1> DEFINE o    == x.job.o
           mine == With(s, Key(o), o)
           todo == Rest(s)
<1>4. /\ Free(s, Key(o)) /\ ~Taken(o) /\ UNCHANGED <<vars, tables>>
      /\ tx' = [tx EXCEPT ![s].new = <<o>>, ![s].mine = mine, ![s].todo = todo]
  BY <1>2 DEF Insert, NewOrder
<1> HIDE DEF mine, todo
<1>5. PICK y : y = Leaves(x, mine, todo, <<o>>, x.made, x.seized)
  OBVIOUS
<1>6. /\ y.job = x.job /\ y.todo = todo /\ y.mine = mine
      /\ y.new = <<o>> /\ y.made = x.made /\ y.seized = x.seized /\ Shaped(y)
  BY <1>3, <1>5, LeavesFields DEF todo
<1>7. tx = [q \in Sessions |-> tx[q]]
  BY DEF TInv
<1>8. Becomes(s, y)
  BY <1>2, <1>3, <1>4, <1>5, <1>7, InsertLeaves
<1>9. Wrote(x, y, Key(o), o)
  BY <1>2, <1>6, WithWrites DEF mine
<1>10. Steps(x, y, <<>>)
  BY <1>3, <1>6, StepsEmpty DEF todo
<1>11. TxOK(s, y)
  BY <1>3, <1>4, <1>6, <1>9, <1>10, InsertOK
<1>12. Locked(s, y)
  BY <1>2, <1>3, <1>4, <1>9, LocksOne
<1>13. UNCHANGED <<vars, tables>>
  BY <1>4 DEF tables
<1> QED
  BY <1>8, <1>11, <1>12, <1>13, LocalStep

\* Statements of a fill are a sequence whatever the amounts are.
LEMMA FillStatementsSeq ==
  ASSUME NEW o, NEW fill
  PROVE  IsSeq(FillStatements(o, fill))
<1> DEFINE a == Add(Cash(o.user), FillCollateral(o, fill))
           b == Add(Shares(o.user, o.token), FillConditional(o, fill))
           c == <<[do |-> "position", o |-> o, n |-> fill.size]>>
<1>1. IsSeq(a) /\ IsSeq(b) /\ IsSeq(c)
  BY OneFacts DEF Add
<1> HIDE DEF a, b, c
<1>2. Joined(a, b, a \o b)
  BY <1>1, CatFacts
<1>3. IsSeq(a \o b)
  BY <1>2 DEF Joined
<1>4. Joined(a \o b, c, (a \o b) \o c)
  BY <1>1, <1>3, CatFacts
<1> QED
  BY <1>4 DEF Joined, FillStatements, a, b, c

LEMMA RefundStatementsSeq ==
  ASSUME NEW o, NEW size
  PROVE  IsSeq(RefundStatements(o, size))
<1> DEFINE a == Add(Cash(o.user), ReservedCollateral(o, size))
           b == Add(Shares(o.user, o.token), ReservedConditional(o, size))
<1>1. IsSeq(a) /\ IsSeq(b)
  BY OneFacts DEF Add
<1> HIDE DEF a, b
<1>2. Joined(a, b, a \o b)
  BY <1>1, CatFacts
<1> QED
  BY <1>2 DEF Joined, RefundStatements, a, b

LEMMA LockStep ==
  ASSUME TInv, NEW s \in Sessions, LockOrder(s)
  PROVE  TInv'
<1>1. At(s, "order")
  BY DEF LockOrder
<1>2. PICK x : x = tx[s]
  OBVIOUS
<1>3. /\ Inv /\ Unopened /\ TxOK(s, x) /\ Shaped(x) /\ Typed(x) /\ Open(s)
      /\ 1 \in DOMAIN x.todo /\ x.todo # <<>> /\ IsSeq(Tail(x.todo))
      /\ This(s) = x.todo[1] /\ Rest(s) = Tail(x.todo) /\ x.todo[1].do = "order"
  BY <1>1, <1>2, Sends
<1>4. PICK r : r = This(s).r
  OBVIOUS
<1>5. PICK o : o = Seen(s, OrderRow(r.id))
  OBVIOUS
<1>6. PICK fill : fill = Capped(o, This(s).found)
  OBVIOUS
<1>7. MatchedAfter(o, r, fill) = o.matched + fill.size
  BY DEF MatchedAfter
<1> DEFINE row  == OrderRow(r.id)
           mine == With(s, row, Filled(o, fill))
           made == <<TradeOf(r.id, o, fill, FillKey(o, r, fill))>>
           todo == FillStatements(o, fill)
<1>8. /\ Free(s, row) /\ Fillable(o) /\ UNCHANGED <<vars, tables>>
      /\ tx' = [tx EXCEPT ![s].mine = mine, ![s].made = made, ![s].todo = todo]
  BY <1>4, <1>5, <1>6, <1>7 DEF LockOrder, Filled
<1> HIDE DEF mine, made, todo
<1>9. PICK y : y = Leaves(x, mine, todo, x.new, made, x.seized)
  OBVIOUS
<1>10. /\ y.job = x.job /\ y.todo = todo /\ y.mine = mine
       /\ y.new = x.new /\ y.made = made /\ y.seized = x.seized /\ Shaped(y)
  BY <1>9, FillStatementsSeq, LeavesFields DEF todo
<1>11. tx = [q \in Sessions |-> tx[q]]
  BY DEF TInv
<1>12. Becomes(s, y)
  BY <1>2, <1>3, <1>8, <1>9, <1>11, LockLeaves
<1>13. Wrote(x, y, row, Filled(o, fill))
  BY <1>2, <1>10, WithWrites DEF mine
<1>14. o = View(x, row)
  BY <1>2, <1>3, <1>5, SeenIsView
<1>15. Locks(x, y, r, fill, o)
  BY <1>3, <1>4, <1>6, <1>8, <1>10, <1>13, <1>14 DEF Locks, made, todo
<1>16. TxOK(s, y)
  BY <1>3, <1>10, <1>15, LockOK
<1>17. Locked(s, y)
  BY <1>2, <1>3, <1>8, <1>13, LocksOne
<1>18. UNCHANGED <<vars, tables>>
  BY <1>8 DEF tables
<1> QED
  BY <1>12, <1>16, <1>17, <1>18, LocalStep

LEMMA CancelStep ==
  ASSUME TInv, NEW s \in Sessions, NEW i, CancelRow(s, i)
  PROVE  TInv'
<1>1. At(s, "cancel") /\ i \in This(s).ids
  BY DEF CancelRow
<1>2. PICK x : x = tx[s]
  OBVIOUS
<1>3. /\ Inv /\ Unopened /\ TxOK(s, x) /\ Shaped(x) /\ Typed(x) /\ Open(s)
      /\ 1 \in DOMAIN x.todo /\ x.todo # <<>> /\ IsSeq(Tail(x.todo))
      /\ This(s) = x.todo[1] /\ Rest(s) = Tail(x.todo) /\ x.todo[1].do = "cancel"
  BY <1>1, <1>2, Sends
<1> DEFINE row == OrderRow(i)
<1>4. PICK o : o = Seen(s, row)
  OBVIOUS
<1>5. o = View(x, row)
  BY <1>2, <1>3, <1>4, SeenIsView
<1> DEFINE mine == IF Fillable(o) THEN With(s, row, [o EXCEPT !.status = "CANCELED"])
                   ELSE x.mine
           more == RefundOf(x, o)
           todo == (Without(x.todo[1], i) \o Tail(x.todo)) \o more
<1>6. Free(s, row) /\ Continue(s, mine, todo)
  BY <1>2, <1>3, <1>4 DEF CancelRow, RefundOf
<1>7. IsSeq(todo)
  <2>1. IsSeq(more)
    BY RefundStatementsSeq, OneFacts DEF RefundOf
  <2>2. IsSeq(Without(x.todo[1], i) \o Tail(x.todo))
    BY <1>3, OneBefore DEF Without
  <2> DEFINE a == Without(x.todo[1], i) \o Tail(x.todo)
  <2> HIDE DEF a, more
  <2>3. Joined(a, more, a \o more)
    BY <2>1, <2>2, CatFacts DEF a
  <2> QED
    BY <2>3 DEF Joined, a
<1> HIDE DEF mine, todo
<1>8. PICK y : /\ Becomes(s, y) /\ UNCHANGED <<vars, tables>>
               /\ Shaped(y) /\ y.job = x.job /\ y.todo = todo /\ y.mine = mine
               /\ y.new = x.new /\ y.made = x.made /\ y.seized = x.seized
  BY <1>2, <1>3, <1>6, <1>7, Continues
<1>9. Fillable(o) => Wrote(x, y, row, [o EXCEPT !.status = "CANCELED"])
  <2>1. Fillable(o) => y.mine = With(s, row, [o EXCEPT !.status = "CANCELED"])
    BY <1>8 DEF mine
  <2> QED
    BY <1>2, <2>1, WithWrites
<1>10. ~Fillable(o) => y.mine = x.mine
  BY <1>8 DEF mine
<1>11. CloseRow(x, y, i)
  <2>1. i \in x.todo[1].ids
    BY <1>1, <1>3
  <2> QED
    BY <1>3, <1>5, <1>8, <1>9, <1>10, <2>1 DEF CloseRow, todo
<1>12. TxOK(s, y)
  BY <1>3, <1>8, <1>11, CancelOK
<1>13. Locked(s, y)
  <2>1. Fillable(o) => Locked(s, y)
    BY <1>2, <1>3, <1>6, <1>9, LocksOne
  <2>2. ~Fillable(o) => Locked(s, y)
    BY <1>2, <1>3, <1>10, LocksNone
  <2> QED
    BY <2>1, <2>2
<1> QED
  BY <1>8, <1>12, <1>13, LocalStep

\* What is paid for had been ruled on, and what is left to pay for, too.
LEMMA PayJudged ==
  ASSUME NEW x, NEW y, NEW p, NEW d, NEW n \in Nat, PaysOut(x, y, p, d, n),
         Judged(x), p \in Users \X Tokens, \A q \in x.todo[1].ids : Ruled(x, q)
  PROVE  Judged(y)
<1> USE DEF PaysOut
<1>1. PICK pre : pre = PayList(p[1], n, p[2], d)
  OBVIOUS
<1>2. /\ IsSeq(pre) /\ Numbers(pre)
      /\ \A k \in DOMAIN pre : pre[k].do \in {"add", "put"} \/ pre[k] = d
  <2>1. p[1] \in Users /\ p[2] \in Tokens
    OBVIOUS
  <2> QED
    BY <1>1, <2>1, PaySends DEF Numbers
<1>3. x.todo # <<>>
  BY SeqFacts DEF Shaped
<1>4. Steps(x, y, pre)
  BY <1>1, <1>2, <1>3, StepsTo
<1>5. \A k \in DOMAIN pre : /\ pre[k].do # "tokens"
                            /\ pre[k].do = "pay" => pre[k] = d
  BY <1>2
<1> QED
  BY <1>4, <1>5, JudgedGoesOn

LEMMA PayStep ==
  ASSUME TInv, NEW s \in Sessions, NEW p, Pay(s, p)
  PROVE  TInv'
<1>1. At(s, "pay") /\ p \in This(s).ids
  BY DEF Pay
<1>2. PICK x : x = tx[s]
  OBVIOUS
<1>3. /\ Inv /\ Unopened /\ TxOK(s, x) /\ Shaped(x) /\ Typed(x) /\ Open(s)
      /\ 1 \in DOMAIN x.todo /\ x.todo # <<>> /\ IsSeq(Tail(x.todo))
      /\ This(s) = x.todo[1] /\ Rest(s) = Tail(x.todo) /\ x.todo[1].do = "pay"
  BY <1>1, <1>2, Sends
<1>4. PICK c : c = This(s)
  OBVIOUS
<1>5. c.do = "pay" /\ {"do", "ids"} \subseteq DOMAIN c /\ c = x.todo[1] /\ p \in c.ids
  <2>1. TypedStatement(x.todo[1]) /\ c = x.todo[1]
    BY <1>3, <1>4 DEF Typed
  <2> QED
    BY <1>1, <1>3, <1>4, <2>1 DEF TypedStatement
<1>6. PICK d : /\ Without(c, p) = Each(d) /\ d.do = "pay"
               /\ d.ids = c.ids \ {p} /\ {"do", "ids"} \subseteq DOMAIN d
  BY <1>5, WithoutFacts
<1>7. s \in Pollers /\ PollerOK(x) /\ Settling(x) /\ Pockets(x) /\ Judged(x)
  <2>1. s \in Clients \/ s \in Workers \/ s \in Pollers
    BY DEF Sessions
  <2>2. s \notin Clients
    BY <1>3, ClientSends
  <2>3. s \notin Workers
    BY <1>3, WorkerSends
  <2> QED
    BY <1>3, <2>1, <2>2, <2>3, PollerSends
<1>8. p \in Users \X Tokens /\ Mine(x, Held(p[1], p[2]))
  <2>1. x.todo[1].ids \subseteq Grip(x)
    BY <1>3, <1>7 DEF Pockets, Coming
  <2> QED
    BY <1>5, <2>1 DEF Grip
<1> DEFINE has == x.mine[Held(p[1], p[2])]
<1>9. has \in Nat
  <2>1. Held(p[1], p[2]) \in WalletRows \cup HeldRows
    BY <1>8 DEF HeldRows
  <2> QED
    BY <1>3, <1>8, <2>1 DEF Typed
<1>10. PICK n \in Nat : n = has * ShareOut(s, p[2])
  <2>1. ShareOut(s, p[2]) \in Nat
    BY SessionsAssumption DEF ShareOut
  <2> HIDE DEF has
  <2>2. has * ShareOut(s, p[2]) \in Nat
    BY <1>9, <2>1
  <2> QED
    BY <2>2
<1> DEFINE todo == PayList(p[1], n, p[2], d) \o Tail(x.todo)
           seized == [q \in DOMAIN x.seized \cup {p} |->
                         IF q = p THEN has ELSE x.seized[q]]
<1>11. (PayStatements(s, p) \o Without(This(s), p)) \o Rest(s) = todo
  BY <1>2, <1>3, <1>4, <1>6, <1>10 DEF PayStatements, PayList, PayPut
<1>12. /\ UNCHANGED <<vars, tables>>
       /\ tx' = [tx EXCEPT ![s].todo = todo, ![s].seized = seized]
  BY <1>2, <1>11 DEF Pay
<1>13. IsSeq(todo)
  <2>1. IsSeq(Add(Cash(p[1]), n)) /\ IsSeq(PayPut(p[1], p[2])) /\ IsSeq(Each(d))
    BY OneFacts, TwoFacts, EachFacts DEF Add, PayPut
  <2> DEFINE a == Add(Cash(p[1]), n)
             b == PayPut(p[1], p[2])
             e == Each(d)
             z == Tail(x.todo)
  <2>2. IsSeq(a) /\ IsSeq(b) /\ IsSeq(e) /\ IsSeq(z)
    BY <1>3, <2>1
  <2>3. todo = ((a \o b) \o e) \o z
    BY DEF PayList
  <2> HIDE DEF a, b, e, z, todo
  <2>4. Joined(a, b, a \o b)
    BY <2>2, CatFacts
  <2>5. IsSeq(a \o b)
    BY <2>4 DEF Joined
  <2>6. Joined(a \o b, e, (a \o b) \o e)
    BY <2>2, <2>5, CatFacts
  <2>7. IsSeq((a \o b) \o e)
    BY <2>6 DEF Joined
  <2>8. Joined((a \o b) \o e, z, todo)
    BY <2>2, <2>3, <2>7, CatFacts
  <2> QED
    BY <2>8 DEF Joined
<1> HIDE DEF todo, seized
<1>14. PICK y : y = Leaves(x, x.mine, todo, x.new, x.made, seized)
  OBVIOUS
<1>15. /\ y.job = x.job /\ y.todo = todo /\ y.mine = x.mine
       /\ y.new = x.new /\ y.made = x.made /\ y.seized = seized /\ Shaped(y)
  BY <1>13, <1>14, LeavesFields
<1>16. AfterPay(x, todo, seized) = y
  BY <1>3, <1>14, PayLeaves
<1>17. Becomes(s, y)
  <2>1. tx = [q \in Sessions |-> tx[q]]
    BY DEF TInv
  <2> QED
    BY <1>2, <1>12, <1>16, <2>1 DEF Becomes, AfterPay
<1>18. /\ DOMAIN y.seized = DOMAIN x.seized \cup {p}
       /\ y.seized[p] = x.mine[Held(p[1], p[2])]
       /\ \A q \in DOMAIN x.seized : q # p => y.seized[q] = x.seized[q]
  BY <1>15 DEF seized
<1> HIDE DEF has
<1>19. Typed(y) /\ PollerOK(y)
  <2>1. /\ Rows /\ p \in x.todo[1].ids /\ d.ids = x.todo[1].ids \ {p}
        /\ y.todo = PayList(p[1], n, p[2], d) \o Tail(x.todo)
    BY <1>3, <1>5, <1>6, <1>15 DEF Inv, todo
  <2>2. /\ Shaped(x) /\ Typed(x) /\ 1 \in DOMAIN x.todo /\ x.todo[1].do = "pay"
        /\ d.do = "pay" /\ {"do", "ids"} \subseteq DOMAIN d
        /\ Shaped(y) /\ y.job = x.job /\ y.mine = x.mine
        /\ y.new = x.new /\ y.made = x.made
    BY <1>3, <1>6, <1>15
  <2>3. PaysOut(x, y, p, d, n)
    BY <1>7, <1>18, <2>1, <2>2 DEF PaysOut
  <2>4. Typed(y) /\ Settling(y) /\ Pockets(y)
    BY <1>10, <2>1, <2>3, SettlePays
  <2>5. \A q \in c.ids : Ruled(x, q)
    BY <1>3, <1>5, <1>7 DEF Judged, Coming
  <2>6. \A q \in x.todo[1].ids : Ruled(x, q)
    BY <1>5, <2>5
  <2>7. Judged(y)
    BY <1>7, <1>8, <1>10, <2>3, <2>6, PayJudged
  <2> QED
    BY <1>7, <1>15, <2>4, <2>7 DEF PollerOK
<1>20. TxOK(s, y)
  BY <1>3, <1>15, <1>19, SettleOK
<1>21. Locked(s, y)
  BY <1>2, <1>3, <1>15, LocksNone
<1>22. UNCHANGED <<vars, tables>>
  BY <1>12 DEF tables
<1> QED
  BY <1>17, <1>20, <1>21, <1>22, LocalStep

-----------------------------------------------------------------------------
(* How transactions begin.                                                 *)

LEMMA Begins ==
  ASSUME TInv, NEW s \in Sessions, NEW job, NEW todo, Begin(s, job, todo),
         IsSeq(todo)
  PROVE  \E y : /\ Becomes(s, y) /\ Fresh(y) /\ Locked(s, y)
                /\ y.job = job /\ y.todo = todo
<1>1. PICK y : y = [job |-> job, todo |-> todo, mine |-> <<>>, new |-> <<>>,
                    made |-> <<>>, seized |-> <<>>]
  OBVIOUS
<1>2. y.job = job /\ y.todo = todo /\ y.mine = <<>>
  BY <1>1
<1>3. Fresh(y)
  BY <1>1, <1>2 DEF Fresh
<1>4. tx = [q \in Sessions |-> tx[q]]
  BY DEF TInv
<1>5. Becomes(s, y)
  BY <1>1, <1>4 DEF Begin, Becomes
<1>6. Locked(s, y)
  BY <1>3, FreshFacts DEF Locked
<1> QED
  BY <1>2, <1>3, <1>5, <1>6

\* A transaction that has just begun is as it must be.
LEMMA FreshOK ==
  ASSUME NEW s \in Sessions, NEW y, Fresh(y), Typed(y),
         s \in Clients => ClientOK(y),
         s \in Workers => WorkerOK(s, y),
         s \in Pollers => PollerOK(y)
  PROVE  TxOK(s, y)
BY FreshFacts DEF TxOK

LEMMA KindsApart ==
  /\ \A s \in Clients : s \in Sessions /\ s \notin Workers /\ s \notin Pollers
  /\ \A s \in Workers : s \in Sessions /\ s \notin Clients /\ s \notin Pollers
  /\ \A s \in Pollers : s \in Sessions /\ s \notin Clients /\ s \notin Workers
BY SessionsAssumption DEF Sessions

LEMMA FillBegin ==
  ASSUME TInv, NEW w \in Workers, NEW r, NEW found, BeginFill(w, r, found)
  PROVE  TInv'
<1>1. w \in Sessions /\ w \notin Clients /\ w \notin Pollers
  BY KindsApart
<1>2. PICK job : job = [kind |-> "fill", r |-> r]
  OBVIOUS
<1>3. PICK todo : todo = <<[do |-> "order", r |-> r, found |-> found]>>
  OBVIOUS
<1>4. Begin(w, job, todo) /\ IsSeq(todo)
  BY <1>2, <1>3, OneFacts DEF BeginFill
<1>5. PICK y : Becomes(w, y) /\ Fresh(y) /\ Locked(w, y) /\ y.job = job /\ y.todo = todo
  BY <1>1, <1>4, Begins
<1>6. Matching(w, y, r) /\ Typed(y)
  <2>1. /\ Current(w, r)
        /\ found \in Fills(orders[r.id].side, orders[r.id].price,
                           orders[r.id].size - r.matched)
    BY DEF BeginFill
  <2> QED
    BY <1>3, <1>5, <2>1, MatchBegins
<1>7. y.job.kind = "fill" /\ y.job.r = r
  BY <1>2, <1>5
<1>8. TxOK(w, y)
  BY <1>1, <1>5, <1>6, <1>7, FreshOK DEF WorkerOK
<1>9. UNCHANGED <<vars, tables>>
  BY DEF BeginFill, tables
<1> QED
  BY <1>1, <1>5, <1>8, <1>9, LocalStep

LEMMA SettleBegin ==
  ASSUME TInv, NEW p \in Pollers, NEW m, BeginSettle(p, m)
  PROVE  TInv'
<1>1. p \in Sessions /\ p \notin Clients /\ p \notin Workers
  BY KindsApart
<1>2. PICK job : job = [kind |-> "settle", market |-> m, S |-> {}, won |-> {},
                        lost |-> {}]
  OBVIOUS
<1>3. PICK todo : todo = <<[do |-> "tokens"], [do |-> "positions"],
                           [do |-> "refund", side |-> "BUY"],
                           [do |-> "refund", side |-> "SELL"], [do |-> "close"]>>
  OBVIOUS
<1>4. Begin(p, job, todo) /\ IsSeq(todo)
  BY <1>2, <1>3, FiveFacts DEF BeginSettle
<1>5. PICK y : Becomes(p, y) /\ Fresh(y) /\ Locked(p, y) /\ y.job = job /\ y.todo = todo
  BY <1>1, <1>4, Begins
<1>6. Typed(y) /\ PollerOK(y)
  BY <1>2, <1>3, <1>5, SettleBegins
<1>7. TxOK(p, y)
  BY <1>1, <1>5, <1>6, FreshOK
<1>8. UNCHANGED <<vars, tables>>
  BY DEF BeginSettle
<1> QED
  BY <1>1, <1>5, <1>7, <1>8, LocalStep

LEMMA GoneBegin ==
  ASSUME TInv, NEW w \in Workers, NEW t \in Tokens, BeginGone(w, t)
  PROVE  TInv'
<1>1. w \in Sessions /\ w \notin Clients /\ w \notin Pollers
  BY KindsApart
<1>2. PICK job : job = [kind |-> "gone", t |-> t]
  OBVIOUS
<1>3. PICK ids : ids = {i \in Live : orders[i].token = t}
  OBVIOUS
<1>4. PICK todo : todo = CancelRows(ids, TRUE)
  OBVIOUS
<1>5. Begin(w, job, todo) /\ IsSeq(todo)
  BY <1>2, <1>3, <1>4, EachFacts DEF BeginGone, CancelRows
<1>6. PICK y : Becomes(w, y) /\ Fresh(y) /\ Locked(w, y) /\ y.job = job /\ y.todo = todo
  BY <1>1, <1>5, Begins
<1>7. Rows /\ Ticks /\ Len(orders) \in Nat /\ DOMAIN orders = 1..Len(orders)
  BY DEF TInv, Inv, Rows, AccountsTypeOK
<1> DEFINE A == OfToken(t, Len(orders))
<1>8. A = {i \in DOMAIN orders : orders[i].token = t}
  BY <1>7 DEF OfToken
<1>9. ids \subseteq DOMAIN orders /\ ids \cap Live \subseteq A /\ A \cap Live \subseteq ids
  BY <1>3, <1>8 DEF Live
<1> HIDE DEF A
<1>10. Cancelling(y) /\ Typed(y) /\ Aims(y, A)
  BY <1>4, <1>6, <1>7, <1>9, CancelBegins
<1>11. GoneAims(w, y, t)
  <2>1. \A r \in SnapshotOf(w, t) : r.id <= Len(orders)
    BY <1>7 DEF Ticks, SnapshotExists, SnapshotOf
  <2>2. book[w] = NoToken /\ t \in SnapshotTokens(w) \cap gone
    BY DEF BeginGone
  <2>3. Len(orders) \in 0..Len(orders)
    BY <1>7
  <2> QED
    BY <1>10, <2>1, <2>2, <2>3 DEF GoneAims, A
<1>12. y.job.kind = "gone" /\ y.job.t = t
  BY <1>2, <1>6
<1>13. TxOK(w, y)
  BY <1>1, <1>6, <1>10, <1>11, <1>12, FreshOK DEF WorkerOK
<1>14. UNCHANGED <<vars, tables>>
  BY DEF BeginGone, tables
<1> QED
  BY <1>1, <1>6, <1>13, <1>14, LocalStep

LEMMA CancelBegin ==
  ASSUME TInv, NEW c \in Clients, NEW ids, BeginCancel(c, ids),
         ids \subseteq DOMAIN orders, NEW A, ids \cap Live \subseteq A,
         A \cap Live \subseteq ids,
         \/ \E i \in DOMAIN orders : A = {i}
         \/ \E u \in Users, S \in Filters, n \in 0..Len(orders) : A = Chosen(u, S, n)
  PROVE  TInv'
<1>1. c \in Sessions /\ c \notin Workers /\ c \notin Pollers
  BY KindsApart
<1>2. PICK job : job = [kind |-> "cancel"]
  OBVIOUS
<1>3. PICK todo : todo = CancelRows(ids, TRUE)
  OBVIOUS
<1>4. Begin(c, job, todo) /\ IsSeq(todo)
  BY <1>2, <1>3, EachFacts DEF BeginCancel, CancelRows
<1>5. PICK y : Becomes(c, y) /\ Fresh(y) /\ Locked(c, y) /\ y.job = job /\ y.todo = todo
  BY <1>1, <1>4, Begins
<1>6. Rows
  BY DEF TInv, Inv
<1>7. Cancelling(y) /\ Typed(y) /\ Aims(y, A)
  BY <1>3, <1>5, <1>6, CancelBegins
<1>8. CancelAims(y)
  BY <1>7 DEF CancelAims
<1>9. y.job.kind = "cancel"
  BY <1>2, <1>5
<1>10. TxOK(c, y)
  BY <1>1, <1>5, <1>7, <1>8, <1>9, FreshOK DEF ClientOK
<1>11. UNCHANGED <<vars, tables>>
  BY DEF BeginCancel, tables
<1> QED
  BY <1>1, <1>5, <1>10, <1>11, LocalStep

LEMMA CancelRequest ==
  ASSUME TInv, NEW c \in Clients, TCancel(c)
  PROVE  TInv'
<1>1. Len(orders) \in Nat /\ DOMAIN orders = 1..Len(orders)
  BY DEF TInv, Inv, Rows, AccountsTypeOK
<1>2. ASSUME NEW i \in DOMAIN orders, BeginCancel(c, {i} \cap Live) PROVE TInv'
  <2> DEFINE ids == {i} \cap Live
             A   == {i}
  <2>1. ids \subseteq DOMAIN orders /\ ids \cap Live \subseteq A /\ A \cap Live \subseteq ids
    OBVIOUS
  <2>2. \E j \in DOMAIN orders : A = {j}
    OBVIOUS
  <2>3. BeginCancel(c, ids)
    BY <1>2
  <2> HIDE DEF ids, A
  <2> QED
    BY <2>1, <2>2, <2>3, CancelBegin
<1>3. ASSUME NEW u \in Users, NEW S \in Filters,
             BeginCancel(c, {i \in Live : orders[i].user = u /\ orders[i].token \in S})
      PROVE  TInv'
  <2> DEFINE ids == {i \in Live : orders[i].user = u /\ orders[i].token \in S}
             A   == Chosen(u, S, Len(orders))
  <2>1. A = {i \in DOMAIN orders : orders[i].user = u /\ orders[i].token \in S}
    BY <1>1 DEF Chosen
  <2>2. ids \subseteq DOMAIN orders /\ ids \cap Live \subseteq A /\ A \cap Live \subseteq ids
    BY <2>1 DEF Live
  <2>3. \E v \in Users, T \in Filters, n \in 0..Len(orders) : A = Chosen(v, T, n)
    <3>1. Len(orders) \in 0..Len(orders)
      BY <1>1
    <3> QED
      BY <3>1
  <2>4. BeginCancel(c, ids)
    BY <1>3
  <2> HIDE DEF ids, A
  <2> QED
    BY <2>2, <2>3, <2>4, CancelBegin
<1> QED
  BY <1>2, <1>3 DEF TCancel

LEMMA PlaceBegin ==
  ASSUME TInv, NEW c \in Clients, NEW u \in Users, NEW t \in Tokens,
         NEW side \in Sides, NEW type \in OrderTypes, NEW price \in Prices,
         NEW size \in Sizes, NEW salt \in Salts,
         NEW answer \in {NoFill} \cup Fills(side, price, size),
         BeginPlace(c, u, t, side, type, price, size, salt, answer)
  PROVE  TInv'
<1>1. c \in Sessions /\ c \notin Workers /\ c \notin Pollers
  BY KindsApart
<1>2. PICK init : init = InitialFill(type, size, answer)
  OBVIOUS
<1>3. PICK fill : fill = init.fill
  OBVIOUS
<1>4. PICK o : o = [user |-> u, token |-> t, side |-> side, type |-> type,
                    price |-> price, size |-> size, salt |-> salt,
                    matched |-> init.fill.size, status |-> init.status]
  OBVIOUS
<1>5. /\ o.user = u /\ o.token = t /\ o.side = side /\ o.type = type
      /\ o.size = size /\ o.status = init.status
  BY <1>4
<1>6. Requested(o, fill)
  <2>1. ~(type = "FOK" /\ init.status = "CANCELED")
    BY <1>2 DEF BeginPlace
  <2> QED
    BY <1>2, <1>3, <1>4, <2>1 DEF Requested
<1>7. PICK job : job = [kind |-> "place", o |-> o, fill |-> fill]
  OBVIOUS
<1>8. PICK a : a = [do |-> "take", row |-> ReservedIn(o), n |-> Reserved(o)]
  OBVIOUS
<1>9. PICK b : b = [do |-> "insert"]
  OBVIOUS
<1> DEFINE f == IF fill.size > 0 THEN FillStatements(o, fill) ELSE <<>>
           g == IF o.type = "FAK" /\ o.status = "CANCELED"
                THEN RefundStatements(o, Remaining(o)) ELSE <<>>
           todo == (<<a, b>> \o f) \o g
<1>10. Begin(c, job, todo) /\ UNCHANGED <<vars, tables>>
  <2>1. Reserved(o) = ReservedCollateral(o, size) + ReservedConditional(o, size)
    BY <1>5 DEF Reserved
  <2>2. ReservedIn(o) = IF side = "BUY" THEN Cash(u) ELSE Shares(u, t)
    BY <1>5 DEF ReservedIn
  <2>3. f = (IF init.fill.size > 0 THEN FillStatements(o, init.fill) ELSE <<>>)
    BY <1>3
  <2>4. g = (IF type = "FAK" /\ init.status = "CANCELED"
             THEN RefundStatements(o, Remaining(o)) ELSE <<>>)
    BY <1>5
  <2>5. job = [kind |-> "place", o |-> o, fill |-> init.fill]
    BY <1>3, <1>7
  <2>6. a = [do |-> "take", row |-> IF side = "BUY" THEN Cash(u) ELSE Shares(u, t),
             n |-> ReservedCollateral(o, size) + ReservedConditional(o, size)]
    BY <1>8, <2>1, <2>2
  <2> HIDE DEF f, g
  <2>7. /\ Begin(c, job, todo)
        /\ UNCHANGED <<vars, tables>>
    BY <1>2, <1>4, <1>9, <2>3, <2>4, <2>5, <2>6, ZenonT(30) DEF BeginPlace
  <2> QED
    BY <2>7
<1>11. IsSeq(todo)
  <2>1. IsSeq(f) /\ IsSeq(g) /\ IsSeq(<<a, b>>)
    BY OneFacts, TwoFacts, FillStatementsSeq, RefundStatementsSeq
  <2> DEFINE e == <<a, b>>
  <2> HIDE DEF e, f, g
  <2>2. Joined(e, f, e \o f)
    BY <2>1, CatFacts DEF e
  <2>3. IsSeq(e \o f)
    BY <2>2 DEF Joined
  <2>4. Joined(e \o f, g, (e \o f) \o g)
    BY <2>1, <2>3, CatFacts
  <2> QED
    BY <2>4 DEF Joined, e
<1> HIDE DEF todo
<1>12. PICK y : Becomes(c, y) /\ Fresh(y) /\ Locked(c, y) /\ y.job = job /\ y.todo = todo
  BY <1>1, <1>10, <1>11, Begins
<1> HIDE DEF f, g
<1>13. Places(y, o, fill) /\ Typed(y)
  <2>1. y.todo = (<<[do |-> "take", row |-> ReservedIn(o), n |-> Reserved(o)],
                    [do |-> "insert"]>> \o f) \o g
    BY <1>8, <1>9, <1>12 DEF todo
  <2>2. /\ f = (IF fill.size > 0 THEN FillStatements(o, fill) ELSE <<>>)
        /\ g = (IF o.type = "FAK" /\ o.status = "CANCELED"
                THEN RefundStatements(o, Remaining(o)) ELSE <<>>)
    BY DEF f, g
  <2> QED
    BY <1>6, <1>12, <2>1, <2>2, PlaceBegins
<1>14. y.job.kind = "place" /\ y.job.o = o /\ y.job.fill = fill
  BY <1>7, <1>12
<1>15. TxOK(c, y)
  BY <1>1, <1>12, <1>13, <1>14, FreshOK DEF ClientOK
<1>16. UNCHANGED <<vars, tables>>
  BY <1>10 DEF tables
<1> QED
  BY <1>1, <1>12, <1>15, <1>16, LocalStep

-----------------------------------------------------------------------------
(* Steps that touch no account: the worker's own, and rollbacks.           *)

LEMMA AccountsSame ==
  ASSUME Inv, UNCHANGED accounts, UNCHANGED opened
  PROVE  /\ \A x : Undisturbed(x)
         /\ \A w \in Workers : snapshot'[w] = snapshot[w] /\ book'[w] = book[w]
                               /\ gone \subseteq gone' => Steady(w)
<1>1. UNCHANGED <<collateral, conditional, position, orders, trades, funded>>
  BY DEF accounts
<1>2. SnapshotExists
  BY DEF Inv, Ticks
<1>3. ASSUME NEW x PROVE Undisturbed(x)
  <2>1. Live' = Live /\ \A o : Taken(o)' = Taken(o)
    BY <1>1 DEF Live, Taken
  <2> QED
    BY <1>1, <2>1 DEF Undisturbed
<1>4. ASSUME NEW w \in Workers, snapshot'[w] = snapshot[w], book'[w] = book[w],
             gone \subseteq gone'
      PROVE  Steady(w)
  <2>1. \A r \in snapshot[w] : r.id \in DOMAIN orders
    BY <1>2 DEF SnapshotExists
  <2> QED
    BY <1>4, <2>1 DEF Steady
<1> QED
  BY <1>3, <1>4

LEMMA QuietStep ==
  ASSUME TInv, Inv', UNCHANGED accounts, UNCHANGED tables,
         gone \subseteq gone', tx' = [q \in Sessions |-> tx'[q]],
         \A q \in Sessions : tx'[q] = NoTx \/ tx'[q] = tx[q],
         \A w \in Workers : tx'[w] # NoTx =>
             snapshot'[w] = snapshot[w] /\ book'[w] = book[w]
  PROVE  TInv'
<1>1. /\ Inv /\ Disjoint /\ Unopened /\ SignedOnce /\ SettledWereBought
      /\ opened \subseteq Users \X Tokens /\ settled \in [Users -> [Tokens -> Nat]]
      /\ paid \in [Users -> [Tokens -> Nat]]
      /\ \A q \in Sessions : Open(q) => TxOK(q, tx[q])
  BY DEF TInv
<1>2. UNCHANGED opened /\ UNCHANGED settled /\ UNCHANGED paid
  BY DEF tables
<1>3. /\ \A x : Undisturbed(x)
      /\ \A w \in Workers : snapshot'[w] = snapshot[w] /\ book'[w] = book[w]
                            /\ gone \subseteq gone' => Steady(w)
  BY <1>1, <1>2, AccountsSame
<1>4. Rows /\ Rows' /\ WorkerTypeOK
  BY <1>1 DEF Inv, Ticks
<1>5. \A q \in Sessions : Open(q)' => Open(q) /\ tx'[q] = tx[q]
  BY DEF Open
<1>6. ASSUME NEW q \in Sessions, Open(q)' PROVE TxOK(q, tx[q])'
  <2>1. PICK x : x = tx'[q]
    OBVIOUS
  <2>2. TxOK(q, x)
    BY <1>1, <1>5, <1>6, <2>1
  <2>3. q \in Workers => Steady(q)
    BY <1>3, <1>6 DEF Open
  <2>4. TxOK(q, x)'
    BY <1>3, <1>4, <2>2, <2>3, TxKept
  <2> QED
    BY <2>1, <2>4
<1>7. UNCHANGED <<collateral, conditional, position, orders, trades>>
  BY DEF accounts
<1>8. Unopened'
  BY <1>1, <1>2, <1>7 DEF Unopened
<1>9. SignedOnce'
  BY <1>1, <1>7 DEF SignedOnce
<1>10. SettledWereBought'
  BY <1>1, <1>2, <1>7 DEF SettledWereBought, Bought
<1>11. Disjoint'
  BY <1>1, <1>5 DEF Disjoint
<1>12. /\ opened' \subseteq Users \X Tokens /\ settled' \in [Users -> [Tokens -> Nat]]
      /\ paid' \in [Users -> [Tokens -> Nat]]
  BY <1>1, <1>2
<1> QED
  BY <1>6, <1>8, <1>9, <1>10, <1>11, <1>12 DEF TInv

LEMMA WorkerStep ==
  ASSUME TInv, NEW w \in Workers, ~Open(w),
         \/ TickStart(w) \/ TickAbort(w)
         \/ \E t \in Tokens : FetchBook(w, t) \/ FetchFails(w, t)
         \/ \E r \in snapshot[w] : SkipOrder(w, r),
         UNCHANGED <<tables, tx>>
  PROVE  TInv' /\ Next
<1>1. Tick(w)
  BY DEF Tick, Fetch, TakeOrder
<1>2. Next
  BY <1>1 DEF Next
<1>3. Inv'
  BY <1>2, InvNext DEF TInv
<1>4. UNCHANGED accounts /\ gone' = gone
  BY DEF TickStart, TickAbort, FetchBook, FetchFails, SkipOrder
<1>5. snapshot \in [Workers -> SUBSET [id : Nat \ {0}, matched : Nat]]
      /\ book \in [Workers -> Tokens \cup {NoToken}]
  BY DEF TInv, Inv, Ticks, WorkerTypeOK
<1>6. \A v \in Workers \ {w} : snapshot'[v] = snapshot[v] /\ book'[v] = book[v]
  BY <1>5 DEF TickStart, TickAbort, FetchBook, FetchFails, SkipOrder, Advance
<1>7. UNCHANGED tables /\ tx' = tx
  OBVIOUS
<1>8. tx' = [q \in Sessions |-> tx'[q]]
  BY <1>7 DEF TInv
<1>9. \A v \in Workers : tx'[v] # NoTx =>
             snapshot'[v] = snapshot[v] /\ book'[v] = book[v]
  BY <1>6, <1>7 DEF Open
<1>10. TInv'
  BY <1>3, <1>4, <1>7, <1>8, <1>9, QuietStep
<1> QED
  BY <1>2, <1>10

LEMMA CloseBookStep ==
  ASSUME TInv, NEW t \in Tokens, CloseBook(t), UNCHANGED <<tables, tx>>
  PROVE  TInv' /\ Next
<1>1. Next
  BY DEF Next
<1>2. Inv'
  BY <1>1, InvNext DEF TInv
<1>3. UNCHANGED accounts /\ gone \subseteq gone' /\ UNCHANGED <<snapshot, book>>
  BY DEF CloseBook, worker
<1>4. UNCHANGED tables /\ tx' = tx
  OBVIOUS
<1>5. tx' = [q \in Sessions |-> tx'[q]]
  BY <1>4 DEF TInv
<1>6. TInv'
  BY <1>2, <1>3, <1>4, <1>5, QuietStep
<1> QED
  BY <1>1, <1>6

\* What a worker does after its transaction, it also does without one.
LEMMA MovesOn ==
  ASSUME TInv, NEW s \in Sessions, Open(s), WorkerMovesOn(s), UNCHANGED gone
  PROVE  /\ UNCHANGED accounts => Next \/ UNCHANGED vars
         /\ s \notin Workers => UNCHANGED worker
         /\ \A v \in Workers \ {s} : snapshot'[v] = snapshot[v] /\ book'[v] = book[v]
<1>1. PICK x : x = tx[s]
  OBVIOUS
<1>2. TxOK(s, x)
  BY <1>1 DEF TInv
<1>3. /\ snapshot \in [Workers -> SUBSET [id : Nat \ {0}, matched : Nat]]
      /\ book \in [Workers -> Tokens \cup {NoToken}] /\ gone \subseteq Tokens
  BY DEF TInv, Inv, Ticks, WorkerTypeOK
<1>4. \/ x.job.kind = "fill" /\ Advance(s, x.job.r)
      \/ /\ x.job.kind = "gone"
         /\ snapshot' = [snapshot EXCEPT ![s] = @ \ SnapshotOf(s, x.job.t)]
         /\ UNCHANGED book
      \/ x.job.kind \notin {"fill", "gone"} /\ UNCHANGED worker
  BY <1>1 DEF WorkerMovesOn
<1>5. CASE s \in Workers
  <2>1. \/ x.job.kind = "fill" /\ Matching(s, x, x.job.r)
        \/ x.job.kind = "gone" /\ GoneAims(s, x, x.job.t)
    BY <1>2, <1>5 DEF TxOK, WorkerOK
  <2>2. CASE x.job.kind = "fill"
    <3>1. Advance(s, x.job.r) /\ Current(s, x.job.r)
      BY <1>4, <2>1, <2>2 DEF Matching
    <3>2. \A v \in Workers \ {s} : snapshot'[v] = snapshot[v] /\ book'[v] = book[v]
      BY <1>3, <3>1 DEF Advance
    <3>3. UNCHANGED accounts => SkipOrder(s, x.job.r)
      BY <3>1 DEF SkipOrder
    <3>4. x.job.r \in snapshot[s]
      BY <3>1 DEF Current
    <3>5. UNCHANGED accounts => Tick(s)
      BY <3>3, <3>4 DEF Tick, TakeOrder
    <3> QED
      BY <1>5, <3>2, <3>5 DEF Next
  <2>3. CASE x.job.kind = "gone"
    <3>1. /\ snapshot' = [snapshot EXCEPT ![s] = @ \ SnapshotOf(s, x.job.t)]
          /\ UNCHANGED book
      BY <1>4, <2>3
    <3>2. book[s] = NoToken /\ x.job.t \in SnapshotTokens(s) \cap gone
      BY <2>1, <2>3 DEF GoneAims
    <3>3. \A v \in Workers \ {s} : snapshot'[v] = snapshot[v] /\ book'[v] = book[v]
      BY <1>3, <3>1
    <3>4. UNCHANGED accounts => FetchFails(s, x.job.t)
      BY <3>1, <3>2 DEF FetchFails
    <3>5. UNCHANGED accounts => Tick(s)
      BY <1>3, <3>2, <3>4 DEF Tick, Fetch
    <3> QED
      BY <1>5, <3>3, <3>5 DEF Next
  <2> QED
    BY <2>1, <2>2, <2>3
<1>6. CASE s \notin Workers
  <2>1. x.job.kind \notin {"fill", "gone"}
    <3>1. s \in Clients \/ s \in Pollers
      BY <1>6 DEF Sessions
    <3>2. \/ x.job.kind = "place" \/ x.job.kind = "cancel" \/ x.job.kind = "settle"
      BY <1>2, <3>1 DEF TxOK, ClientOK, PollerOK
    <3> QED
      BY <3>2
  <2>2. UNCHANGED worker
    BY <1>4, <2>1
  <2> QED
    BY <1>6, <2>2 DEF vars, worker
<1> QED
  BY <1>5, <1>6

LEMMA RollbackStep ==
  ASSUME TInv, NEW s \in Sessions, Rollback(s)
  PROVE  TInv' /\ (Next \/ UNCHANGED vars)
<1>1. /\ Open(s) /\ WorkerMovesOn(s) /\ UNCHANGED accounts /\ UNCHANGED gone
      /\ UNCHANGED tables /\ tx' = [tx EXCEPT ![s] = NoTx]
  BY DEF Rollback, tables
<1>2. Next \/ UNCHANGED vars
  BY <1>1, MovesOn
<1>3. Inv'
  BY <1>2, InvNext DEF TInv
<1>4. \A v \in Workers \ {s} : snapshot'[v] = snapshot[v] /\ book'[v] = book[v]
  BY <1>1, MovesOn
<1>5. Becomes(s, NoTx)
  <2>1. tx = [q \in Sessions |-> tx[q]]
    BY DEF TInv
  <2> QED
    BY <1>1, <2>1 DEF Becomes
<1>6. /\ tx' = [q \in Sessions |-> tx'[q]]
      /\ tx'[s] = NoTx /\ \A q \in Sessions \ {s} : tx'[q] = tx[q]
  BY <1>5, BecomesTx
<1>7. \A q \in Sessions : tx'[q] = NoTx \/ tx'[q] = tx[q]
  BY <1>6
<1>8. \A v \in Workers : tx'[v] # NoTx => snapshot'[v] = snapshot[v] /\ book'[v] = book[v]
  BY <1>4, <1>6
<1>9. gone \subseteq gone'
  BY <1>1
<1>10. TInv'
  BY <1>1, <1>3, <1>6, <1>7, <1>8, <1>9, QuietStep
<1> QED
  BY <1>2, <1>10

-----------------------------------------------------------------------------
(* Commits.                                                                *)

\* A commit makes the rows of the transaction the rows of the tables.
Publishes(x) ==
    /\ collateral' = [u \in Users |-> View(x, Cash(u))]
    /\ conditional' = [u \in Users |-> [t \in Tokens |-> View(x, Shares(u, t))]]
    /\ position' = [u \in Users |-> [t \in Tokens |-> View(x, Held(u, t))]]
    /\ orders' = [i \in DOMAIN orders |-> View(x, OrderRow(i))] \o x.new
    /\ opened' = opened \cup Grip(x)
    /\ UNCHANGED <<funded, gone>>

\* Two versions of an order that agree in what it was placed with.
SameTerms(q, o) ==
    /\ q.user = o.user /\ q.token = o.token /\ q.side = o.side
    /\ q.price = o.price /\ q.size = o.size /\ q.salt = o.salt

\* What it may publish: orders that were LIVE and are the same but for their
\* state, positions whose tokens it holds, and an order nobody else can insert.
Owns(x) ==
    /\ \A i \in DOMAIN orders : Mine(x, OrderRow(i)) =>
          i \in Live /\ SameTerms(x.mine[OrderRow(i)], orders[i])
    /\ \A u \in Users, t \in Tokens :
          Mine(x, Held(u, t)) /\ <<u, t>> \notin opened => Mine(x, Shares(u, t))
    /\ \/ x.new = <<>>
       \/ \E o : x.new = <<o>> /\ Mine(x, Key(o)) /\ ~Taken(o)

LEMMA CommitPublishes ==
  ASSUME TInv, NEW s \in Sessions, Commit(s), NEW x, x = tx[s]
  PROVE  /\ Open(s) /\ TxOK(s, x) /\ Shaped(x) /\ Typed(x) /\ x.todo = <<>>
         /\ Publishes(x) /\ WorkerMovesOn(s) /\ Becomes(s, NoTx)
         /\ trades' = trades \o NewTrades(s)
         /\ settled' = [u \in Users |-> [t \in Tokens |->
                            settled[u][t] + SettledBy(s, u, t)]]
         /\ paid' = [u \in Users |-> [t \in Tokens |-> paid[u][t] + PaidBy(s, u, t)]]
<1>1. Open(s) /\ TxOK(s, x) /\ x.todo = <<>>
  BY DEF Commit, TInv
<1>2. Shaped(x) /\ Typed(x)
  BY <1>1 DEF TxOK
<1>3. /\ \A row : Seen(s, row) = View(x, row)
      /\ Seized(s) = Grip(x)
  BY <1>1, SeenIsView DEF Seized, Grip
<1>4. Publishes(x)
  <2>1. /\ collateral' = [u \in Users |-> Seen(s, Cash(u))]
        /\ conditional' = [u \in Users |-> [t \in Tokens |-> Seen(s, Shares(u, t))]]
        /\ position' = [u \in Users |-> [t \in Tokens |-> Seen(s, Held(u, t))]]
        /\ orders' = [i \in DOMAIN orders |-> Seen(s, OrderRow(i))] \o x.new
        /\ opened' = opened \cup Seized(s)
        /\ UNCHANGED <<funded, gone>>
    BY DEF Commit
  <2>2. collateral' = [u \in Users |-> View(x, Cash(u))]
    BY <1>3, <2>1
  <2>3. conditional' = [u \in Users |-> [t \in Tokens |-> View(x, Shares(u, t))]]
    BY <1>3, <2>1
  <2>4. position' = [u \in Users |-> [t \in Tokens |-> View(x, Held(u, t))]]
    BY <1>3, <2>1
  <2>5. [i \in DOMAIN orders |-> Seen(s, OrderRow(i))]
          = [i \in DOMAIN orders |-> View(x, OrderRow(i))]
    BY <1>3
  <2> QED
    BY <1>3, <2>1, <2>2, <2>3, <2>4, <2>5 DEF Publishes
<1>5. tx = [q \in Sessions |-> tx[q]]
  BY DEF TInv
<1>6. Becomes(s, NoTx)
  BY <1>5 DEF Commit, Becomes
<1> QED
  BY <1>1, <1>2, <1>4, <1>6 DEF Commit

\* With no statement left a wallet is what it was going to be.
LEMMA NothingPending ==
  ASSUME Rows, NEW x, Typed(x), x.todo = <<>>
  PROVE  /\ \A u \in Users : Outlook(x, Cash(u)) = View(x, Cash(u))
         /\ \A u \in Users, t \in Tokens : Outlook(x, Shares(u, t)) = View(x, Shares(u, t))
         /\ \A words : Coming(x, words) = {}
<1>1. \A row : Pending(x.todo, row) = 0
  BY PendingOne
<1>2. /\ \A u \in Users : View(x, Cash(u)) \in Nat
      /\ \A u \in Users, t \in Tokens : View(x, Shares(u, t)) \in Nat
  BY ViewNat
<1>3. \A words : Coming(x, words) = {}
  BY OneFacts DEF Coming
<1>4. ASSUME NEW u \in Users PROVE Outlook(x, Cash(u)) = View(x, Cash(u))
  <2>1. Outlook(x, Cash(u)) = View(x, Cash(u)) + 0
    BY <1>1 DEF Outlook
  <2> QED
    BY <1>2, <2>1
<1>5. ASSUME NEW u \in Users, NEW t \in Tokens
      PROVE  Outlook(x, Shares(u, t)) = View(x, Shares(u, t))
  <2>1. Outlook(x, Shares(u, t)) = View(x, Shares(u, t)) + 0
    BY <1>1 DEF Outlook
  <2> QED
    BY <1>2, <2>1
<1> QED
  BY <1>3, <1>4, <1>5

LEMMA FunSeq ==
  ASSUME NEW n \in Nat, NEW f, f = [i \in 1..n |-> f[i]]
  PROVE  IsSeq(f) /\ Len(f) = n /\ DOMAIN f = 1..n
<1> DEFINE S == {f[i] : i \in 1..n}
<1>1. f \in [1..n -> S] /\ DOMAIN f = 1..n
  OBVIOUS
<1> HIDE DEF S
<1>2. f \in Seq(S)
  BY <1>1
<1>3. Len(f) = n
  BY <1>1, <1>2
<1> QED
  BY <1>1, <1>2, <1>3, SeqOwn

LEMMA OrdersPublished ==
  ASSUME Rows, NEW x, Publishes(x), IsSeq(x.new)
  PROVE  /\ \A i \in DOMAIN orders : /\ i \in DOMAIN orders'
                                     /\ orders'[i] = View(x, OrderRow(i))
         /\ x.new = <<>> =>
               /\ DOMAIN orders' = DOMAIN orders
               /\ orders' = [i \in DOMAIN orders |-> View(x, OrderRow(i))]
         /\ \A o : x.new = <<o>> =>
               /\ DOMAIN orders' = DOMAIN orders \cup {Len(orders) + 1}
               /\ Len(orders) + 1 \notin DOMAIN orders
               /\ orders'[Len(orders) + 1] = o
<1> DEFINE n == Len(orders)
           f == [i \in DOMAIN orders |-> View(x, OrderRow(i))]
           g == x.new
<1>1. n \in Nat /\ DOMAIN orders = 1..n
  BY DEF Rows, AccountsTypeOK
<1>2. f = [i \in 1..n |-> f[i]]
  BY <1>1
<1>3. orders' = f \o g
  BY DEF Publishes
<1>4. \A i \in DOMAIN orders : f[i] = View(x, OrderRow(i))
  OBVIOUS
<1>5. IsSeq(g)
  OBVIOUS
<1> HIDE DEF f, g
<1>6. IsSeq(f) /\ Len(f) = n /\ DOMAIN f = 1..n
  BY <1>1, <1>2, FunSeq
<1>7. Joined(f, g, f \o g)
  BY <1>5, <1>6, CatFacts
<1>8. \A i \in DOMAIN orders : i \in DOMAIN orders' /\ orders'[i] = View(x, OrderRow(i))
  BY <1>1, <1>3, <1>4, <1>6, <1>7 DEF Joined
<1>9. ASSUME g = <<>> PROVE orders' = f
  BY <1>3, <1>6, <1>9, SeqFacts
<1>10. ASSUME NEW o, g = <<o>>
       PROVE  /\ DOMAIN orders' = DOMAIN orders \cup {n + 1}
              /\ n + 1 \notin DOMAIN orders /\ orders'[n + 1] = o
  <2>1. Len(g) = 1 /\ DOMAIN g = {1} /\ g[1] = o
    BY <1>10, OneFacts
  <2>2. IsSeq(orders') /\ Len(orders') = n + 1 /\ orders'[n + 1] = g[1]
    BY <1>3, <1>6, <1>7, <2>1 DEF Joined
  <2>3. DOMAIN orders' = 1..(n + 1)
    BY <2>2, SeqFacts
  <2> QED
    BY <1>1, <2>1, <2>2, <2>3
<1> QED
  BY <1>1, <1>6, <1>8, <1>9, <1>10 DEF f, g

\* Only the state of an order changes.
LEMMA ChangedState ==
  ASSUME NEW o \in Order
  PROVE  /\ SameTerms([o EXCEPT !.status = "CANCELED"], o)
         /\ \A fill : SameTerms(Filled(o, fill), o)
<1>1. SameTerms([o EXCEPT !.status = "CANCELED"], o)
  BY DEF Order, SameTerms
<1>2. ASSUME NEW fill PROVE SameTerms(Filled(o, fill), o)
  BY DEF Order, Filled, SameTerms
<1> QED
  BY <1>1, <1>2

LEMMA CommitOwns ==
  ASSUME Inv, NEW s \in Sessions, NEW x, TxOK(s, x), x.todo = <<>>
  PROVE  Owns(x) /\ IsSeq(x.new)
<1>1. Rows /\ WorkerTypeOK /\ SnapshotExists
  BY DEF Inv, Ticks
<1>2. \A words : Coming(x, words) = {}
  BY OneFacts DEF Coming
<1>3. ASSUME NEW o, NEW fill, Places(x, o, fill) PROVE Owns(x) /\ IsSeq(x.new)
  <2>1. x.new = <<o>> /\ Mine(x, Key(o)) /\ ~Taken(o)
    BY <1>2, <1>3 DEF Places, Inserts
  <2>2. \A i \in DOMAIN orders : ~Mine(x, OrderRow(i))
    BY <1>3 DEF Places
  <2>3. HeldIsOwn(x, o)
    BY <1>3 DEF Places, PositionComes
  <2>4. \A u \in Users, t \in Tokens :
          Mine(x, Held(u, t)) /\ <<u, t>> \notin opened => Mine(x, Shares(u, t))
    BY <2>3 DEF HeldIsOwn
  <2>5. IsSeq(x.new)
    BY <2>1, OneFacts
  <2> QED
    BY <2>1, <2>2, <2>4, <2>5 DEF Owns
<1>4. ASSUME Cancelling(x) PROVE Owns(x) /\ IsSeq(x.new)
  <2>1. x.new = <<>> /\ Closes(x) /\ \A row \in HeldRows : ~Mine(x, row)
    BY <1>4 DEF Cancelling
  <2>2. \A u \in Users, t \in Tokens : ~Mine(x, Held(u, t))
    BY <2>1 DEF HeldRows
  <2>3. ASSUME NEW i \in DOMAIN orders, Mine(x, OrderRow(i))
        PROVE  i \in Live /\ SameTerms(x.mine[OrderRow(i)], orders[i])
    <3>1. orders[i] \in Order
      BY <1>1, OrderFields DEF Rows
    <3>2. i \in Live /\ x.mine[OrderRow(i)] = [orders[i] EXCEPT !.status = "CANCELED"]
      BY <2>1, <2>3 DEF Closes, Closed
    <3> QED
      BY <3>1, <3>2, ChangedState
  <2>4. IsSeq(x.new)
    BY <2>1, OneFacts
  <2> QED
    BY <2>1, <2>2, <2>3, <2>4 DEF Owns
<1>5. ASSUME Settling(x) PROVE Owns(x) /\ IsSeq(x.new)
  <2>1. x.new = <<>> /\ Closes(x) /\ OnOpened(x)
    BY <1>5 DEF Settling
  <2>2. \A u \in Users, t \in Tokens : <<u, t>> \notin opened => ~Mine(x, Held(u, t))
    BY <2>1 DEF OnOpened
  <2>3. ASSUME NEW i \in DOMAIN orders, Mine(x, OrderRow(i))
        PROVE  i \in Live /\ SameTerms(x.mine[OrderRow(i)], orders[i])
    <3>1. orders[i] \in Order
      BY <1>1, OrderFields DEF Rows
    <3>2. i \in Live /\ x.mine[OrderRow(i)] = [orders[i] EXCEPT !.status = "CANCELED"]
      BY <2>1, <2>3 DEF Closes, Closed
    <3> QED
      BY <3>1, <3>2, ChangedState
  <2>4. IsSeq(x.new)
    BY <2>1, OneFacts
  <2> QED
    BY <2>1, <2>2, <2>3, <2>4 DEF Owns
<1>6. ASSUME NEW r, NEW w \in Workers, Matching(w, x, r) PROVE Owns(x) /\ IsSeq(x.new)
  <2>1. Current(w, r) /\ x.new = <<>> /\ FillGoesOn(x, r)
    <3>1. ~FillBegins(x, r)
      <4> SUFFICES ASSUME FillBegins(x, r) PROVE FALSE
        OBVIOUS
      <4>1. PICK a : x.todo = <<a>>
        BY DEF FillBegins
      <4> QED
        BY <4>1, OneFacts
    <3> QED
      BY <1>6, <3>1 DEF Matching
  <2>2. PICK fill : Matches(x, r.id, orders[r.id], fill) /\ r.id \in Live
    BY <1>1, <2>1, FillIs
  <2>3. ASSUME NEW i \in DOMAIN orders, Mine(x, OrderRow(i))
        PROVE  i \in Live /\ SameTerms(x.mine[OrderRow(i)], orders[i])
    <3>1. i = r.id
      BY <2>2, <2>3 DEF Matches
    <3>2. x.mine[OrderRow(r.id)] = Filled(orders[r.id], fill)
      BY <2>2 DEF Matches
    <3>3. orders[i] \in Order
      BY <1>1, OrderFields DEF Rows
    <3> QED
      BY <2>2, <3>1, <3>2, <3>3, ChangedState
  <2>4. HeldIsOwn(x, orders[r.id])
    BY <2>2 DEF Matches, PositionComes
  <2>5. \A u \in Users, t \in Tokens :
          Mine(x, Held(u, t)) /\ <<u, t>> \notin opened => Mine(x, Shares(u, t))
    BY <2>4 DEF HeldIsOwn
  <2>6. IsSeq(x.new)
    BY <2>1, OneFacts
  <2> QED
    BY <2>1, <2>3, <2>5, <2>6 DEF Owns
<1>7. s \in Clients \/ s \in Workers \/ s \in Pollers
  BY DEF Sessions
<1> QED
  BY <1>3, <1>4, <1>5, <1>6, <1>7 DEF TxOK, ClientOK, WorkerOK, PollerOK

\* What is published disturbs nobody who holds other rows.
LEMMA NoneDisturbed ==
  ASSUME Rows, NEW x, Publishes(x), Owns(x), IsSeq(x.new),
         NEW z, \A r : ~(Mine(x, r) /\ Mine(z, r))
  PROVE  Undisturbed(z)
<1>1. /\ \A i \in DOMAIN orders : /\ i \in DOMAIN orders'
                                  /\ orders'[i] = View(x, OrderRow(i))
      /\ x.new = <<>> => DOMAIN orders' = DOMAIN orders
      /\ \A o : x.new = <<o>> =>
               /\ DOMAIN orders' = DOMAIN orders \cup {Len(orders) + 1}
               /\ Len(orders) + 1 \notin DOMAIN orders
               /\ orders'[Len(orders) + 1] = o
  BY OrdersPublished
<1>2. \A i \in DOMAIN orders : ~Mine(x, OrderRow(i)) => orders'[i] = orders[i]
  BY <1>1, CommittedRows DEF View
<1>3. \A i \in DOMAIN orders : Mine(x, OrderRow(i)) => orders'[i] = x.mine[OrderRow(i)]
  BY <1>1 DEF View
<1>4. ASSUME NEW i \in DOMAIN orders
      PROVE  /\ i \in DOMAIN orders' /\ (i \in Live' => i \in Live)
             /\ orders'[i].user = orders[i].user /\ orders'[i].token = orders[i].token
             /\ orders'[i].side = orders[i].side /\ orders'[i].price = orders[i].price
             /\ orders'[i].size = orders[i].size /\ orders'[i].salt = orders[i].salt
             /\ Mine(z, OrderRow(i)) => orders'[i] = orders[i]
  <2>1. CASE Mine(x, OrderRow(i))
    BY <1>1, <1>3, <2>1 DEF Owns, SameTerms
  <2>2. CASE ~Mine(x, OrderRow(i))
    BY <1>1, <1>2, <2>2 DEF Live
  <2> QED
    BY <2>1, <2>2
<1>5. ASSUME NEW u \in Users, Mine(z, Cash(u)) PROVE collateral'[u] = collateral[u]
  BY <1>5, CommittedRows DEF Publishes, View
<1>6. ASSUME NEW u \in Users, NEW t \in Tokens
      PROVE  /\ Mine(z, Shares(u, t)) => conditional'[u][t] = conditional[u][t]
             /\ ~Mine(x, Held(u, t)) => position'[u][t] = position[u][t]
  <2>1. ~Mine(x, Shares(u, t)) => conditional'[u][t] = conditional[u][t]
    BY CommittedRows DEF Publishes, View
  <2>2. ~Mine(x, Held(u, t)) => position'[u][t] = position[u][t]
    BY CommittedRows DEF Publishes, View
  <2> QED
    BY <2>1, <2>2
<1>7. ASSUME NEW u \in Users, NEW t \in Tokens, <<u, t>> \notin opened,
             Mine(z, Shares(u, t))
      PROVE  <<u, t>> \notin opened' /\ position'[u][t] = position[u][t]
  <2>1. ~Mine(x, Held(u, t))
    BY <1>7 DEF Owns, SameTerms
  <2>2. <<u, t>> \notin Grip(x)
    BY <2>1 DEF Grip
  <2> QED
    BY <1>6, <1>7, <2>1, <2>2 DEF Publishes
<1>8. opened \subseteq opened'
  BY DEF Publishes
<1>9. ASSUME NEW o, Mine(z, Key(o)), ~Taken(o) PROVE ~Taken(o)'
  <2> SUFFICES ASSUME NEW i \in DOMAIN orders', orders'[i].user = o.user,
                      orders'[i].salt = o.salt
               PROVE  FALSE
    BY DEF Taken
  <2>1. i \notin DOMAIN orders
    BY <1>4, <1>9 DEF Taken
  <2>2. PICK q : x.new = <<q>> /\ Mine(x, Key(q))
    BY <1>1, <2>1 DEF Owns, SameTerms
  <2>3. orders'[i] = q
    BY <1>1, <2>1, <2>2
  <2>4. Key(q) = Key(o)
    BY <2>3 DEF Key
  <2> QED
    BY <1>9, <2>2, <2>4
<1> QED
  BY <1>4, <1>5, <1>6, <1>7, <1>8, <1>9 DEF Undisturbed

LEMMA SignedPublished ==
  ASSUME Rows, SignedOnce, NEW x, Publishes(x), Owns(x), IsSeq(x.new)
  PROVE  SignedOnce'
<1>1. /\ \A i \in DOMAIN orders : /\ i \in DOMAIN orders'
                                  /\ orders'[i] = View(x, OrderRow(i))
      /\ x.new = <<>> => DOMAIN orders' = DOMAIN orders
      /\ \A o : x.new = <<o>> =>
               /\ DOMAIN orders' = DOMAIN orders \cup {Len(orders) + 1}
               /\ Len(orders) + 1 \notin DOMAIN orders
               /\ orders'[Len(orders) + 1] = o
  BY OrdersPublished
<1>2. \A i \in DOMAIN orders :
        orders'[i].user = orders[i].user /\ orders'[i].salt = orders[i].salt
  BY <1>1, CommittedRows DEF View, Owns, SameTerms
<1>3. CASE x.new = <<>>
  BY <1>1, <1>2, <1>3 DEF SignedOnce
<1>4. CASE x.new # <<>>
  <2>1. PICK o : x.new = <<o>> /\ ~Taken(o)
    BY <1>4 DEF Owns, SameTerms
  <2>2. /\ DOMAIN orders' = DOMAIN orders \cup {Len(orders) + 1}
        /\ orders'[Len(orders) + 1] = o
    BY <1>1, <2>1
  <2>3. \A i \in DOMAIN orders : orders[i].user = o.user => orders[i].salt # o.salt
    BY <2>1 DEF Taken
  <2> QED
    BY <1>2, <2>2, <2>3 DEF SignedOnce
<1> QED
  BY <1>3, <1>4

\* Where no position is opened there are still no tokens, and none on offer.
StaysUnopened(x) ==
    \A u \in Users, t \in Tokens :
        <<u, t>> \notin opened /\ ~Mine(x, Held(u, t)) =>
            /\ View(x, Shares(u, t)) = 0
            /\ \A o : x.new = <<o>> /\ o.user = u /\ o.token = t => o.side # "SELL"

LEMMA UnopenedPublished ==
  ASSUME Rows, Unopened, NEW x, Publishes(x), Owns(x), IsSeq(x.new), StaysUnopened(x)
  PROVE  Unopened'
<1> SUFFICES ASSUME NEW u \in Users, NEW t \in Tokens, <<u, t>> \notin opened'
             PROVE  /\ conditional'[u][t] = 0 /\ position'[u][t] = 0
                    /\ \A i \in DOMAIN orders' :
                          orders'[i].user = u /\ orders'[i].token = t
                             => orders'[i].side # "SELL"
  BY DEF Unopened
<1>1. <<u, t>> \notin opened /\ ~Mine(x, Held(u, t))
  BY DEF Publishes, Grip
<1>2. conditional'[u][t] = 0
  BY <1>1 DEF StaysUnopened, Publishes
<1>3. position'[u][t] = 0
  <2>1. position'[u][t] = View(x, Held(u, t))
    BY DEF Publishes
  <2>2. View(x, Held(u, t)) = position[u][t]
    BY <1>1, CommittedRows DEF View
  <2> QED
    BY <1>1, <2>1, <2>2 DEF Unopened
<1>4. /\ \A i \in DOMAIN orders : /\ i \in DOMAIN orders'
                                  /\ orders'[i] = View(x, OrderRow(i))
      /\ x.new = <<>> => DOMAIN orders' = DOMAIN orders
      /\ \A o : x.new = <<o>> =>
               /\ DOMAIN orders' = DOMAIN orders \cup {Len(orders) + 1}
               /\ Len(orders) + 1 \notin DOMAIN orders
               /\ orders'[Len(orders) + 1] = o
  BY OrdersPublished
<1>5. \A i \in DOMAIN orders :
        /\ orders'[i].user = orders[i].user /\ orders'[i].token = orders[i].token
        /\ orders'[i].side = orders[i].side
  BY <1>4, CommittedRows DEF View, Owns, SameTerms
<1>6. \A i \in DOMAIN orders :
        orders[i].user = u /\ orders[i].token = t => orders[i].side # "SELL"
  BY <1>1 DEF Unopened
<1>7. ASSUME NEW i \in DOMAIN orders', orders'[i].user = u, orders'[i].token = t
      PROVE  orders'[i].side # "SELL"
  <2>1. CASE i \in DOMAIN orders
    BY <1>5, <1>6, <1>7, <2>1
  <2>2. CASE i \notin DOMAIN orders
    <3>1. PICK o : x.new = <<o>>
      BY <1>4, <2>2 DEF Owns, SameTerms
    <3>2. orders'[i] = o
      BY <1>4, <2>2, <3>1
    <3> QED
      BY <1>1, <1>7, <3>1, <3>2 DEF StaysUnopened
  <2> QED
    BY <2>1, <2>2
<1> QED
  BY <1>2, <1>3, <1>7

\* The wallets of a request or a fill.
LEMMA PaysPublished ==
  ASSUME Rows, NEW x, Typed(x), x.todo = <<>>, Publishes(x), NEW o, o.user \in Users,
         o.token \in Tokens, NEW money \in Int, NEW shares \in Int,
         Pays(x, o, money, shares)
  PROVE  /\ collateral' = [collateral EXCEPT ![o.user] = @ + money]
         /\ conditional' = [conditional EXCEPT ![o.user][o.token] = @ + shares]
         /\ \A u \in Users, t \in Tokens : View(x, Shares(u, t))
               = conditional[u][t] + IF u = o.user /\ t = o.token THEN shares ELSE 0
<1>1. /\ \A u \in Users : Outlook(x, Cash(u)) = View(x, Cash(u))
      /\ \A u \in Users, t \in Tokens : Outlook(x, Shares(u, t)) = View(x, Shares(u, t))
  BY NothingPending
<1>2. collateral \in [Users -> Nat] /\ conditional \in [Users -> [Tokens -> Nat]]
  BY DEF Rows, AccountsTypeOK
<1>3. \A u \in Users : View(x, Cash(u))
         = collateral[u] + IF u = o.user THEN money ELSE 0
  BY <1>1 DEF Pays
<1>4. \A u \in Users, t \in Tokens : View(x, Shares(u, t))
         = conditional[u][t] + IF u = o.user /\ t = o.token THEN shares ELSE 0
  BY <1>1 DEF Pays
<1>5. ASSUME NEW u \in Users
      PROVE  View(x, Cash(u)) = IF u = o.user THEN collateral[u] + money ELSE collateral[u]
  <2>1. collateral[u] \in Nat
    BY <1>2
  <2>2. collateral[u] + 0 = collateral[u]
    BY <2>1
  <2> QED
    BY <1>3, <2>2
<1>6. ASSUME NEW u \in Users, NEW t \in Tokens
      PROVE  View(x, Shares(u, t)) = IF u = o.user /\ t = o.token
                THEN conditional[u][t] + shares ELSE conditional[u][t]
  <2>1. conditional[u][t] \in Nat
    BY <1>2
  <2>2. conditional[u][t] + 0 = conditional[u][t]
    BY <2>1
  <2> QED
    BY <1>4, <2>2
<1>7. collateral' = [u \in Users |-> View(x, Cash(u))]
  BY DEF Publishes
<1>8. collateral' = [collateral EXCEPT ![o.user] = @ + money]
  BY <1>2, <1>5, <1>7
<1>9. conditional' = [u \in Users |-> [t \in Tokens |-> View(x, Shares(u, t))]]
  BY DEF Publishes
<1>10. conditional' = [conditional EXCEPT ![o.user][o.token] = @ + shares]
  <2>1. \A u \in Users : conditional'[u] = [t \in Tokens |->
            IF u = o.user /\ t = o.token
            THEN conditional[u][t] + shares ELSE conditional[u][t]]
    BY <1>6, <1>9
  <2>2. \A u \in Users : conditional[u] = [t \in Tokens |-> conditional[u][t]]
    BY <1>2
  <2>3. \A u \in Users \ {o.user} : conditional'[u] = conditional[u]
    BY <2>1, <2>2
  <2>4. conditional'[o.user] = [conditional[o.user] EXCEPT ![o.token] = @ + shares]
    BY <2>1, <2>2
  <2> QED
    BY <1>2, <1>9, <2>3, <2>4
<1> QED
  BY <1>4, <1>8, <1>10

\* The position of a request or a fill.
LEMMA PositionPublished ==
  ASSUME Rows, NEW x, x.todo = <<>>, Publishes(x), NEW o, o.user \in Users,
         o.token \in Tokens, NEW fill, fill.size \in Nat, PositionComes(x, o, fill)
  PROVE  /\ position' = [position EXCEPT ![o.user][o.token] =
                            PositionAfter(@, o.side, fill.size)]
         /\ fill.size > 0 => Mine(x, Held(o.user, o.token))
<1>1. \A words : Coming(x, words) = {}
  BY OneFacts DEF Coming
<1>2. position \in [Users -> [Tokens -> Nat]]
  BY DEF Rows, AccountsTypeOK
<1>3. /\ fill.size > 0 => Written(x, o, fill)
      /\ fill.size = 0 => ~Mine(x, Held(o.user, o.token))
  BY <1>1 DEF PositionComes, ToRead, ToWrite
<1> DEFINE n == PositionAfter(position[o.user][o.token], o.side, fill.size)
<1>4. View(x, Held(o.user, o.token)) = n
  <2>1. CASE fill.size > 0
    BY <1>3, <2>1 DEF Written, After, View
  <2>2. CASE fill.size = 0
    <3>1. position[o.user][o.token] \in Nat
      BY <1>2
    <3>2. n = position[o.user][o.token]
      BY <2>2, <3>1 DEF PositionAfter
    <3> QED
      BY <1>3, <2>2, <3>2, CommittedRows DEF View
  <2> QED
    BY <2>1, <2>2
<1>5. \A u \in Users, t \in Tokens :
        ~(u = o.user /\ t = o.token) => View(x, Held(u, t)) = position[u][t]
  BY CommittedRows DEF PositionComes, HeldIsOwn, View
<1>6. position' = [u \in Users |-> [t \in Tokens |-> View(x, Held(u, t))]]
  BY DEF Publishes
<1> HIDE DEF n
<1>7. \A u \in Users : position[u] = [t \in Tokens |-> position[u][t]]
  BY <1>2
<1>8. \A u \in Users \ {o.user} : position'[u] = position[u]
  BY <1>5, <1>6, <1>7
<1>9. position'[o.user] = [position[o.user] EXCEPT ![o.token] = n]
  BY <1>4, <1>5, <1>6, <1>7
<1>10. position' = [position EXCEPT ![o.user][o.token] = n]
  BY <1>2, <1>6, <1>8, <1>9
<1> QED
  BY <1>3, <1>10 DEF n, Written

LEMMA AppendOne ==
  ASSUME NEW S, NEW q \in Seq(S), NEW a
  PROVE  q \o <<a>> = Append(q, a) /\ q \o <<>> = q
<1> DEFINE T == S \cup {a}
<1>1. q \in Seq(T) /\ a \in T
  OBVIOUS
<1> HIDE DEF T
<1>2. q \o <<a>> = Append(q, a)
  BY <1>1
<1>3. q \o <<>> = q
  BY <1>1
<1> QED
  BY <1>2, <1>3

\* The amounts of an order request.
LEMMA RequestedAmounts ==
  ASSUME NEW o, NEW fill, Requested(o, fill)
  PROVE  /\ FillCollateral(o, fill) \in Nat /\ FillConditional(o, fill) \in Nat
         /\ ReservedCollateral(o, o.size) \in Nat
         /\ ReservedConditional(o, o.size) \in Nat
         /\ ReservedCollateral(o, Unfilled(o, fill)) \in Nat
         /\ ReservedConditional(o, Unfilled(o, fill)) \in Nat
<1>1. /\ o.price \in Nat \ {0} /\ o.size \in Nat \ {0}
      /\ fill.size \in Nat /\ fill.price \in Nat
      /\ o.side = "BUY" => fill.price <= o.price
      /\ Unfilled(o, fill) \in Nat
  BY RequestedFields
<1>2. FillCollateral(o, fill) \in Nat /\ FillConditional(o, fill) \in Nat
  BY <1>1, FillNat
<1>3. \A n \in Nat : ReservedCollateral(o, n) \in Nat /\ ReservedConditional(o, n) \in Nat
  BY <1>1, Product DEF ReservedCollateral, ReservedConditional
<1> QED
  BY <1>1, <1>2, <1>3

LEMMA PlaceCommits ==
  ASSUME Rows, Unopened, NEW x, Typed(x), x.todo = <<>>, Publishes(x),
         NEW o, NEW fill, Places(x, o, fill),
         trades' = trades \o (IF fill.size > 0
                              THEN <<TradeOf(Len(orders) + 1, o, fill, <<>>)>>
                              ELSE <<>>),
         UNCHANGED worker
  PROVE  Place /\ StaysUnopened(x)
<1>1. Requested(o, fill)
  BY DEF Places
<1>2. /\ o.user \in Users /\ o.token \in Tokens /\ o.side \in Sides
      /\ o.size \in Nat \ {0} /\ fill.size \in Nat /\ fill.size <= o.size
      /\ Unfilled(o, fill) \in Nat
  BY <1>1, RequestedFields
<1>3. \A words : Coming(x, words) = {}
  BY OneFacts DEF Coming
<1>4. x.new = <<o>> /\ ~Taken(o) /\ Affordable(o.user, o.token, o)
  BY <1>3 DEF Places, Inserts, Reserves
<1>5. \A i \in DOMAIN orders : ~Mine(x, OrderRow(i))
  BY DEF Places
<1>6. PositionComes(x, o, fill) /\ Pays(x, o, MoneyOf(o, fill), SharesOf(o, fill))
  BY DEF Places
<1>7. MoneyOf(o, fill) \in Int /\ SharesOf(o, fill) \in Int
  BY <1>1, ReservedInt
<1>8. /\ collateral' = [collateral EXCEPT ![o.user] = @ + MoneyOf(o, fill)]
      /\ conditional' = [conditional EXCEPT ![o.user][o.token] = @ + SharesOf(o, fill)]
      /\ \A u \in Users, t \in Tokens : View(x, Shares(u, t)) = conditional[u][t]
            + IF u = o.user /\ t = o.token THEN SharesOf(o, fill) ELSE 0
  <2> DEFINE m == MoneyOf(o, fill)
             n == SharesOf(o, fill)
  <2>1. m \in Int /\ n \in Int /\ Pays(x, o, m, n)
    BY <1>6, <1>7
  <2> HIDE DEF m, n
  <2>2. /\ collateral' = [collateral EXCEPT ![o.user] = @ + m]
        /\ conditional' = [conditional EXCEPT ![o.user][o.token] = @ + n]
        /\ \A u \in Users, t \in Tokens : View(x, Shares(u, t)) = conditional[u][t]
              + IF u = o.user /\ t = o.token THEN n ELSE 0
    BY <1>2, <2>1, PaysPublished
  <2> QED
    BY <2>2 DEF m, n
<1>9. /\ position' = [position EXCEPT ![o.user][o.token] =
                         PositionAfter(@, o.side, fill.size)]
      /\ fill.size > 0 => Mine(x, Held(o.user, o.token))
  BY <1>2, <1>6, PositionPublished
<1>10. orders' = Append(orders, o)
  <2>1. orders \in Seq(Order) /\ DOMAIN orders = 1..Len(orders) /\ Len(orders) \in Nat
    BY DEF Rows, AccountsTypeOK
  <2>2. [i \in DOMAIN orders |-> View(x, OrderRow(i))] = [i \in DOMAIN orders |-> orders[i]]
    BY <1>5, CommittedRows DEF View
  <2>3. [i \in DOMAIN orders |-> orders[i]] = orders
    BY <2>1
  <2>4. orders' = orders \o <<o>>
    BY <1>4, <2>2, <2>3 DEF Publishes
  <2> QED
    BY <2>1, <2>4, AppendOne
<1>11. trades' = IF fill.size > 0
                 THEN Append(trades, TradeOf(Len(orders) + 1, o, fill, <<>>))
                 ELSE trades
  <2>1. trades \in Seq(Trade)
    BY DEF Rows, AccountsTypeOK
  <2> QED
    BY <2>1, AppendOne
<1>12. StaysUnopened(x)
  <2> SUFFICES ASSUME NEW u \in Users, NEW t \in Tokens, <<u, t>> \notin opened,
                      ~Mine(x, Held(u, t))
               PROVE  /\ View(x, Shares(u, t)) = 0
                      /\ u = o.user /\ t = o.token => o.side # "SELL"
    BY <1>4 DEF StaysUnopened
  <2>1. conditional[u][t] = 0
    BY DEF Unopened
  <2>2. u = o.user /\ t = o.token => o.side # "SELL"
    BY <1>2, <1>4, <2>1 DEF Affordable, ReservedConditional
  <2>3. u = o.user /\ t = o.token => SharesOf(o, fill) = 0
    <3>1. u = o.user /\ t = o.token => fill.size = 0
      BY <1>2, <1>9
    <3> QED
      BY <2>2, <3>1 DEF SharesOf, FillConditional, ReservedConditional
  <2>4. View(x, Shares(u, t)) = 0
    BY <1>8, <2>1, <2>3
  <2> QED
    BY <2>2, <2>4
<1>13. PICK u \in Users, t \in Tokens, side \in Sides, type \in OrderTypes,
            price \in Prices, size \in Sizes, salt \in Salts :
         \E answer \in {NoFill} \cup Fills(side, price, size) :
            LET init == InitialFill(type, size, answer)
            IN  /\ fill = init.fill
                /\ o = [user |-> u, token |-> t, side |-> side, type |-> type,
                        price |-> price, size |-> size, salt |-> salt,
                        matched |-> init.fill.size, status |-> init.status]
                /\ ~(type = "FOK" /\ init.status = "CANCELED")
  BY <1>1 DEF Requested
<1>14. PICK answer \in {NoFill} \cup Fills(side, price, size) :
            LET init == InitialFill(type, size, answer)
            IN  /\ fill = init.fill
                /\ o = [user |-> u, token |-> t, side |-> side, type |-> type,
                        price |-> price, size |-> size, salt |-> salt,
                        matched |-> init.fill.size, status |-> init.status]
                /\ ~(type = "FOK" /\ init.status = "CANCELED")
  BY <1>13
<1>15. PICK init : init = InitialFill(type, size, answer)
  OBVIOUS
<1>16. /\ fill = init.fill /\ ~(type = "FOK" /\ init.status = "CANCELED")
       /\ o = [user |-> u, token |-> t, side |-> side, type |-> type,
               price |-> price, size |-> size, salt |-> salt,
               matched |-> fill.size, status |-> init.status]
  BY <1>14, <1>15
<1>17. /\ o.user = u /\ o.token = t /\ o.side = side /\ o.type = type
       /\ o.size = size /\ o.salt = salt /\ o.status = init.status
  BY <1>16
<1>18. PICK unfilled : unfilled = IF type = "FAK" /\ init.status = "CANCELED"
                                  THEN size - fill.size ELSE 0
  OBVIOUS
<1>19. unfilled = Unfilled(o, fill)
  BY <1>17, <1>18 DEF Unfilled
<1>20. \A i \in DOMAIN orders : orders[i].user = u => orders[i].salt # salt
  BY <1>4, <1>17 DEF Taken
<1>21. collateral' = [collateral EXCEPT ![u] =
                             @ - ReservedCollateral(o, size)
                               + FillCollateral(o, fill)
                               + ReservedCollateral(o, unfilled)]
  <2>1. PICK a, b, c : /\ a = ReservedCollateral(o, size)
                       /\ b = FillCollateral(o, fill)
                       /\ c = ReservedCollateral(o, unfilled)
    OBVIOUS
  <2>2. a \in Nat /\ b \in Nat /\ c \in Nat
    BY <1>1, <1>17, <1>19, <2>1, RequestedAmounts
  <2>3. MoneyOf(o, fill) = b + c - a
    BY <1>17, <1>19, <2>1 DEF MoneyOf
  <2>4. collateral[u] \in Nat
    BY DEF Rows, AccountsTypeOK
  <2>5. collateral[u] + (b + c - a) = collateral[u] - a + b + c
    BY <2>2, <2>4
  <2>6. collateral' = [collateral EXCEPT ![u] = collateral[u] - a + b + c]
    BY <1>8, <1>17, <2>3, <2>5
  <2> QED
    BY <2>1, <2>6
<1>22. conditional' = Credit(conditional, u, t,
                             FillConditional(o, fill)
                               + ReservedConditional(o, unfilled)
                               - ReservedConditional(o, size))
  BY <1>8, <1>17, <1>19 DEF SharesOf, Credit
<1>23. position' = [position EXCEPT ![u][t] = PositionAfter(@, side, fill.size)]
  BY <1>9, <1>17
<1>24. UNCHANGED <<funded, gone, worker>>
  BY DEF Publishes
<1>25. Affordable(u, t, o)
  BY <1>4, <1>17
<1>26. PlaceOrder(u, t, side, type, price, size, salt, answer)
  BY <1>10, <1>11, <1>15, <1>16, <1>18, <1>20, <1>21, <1>22, <1>23, <1>24, <1>25
     DEF PlaceOrder
<1>27. Place
  BY <1>26 DEF Place
<1> QED
  BY <1>12, <1>27

LEMMA FillCommits ==
  ASSUME Rows, WorkerTypeOK, SnapshotExists, Unopened, NEW s \in Workers, NEW x,
         Typed(x), x.todo = <<>>, Publishes(x), NEW r, Current(s, r), Advance(s, r),
         x.new = <<>>, FillGoesOn(x, r), trades' = trades \o x.made
  PROVE  Tick(s) /\ StaysUnopened(x)
<1>1. PICK i : i = r.id
  OBVIOUS
<1>2. r \in snapshot[s] /\ i \in DOMAIN orders /\ r.matched \in Nat
  BY <1>1 DEF Current, WorkerTypeOK, SnapshotExists
<1>3. PICK found \in Fills(orders[i].side, orders[i].price, orders[i].size - r.matched) :
        \E fill : /\ fill = Capped(orders[i], found)
                  /\ Matches(x, i, orders[i], fill)
                  /\ fill.size \in Nat \ {0} /\ i \in Live
  BY <1>1, FillIs
<1>4. PICK fill : /\ fill = Capped(orders[i], found)
                  /\ Matches(x, i, orders[i], fill)
                  /\ fill.size \in Nat \ {0} /\ i \in Live
  BY <1>3
<1>5. PICK o : o = orders[i]
  OBVIOUS
<1>6. /\ o \in Order /\ o.user \in Users /\ o.token \in Tokens /\ o.side \in Sides
      /\ o.price \in Nat /\ o.matched \in Nat
  BY <1>2, <1>5, OrderFields DEF Rows
<1>7. /\ fill.price \in Nat /\ (o.side = "BUY" => fill.price <= o.price)
  <2>1. PICK m : m = r.matched
    OBVIOUS
  <2>2. /\ m \in Nat /\ fill = Capped(orders[i], found)
        /\ found \in Fills(orders[i].side, orders[i].price, orders[i].size - m)
    BY <1>2, <1>3, <1>4, <2>1
  <2>3. fill.price \in Prices /\ (o.side = "BUY" => fill.price <= o.price)
    BY <1>4, <1>5, <2>2, CappedFill
  <2> QED
    BY <2>3, AmountsAssumption
<1>8. /\ Pays(x, o, FillCollateral(o, fill), FillConditional(o, fill))
      /\ PositionComes(x, o, fill) /\ o.status = "LIVE"
      /\ x.made = <<TradeOf(i, o, fill, <<i, o.matched + fill.size>>)>>
      /\ \A j \in DOMAIN orders : Mine(x, OrderRow(j)) <=> j = i
      /\ x.mine[OrderRow(i)] = Filled(o, fill)
  BY <1>4, <1>5 DEF Matches
<1>9. /\ collateral' = [collateral EXCEPT ![o.user] = @ + FillCollateral(o, fill)]
      /\ conditional' = [conditional EXCEPT ![o.user][o.token] =
                            @ + FillConditional(o, fill)]
      /\ \A u \in Users, t \in Tokens : View(x, Shares(u, t)) = conditional[u][t]
            + IF u = o.user /\ t = o.token THEN FillConditional(o, fill) ELSE 0
  <2> DEFINE m == FillCollateral(o, fill)
             n == FillConditional(o, fill)
  <2>1. m \in Nat /\ n \in Nat
    BY <1>4, <1>6, <1>7, FillNat
  <2>2. m \in Int /\ n \in Int /\ Pays(x, o, m, n)
    BY <1>8, <2>1
  <2> HIDE DEF m, n
  <2>3. /\ collateral' = [collateral EXCEPT ![o.user] = @ + m]
        /\ conditional' = [conditional EXCEPT ![o.user][o.token] = @ + n]
        /\ \A u \in Users, t \in Tokens : View(x, Shares(u, t)) = conditional[u][t]
              + IF u = o.user /\ t = o.token THEN n ELSE 0
    BY <1>6, <2>2, PaysPublished
  <2> QED
    BY <2>3 DEF m, n
<1>10. /\ position' = [position EXCEPT ![o.user][o.token] =
                          PositionAfter(@, o.side, fill.size)]
       /\ Mine(x, Held(o.user, o.token))
  <2>1. fill.size \in Nat /\ fill.size > 0
    BY <1>4
  <2> QED
    BY <1>6, <1>8, <2>1, PositionPublished
<1>11. PICK total : total = o.matched + fill.size
  OBVIOUS
<1>12. orders' = [orders EXCEPT ![i].matched = total,
                                ![i].status = IF total >= o.size
                                              THEN "MATCHED" ELSE "LIVE"]
  <2>1. orders' = [j \in DOMAIN orders |-> View(x, OrderRow(j))]
    <3>1. IsSeq(x.new)
      BY OneFacts
    <3> QED
      BY <3>1, OrdersPublished
  <2>2. orders \in Seq(Order) /\ orders = [j \in DOMAIN orders |-> orders[j]]
    BY DEF Rows, AccountsTypeOK
  <2>3. \A j \in DOMAIN orders : j # i => View(x, OrderRow(j)) = orders[j]
    BY <1>8, CommittedRows DEF View
  <2>4. View(x, OrderRow(i)) = [o EXCEPT !.matched = total,
                                    !.status = IF total >= o.size
                                               THEN "MATCHED" ELSE "LIVE"]
    BY <1>2, <1>8, <1>11 DEF View, Filled
  <2> QED
    BY <1>2, <1>5, <2>1, <2>2, <2>3, <2>4
<1>13. trades' = Append(trades, TradeOf(r.id, o, fill, FillKey(o, r, fill)))
  <2>1. trades \in Seq(Trade)
    BY DEF Rows, AccountsTypeOK
  <2>2. FillKey(o, r, fill) = <<i, o.matched + fill.size>>
    BY <1>1 DEF FillKey, MatchedAfter
  <2> QED
    BY <1>1, <1>8, <2>1, <2>2, AppendOne
<1>14. StaysUnopened(x)
  <2> SUFFICES ASSUME NEW u \in Users, NEW t \in Tokens, <<u, t>> \notin opened,
                      ~Mine(x, Held(u, t))
               PROVE  View(x, Shares(u, t)) = 0
    BY OneFacts DEF StaysUnopened
  <2>1. conditional[u][t] = 0
    BY DEF Unopened
  <2>2. ~(u = o.user /\ t = o.token)
    BY <1>10
  <2> QED
    BY <1>9, <2>1, <2>2
<1>15. ExecuteFill(s, r, found)
  <2>1. /\ o = orders[r.id] /\ fill = Capped(o, found)
        /\ total = MatchedAfter(o, r, fill)
    BY <1>1, <1>4, <1>5, <1>11 DEF MatchedAfter
  <2>2. found \in Fills(o.side, o.price, o.size - r.matched) /\ Fillable(o)
    BY <1>3, <1>5, <1>8 DEF Fillable
  <2>3. conditional' = Credit(conditional, o.user, o.token, FillConditional(o, fill))
    BY <1>9 DEF Credit
  <2>4. UNCHANGED <<funded, gone>>
    BY DEF Publishes
  <2> QED
    BY <1>1, <1>9, <1>10, <1>12, <1>13, <2>1, <2>2, <2>3, <2>4 DEF ExecuteFill
<1>16. TakeOrder(s)
  BY <1>1, <1>2, <1>3, <1>15 DEF TakeOrder
<1> QED
  BY <1>14, <1>16 DEF Tick

\* The orders that a transaction has closed.
LEMMA ClosesPublished ==
  ASSUME Rows, NEW x, x.new = <<>>, Publishes(x), Closes(x)
  PROVE  Cancels(Closed(x)) /\ Closed(x) \subseteq Live
<1>1. orders' = [i \in DOMAIN orders |-> View(x, OrderRow(i))]
  <2>1. IsSeq(x.new)
    BY OneFacts
  <2> QED
    BY <2>1, OrdersPublished
<1>2. \A i \in DOMAIN orders : View(x, OrderRow(i))
         = IF i \in Closed(x) THEN [orders[i] EXCEPT !.status = "CANCELED"] ELSE orders[i]
  BY CommittedRows DEF View, Closes, Closed
<1>3. Closed(x) \subseteq Live
  BY DEF Closes
<1> QED
  BY <1>1, <1>2, <1>3 DEF Cancels

LEMMA CancelCommits ==
  ASSUME Rows, Unopened, NEW x, Typed(x), x.todo = <<>>, Publishes(x), Cancelling(x),
         trades' = trades \o x.made
  PROVE  /\ CancelAndRefund(Closed(x)) /\ Closed(x) \subseteq Live
         /\ StaysUnopened(x)
<1>1. /\ x.new = <<>> /\ x.made = <<>> /\ Closes(x) /\ Refunding(x)
      /\ \A row \in HeldRows : ~Mine(x, row)
  BY DEF Cancelling
<1>2. Cancels(Closed(x)) /\ Closed(x) \subseteq Live
  BY <1>1, ClosesPublished
<1>3. /\ \A u \in Users : View(x, Cash(u)) = collateral[u] + HeldMoney(Closed(x), u)
      /\ \A u \in Users, t \in Tokens :
            View(x, Shares(u, t)) = conditional[u][t] + HeldTokens(Closed(x), u, t)
  BY <1>1, NothingPending DEF Refunding
<1>4. collateral' = [u \in Users |-> collateral[u] + HeldMoney(Closed(x), u)]
  BY <1>3 DEF Publishes
<1>5. conditional' = [u \in Users |-> [t \in Tokens |->
                          conditional[u][t] + HeldTokens(Closed(x), u, t)]]
  BY <1>3 DEF Publishes
<1>6. position' = position
  <2>1. \A u \in Users, t \in Tokens : View(x, Held(u, t)) = position[u][t]
    BY <1>1, CommittedRows DEF View, HeldRows
  <2>2. position' = [u \in Users |-> [t \in Tokens |-> position[u][t]]]
    BY <2>1 DEF Publishes
  <2> QED
    BY <2>2 DEF Rows, AccountsTypeOK
<1>7. trades' = trades
  <2>1. trades \in Seq(Trade)
    BY DEF Rows, AccountsTypeOK
  <2> QED
    BY <1>1, <2>1, AppendOne
<1>8. funded' = funded
  BY DEF Publishes
<1>9. StaysUnopened(x)
  <2> SUFFICES ASSUME NEW u \in Users, NEW t \in Tokens, <<u, t>> \notin opened
               PROVE  View(x, Shares(u, t)) = 0
    BY <1>1, OneFacts DEF StaysUnopened
  <2>1. conditional[u][t] = 0
    BY DEF Unopened
  <2>2. HeldTokens(Closed(x), u, t) = 0
    BY NothingOffered
  <2> QED
    BY <1>3, <2>1, <2>2
<1> QED
  BY <1>2, <1>4, <1>5, <1>6, <1>7, <1>8, <1>9 DEF CancelAndRefund

\* When no cancel statement is left, what was aimed at is closed.
LEMMA AimsReached ==
  ASSUME NEW x, x.todo = <<>>, NEW A, Aims(x, A), Closed(x) \subseteq Live
  PROVE  Closed(x) = A \cap Live
<1>1. \A words : Coming(x, words) = {}
  BY OneFacts DEF Coming
<1> QED
  BY <1>1 DEF Aims

LEMMA ClientCancels ==
  ASSUME Rows, Unopened, NEW x, Typed(x), x.todo = <<>>, Publishes(x), Cancelling(x),
         CancelAims(x), trades' = trades \o x.made, UNCHANGED worker
  PROVE  (Next \/ UNCHANGED vars) /\ StaysUnopened(x)
<1>1. PICK C : C = Closed(x)
  OBVIOUS
<1>2. /\ CancelAndRefund(C) /\ C \subseteq Live /\ StaysUnopened(x)
      /\ UNCHANGED <<gone, worker>>
  BY <1>1, CancelCommits DEF Publishes
<1>3. CASE \E i \in DOMAIN orders : Aims(x, {i})
  <2>1. PICK i \in DOMAIN orders : Aims(x, {i})
    BY <1>3
  <2>2. C = {i} \cap Live
    BY <1>1, <1>2, <2>1, AimsReached
  <2>3. orders[i].user \in Users
    BY OrderFields DEF Rows
  <2>4. CASE i \in Live
    <3>1. C = {i}
      BY <2>2, <2>4
    <3>2. CancelOrder(orders[i].user, i)
      BY <1>2, <2>4, <3>1 DEF CancelOrder
    <3>3. Cancel
      BY <2>3, <3>2 DEF Cancel
    <3> QED
      BY <1>2, <3>3 DEF Next
  <2>5. CASE i \notin Live
    <3>1. C = {}
      BY <2>2, <2>5
    <3>2. C = {j \in Live : j <= 0 /\ orders[j].user = orders[i].user
                               /\ orders[j].token \in Tokens}
      <4>1. \A j \in Live : ~(j <= 0)
        BY OrderFields DEF Rows, Live
      <4> QED
        BY <3>1, <4>1
    <3>3. 0 \in 0..Len(orders) /\ Tokens \in Filters
      BY DEF Rows, AccountsTypeOK, Filters
    <3>4. CancelOrdersByFilter(orders[i].user, Tokens)
      BY <1>2, <3>2, <3>3 DEF CancelOrdersByFilter
    <3>5. Cancel
      BY <2>3, <3>3, <3>4 DEF Cancel
    <3> QED
      BY <1>2, <3>5 DEF Next
  <2> QED
    BY <2>4, <2>5
<1>4. CASE \E u \in Users, S \in Filters, n \in 0..Len(orders) : Aims(x, Chosen(u, S, n))
  <2>1. PICK u \in Users, S \in Filters, n \in 0..Len(orders) : Aims(x, Chosen(u, S, n))
    BY <1>4
  <2>2. C = Chosen(u, S, n) \cap Live
    BY <1>1, <1>2, <2>1, AimsReached
  <2>3. C = {i \in Live : i <= n /\ orders[i].user = u /\ orders[i].token \in S}
    BY <2>2 DEF Chosen, Live
  <2>4. CancelOrdersByFilter(u, S)
    BY <1>2, <2>3 DEF CancelOrdersByFilter
  <2>5. Cancel
    BY <2>4 DEF Cancel
  <2> QED
    BY <1>2, <2>5 DEF Next
<1> QED
  BY <1>3, <1>4 DEF CancelAims

LEMMA WorkerCancels ==
  ASSUME Rows, Unopened, NEW x, Typed(x), x.todo = <<>>, Publishes(x), Cancelling(x),
         NEW s, NEW t, GoneAims(s, x, t), trades' = trades \o x.made,
         snapshot' = [snapshot EXCEPT ![s] = @ \ SnapshotOf(s, t)], book' = book,
         gone \subseteq Tokens
  PROVE  Tick(s) /\ StaysUnopened(x)
<1>1. PICK C : C = Closed(x)
  OBVIOUS
<1>2. /\ CancelAndRefund(C) /\ C \subseteq Live /\ StaysUnopened(x)
      /\ UNCHANGED <<gone, book>>
  BY <1>1, CancelCommits DEF Publishes
<1>3. book[s] = NoToken /\ t \in SnapshotTokens(s) \cap gone
  BY DEF GoneAims
<1>4. PICK n \in 0..Len(orders) :
        (\A r \in SnapshotOf(s, t) : r.id <= n) /\ Aims(x, OfToken(t, n))
  BY DEF GoneAims
<1>5. C = OfToken(t, n) \cap Live
  BY <1>1, <1>2, <1>4, AimsReached
<1>6. C = {i \in Live : i <= n /\ orders[i].token = t}
  BY <1>5 DEF OfToken, Live
<1>7. CancelAndRefund({i \in Live : i <= n /\ orders[i].token = t})
  BY <1>2, <1>6
<1>8. FetchNotFound(s, t)
  BY <1>2, <1>3, <1>4, <1>7 DEF FetchNotFound
<1>9. t \in Tokens
  BY <1>3
<1> QED
  BY <1>2, <1>8, <1>9 DEF Tick, Fetch

\* The transactions of requests and workers commit what Ledger does at once.
LEMMA ClerkCommits ==
  ASSUME TInv, NEW s \in Clerks, Commit(s), NEW x, x = tx[s]
  PROVE  (Next \/ UNCHANGED vars) /\ StaysUnopened(x)
<1>1. s \in Sessions /\ s \notin Pollers
  BY SessionsAssumption DEF Clerks, Sessions
<1>2. /\ Open(s) /\ TxOK(s, x) /\ Shaped(x) /\ Typed(x) /\ x.todo = <<>>
      /\ Publishes(x) /\ WorkerMovesOn(s) /\ trades' = trades \o NewTrades(s)
  BY <1>1, CommitPublishes
<1>3. /\ Rows /\ Unopened /\ Inv /\ WorkerTypeOK /\ SnapshotExists /\ gone \subseteq Tokens
  BY DEF TInv, Inv, Ticks, WorkerTypeOK
<1>4. NewTrades(s) = IF x.new # <<>> /\ x.job.fill.size > 0
                     THEN <<TradeOf(Len(orders) + 1, x.new[1], x.job.fill, <<>>)>>
                     ELSE x.made
  BY DEF NewTrades
<1>5. \/ x.job.kind = "fill" /\ Advance(s, x.job.r)
      \/ /\ x.job.kind = "gone"
         /\ snapshot' = [snapshot EXCEPT ![s] = @ \ SnapshotOf(s, x.job.t)]
         /\ UNCHANGED book
      \/ x.job.kind \notin {"fill", "gone"} /\ UNCHANGED worker
  BY <1>2 DEF WorkerMovesOn
<1>6. CASE s \in Clients
  <2>1. \/ x.job.kind = "place" /\ Places(x, x.job.o, x.job.fill)
        \/ x.job.kind = "cancel" /\ Cancelling(x) /\ CancelAims(x)
    BY <1>2, <1>6 DEF TxOK, ClientOK
  <2>2. UNCHANGED worker
    BY <1>5, <2>1
  <2>3. CASE x.job.kind = "place"
    <3>1. PICK o, fill : o = x.job.o /\ fill = x.job.fill
      OBVIOUS
    <3>2. Places(x, o, fill)
      BY <2>1, <2>3, <3>1
    <3>3. x.new = <<o>> /\ x.made = <<>>
      BY <1>2, <3>2, OneFacts DEF Places, Inserts, Coming
    <3>4. x.new # <<>> /\ x.new[1] = o
      BY <3>3, OneFacts
    <3>5. NewTrades(s) = IF fill.size > 0
                         THEN <<TradeOf(Len(orders) + 1, o, fill, <<>>)>> ELSE <<>>
      BY <1>4, <3>1, <3>3, <3>4
    <3>6. trades' = trades \o (IF fill.size > 0
                               THEN <<TradeOf(Len(orders) + 1, o, fill, <<>>)>>
                               ELSE <<>>)
      BY <1>2, <3>5
    <3>7. Place /\ StaysUnopened(x)
      BY <1>2, <1>3, <2>2, <3>2, <3>6, PlaceCommits
    <3> QED
      BY <3>7 DEF Next
  <2>4. CASE x.job.kind = "cancel"
    <3>1. Cancelling(x) /\ CancelAims(x)
      BY <2>1, <2>4
    <3>2. NewTrades(s) = x.made
      BY <1>4, <3>1 DEF Cancelling
    <3>3. trades' = trades \o x.made
      BY <1>2, <3>2
    <3> QED
      BY <1>2, <1>3, <2>2, <3>1, <3>3, ClientCancels
  <2> QED
    BY <2>1, <2>3, <2>4
<1>7. CASE s \in Workers
  <2>1. \/ x.job.kind = "fill" /\ Matching(s, x, x.job.r)
        \/ x.job.kind = "gone" /\ Cancelling(x) /\ GoneAims(s, x, x.job.t)
    BY <1>2, <1>7 DEF TxOK, WorkerOK
  <2>2. CASE x.job.kind = "fill"
    <3>1. PICK r : r = x.job.r
      OBVIOUS
    <3>2. Matching(s, x, r) /\ Advance(s, r)
      BY <1>5, <2>1, <2>2, <3>1
    <3>3. ~FillBegins(x, r)
      <4> SUFFICES ASSUME FillBegins(x, r) PROVE FALSE
        OBVIOUS
      <4>1. PICK a : x.todo = <<a>>
        BY DEF FillBegins
      <4> QED
        BY <1>2, <4>1, OneFacts
    <3>4. Current(s, r) /\ x.new = <<>> /\ FillGoesOn(x, r)
      BY <3>2, <3>3 DEF Matching
    <3>5. trades' = trades \o x.made
      BY <1>2, <1>4, <3>4
    <3>6. Tick(s) /\ StaysUnopened(x)
      BY <1>2, <1>3, <1>7, <3>2, <3>4, <3>5, FillCommits
    <3> QED
      BY <1>7, <3>6 DEF Next
  <2>3. CASE x.job.kind = "gone"
    <3>1. PICK t : t = x.job.t
      OBVIOUS
    <3>2. /\ Cancelling(x) /\ GoneAims(s, x, t)
          /\ snapshot' = [snapshot EXCEPT ![s] = @ \ SnapshotOf(s, t)]
          /\ book' = book
      BY <1>5, <2>1, <2>3, <3>1
    <3>3. NewTrades(s) = x.made
      BY <1>4, <3>2 DEF Cancelling
    <3>4. trades' = trades \o x.made
      BY <1>2, <3>3
    <3>5. Tick(s) /\ StaysUnopened(x)
      BY <1>2, <1>3, <3>2, <3>4, WorkerCancels
    <3> QED
      BY <1>7, <3>5 DEF Next
  <2> QED
    BY <2>1, <2>2, <2>3
<1> QED
  BY <1>6, <1>7 DEF Clerks

\* A settlement commits no step of Ledger, but the tables keep their types.
LEMMA SettleCommits ==
  ASSUME Inv, Unopened, NEW x, Typed(x), x.todo = <<>>, Publishes(x), Settling(x),
         trades' = trades \o x.made, UNCHANGED worker
  PROVE  Inv' /\ StaysUnopened(x) /\ trades' = trades
<1>1. Rows /\ Ticks
  BY DEF Inv
<1>2. x.new = <<>> /\ x.made = <<>> /\ Closes(x) /\ OnOpened(x)
  BY DEF Settling
<1>3. Cancels(Closed(x)) /\ Closed(x) \subseteq Live
  BY <1>1, <1>2, ClosesPublished
<1>4. /\ orders' \in Seq(Order) /\ DOMAIN orders' = DOMAIN orders
      /\ MatchedFits' /\ StatusFollowsType'
  BY <1>1, <1>3, CancelOrders
<1>5. trades' = trades /\ trades \in Seq(Trade)
  <2>1. trades \in Seq(Trade)
    BY <1>1 DEF Rows, AccountsTypeOK
  <2> QED
    BY <1>2, <2>1, AppendOne
<1>6. /\ \A u \in Users : View(x, Cash(u)) \in Nat
      /\ \A u \in Users, t \in Tokens :
            View(x, Shares(u, t)) \in Nat /\ View(x, Held(u, t)) \in Nat
  BY <1>1, ViewNat
<1>7. collateral' \in [Users -> Nat]
  BY <1>6 DEF Publishes
<1>8. conditional' \in [Users -> [Tokens -> Nat]]
  BY <1>6 DEF Publishes
<1>9. position' \in [Users -> [Tokens -> Nat]]
  BY <1>6 DEF Publishes
<1>10. funded' \in [Users -> Int] /\ gone' = gone
  BY <1>1 DEF Publishes, Rows, AccountsTypeOK
<1>11. Rows'
  BY <1>4, <1>5, <1>7, <1>8, <1>9, <1>10 DEF Rows, AccountsTypeOK
<1>12. Ticks'
  BY <1>1, <1>4, <1>10, SameTicks
<1>13. StaysUnopened(x)
  <2> SUFFICES ASSUME NEW u \in Users, NEW t \in Tokens, <<u, t>> \notin opened
               PROVE  View(x, Shares(u, t)) = 0
    BY <1>2, OneFacts DEF StaysUnopened
  <2>1. conditional[u][t] = 0
    BY DEF Unopened
  <2>2. ~Mine(x, Shares(u, t))
    BY <1>2 DEF OnOpened
  <2> QED
    BY <2>1, <2>2, CommittedRows DEF View
<1> QED
  BY <1>5, <1>11, <1>12, <1>13 DEF Inv

\* What a settlement pays for is gone from the position.
SettledIn(x, u, t) == IF <<u, t>> \in DOMAIN x.seized THEN x.seized[<<u, t>>] ELSE 0

LEMMA SettlePaid ==
  ASSUME Rows, NEW x, x.todo = <<>>, Publishes(x), Pockets(x),
         NEW u \in Users, NEW t \in Tokens
  PROVE  SettledIn(x, u, t) \in Nat /\ SettledIn(x, u, t) + position'[u][t] = position[u][t]
<1>1. \A words : Coming(x, words) = {}
  BY OneFacts DEF Coming
<1>2. \A row : Puts(x, row) = {}
  BY <1>1 DEF Puts
<1>3. Pocket(x, u, t) /\ DOMAIN x.seized \subseteq Grip(x)
  BY DEF Pockets
<1>4. position[u][t] \in Nat
  BY DEF Rows, AccountsTypeOK
<1>5. position'[u][t] = View(x, Held(u, t))
  BY DEF Publishes
<1>6. CASE <<u, t>> \in DOMAIN x.seized
  <2>1. Mine(x, Held(u, t))
    BY <1>3, <1>6 DEF Grip
  <2>2. x.seized[<<u, t>>] = position[u][t] /\ x.mine[Held(u, t)] = 0
    BY <1>2, <1>3, <1>6 DEF Pocket
  <2>3. position'[u][t] = 0
    BY <1>5, <2>1, <2>2 DEF View
  <2> QED
    BY <1>4, <1>6, <2>2, <2>3 DEF SettledIn
<1>7. CASE <<u, t>> \notin DOMAIN x.seized
  <2>1. View(x, Held(u, t)) = position[u][t]
    BY <1>3, <1>7, CommittedRows DEF Pocket, View
  <2> QED
    BY <1>4, <1>5, <1>7, <2>1 DEF SettledIn
<1> QED
  BY <1>6, <1>7

\* A position grows by no more than is bought.
LEMMA NoMoreThanBought ==
  ASSUME Inv, Next \/ UNCHANGED vars, NEW u \in Users, NEW t \in Tokens
  PROVE  /\ position[u][t] \in Nat /\ position'[u][t] \in Nat
         /\ Bought(u, t) \in Nat /\ Bought(u, t)' \in Nat
         /\ position'[u][t] + Bought(u, t) <= position[u][t] + Bought(u, t)'
<1>1. Rows /\ Rows'
  BY InvNext DEF Inv
<1>2. /\ position[u][t] \in Nat /\ position'[u][t] \in Nat /\ Bought(u, t) \in Nat
  BY <1>1, TokenTypes DEF Rows, AccountsTypeOK
<1>3. PICK side \in Sides, n \in Nat : Trades(u, t, side, n)
  BY StepMoves DEF TradesSome
<1>4. PICK a, b, c, d : /\ a = position[u][t] /\ b = position'[u][t]
                        /\ c = Bought(u, t) /\ d = Bought(u, t)'
  OBVIOUS
<1>5. /\ a \in Nat /\ b \in Nat /\ c \in Nat
      /\ b = PositionAfter(a, side, n) /\ d = c + (IF side = "BUY" THEN n ELSE 0)
  BY <1>2, <1>3, <1>4 DEF Trades
<1>6. d \in Nat /\ b + c <= a + d
  <2>1. CASE side = "BUY"
    BY <1>5, <2>1 DEF PositionAfter
  <2>2. CASE side # "BUY"
    <3>1. d = c /\ b = IF a > n THEN a - n ELSE 0
      BY <1>5, <2>2 DEF PositionAfter
    <3> QED
      BY <1>5, <3>1
  <2> QED
    BY <2>1, <2>2
<1> QED
  BY <1>2, <1>4, <1>6

LEMMA PaidIsNat ==
  ASSUME NEW s, NEW u, NEW t, SettledIn(tx[s], u, t) \in Nat
  PROVE  PaidBy(s, u, t) \in Nat
<1>1. ShareOut(s, t) \in Nat
  BY SessionsAssumption DEF ShareOut
<1>2. CASE <<u, t>> \in DOMAIN tx[s].seized
  <2>1. PICK a \in Nat, b \in Nat : a = tx[s].seized[<<u, t>>] /\ b = ShareOut(s, t)
    BY <1>1, <1>2 DEF SettledIn
  <2>2. a * b \in Nat
    BY <2>1
  <2> QED
    BY <1>2, <2>1, <2>2 DEF PaidBy
<1>3. CASE <<u, t>> \notin DOMAIN tx[s].seized
  BY <1>3 DEF PaidBy
<1> QED
  BY <1>2, <1>3

LEMMA ClerkPaysNone ==
  ASSUME TInv, NEW s \in Clerks, Commit(s)
  PROVE  settled' = settled /\ paid' = paid
<1>1. s \in Sessions /\ s \notin Pollers
  BY SessionsAssumption DEF Clerks, Sessions
<1>2. PICK x : x = tx[s]
  OBVIOUS
<1>3. /\ TxOK(s, x)
      /\ settled' = [u \in Users |-> [t \in Tokens |->
                            settled[u][t] + SettledBy(s, u, t)]]
      /\ paid' = [u \in Users |-> [t \in Tokens |-> paid[u][t] + PaidBy(s, u, t)]]
  BY <1>1, <1>2, CommitPublishes
<1>4. DOMAIN tx[s].seized = {}
  BY <1>1, <1>2, <1>3 DEF TxOK
<1>5. \A u \in Users, t \in Tokens : SettledBy(s, u, t) = 0 /\ PaidBy(s, u, t) = 0
  BY <1>4 DEF SettledBy, PaidBy
<1>6. settled \in [Users -> [Tokens -> Nat]] /\ paid \in [Users -> [Tokens -> Nat]]
  BY DEF TInv
<1>7. \A u \in Users, t \in Tokens : /\ settled[u][t] + SettledBy(s, u, t) = settled[u][t]
                                    /\ paid[u][t] + PaidBy(s, u, t) = paid[u][t]
  <2> SUFFICES ASSUME NEW u \in Users, NEW t \in Tokens
               PROVE  /\ settled[u][t] + SettledBy(s, u, t) = settled[u][t]
                      /\ paid[u][t] + PaidBy(s, u, t) = paid[u][t]
    OBVIOUS
  <2>1. settled[u][t] \in Nat /\ paid[u][t] \in Nat
    BY <1>6
  <2> QED
    BY <1>5, <2>1
<1>8. /\ settled' = [u \in Users |-> [t \in Tokens |-> settled[u][t]]]
      /\ paid' = [u \in Users |-> [t \in Tokens |-> paid[u][t]]]
  BY <1>3, <1>7
<1> QED
  BY <1>6, <1>8

LEMMA CommitKeeps ==
  ASSUME TInv, NEW s \in Sessions, Commit(s), NEW x, x = tx[s]
  PROVE  /\ Inv' /\ StaysUnopened(x)
         /\ s \notin Pollers => Next \/ UNCHANGED vars
         /\ settled' \in [Users -> [Tokens -> Nat]] /\ SettledWereBought'
         /\ paid' \in [Users -> [Tokens -> Nat]]
<1>1. /\ Open(s) /\ TxOK(s, x) /\ Typed(x) /\ x.todo = <<>> /\ Publishes(x)
      /\ WorkerMovesOn(s) /\ trades' = trades \o NewTrades(s)
      /\ settled' = [u \in Users |-> [t \in Tokens |->
                            settled[u][t] + SettledBy(s, u, t)]]
      /\ paid' = [u \in Users |-> [t \in Tokens |-> paid[u][t] + PaidBy(s, u, t)]]
  BY CommitPublishes
<1>2. /\ Inv /\ Rows /\ Unopened /\ SettledWereBought
      /\ settled \in [Users -> [Tokens -> Nat]] /\ paid \in [Users -> [Tokens -> Nat]]
  BY DEF TInv, Inv
<1>3. CASE s \notin Pollers
  <2>1. s \in Clerks
    BY <1>3 DEF Sessions, Clerks
  <2>2. (Next \/ UNCHANGED vars) /\ StaysUnopened(x)
    BY <2>1, ClerkCommits
  <2>3. Inv'
    BY <1>2, <2>2, InvNext
  <2>4. settled' = settled /\ paid' = paid
    BY <2>1, ClerkPaysNone
  <2>5. ASSUME NEW u \in Users, NEW t \in Tokens
        PROVE  settled'[u][t] + position'[u][t] <= Bought(u, t)'
    <3>1. /\ position[u][t] \in Nat /\ position'[u][t] \in Nat
          /\ Bought(u, t) \in Nat /\ Bought(u, t)' \in Nat
          /\ position'[u][t] + Bought(u, t) <= position[u][t] + Bought(u, t)'
      BY <1>2, <2>2, NoMoreThanBought
    <3>2. settled[u][t] \in Nat /\ settled[u][t] + position[u][t] <= Bought(u, t)
      BY <1>2 DEF SettledWereBought
    <3>3. PICK a, b, c, d, e : /\ a = position[u][t] /\ b = position'[u][t]
                               /\ c = Bought(u, t) /\ d = Bought(u, t)'
                               /\ e = settled[u][t]
      OBVIOUS
    <3>4. /\ a \in Nat /\ b \in Nat /\ c \in Nat /\ d \in Nat /\ e \in Nat
          /\ b + c <= a + d /\ e + a <= c
      BY <3>1, <3>2, <3>3
    <3>5. e + b <= d
      BY <3>4
    <3> QED
      BY <2>4, <3>3, <3>5
  <2> QED
    BY <1>2, <1>3, <2>2, <2>3, <2>4, <2>5 DEF SettledWereBought
<1>4. CASE s \in Pollers
  <2>1. s \notin Workers
    BY <1>4, SessionsAssumption
  <2>2. x.job.kind = "settle" /\ Settling(x) /\ Pockets(x)
    BY <1>1, <1>4 DEF TxOK, PollerOK
  <2>3. NewTrades(s) = x.made
    BY <2>2 DEF NewTrades, Settling
  <2>4. UNCHANGED gone
    BY <1>1 DEF Publishes
  <2>5. UNCHANGED worker
    BY <1>1, <2>1, <2>4, MovesOn
  <2>6. trades' = trades \o x.made
    BY <1>1, <2>3
  <2>7. Inv' /\ StaysUnopened(x) /\ trades' = trades
    BY <1>1, <1>2, <2>2, <2>5, <2>6, SettleCommits
  <2>8. ASSUME NEW u \in Users, NEW t \in Tokens
        PROVE  /\ settled'[u][t] \in Nat
               /\ settled'[u][t] + position'[u][t] <= Bought(u, t)'
    <3>1. PICK off : off = SettledIn(x, u, t)
      OBVIOUS
    <3>2. off = SettledBy(s, u, t)
      BY <3>1 DEF SettledBy, SettledIn
    <3>3. off \in Nat /\ off + position'[u][t] = position[u][t]
      BY <1>1, <1>2, <2>2, <3>1, SettlePaid
    <3>4. settled'[u][t] = settled[u][t] + off
      BY <1>1, <3>2
    <3>5. settled[u][t] \in Nat /\ settled[u][t] + position[u][t] <= Bought(u, t)
      BY <1>2 DEF SettledWereBought
    <3>6. position'[u][t] \in Nat /\ Bought(u, t) \in Nat /\ Bought(u, t)' = Bought(u, t)
      <4>1. Rows'
        BY <2>7 DEF Inv
      <4>2. position'[u][t] \in Nat
        BY <4>1 DEF Rows, AccountsTypeOK
      <4>3. Bought(u, t)' = Bought(u, t)
        BY <2>7, SameNet
      <4> QED
        BY <1>2, <4>2, <4>3, TokenTypes
    <3>7. PICK a, b, c, d, e : /\ a = position[u][t] /\ b = position'[u][t]
                               /\ c = Bought(u, t) /\ d = Bought(u, t)'
                               /\ e = settled[u][t]
      OBVIOUS
    <3>8. /\ b \in Nat /\ c \in Nat /\ d = c /\ e \in Nat /\ off \in Nat
          /\ off + b = a /\ e + a <= c
      BY <3>3, <3>5, <3>6, <3>7
    <3>9. e + off \in Nat /\ (e + off) + b <= d
      BY <3>8
    <3> QED
      BY <3>4, <3>7, <3>9
  <2>9. settled' \in [Users -> [Tokens -> Nat]]
    BY <1>1, <2>8
  <2>10. paid' \in [Users -> [Tokens -> Nat]]
    <3>1. ASSUME NEW u \in Users, NEW t \in Tokens PROVE paid[u][t] + PaidBy(s, u, t) \in Nat
      <4>1. paid[u][t] \in Nat
        BY <1>2
      <4>2. SettledIn(x, u, t) \in Nat
        BY <1>1, <1>2, <2>2, SettlePaid
      <4>3. PaidBy(s, u, t) \in Nat
        BY <4>2, PaidIsNat
      <4> QED
        BY <4>1, <4>3
    <3> QED
      BY <1>1, <3>1
  <2> QED
    BY <1>4, <2>7, <2>8, <2>9, <2>10 DEF SettledWereBought
<1> QED
  BY <1>3, <1>4

LEMMA CommitStep ==
  ASSUME TInv, NEW s \in Sessions, Commit(s)
  PROVE  TInv' /\ (s \notin Pollers => Next \/ UNCHANGED vars)
<1>1. PICK x : x = tx[s]
  OBVIOUS
<1>2. /\ Open(s) /\ TxOK(s, x) /\ x.todo = <<>> /\ Publishes(x)
      /\ WorkerMovesOn(s) /\ Becomes(s, NoTx)
  BY <1>1, CommitPublishes
<1>3. /\ Inv' /\ StaysUnopened(x)
      /\ s \notin Pollers => Next \/ UNCHANGED vars
      /\ settled' \in [Users -> [Tokens -> Nat]] /\ SettledWereBought'
      /\ paid' \in [Users -> [Tokens -> Nat]]
  BY <1>1, CommitKeeps
<1>4. /\ Inv /\ Rows /\ Rows' /\ WorkerTypeOK /\ SnapshotExists
      /\ Disjoint /\ Unopened /\ SignedOnce /\ opened \subseteq Users \X Tokens
      /\ \A q \in Sessions : Open(q) => TxOK(q, tx[q])
  BY <1>3 DEF TInv, Inv, Ticks
<1>5. Owns(x) /\ IsSeq(x.new)
  BY <1>2, <1>4, CommitOwns
<1>6. SignedOnce' /\ Unopened'
  BY <1>2, <1>3, <1>4, <1>5, SignedPublished, UnopenedPublished
<1>7. opened' \subseteq Users \X Tokens
  BY <1>2, <1>4 DEF Publishes, Grip
<1>8. /\ tx' = [q \in Sessions |-> tx'[q]]
      /\ tx'[s] = NoTx /\ \A q \in Sessions \ {s} : tx'[q] = tx[q]
  BY <1>2, BecomesTx
<1>9. \A q \in Sessions : Open(q)' => q # s /\ Open(q) /\ tx'[q] = tx[q]
  BY <1>8 DEF Open
<1>10. Disjoint'
  BY <1>4, <1>9 DEF Disjoint
<1>11. gone' = gone
  BY <1>2 DEF Publishes
<1>12. \A v \in Workers \ {s} : snapshot'[v] = snapshot[v] /\ book'[v] = book[v]
  BY <1>2, <1>11, MovesOn
<1>13. ASSUME NEW q \in Sessions, Open(q)' PROVE TxOK(q, tx[q])'
  <2>1. PICK z : z = tx[q]
    OBVIOUS
  <2>2. Open(q) /\ q # s /\ tx'[q] = z /\ TxOK(q, z)
    BY <1>4, <1>9, <1>13, <2>1
  <2>3. \A r : ~(Mine(x, r) /\ Mine(z, r))
    BY <1>1, <1>2, <1>4, <2>1, <2>2 DEF Disjoint, Mine
  <2>4. Undisturbed(z)
    BY <1>2, <1>4, <1>5, <2>3, NoneDisturbed
  <2>5. ASSUME q \in Workers PROVE Steady(q)
    <3>1. \A r \in snapshot[q] : r.id \in DOMAIN orders
      BY <1>4, <2>5 DEF SnapshotExists
    <3> QED
      BY <1>11, <1>12, <2>2, <2>5, <3>1 DEF Steady
  <2>6. TxOK(q, z)'
    BY <1>4, <2>2, <2>4, <2>5, TxKept
  <2> QED
    BY <2>2, <2>6
<1>14. TInv'
  BY <1>3, <1>6, <1>7, <1>8, <1>10, <1>13 DEF TInv
<1> QED
  BY <1>3, <1>14

-----------------------------------------------------------------------------
(* The specification.                                                      *)

LEMMA TInvInit ==
  ASSUME TInit
  PROVE  TInv
<1>1. Inv
  BY InvInit DEF TInit
<1>2. /\ tx = [s \in Sessions |-> NoTx] /\ opened = {} /\ orders = <<>>
      /\ settled = [u \in Users |-> [t \in Tokens |-> 0]]
      /\ paid = [u \in Users |-> [t \in Tokens |-> 0]]
      /\ conditional = [u \in Users |-> [t \in Tokens |-> 0]]
      /\ position = [u \in Users |-> [t \in Tokens |-> 0]]
  BY DEF TInit, Init
<1>3. \A s \in Sessions : tx[s] = NoTx /\ ~Open(s)
  BY <1>2 DEF Open
<1>4. tx = [s \in Sessions |-> tx[s]]
  BY <1>2
<1>5. Disjoint
  BY <1>3 DEF Disjoint
<1>6. DOMAIN orders = {}
  BY <1>2, OneFacts
<1>7. Unopened /\ SignedOnce
  BY <1>2, <1>6 DEF Unopened, SignedOnce
<1>8. SettledWereBought
  <2> SUFFICES ASSUME NEW u \in Users, NEW t \in Tokens
               PROVE  settled[u][t] + position[u][t] <= Bought(u, t)
    BY DEF SettledWereBought
  <2>1. Bought(u, t) \in Nat
    BY <1>1, TokenTypes DEF Inv
  <2>2. settled[u][t] = 0 /\ position[u][t] = 0
    BY <1>2
  <2> QED
    BY <2>1, <2>2
<1>9. /\ opened \subseteq Users \X Tokens /\ settled \in [Users -> [Tokens -> Nat]]
      /\ paid \in [Users -> [Tokens -> Nat]]
  BY <1>2
<1> QED
  BY <1>1, <1>3, <1>4, <1>5, <1>7, <1>8, <1>9 DEF TInv

\* One statement of a session.
LEMMA StatementStep ==
  ASSUME TInv, NEW s \in Sessions, Statement(s)
  PROVE  TInv' /\ ((s \in Pollers /\ Commit(s)) \/ Next \/ UNCHANGED vars)
<1>1. CASE AddTo(s)
  BY <1>1, AddStep DEF AddTo, Continue
<1>2. CASE Take(s)
  BY <1>2, TakeStep DEF Take, Continue
<1>3. CASE Insert(s)
  BY <1>3, InsertStep DEF Insert
<1>4. CASE LockOrder(s)
  BY <1>4, LockStep DEF LockOrder
<1>5. CASE ReadPosition(s)
  BY <1>5, ReadStep DEF ReadPosition, Continue
<1>6. CASE Put(s)
  BY <1>6, PutStep DEF Put, Continue
<1>7. CASE At(s, "cancel") /\ \E i \in This(s).ids : CancelRow(s, i)
  <2>1. PICK i : CancelRow(s, i)
    BY <1>7
  <2> QED
    BY <2>1, CancelStep DEF CancelRow, Continue
<1>8. CASE SelectPositions(s)
  BY <1>8, FindStep DEF SelectPositions, Continue
<1>9. CASE SeizedAll(s)
  BY <1>9, LoopStep DEF SeizedAll, Continue
<1>10. CASE RefundSide(s)
  BY <1>10, RefundStep DEF RefundSide, Continue
<1>11. CASE CloseLive(s)
  BY <1>11, CloseStep DEF CloseLive, Continue
<1>12. CASE At(s, "seize") /\ \E p \in This(s).ids : SeizePosition(s, p)
  <2>1. PICK p : SeizePosition(s, p)
    BY <1>12
  <2> QED
    BY <2>1, SeizeStep DEF SeizePosition, Continue
<1>13. CASE At(s, "pay") /\ \E p \in This(s).ids : Pay(s, p)
  <2>1. PICK p : Pay(s, p)
    BY <1>13
  <2> QED
    BY <2>1, PayStep DEF Pay
<1>14. CASE At(s, "credit") /\ \E z \in This(s).ids : CreditRow(s, z)
  <2>1. PICK z : CreditRow(s, z)
    BY <1>14
  <2> QED
    BY <2>1, CreditStep DEF CreditRow, Continue
<1>15. CASE Commit(s)
  BY <1>15, CommitStep
<1> QED
  BY <1>1, <1>2, <1>3, <1>4, <1>5, <1>6, <1>7, <1>8, <1>9, <1>10, <1>11, <1>12,
     <1>13, <1>14, <1>15 DEF Statement, Query

LEMMA TickStep ==
  ASSUME TInv, NEW w \in Workers, TTick(w)
  PROVE  TInv' /\ (Next \/ UNCHANGED vars)
<1>1. CASE /\ ~Open(w)
           /\ \/ TickStart(w) \/ TickAbort(w)
              \/ \E t \in Tokens : FetchBook(w, t) \/ FetchFails(w, t)
              \/ \E r \in snapshot[w] : SkipOrder(w, r)
           /\ UNCHANGED <<tables, tx>>
  BY <1>1, WorkerStep
<1>2. CASE \E t \in Tokens : BeginGone(w, t)
  BY <1>2, GoneBegin DEF BeginGone
<1>3. CASE \E r \in snapshot[w] :
             \E f \in Fills(orders[r.id].side, orders[r.id].price,
                            orders[r.id].size - r.matched) : BeginFill(w, r, f)
  <2>1. PICK r, f : BeginFill(w, r, f)
    BY <1>3
  <2> QED
    BY <2>1, FillBegin DEF BeginFill
<1> QED
  BY <1>1, <1>2, <1>3 DEF TTick

LEMMA RequestStep ==
  ASSUME TInv, NEW c \in Clients, TPlace(c, Tokens) \/ TCancel(c)
  PROVE  TInv' /\ UNCHANGED vars
<1>1. CASE TPlace(c, Tokens)
  <2>1. PICK u \in Users, t \in Tokens, side \in Sides, type \in OrderTypes,
             price \in Prices, size \in Sizes, salt \in Salts :
           \E answer \in {NoFill} \cup Fills(side, price, size) :
              BeginPlace(c, u, t, side, type, price, size, salt, answer)
    BY <1>1 DEF TPlace
  <2>2. PICK answer \in {NoFill} \cup Fills(side, price, size) :
              BeginPlace(c, u, t, side, type, price, size, salt, answer)
    BY <2>1
  <2> QED
    BY <2>2, PlaceBegin DEF BeginPlace
<1>2. CASE TCancel(c)
  BY <1>2, CancelRequest DEF TCancel, BeginCancel
<1> QED
  BY <1>1, <1>2

\* The table outcome_tokens may say anything of the tokens of the market.
LEMMA SettlerStep ==
  ASSUME TInv, NEW p \in Pollers, TSettle(p)
  PROVE  TInv' /\ UNCHANGED vars
<1>1. CASE \E m \in Markets : BeginSettle(p, m)
  BY <1>1, SettleBegin DEF BeginSettle
<1>2. CASE ReadsTokens(p)
  <2>1. PICK S \in SUBSET TokensOf(tx[p].job.market) :
           \E winner \in [S -> Verdicts] : ReadTokens(p, S, winner)
    BY <1>2 DEF ReadsTokens
  <2>2. S \subseteq Tokens
    BY DEF TokensOf
  <2> QED
    BY <2>1, <2>2, TokensStep
<1> QED
  BY <1>1, <1>2 DEF TSettle

LEMMA TInvNext ==
  ASSUME TInv, [TNext]_tvars
  PROVE  TInv' /\ [(\E p \in Pollers : Commit(p)) \/ Next]_vars
<1>1. CASE \E c \in Clients : TPlace(c, Tokens) \/ TCancel(c)
  BY <1>1, RequestStep
<1>2. CASE \E w \in Workers : TTick(w)
  BY <1>2, TickStep
<1>3. CASE \E p \in Pollers : TSettle(p)
  BY <1>3, SettlerStep
<1>4. CASE \E t \in Tokens : Workers # {} /\ CloseBook(t) /\ UNCHANGED <<tables, tx>>
  BY <1>4, CloseBookStep
<1>5. CASE \E s \in Sessions : Statement(s) \/ Rollback(s)
  BY <1>5, StatementStep, RollbackStep
<1>6. CASE UNCHANGED tvars
  <2>1. UNCHANGED vars /\ UNCHANGED tables /\ tx' = tx
    BY <1>6 DEF tvars
  <2>2. UNCHANGED accounts /\ UNCHANGED <<gone, snapshot, book>>
    BY <2>1 DEF vars, worker
  <2>3. Inv'
    BY <2>1, InvNext DEF TInv
  <2>4. tx' = [q \in Sessions |-> tx'[q]]
    BY <2>1 DEF TInv
  <2>5. TInv'
    BY <2>1, <2>2, <2>3, <2>4, QuietStep
  <2> QED
    BY <2>1, <2>5
<1> QED
  BY <1>1, <1>2, <1>3, <1>4, <1>5, <1>6 DEF TNext, Trading, Sessions

\* Whatever the sessions do, statement by statement, what each of them has done
\* and will do stays in line with the tables it is about to change.
THEOREM TransactionsInvariant == TSpec => []TInv
<1>1. TInit => TInv
  BY TInvInit
<1>2. TInv /\ [TNext]_tvars => TInv'
  BY TInvNext
<1> QED
  BY <1>1, <1>2, PTL DEF TSpec

\* Order requests, cancellations, fills and the cleanup of closed books, taken
\* apart into statements on snapshots and row locks, commit what the atomic
\* transactions of Ledger do, whatever they meet and whichever of them fail:
\* only the commits of settlements are no steps of Ledger.
THEOREM TransactionsImplementLedger == TSpec => ImplementsLedger
<1>1. TInit => Init
  BY DEF TInit
<1>2. TInv /\ [TNext]_tvars => [(\E p \in Pollers : Commit(p)) \/ Next]_vars
  BY TInvNext
<1> QED
  BY <1>1, <1>2, TransactionsInvariant, PTL DEF TSpec, ImplementsLedger

\* A signed order is stored once, also when it is posted again while the first
\* request is still open: UNIQUE (maker, salt) makes the second one wait.
THEOREM OrdersSignedOnce == TSpec => []SignedOnce
<1>1. TInv => SignedOnce
  BY DEF TInv
<1> QED
  BY <1>1, TransactionsInvariant, PTL

\* Settlements that overlap with each other, with requests and with fills pay
\* for no more shares than were bought.
THEOREM SettlementsPayWhatWasBought == TSpec => []SettledWereBought
<1>1. TInv => SettledWereBought
  BY DEF TInv
<1> QED
  BY <1>1, TransactionsInvariant, PTL

-----------------------------------------------------------------------------
(* What holds of the tables with settlements, too.                         *)

\* A settlement closes orders and makes no trade.
LEMMA SettlementCloses ==
  ASSUME TInv, NEW p \in Pollers, Commit(p)
  PROVE  /\ trades' = trades /\ \E C : C \subseteq Live /\ Cancels(C)
<1>1. p \in Sessions
  BY DEF Sessions
<1>2. PICK x : x = tx[p]
  OBVIOUS
<1>3. /\ TxOK(p, x) /\ Publishes(x) /\ trades' = trades \o NewTrades(p)
  BY <1>1, <1>2, CommitPublishes
<1>4. Settling(x)
  BY <1>3 DEF TxOK, PollerOK
<1>5. x.new = <<>> /\ x.made = <<>> /\ Closes(x)
  BY <1>4 DEF Settling
<1>6. Rows
  BY DEF TInv, Inv
<1>7. trades' = trades
  <2>1. NewTrades(p) = <<>>
    BY <1>2, <1>5 DEF NewTrades
  <2>2. trades \in Seq(Trade)
    BY <1>6 DEF Rows, AccountsTypeOK
  <2> QED
    BY <1>3, <2>1, <2>2, AppendOne
<1>8. Cancels(Closed(x)) /\ Closed(x) \subseteq Live
  BY <1>3, <1>5, <1>6, ClosesPublished
<1> QED
  BY <1>7, <1>8

LEMMA ClosedStayInStep ==
  ASSUME TInv, [TNext]_tvars, NEW i \in DOMAIN orders, i \notin Live
  PROVE  orders'[i] = orders[i]
<1>1. [(\E p \in Pollers : Commit(p)) \/ Next]_vars /\ Inv
  BY TInvNext DEF TInv
<1>2. CASE [Next]_vars
  BY <1>1, <1>2, ClosedStep
<1>3. CASE \E p \in Pollers : Commit(p)
  <2>1. PICK C : C \subseteq Live /\ Cancels(C)
    BY <1>3, SettlementCloses
  <2> QED
    BY <2>1 DEF Cancels
<1> QED
  BY <1>1, <1>2, <1>3

LEMMA HistoryInStep ==
  ASSUME TInv, History, [TNext]_tvars
  PROVE  History'
<1>1. [(\E p \in Pollers : Commit(p)) \/ Next]_vars /\ Inv /\ Rows
  BY TInvNext DEF TInv, Inv
<1>2. CASE [Next]_vars
  BY <1>1, <1>2, HistoryNext
<1>3. CASE \E p \in Pollers : Commit(p)
  <2>1. trades' = trades /\ \E C : C \subseteq Live /\ Cancels(C)
    BY <1>3, SettlementCloses
  <2>2. PICK C : C \subseteq Live /\ Cancels(C)
    BY <2>1
  <2>3. DOMAIN orders' = DOMAIN orders
    BY <2>2 DEF Cancels
  <2>4. \A i \in DOMAIN orders : orders'[i].matched = orders[i].matched
    <3> SUFFICES ASSUME NEW i \in DOMAIN orders
                 PROVE  orders'[i].matched = orders[i].matched
      OBVIOUS
    <3>1. orders[i] \in Order
      BY <1>1, OrderFields DEF Rows
    <3>2. orders'[i] = IF i \in C THEN [orders[i] EXCEPT !.status = "CANCELED"]
                                  ELSE orders[i]
      BY <2>2 DEF Cancels
    <3> QED
      BY <3>1, <3>2 DEF Order
  <2> QED
    BY <1>1, <2>1, <2>3, <2>4, SameHistory
<1> QED
  BY <1>1, <1>2, <1>3

LEMMA HistoryKept == TSpec => []History
<1>1. TInit => History
  BY DEF TInit, Init, History, TradesFit, MatchedIsTraded, FillKeysDistinct
<1> QED
  BY <1>1, HistoryInStep, TransactionsInvariant, PTL DEF TSpec

\* No statement takes more from a wallet than a session sees in it once it has
\* locked it, and no settlement does: balances and positions are natural
\* numbers in every state, the CHECK constraints never fail.
THEOREM BalancesStayNatural == TSpec => []TypeOK
<1>1. TInv => TypeOK
  BY DEF TInv, Inv, Rows, Ticks, TypeOK
<1> QED
  BY <1>1, TransactionsInvariant, PTL

\* A closed order stays as it is, although cancellations, fills and settlements
\* wait for its row with what they have seen before.
THEOREM ClosedStayWithSettlements == TSpec => ClosedOrdersFrozen
<1>1. TInv /\ [TNext]_tvars
         => [\A i \in DOMAIN orders \ Live : orders'[i] = orders[i]]_vars
  BY ClosedStayInStep
<1> QED
  BY <1>1, TransactionsInvariant, PTL DEF TSpec, ClosedOrdersFrozen

\* The trades of an order add up to its size_matched after every commit, also
\* when the worker that matched it had to wait for a settlement.
THEOREM MatchedEqualsTradesWithSettlements == TSpec => []MatchedIsTraded
<1>1. History => MatchedIsTraded
  BY DEF History
<1> QED
  BY <1>1, HistoryKept, PTL

\* Nor does the UNIQUE constraint on fill keys refuse a fill then.
THEOREM FillKeysDifferWithSettlements == TSpec => []FillKeysDistinct
<1>1. History => FillKeysDistinct
  BY DEF History
<1> QED
  BY <1>1, HistoryKept, PTL

=============================================================================
